SPECIFICATION Spec
CONSTANTS
  NoSymbol = NoSymbol
  Symbols = {a}
  LiveOrders = TRUE
  Lot = 2
  SleepTicks = 1
  HbTimeout = 1
  Commands <- mcCommands
  Faults <- mcAllFaults
  FundingRates = {}
  BookDepths = {}
  PnlOutcomes <- mcOutcomes
  MaxSeq = 1
  MaxCrashes = 1
  MissCaution = 1
  MissDefensive = 2
  MissEmergency = 2
  MaxDailyDd = 1
  MaxFundingRate = 1
  MinBookDepth = 3
INVARIANTS TypeOK NoEntryWhileHalted LedgerBalanced
PROPERTIES RefinesGate HandlerShrinks

SPECIFICATION Spec
CONSTANTS
  NoSymbol = NoSymbol
  Symbols = {a, b}
  LiveOrders = TRUE
  Lot = 1
  SleepTicks = 1
  HbTimeout = 1
  Commands = {"FlattenAll", "ResumeEntries"}
  Faults = {"trigger"}
  FundingRates = {}
  BookDepths = {}
  PnlOutcomes = {1}
  MaxSeq = 1
  MaxCrashes = 2
  MissCaution = 1
  MissDefensive = 2
  MissEmergency = 2
  MaxDailyDd = 1
  MaxFundingRate = 1
  MinBookDepth = 3
INVARIANTS StopsAgree OneExposure PositionsAgree
PROPERTIES FlattenLeavesNothing
SYMMETRY mcSymbolSymmetry

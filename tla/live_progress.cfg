SPECIFICATION FairSpec
CONSTANTS
  NoSymbol = NoSymbol
  Symbols = {a}
  LiveOrders = TRUE
  Lot = 1
  SleepTicks = 2
  HbTimeout = 1
  Commands <- mcCommands
  Faults <- mcAllFaults
  FundingRates = {}
  BookDepths = {}
  PnlOutcomes <- mcOutcomes
  MaxSeq = 1
  MaxCrashes = 0
  MissCaution = 1
  MissDefensive = 2
  MissEmergency = 3
  MaxDailyDd = 1
  MaxFundingRate = 1
  MinBookDepth = 3
PROPERTIES HandlerEnds FlattenServedByTimer SilenceEndsFlat

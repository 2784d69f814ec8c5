SPECIFICATION FairSpec
CONSTANTS
  NoSymbol = NoSymbol
  Symbols = {a}
  LiveOrders = FALSE
  Lot = 1
  SleepTicks = 2
  HbTimeout = 1
  Commands = {"FlattenAll"}
  Faults <- mcNone
  FundingRates = {}
  BookDepths = {}
  PnlOutcomes <- mcOutcomes
  MaxSeq = 1
  MaxCrashes = 0
  MissCaution = 1
  MissDefensive = 2
  MissEmergency = 2
  MaxDailyDd = 1
  MaxFundingRate = 1
  MinBookDepth = 3
PROPERTIES FlattenServed

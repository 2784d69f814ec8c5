SPECIFICATION Spec
CONSTANTS
  NoSymbol = NoSymbol
  Symbols = {a, b}
  LiveOrders = FALSE
  Lot = 1
  SleepTicks = 1
  HbTimeout = 1
  Commands <- mcCommands
  Faults <- mcNone
  FundingRates <- mcFunding
  BookDepths <- mcDepths
  PnlOutcomes <- mcOutcomes
  MaxSeq = 2
  MaxCrashes = 1
  MissCaution = 1
  MissDefensive = 2
  MissEmergency = 3
  MaxDailyDd = 1
  MaxFundingRate = 1
  MinBookDepth = 3
INVARIANTS HaltAgrees FlagsAgree OneAtATime JournalComplete
PROPERTIES OnlyResumeLiftsHalt NoEntryAfterSeenLoss
SYMMETRY mcSymbolSymmetry

SPECIFICATION FairSpec
CONSTANTS
  NoSymbol = NoSymbol
  Symbols = {a, b}
  Capacity = 2
  MinSamples = 2
  MinRate <- mcHalf
  Wait = 2
  Mids = {1, 2}
  MaxPending = 2
INVARIANTS TypeOK
PROPERTIES ShutForGood GateDecided

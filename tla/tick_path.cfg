SPECIFICATION Spec
CONSTANTS
  Symbols = {a, b}
  Configs <- mcConfigs
  SeqLimit = 3
  MaxTicks = 3
  MaxWire = 2
  MaxCrashes = 2
INVARIANTS TypeOK LiveOnlyBehindGates FreshTickAccepted LogReadsBack
SYMMETRY mcSymmetry

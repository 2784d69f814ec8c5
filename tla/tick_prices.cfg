SPECIFICATION Spec
CONSTANTS
  RING = 2
  LagMin = 15
  ImpulseMin = 12
  MaxStaleness = 1
  TimeStop = 1
  TargetBps = 40
  Symbols = {a, b}
  Mids = {10000, 10020, 10040}
  AdoptedAt = {10020}
  ZMin = 7
  AtrMin = 8
  Span = 1
  MaxAdverse = 12
  MaxNow = 3
  MaxTicks = 3
INVARIANTS LookBackIsReference SignalFollowsMove AdoptedRunsItsTime
SYMMETRY mcSymmetry

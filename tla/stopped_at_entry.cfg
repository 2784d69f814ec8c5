SPECIFICATION Spec
CONSTANTS
  RING = 6
  LagMin = 32
  ImpulseMin = 12
  MaxStaleness = 2
  TimeStop = 1
  TargetBps = 40
  Symbols = {a}
  Mids = {10000, 10045}
  AdoptedAt = {}
  ZMin = 20
  AtrMin = 8
  Span = 1
  MaxAdverse = 12
  MaxNow = 3
  MaxTicks = 6
PROPERTIES OpenedInsideStops

SPECIFICATION FairSpec
CONSTANTS
  Symbols = {a}
  Configs <- mcOneConfig
  SeqLimit = 3
  MaxTicks = 0
  MaxWire = 2
  MaxCrashes = 0
PROPERTIES StreamsReconnect

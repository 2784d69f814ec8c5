SPECIFICATION FairSpec
CONSTANTS
  Handlers = {h}
  Updates <- mcUpdates
  NoCommand = NoCommand
  Faults = {"put", "drop", "panel", "telegram", "executor"}
  MaxUpdates = 2
  MaxQueue = 1
  MaxCrashes = 1
INVARIANTS TypeOK TelegramInOrder ShownIsHalt
PROPERTIES EveryCommandHandled

SPECIFICATION TrackerSpec
CONSTANTS
  WindowSize = 10
  MaxPacketId = 14
  MaxResets = 1
INVARIANTS
  MissingIsLost

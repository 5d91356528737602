SPECIFICATION Spec
CONSTANTS
  a = a
  b = b
  c = c
  Root = Root
  Null = Null
  Watched = {"edge"}
  Streams <- MCStreams
  RateColours = {"red"}
  NodeId = {a, b, c}
  Uploads <- MCUploads
  Table <- MCTable
  MaxUpdates = 1
  MaxUploads = 2
  MaxResets = 1
  MaxReloads = 0
CHECK_DEADLOCK FALSE
INVARIANTS
  PageGraphCoherent
  NodesOfOneUpdate
  ScreenIsCurrent
  WatcherHasItsRows
  UpdatesAreTrue

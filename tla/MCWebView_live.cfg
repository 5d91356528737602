SPECIFICATION FairSpec
CONSTANTS
  a = a
  b = b
  c = c
  Root = Root
  Null = Null
  Watched = {}
  Streams <- NoStreams
  RateColours = {}
  NodeId = {a, b, c}
  Uploads <- MCUploads
  Table <- MCTable
  MaxUpdates = 1
  MaxUploads = 2
  MaxResets = 1
  MaxReloads = 1
CHECK_DEADLOCK FALSE
PROPERTIES
  PageCatchesUp

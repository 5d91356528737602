SPECIFICATION FairSpec
CONSTANTS
  w = w
  h = h
  NoMsg = NoMsg
  Conns = {w, h}
  Data <- MCData
  Kind <- MCKind
  Priority <- MCPriority
  BufGrowth = 2
  MaxBufSize = 2
  MinId = 1
  MaxId = 16
  Uneven = {}
  ChunkSize = 2
  HeaderSize = 16
  MaxInFlight = 34
  MaxActive = 1
  MaxSends = 2
  MaxMessages = 3
  MaxLosses = 1
CHECK_DEADLOCK FALSE
INVARIANTS
  BufferHoldsFuture
  NoForgottenTimer
  FramesAreRead
PROPERTIES
  IsStream
  Arrives

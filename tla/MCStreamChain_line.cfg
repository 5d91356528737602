SPECIFICATION FairSpec
CONSTANTS
  k1 = k1
  k2 = k2
  p = p
  rel = rel
  s = s
  f1 = f1
  f2 = f2
  Nodes <- LineNodes
  Flows <- LineFlows
  Kind <- LineKind
  Up <- LineUp
  Down <- LineDown
  Sink <- LineSink
  Listed <- LineListed
  Known <- LineKnown
  MaxRuns = 1
  MaxStops <- StopFirst
  MayReset <- MidNode
CHECK_DEADLOCK FALSE
INVARIANTS
  NoFalseEnd
  NoCloseUnderThread
PROPERTIES
  StreamEnds
  StopOfUnfinishedStreamReleasesPath

SPECIFICATION Spec
CONSTANTS
  k1 = k1
  k2 = k2
  p = p
  rel = rel
  s = s
  f1 = f1
  f2 = f2
  Nodes <- ForkNodes
  Flows <- ForkFlows
  Kind <- ForkKind
  Up <- ForkUp
  Down <- ForkDown
  Sink <- ForkSink
  Listed <- TogetherListed
  Known <- InTurnKnown
  MaxRuns = 1
  MaxStops <- StopFirst
  MayReset <- NoNodes
CHECK_DEADLOCK FALSE
INVARIANTS
  ReleaseAfterUpstreamQuit
PROPERTIES
  EveryDestinationIsTold

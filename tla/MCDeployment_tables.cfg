SPECIFICATION Spec
CONSTANTS
  k1 = k1
  s = s
  L = L
  f1 = f1
  f2 = f2
  NoURI = NoURI
  Nodes <- SharedNodes
  Containers = {c1}
  Labels <- MCLabels
  Flows <- MCFlows
  NodeLabel <- MCNodeLabel
  NcLabel <- MCNcLabel
  FlowNodes <- SharedFlowNodes
  FlowSink <- SharedFlowSink
  WorkConfigs <- MCWorkConfigs
  MaxUploads = 2
  MaxResets = 1
  MaxStops = 1
VIEW TablesView
CHECK_DEADLOCK FALSE
INVARIANTS
  UrisFollowTable
  WaitersAreListed
  FlowIsWaitingOrRunning
  NoRequestIsForgotten
  OnlyCompleteFlowsAreSent

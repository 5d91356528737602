SPECIFICATION UploadSpec
CONSTANTS
  NoURI = NoURI
  Nodes <- MCNodes
  Containers = {c1}
  Labels <- MCLabels
  Flows <- MCFlows
  NodeLabel <- MCNodeLabel
  NcLabel <- MCNcLabel
  FlowNodes <- MCFlowNodes
  FlowSink <- MCFlowSink
  WorkConfigs <- MCWorkConfigs
  MaxUploads = 1
  MaxResets = 1
  MaxStops = 1
  NumHosts = 2
  MaxTier2 = 2
  MaxMore = 1
  UserIds <- MCUserIds
  UserType <- MCUserType
  MaxFlows = 2
  MaxLen = 3
  Followed <- MCFollowed
CHECK_DEADLOCK FALSE
INVARIANTS
  PageSpecIsAccepted
  
PROPERTIES
  UploadedFlowIsStarted
  ResetDeletesNodes

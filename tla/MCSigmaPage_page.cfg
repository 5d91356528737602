SPECIFICATION Spec
CONSTANTS
  node1 = node1
  node2 = node2
  node3 = node3
  edge1 = edge1
  edge2 = edge2
  edge3 = edge3
  canvas = canvas
  webgl = webgl
  svg = svg
  Order <- MCOrder
  Kind <- MCKind
  At <- MCAt
  TypeOf <- MCTypeOf
  BatchSize = 1
  HideEdgesOnMove = TRUE
  Half = 1
  ZoomMin = 1
  ZoomMax = 2
  MoreNodes <- MCMoreNodes
  MoreEdges <- MCMoreEdges
  Hideable = {node2, edge1}
  FirstNodes <- MCFirstNodes
  FirstEdges <- MCFirstEdges
  Frames <- MCFrames
  Mouse = {0, 1}
  Inertia = 1
  Captor = canvas
  MaxOps = 3
CHECK_DEADLOCK FALSE
INVARIANTS
  SchedulerIsCoherent
  CarefulPageNeverFreezes
  ScreenCatchesUp

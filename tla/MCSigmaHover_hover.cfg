SPECIFICATION Spec
CONSTANTS
  node1 = node1
  node2 = node2
  node3 = node3
  None = None
  Unit = 4
  Order <- MCOrder
  First <- MCFirst
  Size <- MCSize
  EdgeEnds <- MCEdgeEnds
  EdgeSize = 4
  Precision = 20
  Width = 800
  Height = 400
  Mouse <- MCMouse
  Cameras <- MCCameras
  Changing <- MCChanging
  Areas <- MCAreas
  MaxOps = 2
CHECK_DEADLOCK FALSE
INVARIANTS
  HoverFollowsMouse
  InputComesBack
  IndexFindsAll
  RendersDoNotThrow
PROPERTIES
  GrabsNodeUnderMouse

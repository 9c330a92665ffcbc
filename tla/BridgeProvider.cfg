CONSTANTS
  c1 = c1
  c2 = c2
  c3 = c3
  Conns <- ThreeConns
  Warm = Warm
  None = None
  Scope = "connection"
  Requests <- AtrRequests
  MaxFrames = 1
SPECIFICATION FairSpec
PROPERTIES EveryFrameAnswered EveryConnectionResolved
CHECK_DEADLOCK FALSE

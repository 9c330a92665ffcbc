CONSTANTS
  c1 = c1
  c2 = c2
  c3 = c3
  Conns <- TwoConns
  Warm = Warm
  None = None
  Scope = "connection"
  Requests <- PrivateRequests
  MaxFrames = 2
SPECIFICATION Spec
INVARIANTS CardsNotShared PrivateCard
CHECK_DEADLOCK FALSE

CONSTANTS
  c1 = c1
  c2 = c2
  c3 = c3
  Conns <- TwoConns
  Warm = Warm
  None = None
  Scope = "shared"
  Requests <- SharedRequests
  MaxFrames = 2
SPECIFICATION FairSpec
INVARIANTS TypeOK OneInsideCard NoLostIncrement
PROPERTIES OnlyResetDeselects ImplementsService EveryFrameAnswered
CHECK_DEADLOCK FALSE

CONSTANTS
  s1 = s1
  s2 = s2
  a1 = a1
  Stoppers <- TwoStoppers
  Awaiters <- OneAwaiter
  Hook = Hook
  MaxClients = 3
SPECIFICATION Spec
INVARIANTS NothingBoundWithoutCard AwaitPortSeesSocket AtMostOneLateHandler
PROPERTIES StopEndsServing AwaitPortReturns ReturnReleasesPort
CHECK_DEADLOCK FALSE

---------------------------- MODULE ServerProofs ----------------------------
(***************************************************************************)
(* Proofs about BridgeServer for every set of threads that call stop() or  *)
(* awaitPort() and every number of clients.                                *)
(***************************************************************************)
EXTENDS BridgeServer, TLAPS

(* Where start() is once new ServerSocket has returned, and once the field *)
(* has been assigned.                                                      *)
Serving == {"latch", "hook", "loop", "accept", "spawn", "returned"}

(* The three parts of TypeOK.                                              *)
FlagsOK ==
  /\ running \in BOOLEAN /\ serverSocket \in BOOLEAN /\ bound \in BOOLEAN
  /\ prepared \in BOOLEAN /\ hooked \in BOOLEAN /\ exiting \in BOOLEAN

PlacesOK ==
  /\ startPc \in StartPCs
  /\ port \in {"none", "open", "closed"}
  /\ stopPc \in [Callers ->
                   {"idle", "check", "clear", "fetch", "close", "done"}]
  /\ awaitPc \in [Awaiters -> {"idle", "waiting", "returned", "null pointer"}]

CountersOK ==
  /\ backlog \in Nat /\ arrived \in 0..MaxClients
  /\ handlers \in Nat /\ late \in Nat

(* Every connection is waiting, being handed over, served, or was reset    *)
(* when the socket was closed; only a served one can be late.              *)
ConnectionsCounted ==
  /\ handlers + backlog <= arrived
  /\ startPc = "spawn" => handlers + backlog < arrived
  /\ late <= handlers

(* start() goes past prepareSessions only with a card, and clients reach   *)
(* the server only through a socket.                                       *)
CardFirst ==
  /\ startPc \in Serving \cup {"bind", "publish"} => prepared
  /\ port # "none" => prepared
  /\ arrived > 0 => port # "none"

(* The socket is bound before the field is assigned, and the field before  *)
(* the latch is counted down or anybody closes it.                         *)
SocketFirst ==
  /\ startPc = "publish" => port # "none"
  /\ serverSocket => port # "none"
  /\ startPc \in Serving => serverSocket
  /\ bound => serverSocket

CloserFetched == \A s \in Callers : stopPc[s] = "close" => serverSocket

(* A handler is late only because its accept() was under way: start() does *)
(* not come back to accept() after it.                                     *)
LateIsLast ==
  late > 0 => late = 1 /\ ~running /\ startPc \notin {"accept", "spawn"}

(* Before the field is assigned nobody has been served.                    *)
UnpublishedIdle ==
  ~serverSocket => handlers = 0

ServerInv ==
  /\ FlagsOK /\ PlacesOK /\ CountersOK
  /\ ConnectionsCounted /\ CardFirst /\ SocketFirst /\ CloserFetched
  /\ AwaitPortSeesSocket /\ LateIsLast /\ UnpublishedIdle

(* The invariant has the type invariant in it.                             *)
LEMMA ServerTyped == ServerInv => TypeOK
<1> SUFFICES ASSUME ServerInv PROVE TypeOK
    OBVIOUS
<1>1. /\ backlog \in 0..MaxClients /\ arrived \in 0..MaxClients
      /\ handlers \in 0..arrived /\ late \in 0..MaxClients
    BY ServerAssumption DEF ServerInv, CountersOK, ConnectionsCounted
<1> QED
    BY <1>1 DEF ServerInv, FlagsOK, PlacesOK, TypeOK

(* Before start() nothing has happened.                                    *)
LEMMA ServerInit == Init => ServerInv
<1> SUFFICES ASSUME Init PROVE ServerInv
    OBVIOUS
<1>1. FlagsOK
    BY DEF Init, FlagsOK
<1>2. PlacesOK
    BY DEF Init, PlacesOK, StartPCs
<1>3. CountersOK /\ ConnectionsCounted
    BY ServerAssumption DEF Init, CountersOK, ConnectionsCounted
<1>4. CardFirst /\ SocketFirst
    BY DEF Init, CardFirst, SocketFirst, Serving
<1>5. AwaitPortSeesSocket /\ CloserFetched /\ LateIsLast /\ UnpublishedIdle
    BY DEF Init, AwaitPortSeesSocket, CloserFetched, LateIsLast,
           UnpublishedIdle
<1> QED
    BY <1>1, <1>2, <1>3, <1>4, <1>5 DEF ServerInv

(* No step gives a flag a value that is not Boolean.                       *)
LEMMA FlagsStep == ServerInv /\ [Next]_vars => FlagsOK'
  BY ZenonT(30) DEF ServerInv, FlagsOK, Next, StartStep, StopSteps, vars,
                    others, clients, Step, StopStep, AwaitStep, Start,
                    Prepare, Refuse, Bind, BindFail, Publish, CountDown,
                    AddShutdownHook, Loop, Accept, AcceptClosed, Spawn,
                    AcceptError, Exit, Connect, CallStop, StopCheck,
                    StopClear, StopFetch, StopClose, CallAwait, AwaitReturn

(* Every thread goes from one of its places to another.                    *)
LEMMA PlacesStep == ServerInv /\ [Next]_vars => PlacesOK'
  BY DEF ServerInv, PlacesOK, Next, StartStep, StopSteps, vars, others,
         clients, Step, StopStep, AwaitStep, Start, Prepare, Refuse, Bind,
         BindFail, Publish, CountDown, AddShutdownHook, Loop, Accept,
         AcceptClosed, Spawn, AcceptError, Exit, Connect, CallStop, StopCheck,
         StopClear, StopFetch, StopClose, CallAwait, AwaitReturn, StartPCs

(* Only four kinds of step count: a client connects, is accepted, is       *)
(* served, or is reset when the socket closes.                             *)
LEMMA OnlyFourCount ==
  ASSUME [Next]_vars
  PROVE  \/ Accept \/ Spawn \/ Connect \/ \E s \in Callers : StopClose(s)
         \/ UNCHANGED clients /\ (startPc' = startPc \/ startPc' # "spawn")
  BY DEF Next, StartStep, StopSteps, vars, others, clients, Step, StopStep,
         AwaitStep, Start, Prepare, Refuse, Bind, BindFail, Publish,
         CountDown, AddShutdownHook, Loop, AcceptClosed, AcceptError, Exit,
         CallStop, StopCheck, StopClear, StopFetch, CallAwait, AwaitReturn

(* Every connection stays accounted for.                                   *)
LEMMA CountersStep ==
  ServerInv /\ [Next]_vars => CountersOK' /\ ConnectionsCounted'
<1> SUFFICES ASSUME ServerInv, [Next]_vars
             PROVE  CountersOK' /\ ConnectionsCounted'
    OBVIOUS
<1> USE ServerAssumption DEF ServerInv, CountersOK, ConnectionsCounted,
                             clients
<1>1. CASE Accept
    BY <1>1 DEF Accept, Step
<1>2. CASE Spawn
  <2>1. late' \in {late, late + 1} 
      BY <1>2 DEF Spawn
  <2> QED
      BY <1>2, <2>1 DEF Spawn, Step
<1>3. CASE Connect
    BY <1>3 DEF Connect
<1>4. ASSUME NEW s \in Callers, StopClose(s)
      PROVE  CountersOK' /\ ConnectionsCounted'
    BY <1>4 DEF StopClose
<1>5. CASE UNCHANGED clients /\ (startPc' = startPc \/ startPc' # "spawn")
    BY <1>5
<1> QED
    BY <1>1, <1>2, <1>3, <1>4, <1>5, OnlyFourCount

(* Past prepareSessions there is a card, and clients come through a socket.*)
LEMMA CardFirstStep == ServerInv /\ [Next]_vars => CardFirst'
<1> SUFFICES ASSUME ServerInv, [Next]_vars PROVE CardFirst'
    OBVIOUS
<1> USE DEF ServerInv, SocketFirst, CardFirst, CloserFetched, Serving, Step,
            StopStep, AwaitStep, others, clients
<1>1. CASE Start \/ StartStep \/ Exit \/ AcceptError
    BY <1>1 DEF Start, StartStep, Prepare, Refuse, Bind, BindFail, Publish,
                CountDown, AddShutdownHook, Loop, Accept, AcceptClosed, Spawn,
                AcceptError, Exit
<1>2. CASE Connect
    BY <1>2 DEF Connect
<1>3. ASSUME NEW s \in Callers, CallStop(s) \/ StopSteps(s) PROVE CardFirst'
    BY <1>3 DEF CallStop, StopSteps, StopCheck, StopClear, StopFetch,
                StopClose
<1>4. ASSUME NEW a \in Awaiters, CallAwait(a) \/ AwaitReturn(a) PROVE CardFirst'
    BY <1>4 DEF CallAwait, AwaitReturn
<1>5. CASE UNCHANGED vars
    BY <1>5 DEF vars
<1> QED
    BY <1>1, <1>2, <1>3, <1>4, <1>5 DEF Next

(* Binding, publishing, counting down and closing keep their order.        *)
LEMMA SocketFirstStep == ServerInv /\ [Next]_vars => SocketFirst'
<1> SUFFICES ASSUME ServerInv, [Next]_vars PROVE SocketFirst'
    OBVIOUS
<1> USE DEF ServerInv, SocketFirst, Serving, Step, StopStep, others, clients,
            CloserFetched
<1>1. CASE Start \/ StartStep \/ AcceptError
    BY <1>1
    DEF Start, StartStep, Prepare, Refuse, Bind, BindFail, Publish, CountDown,
        AddShutdownHook, Loop, Accept, AcceptClosed, Spawn, AcceptError
<1>2. CASE Exit \/ Connect \/ UNCHANGED vars
    BY <1>2 DEF Exit, Connect, vars
<1>3. ASSUME NEW s \in Callers, CallStop(s) \/ StopSteps(s) PROVE SocketFirst'
    BY <1>3 DEF CallStop, StopSteps, StopCheck, StopClear, StopFetch,
                StopClose
<1>4. ASSUME NEW a \in Awaiters, CallAwait(a) \/ AwaitReturn(a)
      PROVE  SocketFirst'
  <2>1. UNCHANGED <<startPc, port, serverSocket, bound>>
      BY <1>4 DEF CallAwait, AwaitReturn
  <2> QED
      BY <2>1
<1> HIDE DEF SocketFirst, ServerInv
<1> QED
    BY <1>1, <1>2, <1>3, <1>4 DEF Next

(* Whoever closes the socket has read the field, which is never cleared.   *)
LEMMA CloserStep == ServerInv /\ [Next]_vars => CloserFetched'
<1> SUFFICES ASSUME ServerInv, [Next]_vars PROVE CloserFetched'
    OBVIOUS
<1>1. serverSocket => serverSocket'
    BY DEF Next, StartStep, StopSteps, vars, others, clients, Step, StopStep,
           AwaitStep, Start, Prepare, Refuse, Bind, BindFail, Publish,
           CountDown, AddShutdownHook, Loop, Accept, AcceptClosed, Spawn,
           AcceptError, Exit, Connect, CallStop, StopCheck, StopClear,
           StopFetch, StopClose, CallAwait, AwaitReturn
<1>2. ASSUME NEW s \in Callers, stopPc'[s] = "close", stopPc[s] # "close"
      PROVE  serverSocket
    BY <1>2
    DEF ServerInv, PlacesOK, Next, StartStep, StopSteps, vars, others, clients,
        Step, StopStep, AwaitStep, Start, Prepare, Refuse, Bind, BindFail,
        Publish, CountDown, AddShutdownHook, Loop, Accept, AcceptClosed, Spawn,
        AcceptError, Exit, Connect, CallStop, StopCheck, StopClear, StopFetch,
        StopClose, CallAwait, AwaitReturn
<1> QED
    BY <1>1, <1>2 DEF ServerInv, CloserFetched

(* awaitPort() is past the latch only when the field is assigned.          *)
LEMMA AwaitStepSafe == ServerInv /\ [Next]_vars => AwaitPortSeesSocket'
  BY DEF ServerInv, PlacesOK, AwaitPortSeesSocket, SocketFirst, Next,
         StartStep, StopSteps, vars, others, clients, Step, StopStep,
         AwaitStep, Start, Prepare, Refuse, Bind, BindFail, Publish,
         CountDown, AddShutdownHook, Loop, Accept, AcceptClosed, Spawn,
         AcceptError, Exit, Connect, CallStop, StopCheck, StopClear,
         StopFetch, StopClose, CallAwait, AwaitReturn

(* A late handler is the last one.                                         *)
LEMMA LateStep == ServerInv /\ [Next]_vars => LateIsLast'
<1> SUFFICES ASSUME ServerInv, [Next]_vars PROVE LateIsLast'
    OBVIOUS
<1> USE DEF ServerInv, CountersOK, LateIsLast, Step, StopStep, AwaitStep,
            others, clients
<1>1. CASE Start \/ Prepare \/ Refuse \/ Bind \/ BindFail \/ Publish
           \/ CountDown \/ AddShutdownHook \/ Exit \/ AcceptError
    BY <1>1 DEF Start, Prepare, Refuse, Bind, BindFail, Publish, CountDown,
                AddShutdownHook, Exit, AcceptError
<1>2. CASE Loop \/ AcceptClosed \/ Accept
    BY <1>2 DEF Loop, Accept, AcceptClosed
<1>3. CASE Spawn
    BY <1>3 DEF Spawn
<1>4. ASSUME NEW s \in Callers, CallStop(s) \/ StopSteps(s) PROVE LateIsLast'
    BY <1>4 DEF CallStop, StopSteps, StopCheck, StopClear, StopFetch,
                StopClose
<1>5. ASSUME NEW a \in Awaiters, CallAwait(a) \/ AwaitReturn(a)
      PROVE  LateIsLast'
    BY <1>5 DEF CallAwait, AwaitReturn
<1>6. CASE UNCHANGED vars \/ Connect
    BY <1>6 DEF vars, Connect
<1> QED
    BY <1>1, <1>2, <1>3, <1>4, <1>5, <1>6 DEF Next, StartStep

(* Only a published server serves.                                         *)
LEMMA UnpublishedStep == ServerInv /\ [Next]_vars => UnpublishedIdle'
  BY DEF ServerInv, SocketFirst, Serving, UnpublishedIdle, Next, StartStep,
         StopSteps, vars, others, clients, Step, StopStep, AwaitStep, Start,
         Prepare, Refuse, Bind, BindFail, Publish, CountDown, AddShutdownHook,
         Loop, Accept, AcceptClosed, Spawn, AcceptError, Exit, Connect,
         CallStop, StopCheck, StopClear, StopFetch, StopClose, CallAwait,
         AwaitReturn

(* The invariant is inductive.                                             *)
LEMMA ServerInvariant == Spec => []ServerInv
<1>1. ServerInv /\ [Next]_vars => ServerInv'
    BY FlagsStep, PlacesStep, CountersStep, CardFirstStep, SocketFirstStep,
       CloserStep, AwaitStepSafe, LateStep, UnpublishedStep DEF ServerInv
<1> QED
    BY <1>1, ServerInit, PTL DEF Spec

(* Nobody can connect to a bridge whose provider has not built a card, and *)
(* a refused start leaves nothing bound.                                   *)
THEOREM BoundWithCard == Spec => []NothingBoundWithoutCard
<1>1. ServerInv => NothingBoundWithoutCard
  <2> SUFFICES ASSUME ServerInv
               PROVE  (port # "none" \/ handlers > 0) => prepared
      BY ServerTyped DEF NothingBoundWithoutCard
  <2>1. handlers > 0 => arrived > 0
      BY DEF ServerInv, CountersOK, ConnectionsCounted
  <2> QED
      BY <2>1 DEF ServerInv, CardFirst
<1> QED
    BY <1>1, ServerInvariant, PTL

(* awaitPort() never dereferences a null serverSocket.                     *)
THEOREM AwaitSafe == Spec => []AwaitPortSeesSocket
<1>1. ServerInv => AwaitPortSeesSocket
    BY DEF ServerInv
<1> QED
    BY <1>1, ServerInvariant, PTL

(* However many stop() calls race with start(), at most one handler starts *)
(* after the first of them has cleared running.                            *)
THEOREM OneLateHandler == Spec => []AtMostOneLateHandler
<1>1. ServerInv => AtMostOneLateHandler
    BY DEF ServerInv, CountersOK, LateIsLast, AtMostOneLateHandler
<1> QED
    BY <1>1, ServerInvariant, PTL

(* running has been cleared and nobody was, or is being, served.           *)
Stopped == ~running /\ handlers = 0 /\ startPc \notin {"accept", "spawn"}

(* A stop() that overtakes start() is not forgotten: start() may still     *)
(* bind, publish and count down, but it finds running cleared at its loop. *)
THEOREM OvertakingStopKept == Spec => OvertakenServesNobody
<1>1. ServerInv /\ (~running /\ ~serverSocket) => Stopped
    BY DEF ServerInv, SocketFirst, Serving, UnpublishedIdle, Stopped
<1>2. Stopped /\ [Next]_vars => Stopped'
  <2> SUFFICES ASSUME Stopped, [Next]_vars PROVE Stopped'
      OBVIOUS
  <2>1. CASE Start \/ StartStep \/ AcceptError
      BY <2>1
      DEF Start, StartStep, Prepare, Refuse, Bind, BindFail, Publish, CountDown,
          AddShutdownHook, Loop, Accept, AcceptClosed, Spawn, AcceptError, Step,
          clients, Stopped
  <2>2. CASE Exit \/ Connect \/ UNCHANGED vars
      BY <2>2 DEF Exit, Connect, vars, clients, Stopped
  <2>3. ASSUME NEW s \in Callers, CallStop(s) \/ StopSteps(s) PROVE Stopped'
      BY <2>3
      DEF CallStop, StopSteps, StopCheck, StopClear, StopFetch, StopClose,
          clients, Stopped
  <2>4. ASSUME NEW a \in Awaiters, CallAwait(a) \/ AwaitReturn(a) PROVE Stopped'
    <3>1. UNCHANGED <<running, handlers, startPc>>
        BY <2>4 DEF CallAwait, AwaitReturn, clients
    <3> QED
        BY <3>1 DEF Stopped
  <2> QED
      BY <2>1, <2>2, <2>3, <2>4 DEF Next
<1>3. Stopped => handlers = 0
    BY DEF Stopped
<1> QED
    BY <1>1, <1>2, <1>3, ServerInvariant, PTL DEF Spec, OvertakenServesNobody
=============================================================================

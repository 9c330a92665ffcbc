---------------------------- MODULE BridgeServer ----------------------------
(***************************************************************************)
(* The life of one TcpBridgeServer: start() on one thread, any number of   *)
(* stop() and awaitPort() calls on others, the JVM shutdown hook, and      *)
(* clients queueing at the listening socket.  What a handler does once its *)
(* thread runs is module Bridge.                                           *)
(*                                                                         *)
(* running and serverSocket are volatile fields, bound is a latch: every   *)
(* access to one of them is a step of its own.                             *)
(***************************************************************************)
EXTENDS Naturals, FiniteSets

CONSTANTS
  Stoppers,    \* threads that call stop() through the API
  Hook,        \* the shutdown hook's thread, which calls stop() as well
  Awaiters,    \* threads that call awaitPort()
  MaxClients   \* bound: connections attempted during the run

ASSUME ServerAssumption == Hook \notin Stoppers /\ MaxClients \in Nat

VARIABLES
  startPc,       \* where start() is
  running,       \* the volatile flag
  port,          \* the listening socket: "none", "open" or "closed"
  serverSocket,  \* the field has been assigned
  bound,         \* the latch has been counted down
  prepared,      \* prepareSessions has returned: the first card exists
  hooked,        \* the shutdown hook is registered
  exiting,       \* the JVM is shutting down
  stopPc,        \* where each stop() call is
  awaitPc,       \* where each awaitPort() call is
  backlog,       \* connections the kernel has completed, not accepted yet
  arrived,       \* connections attempted so far
  handlers,      \* handler threads started
  late           \* those started after running was cleared

vars == <<startPc, running, port, serverSocket, bound, prepared, hooked,
          exiting, stopPc, awaitPc, backlog, arrived, handlers, late>>

Callers == Stoppers \cup {Hook}

StartPCs == {"new", "prepare", "bind", "publish", "latch", "hook", "loop",
             "accept", "spawn", "returned", "refused", "failed"}

Step(from, to) == startPc = from /\ startPc' = to

StopStep(s, from, to) ==
  stopPc[s] = from /\ stopPc' = [stopPc EXCEPT ![s] = to]

AwaitStep(a, from, to) ==
  awaitPc[a] = from /\ awaitPc' = [awaitPc EXCEPT ![a] = to]

clients == <<backlog, arrived, handlers, late>>
others  == <<exiting, stopPc, awaitPc>>

Init ==
  /\ startPc = "new"
  /\ running = TRUE
  /\ port = "none"
  /\ serverSocket = FALSE
  /\ bound = FALSE
  /\ prepared = FALSE
  /\ hooked = FALSE
  /\ exiting = FALSE
  /\ stopPc = [s \in Callers |-> "idle"]
  /\ awaitPc = [a \in Awaiters |-> "idle"]
  /\ backlog = 0
  /\ arrived = 0
  /\ handlers = 0
  /\ late = 0
-----------------------------------------------------------------------------
(* Faulty variants of the actions below.                                   *)

(* start() binds first and validates the provider on the first connection. *)
StartUnprepared ==
  /\ Step("new", "bind")
  /\ UNCHANGED <<running, port, serverSocket, bound, prepared, hooked, others,
                 clients>>

(* The latch is counted down before the field is assigned.                 *)
BindCountsDown ==
  /\ Step("bind", "publish")
  /\ port' = "open"
  /\ bound' = TRUE
  /\ UNCHANGED <<running, serverSocket, prepared, hooked, others, clients>>

(* while (true).                                                           *)
LoopForever ==
  /\ Step("loop", "accept")
  /\ UNCHANGED <<running, port, serverSocket, bound, prepared, hooked, others,
                 clients>>

(* stop() does not close the socket.                                       *)
StopKeepsSocket(s) ==
  /\ StopStep(s, "close", "done")
  /\ UNCHANGED <<startPc, running, port, serverSocket, bound, prepared, hooked,
                 exiting, awaitPc, clients>>

(* stop() closes without saying so: running stays set.                     *)
StopWithoutFlag(s) ==
  /\ StopStep(s, "clear", "fetch")
  /\ UNCHANGED <<startPc, running, port, serverSocket, bound, prepared, hooked,
                 exiting, awaitPc, clients>>

(* A second countDown() is needed, but never comes.                        *)
CountDownMissing ==
  /\ Step("latch", "hook")
  /\ UNCHANGED <<running, port, serverSocket, bound, prepared, hooked, others,
                 clients>>

-----------------------------------------------------------------------------
(* start().                                                                *)

Start ==
  /\ Step("new", "prepare")
  /\ UNCHANGED <<running, port, serverSocket, bound, prepared, hooked, others,
                 clients>>

(* prepareSessions: provider.create() works, or start() throws.            *)
Prepare ==
  /\ Step("prepare", "bind")
  /\ prepared' = TRUE
  /\ UNCHANGED <<running, port, serverSocket, bound, hooked, others, clients>>

Refuse ==
  /\ Step("prepare", "refused")
  /\ UNCHANGED <<running, port, serverSocket, bound, prepared, hooked, others,
                 clients>>

(* new ServerSocket: binds and listens, or throws (address in use).        *)
Bind ==
  /\ Step("bind", "publish")
  /\ port' = "open"
  /\ UNCHANGED <<running, serverSocket, bound, prepared, hooked, others, clients>>

BindFail ==
  /\ Step("bind", "failed")
  /\ UNCHANGED <<running, port, serverSocket, bound, prepared, hooked, others,
                 clients>>

Publish ==
  /\ Step("publish", "latch")
  /\ serverSocket' = TRUE
  /\ UNCHANGED <<running, port, bound, prepared, hooked, others, clients>>

CountDown ==
  /\ Step("latch", "hook")
  /\ bound' = TRUE
  /\ UNCHANGED <<running, port, serverSocket, prepared, hooked, others, clients>>

(* addShutdownHook refuses (IllegalStateException) once the JVM is exiting. *)
AddShutdownHook ==
  /\ \/ ~exiting /\ Step("hook", "loop") /\ hooked' = TRUE
     \/ exiting /\ Step("hook", "failed") /\ hooked' = hooked
  /\ UNCHANGED <<running, port, serverSocket, bound, prepared, others, clients>>

(* while (running).                                                        *)
Loop ==
  /\ \/ running /\ Step("loop", "accept")
     \/ ~running /\ Step("loop", "returned")
  /\ UNCHANGED <<running, port, serverSocket, bound, prepared, hooked, others,
                 clients>>

(* accept() takes the oldest completed connection ...                      *)
Accept ==
  /\ port = "open" /\ backlog > 0
  /\ Step("accept", "spawn")
  /\ backlog' = backlog - 1
  /\ UNCHANGED <<running, port, serverSocket, bound, prepared, hooked, others,
                 arrived, handlers, late>>

(* ... or throws because stop() has closed the socket: back to the loop.   *)
AcceptClosed ==
  /\ port = "closed"
  /\ Step("accept", "loop")
  /\ UNCHANGED <<running, port, serverSocket, bound, prepared, hooked, others,
                 clients>>

(* clientCounter, new Thread, start.                                       *)
Spawn ==
  /\ Step("spawn", "loop")
  /\ handlers' = handlers + 1
  /\ late' = IF running THEN late ELSE late + 1
  /\ UNCHANGED <<running, port, serverSocket, bound, prepared, hooked, others,
                 backlog, arrived>>
-----------------------------------------------------------------------------
(* stop(), on an API caller's thread or on the hook's.                     *)

CallStop(s) ==
  /\ s = Hook => exiting /\ hooked
  /\ StopStep(s, "idle", "check")
  /\ UNCHANGED <<startPc, running, port, serverSocket, bound, prepared, hooked,
                 exiting, awaitPc, clients>>

StopCheck(s) ==
  /\ \/ running /\ StopStep(s, "check", "clear")
     \/ ~running /\ StopStep(s, "check", "done")
  /\ UNCHANGED <<startPc, running, port, serverSocket, bound, prepared, hooked,
                 exiting, awaitPc, clients>>

StopClear(s) ==
  /\ StopStep(s, "clear", "fetch")
  /\ running' = FALSE
  /\ UNCHANGED <<startPc, port, serverSocket, bound, prepared, hooked, exiting,
                 awaitPc, clients>>

(* ServerSocket socket = serverSocket; there may be nothing to close yet.  *)
StopFetch(s) ==
  /\ \/ serverSocket /\ StopStep(s, "fetch", "close")
     \/ ~serverSocket /\ StopStep(s, "fetch", "done")
  /\ UNCHANGED <<startPc, running, port, serverSocket, bound, prepared, hooked,
                 exiting, awaitPc, clients>>

(* Closing resets the connections that were waiting to be accepted.        *)
StopClose(s) ==
  /\ StopStep(s, "close", "done")
  /\ port' = "closed"
  /\ backlog' = 0
  /\ UNCHANGED <<startPc, running, serverSocket, bound, prepared, hooked,
                 exiting, awaitPc, arrived, handlers, late>>
-----------------------------------------------------------------------------
(* awaitPort().                                                            *)

CallAwait(a) ==
  /\ AwaitStep(a, "idle", "waiting")
  /\ UNCHANGED <<startPc, running, port, serverSocket, bound, prepared, hooked,
                 exiting, stopPc, clients>>

(* Past the latch it dereferences serverSocket.                            *)
AwaitReturn(a) ==
  /\ bound
  /\ \/ serverSocket /\ AwaitStep(a, "waiting", "returned")
     \/ ~serverSocket /\ AwaitStep(a, "waiting", "null pointer")
  /\ UNCHANGED <<startPc, running, port, serverSocket, bound, prepared, hooked,
                 exiting, stopPc, clients>>
-----------------------------------------------------------------------------
(* The world around the server.                                            *)

Exit ==
  /\ ~exiting
  /\ exiting' = TRUE
  /\ UNCHANGED <<startPc, running, port, serverSocket, bound, prepared, hooked,
                 stopPc, awaitPc, clients>>

(* accept() fails for another reason (no file descriptor left): the loop   *)
(* reports it and goes on.                                                 *)
AcceptError ==
  /\ port = "open"
  /\ Step("accept", "loop")
  /\ UNCHANGED <<running, port, serverSocket, bound, prepared, hooked, others,
                 clients>>

Connect ==
  /\ port = "open"
  /\ arrived < MaxClients
  /\ arrived' = arrived + 1
  /\ backlog' = backlog + 1
  /\ UNCHANGED <<startPc, running, port, serverSocket, bound, prepared, hooked,
                 others, handlers, late>>
-----------------------------------------------------------------------------
StartStep ==
  \/ Prepare \/ Refuse \/ Bind \/ BindFail \/ Publish \/ CountDown
  \/ AddShutdownHook \/ Loop \/ Accept \/ AcceptClosed \/ Spawn

StopSteps(s) == StopCheck(s) \/ StopClear(s) \/ StopFetch(s) \/ StopClose(s)

Next ==
  \/ Start \/ StartStep \/ Exit \/ AcceptError \/ Connect
  \/ \E s \in Callers : CallStop(s) \/ StopSteps(s)
  \/ \E a \in Awaiters : CallAwait(a) \/ AwaitReturn(a)

(* Threads that can run are scheduled; the shutdown sequence starts the    *)
(* hooks that are registered.  Nobody has to call anything or to connect.  *)
Fairness ==
  /\ WF_vars(StartStep)
  /\ WF_vars(CallStop(Hook))
  /\ \A s \in Callers : WF_vars(StopSteps(s))
  /\ \A a \in Awaiters : WF_vars(AwaitReturn(a))

Spec == Init /\ [][Next]_vars /\ Fairness
-----------------------------------------------------------------------------
(* The server's variables have their types: in particular accept() never   *)
(* hands out more connections than clients have made.                      *)
TypeOK ==
  /\ startPc \in StartPCs
  /\ running \in BOOLEAN
  /\ port \in {"none", "open", "closed"}
  /\ serverSocket \in BOOLEAN
  /\ bound \in BOOLEAN
  /\ prepared \in BOOLEAN
  /\ hooked \in BOOLEAN
  /\ exiting \in BOOLEAN
  /\ stopPc \in [Callers -> {"idle", "check", "clear", "fetch", "close", "done"}]
  /\ awaitPc \in [Awaiters -> {"idle", "waiting", "returned", "null pointer"}]
  /\ backlog \in 0..MaxClients
  /\ arrived \in 0..MaxClients
  /\ handlers \in 0..arrived
  /\ late \in 0..MaxClients

(* Main: a refusal happens with "nothing bound"; nobody can connect to a   *)
(* bridge whose provider has not built a card.  (TypeOK is checked with    *)
(* it.)                                                                    *)
NothingBoundWithoutCard ==
  /\ TypeOK
  /\ (port # "none" \/ handlers > 0) => prepared

(* awaitPort() never dereferences a null serverSocket: the latch opens     *)
(* only after the field is assigned.                                       *)
AwaitPortSeesSocket == \A a \in Awaiters : awaitPc[a] # "null pointer"

(* After any stop() has cleared running, at most one more handler starts:  *)
(* the one whose accept() was already under way.                           *)
AtMostOneLateHandler == late <= 1

(* A stop() that overtakes start(), before the socket is published, is not *)
(* forgotten: no client is ever served.                                    *)
OvertakenServesNobody == [](~running /\ ~serverSocket => [](handlers = 0))

(* A stop() that begins while the server runs and its socket is published  *)
(* ends start() and closes the port, however it races with other stop()    *)
(* calls, the shutdown hook and arriving clients.  One that overtakes      *)
(* start(), before the socket is published, may find nothing to close, but *)
(* start() ends all the same, without a client served after it.            *)
StopEndsServing ==
  /\ \A s \in Callers :
       (stopPc[s] = "check" /\ running /\ serverSocket)
         ~> (port = "closed" /\ startPc \in {"returned", "failed"})
  /\ (~running /\ startPc # "new") ~> startPc \in {"returned", "failed", "refused"}
  /\ OvertakenServesNobody

(* "Blocks until the socket is bound": once start() is called, awaitPort()  *)
(* returns, whatever stop() calls, hook and clients do in between, unless  *)
(* start() throws before it has bound the socket.  Then nobody opens the   *)
(* latch and awaitPort() blocks for good, as its comment says; its callers *)
(* have to look at isBound() and the thread of start() first.              *)
AwaitPortReturns ==
  \A a \in Awaiters :
    awaitPc[a] = "waiting" /\ startPc # "new"
      ~> \/ awaitPc[a] = "returned"
         \/ startPc \in {"refused", "failed"} /\ port = "none"

(* In production only the shutdown hook calls stop(), and it is registered *)
(* after the socket is published: when start() returns and no API caller   *)
(* has called stop(), the port is released.  (A stop() that overtakes      *)
(* start() finds no socket to close.)                                      *)
ReturnReleasesPort ==
  (startPc = "returned" /\ \A s \in Stoppers : stopPc[s] = "idle")
    ~> (port = "closed")
=============================================================================

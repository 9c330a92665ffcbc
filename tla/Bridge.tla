------------------------------- MODULE Bridge -------------------------------
(***************************************************************************)
(* The TCP bridge at work: ClientHandler threads, the session supplier     *)
(* that TcpBridgeServer.prepareSessions returns, the SimulatorSession      *)
(* monitors and the cards behind them.  start() has prepared the first     *)
(* card and bound the socket (module BridgeServer); here connections    *)
(* arrive, send frames, and leave at any moment.                           *)
(*                                                                         *)
(* A request inside a card is two steps, one that reads the card and one   *)
(* that writes it, so that a missing monitor shows as a lost update.       *)
(***************************************************************************)
EXTENDS CardModel, Sequences, FiniteSets

CONSTANTS
  Conns,      \* the TCP connections of a run
  Warm,       \* the card created by start() before the socket is bound
  None,       \* no connection, no card
  Scope,      \* CardScope: "connection" or "shared"
  Requests,   \* the request kinds the clients of this run use
  MaxFrames   \* bound: frames one client sends over its connection

ASSUME BridgeAssumption ==
  /\ Warm \notin Conns
  /\ None \notin Conns \cup {Warm}
  /\ Scope \in {"connection", "shared"}
  /\ Requests \subseteq RequestKinds
  /\ MaxFrames \in Nat

(* The card made by provider.create() for connection c is named c.         *)
Cards == Conns \cup {Warm}

VARIABLES
  pc,            \* where handler thread c is
  warm,          \* Supplier.warm # null
  supplier,      \* owner of the supplier's monitor
  session,       \* session[c]: the card behind the handler's SimulatorSession
  monitor,       \* monitor[k]: owner of the SimulatorSession monitor of card k
  card,          \* card[k]: the state of card k
  view,          \* view[c]: the card state handler c read inside the card
  sent,          \* sent[c]: what client c has put on its connection
  read,          \* read[c]: how many of those readFrame has returned
  answer,        \* answer[c]: the reply handler c is about to write
  replies,       \* replies[c]: the replies client c has received
  gone           \* gone[c]: client c has closed its end

vars == <<pc, warm, supplier, session, monitor, card, view, sent, read,
          answer, replies, gone>>

supplying == <<warm, supplier, session>>
inCard    == <<monitor, card, view>>
onWire    == <<sent, read, replies, gone>>

PCs == {"none", "started", "taking", "creating", "idle", "dispatch", "inside",
        "reply", "closed"}

(* Where no reply is pending; a handler's locals do not outlive a frame.   *)
NoReply == Reply("OK", "", 0)

Goto(c, l) == pc' = [pc EXCEPT ![c] = l]

At(c, l) == pc[c] = l

(* The frame handler c is working on.                                      *)
Frame(c) == sent[c][read[c]]
-----------------------------------------------------------------------------
Init ==
  /\ pc       = [c \in Conns |-> "none"]
  /\ warm     = (Scope = "connection")
  /\ supplier = None
  /\ session  = [c \in Conns |-> None]
  /\ monitor  = [k \in Cards |-> None]
  /\ card     = [k \in Cards |-> FreshCard]
  /\ view     = [c \in Conns |-> FreshCard]
  /\ sent     = [c \in Conns |-> <<>>]
  /\ read     = [c \in Conns |-> 0]
  /\ answer   = [c \in Conns |-> NoReply]
  /\ replies  = [c \in Conns |-> <<>>]
  /\ gone     = [c \in Conns |-> FALSE]

(* The accept loop starts a handler thread.                                *)
Accept(c) ==
  /\ At(c, "none")
  /\ Goto(c, "started")
  /\ UNCHANGED <<supplying, inCard, answer, onWire>>
-----------------------------------------------------------------------------
(* Faulty variants of the actions below: the bugs the properties exclude.  *)

(* get() is not synchronized.                                              *)
TakeWarmUnsynchronized(c) ==
  /\ Scope = "connection" /\ At(c, "started") /\ warm
  /\ supplier' = c
  /\ Goto(c, "taking")
  /\ UNCHANGED <<warm, session, inCard, answer, onWire>>

(* The provider hands out the card it has built first again.               *)
CreateCached(c) ==
  /\ At(c, "creating")
  /\ supplier' = None
  /\ session' = [session EXCEPT ![c] = Warm]
  /\ Goto(c, "idle")
  /\ UNCHANGED <<warm, inCard, answer, onWire>>

(* A failed create() leaves the supplier locked.                           *)
CreateFailLocked(c) ==
  /\ At(c, "creating")
  /\ Goto(c, "closed")
  /\ UNCHANGED <<supplying, inCard, answer, onWire>>

(* End of stream is taken for one more frame.                              *)
ReadEndAsFrame(c) ==
  /\ At(c, "idle") /\ gone[c]
  /\ read' = [read EXCEPT ![c] = @ + 1]
  /\ UNCHANGED <<pc, supplying, inCard, answer, sent, replies, gone>>

(* A disconnect resets the card.                                           *)
ReadEndResets(c) ==
  /\ At(c, "idle") /\ gone[c]
  /\ Goto(c, "closed")
  /\ card' = [card EXCEPT ![session[c]] = CardAfter("RESET", @)]
  /\ UNCHANGED <<supplying, monitor, view, answer, onWire>>

(* transmitAPDU is not synchronized.                                       *)
EnterUnsynchronized(c) ==
  /\ At(c, "dispatch") /\ Frame(c) \in CardKinds
  /\ monitor[session[c]] = None \/ Frame(c) \in ApduKinds
  /\ monitor' = [monitor EXCEPT ![session[c]] = c]
  /\ view' = [view EXCEPT ![c] = card[session[c]]]
  /\ Goto(c, "inside")
  /\ UNCHANGED <<supplying, card, answer, onWire>>

(* reset is not synchronized.                                              *)
EnterResetUnsynchronized(c) ==
  /\ At(c, "dispatch") /\ Frame(c) \in CardKinds
  /\ monitor[session[c]] = None \/ Frame(c) = "RESET"
  /\ monitor' = [monitor EXCEPT ![session[c]] = c]
  /\ view' = [view EXCEPT ![c] = card[session[c]]]
  /\ Goto(c, "inside")
  /\ UNCHANGED <<supplying, card, answer, onWire>>

(* Sessions lock the supplier, not themselves.                             *)
EnterUnderSupplier(c) ==
  /\ At(c, "dispatch") /\ Frame(c) \in CardKinds
  /\ monitor[session[c]] = None /\ supplier = None
  /\ monitor' = [monitor EXCEPT ![session[c]] = c]
  /\ view' = [view EXCEPT ![c] = card[session[c]]]
  /\ Goto(c, "inside")
  /\ UNCHANGED <<supplying, card, answer, onWire>>

(* An Exception in the card leaves the session locked.                     *)
LeaveLocked(c) ==
  /\ At(c, "inside") /\ Frame(c) # "FATAL"
  /\ monitor' = [monitor EXCEPT ![session[c]] =
                   IF Frame(c) = "THROW" THEN @ ELSE None]
  /\ card' = [card EXCEPT ![session[c]] = CardAfter(Frame(c), view[c])]
  /\ view' = [view EXCEPT ![c] = FreshCard]
  /\ answer' = [answer EXCEPT ![c] = CardReply(Frame(c), view[c])]
  /\ Goto(c, "reply")
  /\ UNCHANGED <<supplying, onWire>>
-----------------------------------------------------------------------------
(* sessions.get() on the handler thread.                                   *)

(* Shared scope: the supplier is a constant.                               *)
GetShared(c) ==
  /\ Scope = "shared"
  /\ At(c, "started")
  /\ session' = [session EXCEPT ![c] = Warm]
  /\ Goto(c, "idle")
  /\ UNCHANGED <<warm, supplier, inCard, answer, onWire>>

(* Connection scope, warm card still there: enter get(), which is          *)
(* synchronized on the supplier, and read it.                              *)
TakeWarm(c) ==
  /\ Scope = "connection"
  /\ At(c, "started")
  /\ supplier = None
  /\ warm
  /\ supplier' = c
  /\ Goto(c, "taking")
  /\ UNCHANGED <<warm, session, inCard, answer, onWire>>

(* Forget the warm card, hand it out and leave the supplier's monitor.     *)
GetWarm(c) ==
  /\ At(c, "taking")
  /\ warm' = FALSE
  /\ supplier' = None
  /\ session' = [session EXCEPT ![c] = Warm]
  /\ Goto(c, "idle")
  /\ UNCHANGED <<inCard, answer, onWire>>

(* Connection scope, warm card gone: call provider.create() while holding  *)
(* the supplier's monitor.                                                 *)
CreateBegin(c) ==
  /\ Scope = "connection"
  /\ At(c, "started")
  /\ supplier = None
  /\ ~warm
  /\ supplier' = c
  /\ Goto(c, "creating")
  /\ UNCHANGED <<warm, session, inCard, answer, onWire>>

CreateReturn(c) ==
  /\ At(c, "creating")
  /\ supplier' = None
  /\ session' = [session EXCEPT ![c] = c]
  /\ Goto(c, "idle")
  /\ UNCHANGED <<warm, inCard, answer, onWire>>

(* create() throws or returns null: nothing in run() catches it, the       *)
(* finally block closes the socket and the thread dies without a frame.    *)
CreateFail(c) ==
  /\ At(c, "creating")
  /\ supplier' = None
  /\ Goto(c, "closed")
  /\ UNCHANGED <<warm, session, inCard, answer, onWire>>
-----------------------------------------------------------------------------
(* FrameCodec.readFrame.                                                   *)

ReadFrame(c) ==
  /\ At(c, "idle")
  /\ read[c] < Len(sent[c])
  /\ sent[c][read[c] + 1] \notin BrokenKinds
  /\ read' = [read EXCEPT ![c] = @ + 1]
  /\ Goto(c, "dispatch")
  /\ UNCHANGED <<supplying, inCard, answer, sent, replies, gone>>

(* A zero length or a frame cut short is an IOException: the connection is *)
(* closed and whatever follows on the stream is never read.                *)
ReadBroken(c) ==
  /\ At(c, "idle")
  /\ read[c] < Len(sent[c])
  /\ sent[c][read[c] + 1] \in BrokenKinds
  /\ Goto(c, "closed")
  /\ UNCHANGED <<supplying, inCard, answer, onWire>>

(* The client has left: end of stream, or a connection reset that discards *)
(* frames not read yet.                                                    *)
ReadEnd(c) ==
  /\ At(c, "idle")
  /\ gone[c]
  /\ Goto(c, "closed")
  /\ UNCHANGED <<supplying, inCard, answer, onWire>>
-----------------------------------------------------------------------------
(* The switch in ClientHandler.run.                                        *)

(* transmitAPDU, reset and getATR are synchronized on the session.         *)
EnterSession(c) ==
  /\ At(c, "dispatch")
  /\ Frame(c) \in CardKinds
  /\ monitor[session[c]] = None
  /\ monitor' = [monitor EXCEPT ![session[c]] = c]
  /\ view' = [view EXCEPT ![c] = card[session[c]]]
  /\ Goto(c, "inside")
  /\ UNCHANGED <<supplying, card, answer, onWire>>

(* Return from the card, normally or with an Exception (which the handler  *)
(* turns into ERR_SIM_ERROR and carries on).                               *)
LeaveSession(c) ==
  /\ At(c, "inside")
  /\ Frame(c) # "FATAL"
  /\ monitor' = [monitor EXCEPT ![session[c]] = None]
  /\ card' = [card EXCEPT ![session[c]] = CardAfter(Frame(c), view[c])]
  /\ view' = [view EXCEPT ![c] = FreshCard]
  /\ answer' = [answer EXCEPT ![c] = CardReply(Frame(c), view[c])]
  /\ Goto(c, "reply")
  /\ UNCHANGED <<supplying, onWire>>

(* An Error unwinds the whole handler: monitor released, socket closed.    *)
DieInSession(c) ==
  /\ At(c, "inside")
  /\ Frame(c) = "FATAL"
  /\ monitor' = [monitor EXCEPT ![session[c]] = None]
  /\ view' = [view EXCEPT ![c] = FreshCard]
  /\ Goto(c, "closed")
  /\ UNCHANGED <<supplying, card, answer, onWire>>

(* PING and unknown message types.                                         *)
AnswerLocally(c) ==
  /\ At(c, "dispatch")
  /\ Frame(c) \in LocalKinds
  /\ answer' = [answer EXCEPT ![c] = LocalReply(Frame(c))]
  /\ Goto(c, "reply")
  /\ UNCHANGED <<supplying, inCard, onWire>>

(* FrameCodec.writeFrame to a client that is still there.                  *)
WriteFrame(c) ==
  /\ At(c, "reply")
  /\ ~gone[c]
  /\ replies' = [replies EXCEPT ![c] = Append(@, answer[c])]
  /\ answer' = [answer EXCEPT ![c] = NoReply]
  /\ Goto(c, "idle")
  /\ UNCHANGED <<supplying, inCard, sent, read, gone>>

(* The client is gone: the bytes vanish in the kernel and the loop goes    *)
(* on, or the write fails, sendError fails as well and the handler ends.   *)
WriteLost(c) ==
  /\ At(c, "reply")
  /\ gone[c]
  /\ answer' = [answer EXCEPT ![c] = NoReply]
  /\ \E l \in {"idle", "closed"} : Goto(c, l)
  /\ UNCHANGED <<supplying, inCard, onWire>>
-----------------------------------------------------------------------------
(* The client at the other end, which may pipeline and may leave any time. *)

Connected(c) == pc[c] \notin {"none", "closed"} /\ ~gone[c]

(* CUT is a frame the client does not finish: it leaves with it.           *)
Send(c, r) ==
  /\ Connected(c)
  /\ Len(sent[c]) < MaxFrames
  /\ sent' = [sent EXCEPT ![c] = Append(@, r)]
  /\ gone' = [gone EXCEPT ![c] = (r = "CUT")]
  /\ UNCHANGED <<pc, supplying, inCard, answer, read, replies>>

Disconnect(c) ==
  /\ Connected(c)
  /\ gone' = [gone EXCEPT ![c] = TRUE]
  /\ UNCHANGED <<pc, supplying, inCard, answer, sent, read, replies>>
-----------------------------------------------------------------------------
(* The steps of handler thread c that the bridge itself takes.             *)
Handle(c) ==
  \/ GetShared(c) \/ TakeWarm(c) \/ GetWarm(c) \/ CreateBegin(c)
  \/ ReadFrame(c) \/ ReadBroken(c) \/ ReadEnd(c)
  \/ EnterSession(c) \/ LeaveSession(c) \/ DieInSession(c)
  \/ AnswerLocally(c) \/ WriteFrame(c) \/ WriteLost(c)

(* The step of a provider, which may take forever.                         *)
Provide(c) == CreateReturn(c) \/ CreateFail(c)

Client(c) == Disconnect(c) \/ \E r \in Requests : Send(c, r)

Next == \E c \in Conns : Accept(c) \/ Handle(c) \/ Provide(c) \/ Client(c)

Spec == Init /\ [][Next]_vars

(* Handler threads are scheduled; clients and providers need not move.     *)
FairSpec == Spec /\ \A c \in Conns : WF_vars(Handle(c))
-----------------------------------------------------------------------------
(* The properties.                                                         *)

(* The handlers' variables have their types; read[c] never passes the frames*)
(* a client may send, so readFrame returns nothing that was not sent.      *)
TypeOK ==
  /\ pc \in [Conns -> PCs]
  /\ warm \in BOOLEAN
  /\ supplier \in Conns \cup {None}
  /\ session \in [Conns -> Cards \cup {None}]
  /\ monitor \in [Cards -> Conns \cup {None}]
  /\ card \in [Cards -> CardStates]
  /\ view \in [Conns -> CardStates]
  /\ sent \in [Conns -> Seq(Requests)]
  /\ read \in [Conns -> 0..MaxFrames]
  /\ answer \in [Conns -> Replies]
  /\ replies \in [Conns -> Seq(Replies)]
  /\ gone \in [Conns -> BOOLEAN]

(* Two handlers are never inside the same simulator, whichever of          *)
(* transmitAPDU, reset and getATR each of them called: SimulatorSession's  *)
(* "concurrent connections never interleave inside the simulator".         *)
OneInsideCard ==
  \A c, d \in Conns :
    (c # d /\ At(c, "inside") /\ At(d, "inside")) => session[c] # session[d]

(* No increment is lost or answered twice: over all connections talking to *)
(* one card, two INC responses never report the same counter value.        *)
NoLostIncrement ==
  \A c, d \in Conns :
    session[c] = session[d] =>
      \A i \in DOMAIN replies[c], j \in DOMAIN replies[d] :
        (<<c, i>> # <<d, j>> /\ replies[c][i].n # 0)
          => replies[c][i].n # replies[d][j].n

(* Connection scope: the supplier never gives two handlers the same card,  *)
(* the warm one included: between the read of warm and its clearing no     *)
(* other handler reads it (Supplier.get does both under its monitor).      *)
CardsNotShared ==
  Scope = "connection" =>
    \A c, d \in Conns : (c # d /\ session[c] # None) => session[c] # session[d]

(* States a card goes through when only the frames of s act on it.         *)
SoloRun(s) ==
  LET run[i \in 0..Len(s)] ==
        IF i = 0 THEN FreshCard ELSE CardAfter(s[i], run[i - 1])
  IN  run

(* Connection scope: whatever the other connections do, a client sees      *)
(* exactly the replies of a fresh card of its own, in the order of its     *)
(* frames; state never crosses connections.                                *)
PrivateCard ==
  Scope = "connection" =>
    \A c \in Conns : \A i \in DOMAIN replies[c] :
      replies[c][i] = ReplyTo(sent[c][i], SoloRun(sent[c])[i - 1])

(* Shared scope: nothing but a RESET frame deselects the applet; a client  *)
(* that leaves (with frames in flight or not) is not an implicit reset.    *)
OnlyResetDeselects ==
  [][\A k \in Cards :
       (card[k].selected /\ ~card'[k].selected)
         => \E c \in Conns : /\ session[c] = k
                             /\ pc[c] = "inside" /\ pc'[c] = "reply"
                             /\ Frame(c) = "RESET"]_vars

(* The bridge implements the abstract service: what happens inside a       *)
(* monitor is one step of the service, taken when the monitor is left.     *)
Service ==
  INSTANCE CardService WITH
    phase  <- [c \in Conns |->
                 IF pc[c] \in {"none", "started", "taking", "creating"}
                 THEN "new"
                 ELSE IF pc[c] = "reply"  THEN "answered"
                 ELSE IF pc[c] = "closed" THEN "closed"
                 ELSE "ready"],
    holder <- session,
    taken  <- [c \in Conns |-> IF pc[c] \in {"dispatch", "inside"}
                                THEN read[c] - 1 ELSE read[c]]

(* Each handler step is a step of CardService or invisible to clients.     *)
ImplementsService == Service!Spec

(* A reply is due: the connection has a session and its client waits for   *)
(* the answer to a frame, none of the frames up to that one being of       *)
(* a kind the handler cannot survive.                                      *)
Owed(c) ==
  /\ session[c] # None /\ ~gone[c]
  /\ Len(sent[c]) > Len(replies[c])
  /\ \A j \in 1..(Len(replies[c]) + 1) : sent[c][j] \notin {"FATAL", "EMPTY"}

(* Once a connection has a session, every frame of it is answered, unless  *)
(* the client leaves, or it or an earlier frame is one the handler cannot  *)
(* survive.  An exception in the card costs neither the connection nor a   *)
(* later reply, and a provider that hangs in create() for another          *)
(* connection holds nobody up.  (No more than MaxFrames frames are sent,   *)
(* so a client whose replies keep coming ends up with all of them.)        *)
EveryFrameAnswered == \A c \in Conns : Owed(c) ~> ~Owed(c)

(* With a provider whose create() returns or throws, every accepted        *)
(* connection gets a session or is closed: a failing create() does not     *)
(* wedge the supplier for the handlers that wait for it.                   *)
EveryConnectionResolved ==
  (\A c \in Conns : []<>~At(c, "creating")) =>
    \A c \in Conns :
      At(c, "started") ~> (session[c] # None \/ At(c, "closed"))
=============================================================================

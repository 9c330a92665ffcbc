---------------------------- MODULE BridgeProofs ----------------------------
(***************************************************************************)
(* Proofs about Bridge for every set of connections, every bound on the    *)
(* frames, every set of request kinds and both scopes.                     *)
(***************************************************************************)
EXTENDS Bridge, Induction, TLAPS

(* A handler past sessions.get() has a session, one before it has none.    *)
Attached ==
  \A c \in Conns :
    /\ pc[c] \in {"idle", "dispatch", "inside", "reply"} => session[c] # None
    /\ pc[c] \in {"none", "started", "taking", "creating"} => session[c] = None

(* readFrame never runs ahead of what was sent.                            *)
WireOK ==
  \A c \in Conns : read[c] <= Len(sent[c]) /\ Len(sent[c]) <= MaxFrames

(* Whoever is inside a card owns its monitor.                              *)
MonitorHeld ==
  \A c \in Conns : pc[c] = "inside" => monitor[session[c]] = c

(* Type correctness needs the first two, mutual exclusion the third.       *)
BaseInv == TypeOK /\ Attached /\ WireOK /\ MonitorHeld

USE DEF At, Goto, Frame, supplying, inCard, onWire
-----------------------------------------------------------------------------
(* What one request does to a card and what it answers are well typed.     *)
LEMMA CardStepType ==
  ASSUME NEW r, NEW s \in CardStates
  PROVE  /\ CardAfter(r, s) \in CardStates
         /\ CardReply(r, s) \in Replies
         /\ LocalReply(r) \in Replies
  BY DEF CardStates, CardAfter, CardReply, LocalReply, Replies, Reply

(* The state start() hands over satisfies the base invariant.              *)
LEMMA BaseInit == Init => BaseInv
<1> SUFFICES ASSUME Init PROVE BaseInv
    OBVIOUS
<1> USE BridgeAssumption DEF Init
<1>1. warm \in BOOLEAN
    OBVIOUS
<1>2. FreshCard \in CardStates /\ NoReply \in Replies
    BY DEF FreshCard, CardStates, NoReply, Reply, Replies
<1>3. TypeOK
    BY <1>1, <1>2 DEF TypeOK, PCs, Cards
<1> QED
    BY <1>3 DEF BaseInv, Attached, WireOK, MonitorHeld

(* Every step of a handler, a provider or a client preserves it.           *)
LEMMA BaseStep == BaseInv /\ [Next]_vars => BaseInv'
<1> SUFFICES ASSUME BaseInv, [Next]_vars PROVE BaseInv'
    OBVIOUS
<1> USE BridgeAssumption
    DEF BaseInv, TypeOK, Attached, WireOK, MonitorHeld, PCs, Cards
<1>a. FreshCard \in CardStates /\ NoReply \in Replies
    BY DEF FreshCard, CardStates, NoReply, Reply, Replies
<1>1. ASSUME NEW c \in Conns, Accept(c) PROVE BaseInv'
    BY <1>1 DEF Accept
<1>2. ASSUME NEW c \in Conns, GetShared(c) PROVE BaseInv'
    BY <1>2 DEF GetShared
<1>3. ASSUME NEW c \in Conns, GetWarm(c) PROVE BaseInv'
    BY <1>3 DEF GetWarm
<1>19. ASSUME NEW c \in Conns, TakeWarm(c) PROVE BaseInv'
    BY <1>19 DEF TakeWarm
<1>4. ASSUME NEW c \in Conns, CreateBegin(c) PROVE BaseInv'
    BY <1>4 DEF CreateBegin
<1>5. ASSUME NEW c \in Conns, CreateReturn(c) PROVE BaseInv'
    BY <1>5 DEF CreateReturn
<1>6. ASSUME NEW c \in Conns, CreateFail(c) PROVE BaseInv'
    BY <1>6 DEF CreateFail
<1>7. ASSUME NEW c \in Conns, ReadFrame(c) PROVE BaseInv'
    BY <1>7 DEF ReadFrame
<1>8. ASSUME NEW c \in Conns, ReadBroken(c) PROVE BaseInv'
    BY <1>8 DEF ReadBroken
<1>9. ASSUME NEW c \in Conns, ReadEnd(c) PROVE BaseInv'
    BY <1>9 DEF ReadEnd
<1>10. ASSUME NEW c \in Conns, EnterSession(c) PROVE BaseInv'
    BY <1>10 DEF EnterSession
<1>11. ASSUME NEW c \in Conns, LeaveSession(c) PROVE BaseInv'
    BY <1>11, <1>a, CardStepType DEF LeaveSession
<1>12. ASSUME NEW c \in Conns, DieInSession(c) PROVE BaseInv'
    BY <1>12, <1>a DEF DieInSession
<1>13. ASSUME NEW c \in Conns, AnswerLocally(c) PROVE BaseInv'
    BY <1>13, <1>a, CardStepType DEF AnswerLocally
<1>14. ASSUME NEW c \in Conns, WriteFrame(c) PROVE BaseInv'
    BY <1>14, <1>a DEF WriteFrame
<1>15. ASSUME NEW c \in Conns, WriteLost(c) PROVE BaseInv'
    BY <1>15, <1>a DEF WriteLost
<1>16. ASSUME NEW c \in Conns, Disconnect(c) PROVE BaseInv'
    BY <1>16 DEF Disconnect
<1>17. ASSUME NEW c \in Conns, NEW r \in Requests, Send(c, r) PROVE BaseInv'
    BY <1>17 DEF Send
<1>18. CASE UNCHANGED vars
    BY <1>18 DEF vars
<1> QED
    BY <1>1, <1>2, <1>3, <1>4, <1>5, <1>6, <1>7, <1>8, <1>9, <1>10, <1>11,
       <1>12, <1>13, <1>14, <1>15, <1>16, <1>17, <1>18, <1>19
    DEF Next, Handle, Provide, Client

(* The base invariant holds throughout.                                    *)
LEMMA BaseInvariant == Spec => []BaseInv
  BY BaseInit, BaseStep, PTL DEF Spec

(* Every variable keeps its type: in particular readFrame never returns    *)
(* more frames than were sent and no card or reply is ever malformed.      *)
THEOREM TypeCorrect == Spec => []TypeOK
<1>1. BaseInv => TypeOK  BY DEF BaseInv
<1> QED  BY <1>1, BaseInvariant, PTL

(* SimulatorSession's methods never run concurrently on one card.          *)
THEOREM MutualExclusion == Spec => []OneInsideCard
<1>1. BaseInv => OneInsideCard
    BY DEF BaseInv, MonitorHeld, OneInsideCard
<1> QED  BY <1>1, BaseInvariant, PTL
-----------------------------------------------------------------------------
(* The supplier hands out the warm card once and fresh cards otherwise: a  *)
(* handler in the middle of get() holds its monitor, so what it has read of*)
(* warm is still so.                                                       *)
Supplied ==
  Scope = "connection" =>
    /\ \A c \in Conns : pc[c] \in {"taking", "creating"} => supplier = c
    /\ \A c \in Conns : pc[c] = "taking" => warm
    /\ \A c \in Conns : session[c] \in {None, Warm, c}
    /\ warm => \A c \in Conns : session[c] # Warm
    /\ \A c, d \in Conns : session[c] = Warm /\ session[d] = Warm => c = d

(* Supplier.get and create() keep the supplier's bookkeeping.              *)
LEMMA SupplierStep == BaseInv /\ Supplied /\ [Next]_vars => Supplied'
<1> SUFFICES ASSUME BaseInv, Supplied, [Next]_vars, Scope = "connection"
             PROVE  Supplied'
    BY DEF Supplied
<1> USE BridgeAssumption DEF BaseInv, TypeOK, Supplied
<1>1. ASSUME UNCHANGED supplying,
             \A c \in Conns : pc'[c] \in {"taking", "creating"} => pc'[c] = pc[c]
      PROVE  Supplied'
    BY <1>1
<1>2. ASSUME NEW c \in Conns, TakeWarm(c) \/ CreateBegin(c) PROVE Supplied'
    BY <1>2 DEF TakeWarm, CreateBegin
<1>3. ASSUME NEW c \in Conns, GetWarm(c) PROVE Supplied'
    BY <1>3 DEF GetWarm
<1>4. ASSUME NEW c \in Conns, CreateReturn(c) PROVE Supplied'
    BY <1>4 DEF CreateReturn
<1>5. ASSUME NEW c \in Conns, CreateFail(c) PROVE Supplied'
    BY <1>5 DEF CreateFail
<1>6. ASSUME NEW c \in Conns, GetShared(c) PROVE FALSE
    BY <1>6 DEF GetShared
<1>7. ASSUME NEW c \in Conns,
             Accept(c) \/ ReadFrame(c) \/ ReadBroken(c) \/ ReadEnd(c)
               \/ EnterSession(c) \/ LeaveSession(c) \/ DieInSession(c)
               \/ AnswerLocally(c) \/ WriteFrame(c) \/ WriteLost(c) \/ Client(c)
      PROVE  Supplied'
    BY <1>1, <1>7
    DEF Accept, ReadFrame, ReadBroken, ReadEnd, EnterSession, LeaveSession,
        DieInSession, AnswerLocally, WriteFrame, WriteLost, Client, Disconnect,
        Send
<1>8. CASE UNCHANGED vars
    BY <1>1, <1>8 DEF vars
<1> QED
    BY <1>2, <1>3, <1>4, <1>5, <1>6, <1>7, <1>8 DEF Next, Handle, Provide

(* Under connection scope no two connections ever hold the same card.      *)
THEOREM Isolation == Spec => []CardsNotShared
<1>1. Init => Supplied
    BY BridgeAssumption DEF Init, Supplied
<1>2. BaseInv /\ Supplied => CardsNotShared
    BY BridgeAssumption DEF BaseInv, TypeOK, Supplied, CardsNotShared
<1> QED
    BY <1>1, <1>2, SupplierStep, BaseInvariant, PTL DEF Spec
-----------------------------------------------------------------------------
(* Between frames there is no pending value, and none without a session.   *)
NothingPending ==
  \A c \in Conns :
    /\ pc[c] # "reply" => answer[c].n = 0
    /\ session[c] = None => replies[c] = <<>> /\ answer[c].n = 0

(* What a handler read inside the card is still the card's state.          *)
ViewFresh == \A c \in Conns : pc[c] = "inside" => view[c] = card[session[c]]

(* No value was given out that the card has not reached.                   *)
Below ==
  \A c \in Conns : session[c] # None =>
    /\ answer[c].n <= card[session[c]].value
    /\ \A i \in 1..Len(replies[c]) : replies[c][i].n <= card[session[c]].value

(* No value was given out twice: not by two handlers about to write, not   *)
(* by one about to write and one that has written, not by two replies.     *)
UniquePending ==
  \A c, d \in Conns :
    (c # d /\ session[c] = session[d] /\ answer[c].n # 0)
      => answer[c].n # answer[d].n

UniqueNew ==
  \A c, d \in Conns :
    (session[c] = session[d] /\ answer[c].n # 0)
      => \A j \in 1..Len(replies[d]) : replies[d][j].n # answer[c].n

UniqueWritten ==
  \A c, d \in Conns : session[c] = session[d] =>
    \A i \in 1..Len(replies[c]), j \in 1..Len(replies[d]) :
      ((c # d \/ i # j) /\ replies[c][i].n # 0)
        => replies[c][i].n # replies[d][j].n

CountInv ==
  NothingPending /\ ViewFresh /\ Below /\ UniquePending /\ UniqueNew /\ UniqueWritten

(* A request either answers no value or the one it has just set.           *)
LEMMA CardStepCounts ==
  ASSUME NEW r, NEW s \in CardStates
  PROVE  /\ CardAfter(r, s).value >= s.value
         /\ CardReply(r, s).n \in {0, s.value + 1}
         /\ CardReply(r, s).n # 0 => CardAfter(r, s).value = s.value + 1
         /\ LocalReply(r).n = 0
  BY DEF CardStates, CardAfter, CardReply, LocalReply, Reply

(* Before the first connection no value has been given out.                *)
LEMMA CountInit == Init => CountInv
<1> SUFFICES ASSUME Init PROVE CountInv
    OBVIOUS
<1>1. \A c \in Conns : /\ session[c] = None /\ pc[c] = "none"
                        /\ answer[c].n = 0 /\ replies[c] = <<>>
    BY DEF Init, NoReply, Reply
<1> QED
    BY <1>1 DEF CountInv, NothingPending, ViewFresh, Below, UniquePending,
                UniqueNew, UniqueWritten

(* The values given out by a step that leaves them and the cards alone.    *)
LEMMA QuietValues ==
  ASSUME CountInv, UNCHANGED <<card, session, answer, replies>>
  PROVE  Below' /\ UniquePending' /\ UniqueNew' /\ UniqueWritten'
<1>1. card' = card /\ session' = session /\ answer' = answer /\ replies' = replies
    OBVIOUS
<1>2. Below'
    BY <1>1 DEF CountInv, Below
<1>3. UniquePending'
    BY <1>1 DEF CountInv, UniquePending
<1>4. UniqueNew'
    BY <1>1 DEF CountInv, UniqueNew
<1>5. UniqueWritten'
    BY <1>1 DEF CountInv, UniqueWritten
<1> QED
    BY <1>2, <1>3, <1>4, <1>5

(* Steps of handler c that change neither a card nor a reply nor a session.*)
LEMMA QuietStep ==
  ASSUME BaseInv, CountInv, NEW c \in Conns, NEW l,
         UNCHANGED <<card, session, answer, replies>>,
         pc' = [pc EXCEPT ![c] = l],
         pc[c] # "reply",
         l = "inside" => view' = [view EXCEPT ![c] = card[session[c]]],
         l # "inside" => \A d \in Conns : d = c \/ view'[d] = view[d]
  PROVE  CountInv'
<1> USE DEF BaseInv, TypeOK, CountInv
<1>1. NothingPending'
    BY DEF NothingPending
<1>2. ViewFresh'
    BY DEF ViewFresh
<1> QED
    BY <1>1, <1>2, QuietValues

(* Only LeaveSession gives out a value, a new one, under the monitor.      *)
LEMMA CountStep == BaseInv /\ BaseInv' /\ CountInv /\ [Next]_vars => CountInv'
<1> SUFFICES ASSUME BaseInv, BaseInv', CountInv, [Next]_vars PROVE CountInv'
    OBVIOUS
<1> USE BridgeAssumption
<1>t. /\ \A k \in Cards : card[k].value \in Nat /\ card'[k].value \in Nat
      /\ \A c \in Conns : answer[c].n \in Nat /\ answer'[c].n \in Nat
      /\ \A c \in Conns : \A i \in 1..Len(replies[c]) : replies[c][i].n \in Nat
  <2>1. \A k \in Cards : card[k] \in CardStates /\ card'[k] \in CardStates
      BY DEF BaseInv, TypeOK
  <2>2. \A c \in Conns : answer[c] \in Replies /\ answer'[c] \in Replies
      BY DEF BaseInv, TypeOK
  <2>3. ASSUME NEW c \in Conns, NEW i \in 1..Len(replies[c])
        PROVE  replies[c][i] \in Replies
    <3>1. replies[c] \in Seq(Replies)
        BY DEF BaseInv, TypeOK
    <3> QED
        BY <3>1
  <2> QED
      BY <2>1, <2>2, <2>3 DEF CardStates, Replies
<1>1. ASSUME NEW c \in Conns,
             Accept(c) \/ TakeWarm(c) \/ CreateBegin(c) \/ CreateFail(c)
               \/ ReadFrame(c) \/ ReadBroken(c) \/ ReadEnd(c) \/ EnterSession(c)
      PROVE  CountInv'
    BY <1>1, QuietStep
    DEF Accept, TakeWarm, CreateBegin, CreateFail, ReadFrame, ReadBroken, ReadEnd,
        EnterSession
<1>2. ASSUME NEW c \in Conns, DieInSession(c) PROVE CountInv'
    BY <1>2, QuietStep DEF DieInSession, BaseInv, TypeOK
<1>3. ASSUME NEW c \in Conns,
             GetShared(c) \/ GetWarm(c) \/ CreateReturn(c)
      PROVE  CountInv'
  <2>0. /\ session[c] = None
        /\ UNCHANGED <<card, view, answer, replies>>
        /\ pc' = [pc EXCEPT ![c] = "idle"]
        /\ \E k \in Cards : session' = [session EXCEPT ![c] = k]
      BY <1>3 DEF GetShared, GetWarm, CreateReturn, BaseInv, Attached, Cards
  <2>k. PICK k \in Cards : session' = [session EXCEPT ![c] = k]
      BY <2>0
  <2>a. replies[c] = <<>> /\ answer[c].n = 0
      BY <2>0 DEF CountInv, NothingPending
  <2>b. pc \in [Conns -> PCs] /\ session \in [Conns -> Cards \cup {None}]
      BY DEF BaseInv, TypeOK
  <2> HIDE DEF Cards
  <2>c. k # None
      BY <2>k DEF Cards
  <2>1. NothingPending'
      BY <2>0, <2>k, <2>a, <2>b DEF CountInv, NothingPending
  <2>2. ViewFresh'
      BY <2>0, <2>k, <2>b DEF CountInv, ViewFresh
  <2>3. Below'
      BY <2>0, <2>k, <2>a, <2>b, <1>t DEF CountInv, Below
  <2>4. UniquePending'
      BY <2>0, <2>k, <2>a, <2>b DEF CountInv, UniquePending
  <2>5. UniqueNew'
      BY <2>0, <2>k, <2>a, <2>b DEF CountInv, UniqueNew
  <2>6. UniqueWritten'
      BY <2>0, <2>k, <2>a, <2>b DEF CountInv, UniqueWritten
  <2> QED
      BY <2>1, <2>2, <2>3, <2>4, <2>5, <2>6 DEF CountInv
<1>4. ASSUME NEW c \in Conns, LeaveSession(c) PROVE CountInv'
  <2> DEFINE k == session[c]
             r == Frame(c)
  <2>0. /\ k # None /\ k \in Cards /\ card[k] \in CardStates /\ view[c] = card[k]
        /\ card' = [card EXCEPT ![k] = CardAfter(r, card[k])]
        /\ answer' = [answer EXCEPT ![c] = CardReply(r, card[k])]
        /\ pc' = [pc EXCEPT ![c] = "reply"]
        /\ UNCHANGED <<session, replies>>
        /\ pc[c] = "inside" /\ answer[c].n = 0
        /\ \A d \in Conns \ {c} : view'[d] = view[d]
      BY <1>4 DEF LeaveSession, BaseInv, TypeOK, Attached, CountInv, ViewFresh,
                  NothingPending
  <2>b. /\ pc \in [Conns -> PCs] /\ session \in [Conns -> Cards \cup {None}]
        /\ card \in [Cards -> CardStates] /\ answer \in [Conns -> Replies]
      BY DEF BaseInv, TypeOK
  <2>a. /\ card'[k].value >= card[k].value
        /\ answer'[c].n \in {0, card[k].value + 1}
        /\ answer'[c].n # 0 => card'[k].value = card[k].value + 1
        /\ \A j \in Cards : j # k => card'[j] = card[j]
        /\ \A d \in Conns : d # c => answer'[d] = answer[d]
      BY <2>0, <2>b, CardStepCounts
  <2>1. NothingPending'
      BY <2>0, <2>a, <2>b DEF CountInv, NothingPending, BaseInv, Attached
  <2>2. ViewFresh'
      BY <2>0, <2>a, <2>b DEF CountInv, ViewFresh, BaseInv, MonitorHeld
  <2>3. Below'
      BY <2>0, <2>a, <2>b, <1>t DEF CountInv, Below
  <2>4. UniquePending'
    <3> SUFFICES ASSUME NEW d \in Conns, NEW e \in Conns, d # e,
                        session[d] = session[e], answer'[d].n # 0
                 PROVE  answer'[d].n # answer'[e].n
        BY <2>0 DEF UniquePending
    <3>1. CASE d = c
      <4>1. answer'[e].n <= card[k].value
          BY <3>1, <2>0, <2>a, <2>b DEF CountInv, Below
      <4> QED
          BY <3>1, <4>1, <2>0, <2>a, <1>t
    <3>2. CASE e = c
      <4>1. answer'[d].n <= card[k].value
          BY <3>2, <2>0, <2>a, <2>b DEF CountInv, Below
      <4> QED
          BY <3>2, <4>1, <2>0, <2>a, <1>t
    <3>3. CASE d # c /\ e # c
        BY <3>3, <2>a DEF CountInv, UniquePending
    <3> QED
        BY <3>1, <3>2, <3>3
  <2>5. UniqueNew'
    <3> SUFFICES ASSUME NEW d \in Conns, NEW e \in Conns,
                        session[d] = session[e], answer'[d].n # 0,
                        NEW j \in 1..Len(replies[e])
                 PROVE  replies[e][j].n # answer'[d].n
        BY <2>0 DEF UniqueNew
    <3>1. CASE d = c
      <4>1. replies[e][j].n <= card[k].value
          BY <3>1, <2>0 DEF CountInv, Below
      <4> QED
          BY <3>1, <4>1, <2>0, <2>a, <1>t
    <3>2. CASE d # c
        BY <3>2, <2>a DEF CountInv, UniqueNew
    <3> QED
        BY <3>1, <3>2
  <2>6. UniqueWritten'
      BY <2>0 DEF CountInv, UniqueWritten
  <2> QED
      BY <2>1, <2>2, <2>3, <2>4, <2>5, <2>6 DEF CountInv
<1>5. ASSUME NEW c \in Conns, AnswerLocally(c) \/ WriteLost(c) PROVE CountInv'
  <2>0. /\ answer'[c].n = 0
        /\ \A d \in Conns : d # c => answer'[d] = answer[d]
        /\ UNCHANGED <<card, view, session, replies>>
        /\ session[c] # None
        /\ \E l \in PCs \ {"inside"} : pc' = [pc EXCEPT ![c] = l]
      BY <1>5, CardStepCounts
      DEF AnswerLocally, WriteLost, NoReply, Reply, BaseInv, TypeOK, Attached,
          CardStates, FreshCard, PCs, LocalReply
  <2>b. pc \in [Conns -> PCs] /\ session \in [Conns -> Cards \cup {None}]
      BY DEF BaseInv, TypeOK
  <2>1. NothingPending'
      BY <2>0, <2>b DEF CountInv, NothingPending
  <2>2. ViewFresh'
      BY <2>0, <2>b DEF CountInv, ViewFresh
  <2>3. Below'
      BY <2>0, <2>b, <1>t DEF CountInv, Below
  <2>4. UniquePending'
      BY <2>0 DEF CountInv, UniquePending
  <2>5. UniqueNew'
      BY <2>0 DEF CountInv, UniqueNew
  <2>6. UniqueWritten'
      BY <2>0 DEF CountInv, UniqueWritten
  <2> QED
      BY <2>1, <2>2, <2>3, <2>4, <2>5, <2>6 DEF CountInv
<1>6. ASSUME NEW c \in Conns, WriteFrame(c) PROVE CountInv'
  <2> DEFINE m == Len(replies[c])
  <2>b. /\ pc \in [Conns -> PCs] /\ session \in [Conns -> Cards \cup {None}]
        /\ replies \in [Conns -> Seq(Replies)] /\ answer \in [Conns -> Replies]
      BY DEF BaseInv, TypeOK
  <2>0. /\ answer'[c].n = 0
        /\ \A d \in Conns : d # c => answer'[d] = answer[d]
        /\ \A d \in Conns : d # c => replies'[d] = replies[d]
        /\ replies'[c] = Append(replies[c], answer[c])
        /\ UNCHANGED <<card, view, session>>
        /\ session[c] # None
        /\ pc' = [pc EXCEPT ![c] = "idle"]
      BY <1>6, <2>b DEF WriteFrame, NoReply, Reply, BaseInv, Attached
  <2>a. /\ m \in Nat /\ Len(replies'[c]) = m + 1
        /\ replies'[c][m + 1] = answer[c]
        /\ \A i \in 1..m : replies'[c][i] = replies[c][i]
      BY <2>0, <2>b
  <2>1. NothingPending'
      BY <2>0, <2>b DEF CountInv, NothingPending
  <2>2. ViewFresh'
      BY <2>0, <2>b DEF CountInv, ViewFresh
  <2>3. Below'
    <3> SUFFICES ASSUME NEW d \in Conns, session[d] # None
                 PROVE  /\ answer'[d].n <= card[session[d]].value
                        /\ \A i \in 1..Len(replies'[d]) :
                              replies'[d][i].n <= card[session[d]].value
        BY <2>0 DEF Below
    <3>1. CASE d = c
      <4>1. card[session[c]].value \in Nat
          BY <3>1, <2>b, <1>t
      <4>2. ASSUME NEW i \in 1..Len(replies'[c])
            PROVE  replies'[c][i].n <= card[session[c]].value
        <5>1. CASE i = m + 1
            BY <5>1, <2>0, <2>a DEF CountInv, Below
        <5>2. CASE i \in 1..m
            BY <5>2, <2>0, <2>a DEF CountInv, Below
        <5> QED
            BY <5>1, <5>2, <2>a
      <4> QED
          BY <3>1, <4>1, <4>2, <2>0
    <3>2. CASE d # c
        BY <3>2, <2>0 DEF CountInv, Below
    <3> QED
        BY <3>1, <3>2
  <2>4. UniquePending'
      BY <2>0 DEF CountInv, UniquePending
  <2>5. UniqueNew'
    <3> SUFFICES ASSUME NEW d \in Conns, NEW e \in Conns,
                        session[d] = session[e], answer'[d].n # 0,
                        NEW j \in 1..Len(replies'[e])
                 PROVE  replies'[e][j].n # answer'[d].n
        BY <2>0 DEF UniqueNew
    <3>0. d # c /\ answer'[d] = answer[d]
        BY <2>0
    <3>1. CASE e = c /\ j = m + 1
        BY <3>0, <3>1, <2>0, <2>a DEF CountInv, UniquePending
    <3>2. CASE e = c /\ j \in 1..m
        BY <3>0, <3>2, <2>0, <2>a DEF CountInv, UniqueNew
    <3>3. CASE e # c
        BY <3>0, <3>3, <2>0 DEF CountInv, UniqueNew
    <3> QED
        BY <3>1, <3>2, <3>3, <2>a
  <2>6. UniqueWritten'
    <3> SUFFICES ASSUME NEW d \in Conns, NEW e \in Conns,
                        session[d] = session[e],
                        NEW i \in 1..Len(replies'[d]),
                        NEW j \in 1..Len(replies'[e]),
                        d # e \/ i # j,
                        replies'[d][i].n # 0
                 PROVE  replies'[d][i].n # replies'[e][j].n
        BY <2>0 DEF UniqueWritten
    <3>1. CASE d = c /\ i = m + 1
        BY <3>1, <2>0, <2>a DEF CountInv, UniqueNew
    <3>2. CASE e = c /\ j = m + 1
      <4>1. CASE d = c
        <5>1. i \in 1..m /\ replies'[d][i] = replies[c][i]
            BY <3>2, <4>1, <2>a
        <5> QED
            BY <3>2, <4>1, <5>1, <2>0, <2>a DEF CountInv, UniqueNew
      <4>2. CASE d # c
        <5>1. i \in 1..Len(replies[d]) /\ replies'[d][i] = replies[d][i]
            BY <4>2, <2>0
        <5> QED
            BY <3>2, <4>2, <5>1, <2>0, <2>a DEF CountInv, UniqueNew
      <4> QED
          BY <4>1, <4>2
    <3>3. CASE ~(d = c /\ i = m + 1) /\ ~(e = c /\ j = m + 1)
      <4>1. /\ i \in 1..Len(replies[d]) /\ replies'[d][i] = replies[d][i]
            /\ j \in 1..Len(replies[e]) /\ replies'[e][j] = replies[e][j]
        <5>1. CASE d = c /\ e = c
            BY <3>3, <5>1, <2>a
        <5>2. CASE d = c /\ e # c
            BY <3>3, <5>2, <2>0, <2>a
        <5>3. CASE d # c /\ e = c
            BY <3>3, <5>3, <2>0, <2>a
        <5>4. CASE d # c /\ e # c
            BY <5>4, <2>0
        <5> QED
            BY <5>1, <5>2, <5>3, <5>4
      <4> QED
          BY <4>1 DEF CountInv, UniqueWritten
    <3> QED
        BY <3>1, <3>2, <3>3
  <2> QED
      BY <2>1, <2>2, <2>3, <2>4, <2>5, <2>6 DEF CountInv
<1>7. CASE UNCHANGED <<pc, card, view, session, answer, replies>>
    BY <1>7, QuietValues DEF CountInv, NothingPending, ViewFresh
<1>8. ASSUME NEW c \in Conns, Client(c)
      PROVE  UNCHANGED <<pc, card, view, session, answer, replies>>
    BY <1>8 DEF Client, Disconnect, Send
<1> QED
    BY <1>1, <1>2, <1>3, <1>4, <1>5, <1>6, <1>7, <1>8
    DEF Next, Handle, Provide, vars

(* No increment is lost: INC responses of one card never repeat a value.   *)
THEOREM IncrementsKept == Spec => []NoLostIncrement
<1>1. BaseInv /\ CountInv => NoLostIncrement
  <2> SUFFICES ASSUME BaseInv, CountInv, NEW c \in Conns, NEW d \in Conns,
                      session[c] = session[d],
                      NEW i \in DOMAIN replies[c], NEW j \in DOMAIN replies[d],
                      <<c, i>> # <<d, j>>, replies[c][i].n # 0
               PROVE  replies[c][i].n # replies[d][j].n
      BY DEF NoLostIncrement
  <2>1. i \in 1..Len(replies[c]) /\ j \in 1..Len(replies[d])
      BY DEF BaseInv, TypeOK
  <2> QED
      BY <2>1 DEF CountInv, UniqueWritten
<1> QED
    BY <1>1, BaseInvariant, CountInit, CountStep, PTL DEF Spec
-----------------------------------------------------------------------------
(* The recursive definition of SoloRun, as an equation on g over 0..n.     *)
IsSoloRun(g, s, n) ==
  g = [i \in 0..n |-> IF i = 0 THEN FreshCard ELSE CardAfter(s[i], g[i - 1])]

(* Such a function exists for every n.                                     *)
LEMMA SoloRunExists ==
  ASSUME NEW s, NEW m \in Nat
  PROVE  \E g : IsSoloRun(g, s, m)
<1> DEFINE S == {n \in Nat : \E g : IsSoloRun(g, s, n)}
<1>1. 0 \in S
  <2>1. IsSoloRun([i \in 0..0 |-> FreshCard], s, 0)
      BY DEF IsSoloRun
  <2> QED
      BY <2>1
<1>2. ASSUME NEW n \in Nat, n \in S PROVE n + 1 \in S
  <2>1. PICK g : IsSoloRun(g, s, n)
      BY <1>2
  <2> DEFINE h == [i \in 0..(n + 1) |->
                     IF i = n + 1 THEN CardAfter(s[n + 1], g[n]) ELSE g[i]]
  <2>2. \A i \in 0..n :
          g[i] = IF i = 0 THEN FreshCard ELSE CardAfter(s[i], g[i - 1])
      BY <2>1 DEF IsSoloRun
  <2>3. \A i \in 0..(n + 1) :
          h[i] = IF i = 0 THEN FreshCard ELSE CardAfter(s[i], h[i - 1])
      BY <2>2
  <2>4. h = [i \in 0..(n + 1) |-> h[i]]
      OBVIOUS
  <2> HIDE DEF h
  <2>5. IsSoloRun(h, s, n + 1)
      BY <2>3, <2>4 DEF IsSoloRun
  <2> QED
      BY <2>5
<1> HIDE DEF S
<1>3. Nat \subseteq S
    BY <1>1, <1>2, SetInduction
<1> QED
    BY <1>3 DEF S

(* So SoloRun is what its definition says: it starts with a fresh card and *)
(* every frame acts on the state before it.                                *)
LEMMA SoloRunSteps ==
  ASSUME NEW s \in Seq(Requests)
  PROVE  /\ SoloRun(s)[0] = FreshCard
         /\ \A i \in 1..Len(s) :
              SoloRun(s)[i] = CardAfter(s[i], SoloRun(s)[i - 1])
<1>1. Len(s) \in Nat
    OBVIOUS
<1>2. \E g : IsSoloRun(g, s, Len(s))
    BY <1>1, SoloRunExists
<1>3. IsSoloRun(SoloRun(s), s, Len(s))
    BY <1>2, Zenon DEF IsSoloRun, SoloRun
<1> QED
    BY <1>1, <1>3 DEF IsSoloRun

(* A frame that is yet to come does not change the states so far.          *)
LEMMA SoloRunPrefix ==
  ASSUME NEW s \in Seq(Requests), NEW r \in Requests, NEW k \in 0..Len(s)
  PROVE  SoloRun(Append(s, r))[k] = SoloRun(s)[k]
<1> DEFINE t == Append(s, r)
           S == {n \in Nat : n <= Len(s) => SoloRun(t)[n] = SoloRun(s)[n]}
<1>1. /\ t \in Seq(Requests) /\ Len(t) = Len(s) + 1 /\ Len(s) \in Nat
      /\ \A i \in 1..Len(s) : t[i] = s[i]
    OBVIOUS
<1> HIDE DEF t
<1>2. 0 \in S
    BY <1>1, SoloRunSteps
<1>3. ASSUME NEW n \in Nat, n \in S PROVE n + 1 \in S
  <2>1. CASE n + 1 <= Len(s)
    <3>1. SoloRun(t)[n + 1] = CardAfter(t[n + 1], SoloRun(t)[n])
        BY <1>1, <2>1, SoloRunSteps
    <3>2. SoloRun(s)[n + 1] = CardAfter(s[n + 1], SoloRun(s)[n])
        BY <1>1, <2>1, SoloRunSteps
    <3>3. SoloRun(t)[n] = SoloRun(s)[n] /\ t[n + 1] = s[n + 1]
        BY <1>1, <1>3, <2>1
    <3> QED
        BY <3>1, <3>2, <3>3
  <2> QED
      BY <1>1, <2>1
<1> HIDE DEF S
<1>4. Nat \subseteq S
    BY <1>2, <1>3, SetInduction
<1> QED
    BY <1>1, <1>4 DEF S, t

(* How many frames of c have acted on its card.                            *)
Executed(c) == IF pc[c] \in {"dispatch", "inside"} THEN read[c] - 1 ELSE read[c]

(* No frame is read without a session, and a handler past readFrame has    *)
(* one.                                                                    *)
FramesRead ==
  \A c \in Conns :
    /\ pc[c] \in {"dispatch", "inside", "reply"} => read[c] > 0
    /\ session[c] = None => read[c] = 0 /\ replies[c] = <<>>

(* As long as the client is there each frame has its reply, or is being    *)
(* worked on.                                                              *)
RepliesCounted ==
  \A c \in Conns :
    /\ Len(replies[c]) <= read[c]
    /\ (~gone[c] /\ pc[c] \in {"dispatch", "inside", "reply"})
          => Len(replies[c]) = read[c] - 1
    /\ (~gone[c] /\ pc[c] = "idle") => Len(replies[c]) = read[c]

(* Only requests for the card take its monitor.                            *)
InsideAsked == \A c \in Conns : pc[c] = "inside" => sent[c][read[c]] \in CardKinds

(* A card is in the state its holder's frames alone bring it to.           *)
CardIsSolo ==
  /\ \A c \in Conns :
       (session[c] # None /\ pc[c] # "closed")
         => card[session[c]] = SoloRun(sent[c])[Executed(c)]
  /\ \A k \in Cards : (\A c \in Conns : session[c] # k) => card[k] = FreshCard

AnswerIsSolo ==
  \A c \in Conns : pc[c] = "reply" =>
    answer[c] = ReplyTo(sent[c][read[c]], SoloRun(sent[c])[read[c] - 1])

RepliesAreSolo ==
  \A c \in Conns : \A i \in 1..Len(replies[c]) :
    replies[c][i] = ReplyTo(sent[c][i], SoloRun(sent[c])[i - 1])

SoloInv ==
  /\ FramesRead /\ RepliesCounted /\ InsideAsked
  /\ CardIsSolo /\ AnswerIsSolo /\ RepliesAreSolo

(* Before the first connection.                                            *)
LEMMA SoloInit == Init => SoloInv
  BY DEF Init, SoloInv, FramesRead, RepliesCounted, InsideAsked, CardIsSolo,
         AnswerIsSolo, RepliesAreSolo

(* Frames are read and answered one by one.                                *)
LEMMA FramesStep ==
  ASSUME BaseInv, FramesRead, RepliesCounted, [Next]_vars
  PROVE  FramesRead' /\ RepliesCounted'
<1> USE DEF FramesRead, RepliesCounted
<1>t. /\ pc \in [Conns -> PCs] /\ session \in [Conns -> Cards \cup {None}]
      /\ read \in [Conns -> 0..MaxFrames] /\ replies \in [Conns -> Seq(Replies)]
      /\ gone \in [Conns -> BOOLEAN] /\ sent \in [Conns -> Seq(Requests)]
    BY DEF BaseInv, TypeOK
<1>1. ASSUME NEW c \in Conns, NEW l \in {"started", "taking", "creating", "closed"},
             pc' = [pc EXCEPT ![c] = l], UNCHANGED <<session, onWire>>
      PROVE  FramesRead' /\ RepliesCounted'
    BY <1>1, <1>t
<1>2. ASSUME NEW c \in Conns, GetShared(c) \/ GetWarm(c) \/ CreateReturn(c)
      PROVE  FramesRead' /\ RepliesCounted'
  <2>1. /\ session[c] = None /\ UNCHANGED onWire
        /\ pc' = [pc EXCEPT ![c] = "idle"]
        /\ \E k \in Cards : session' = [session EXCEPT ![c] = k]
      BY <1>2 DEF GetShared, GetWarm, CreateReturn, BaseInv, Attached, Cards
  <2>2. \A d \in Conns : session'[d] = None => session[d] = None
      BY <2>1, <1>t, BridgeAssumption DEF Cards
  <2>3. read[c] = 0 /\ replies[c] = <<>>
      BY <2>1
  <2> QED
      BY <2>1, <2>2, <2>3, <1>t
<1>3. ASSUME NEW c \in Conns, ReadFrame(c) PROVE FramesRead' /\ RepliesCounted'
    BY <1>3, <1>t DEF ReadFrame, BaseInv, Attached
<1>4. ASSUME NEW c \in Conns,
             EnterSession(c) \/ LeaveSession(c) \/ DieInSession(c)
               \/ AnswerLocally(c)
      PROVE  FramesRead' /\ RepliesCounted'
    BY <1>4, <1>t DEF EnterSession, LeaveSession, DieInSession, AnswerLocally
<1>5. ASSUME NEW c \in Conns, WriteFrame(c) PROVE FramesRead' /\ RepliesCounted'
    BY <1>5, <1>t DEF WriteFrame, BaseInv, Attached
<1>6. ASSUME NEW c \in Conns, WriteLost(c) PROVE FramesRead' /\ RepliesCounted'
    BY <1>6, <1>t DEF WriteLost
<1>7. ASSUME NEW c \in Conns, Client(c) PROVE FramesRead' /\ RepliesCounted'
  <2>1. /\ UNCHANGED <<pc, session, read, replies>>
        /\ \A d \in Conns : gone[d] => gone'[d]
      BY <1>7, <1>t DEF Client, Disconnect, Send, Connected
  <2> QED
      BY <2>1
<1>8. CASE UNCHANGED vars
    BY <1>8 DEF vars
<1>9. ASSUME NEW c \in Conns,
             Accept(c) \/ TakeWarm(c) \/ CreateBegin(c) \/ CreateFail(c)
               \/ ReadBroken(c) \/ ReadEnd(c)
      PROVE  FramesRead' /\ RepliesCounted'
    BY <1>1, <1>9 DEF Accept, TakeWarm, CreateBegin, CreateFail, ReadBroken, ReadEnd
<1> HIDE DEF FramesRead, RepliesCounted
<1> QED
    BY <1>2, <1>3, <1>4, <1>5, <1>6, <1>7, <1>8, <1>9
    DEF Next, Handle, Provide

(* A frame that has been read does not change under the handler.           *)
LEMMA InsideStep ==
  ASSUME BaseInv, FramesRead, InsideAsked, [Next]_vars
  PROVE  InsideAsked'
<1>t. /\ pc \in [Conns -> PCs] /\ read \in [Conns -> 0..MaxFrames]
      /\ sent \in [Conns -> Seq(Requests)]
    BY DEF BaseInv, TypeOK
<1>1. ASSUME NEW c \in Conns, pc'[c] = "inside"
      PROVE  /\ pc[c] \in {"dispatch", "inside"} /\ read'[c] = read[c]
             /\ sent[c][read[c]] \in CardKinds
             /\ sent'[c] = sent[c]
                  \/ \E r \in Requests : sent'[c] = Append(sent[c], r)
    BY <1>1, <1>t
    DEF InsideAsked, Next, Handle, Provide, Client, Accept, GetShared, TakeWarm,
        GetWarm, CreateBegin, CreateReturn, CreateFail, ReadFrame, ReadBroken, ReadEnd,
        EnterSession, LeaveSession, DieInSession, AnswerLocally, WriteFrame,
        WriteLost, Disconnect, Send, vars
<1>2. ASSUME NEW c \in Conns, pc'[c] = "inside"
      PROVE  sent'[c][read'[c]] = sent[c][read[c]]
  <2>1. read[c] \in 1..Len(sent[c]) /\ sent[c] \in Seq(Requests)
      BY <1>1, <1>2, <1>t DEF FramesRead, BaseInv, WireOK
  <2> QED
      BY <1>1, <1>2, <2>1
<1> QED
    BY <1>1, <1>2 DEF InsideAsked

(* A request the handler answers itself would not change the card.         *)
LEMMA LocalKeepsCard ==
  ASSUME NEW r \in LocalKinds, NEW s \in CardStates
  PROVE  CardAfter(r, s) = s /\ ReplyTo(r, s) = LocalReply(r)
  BY DEF LocalKinds, CardKinds, ApduKinds, CardStates, CardAfter, ReplyTo

(* Steps that execute no frame and hand out no card.                       *)
LEMMA SoloQuiet ==
  ASSUME SoloInv, UNCHANGED <<session, card, sent, replies, answer>>,
         \A c \in Conns : /\ pc'[c] # "closed"
                             => pc[c] # "closed" /\ Executed(c)' = Executed(c)
                          /\ pc'[c] = "reply" => pc[c] = "reply" /\ read'[c] = read[c]
  PROVE  CardIsSolo' /\ AnswerIsSolo' /\ RepliesAreSolo'
  BY DEF SoloInv, CardIsSolo, AnswerIsSolo, RepliesAreSolo

(* Under connection scope each card stays its holder's alone.              *)
LEMMA SoloStep ==
  ASSUME BaseInv, BaseInv', Supplied, CountInv, SoloInv, Scope = "connection",
         [Next]_vars
  PROVE  SoloInv'
<1> USE BridgeAssumption
<1>t. /\ pc \in [Conns -> PCs] /\ session \in [Conns -> Cards \cup {None}]
      /\ read \in [Conns -> 0..MaxFrames] /\ replies \in [Conns -> Seq(Replies)]
      /\ sent \in [Conns -> Seq(Requests)] /\ answer \in [Conns -> Replies]
      /\ card \in [Cards -> CardStates]
    BY DEF BaseInv, TypeOK
<1>f. FramesRead' /\ RepliesCounted' /\ InsideAsked'
    BY FramesStep, InsideStep DEF SoloInv
<1> DEFINE Solo == CardIsSolo' /\ AnswerIsSolo' /\ RepliesAreSolo'
<1>0. SUFFICES Solo
    BY <1>f DEF SoloInv
<1>1. ASSUME NEW c \in Conns,
             Accept(c) \/ TakeWarm(c) \/ CreateBegin(c) \/ CreateFail(c)
               \/ ReadBroken(c) \/ ReadEnd(c) \/ ReadFrame(c) \/ EnterSession(c)
               \/ DieInSession(c)
      PROVE  Solo
  <2>1. /\ UNCHANGED <<session, card, sent, replies, answer>>
        /\ \A d \in Conns : d # c => pc'[d] = pc[d] /\ read'[d] = read[d]
      BY <1>1, <1>t DEF Accept, TakeWarm, CreateBegin, CreateFail, ReadFrame,
                        ReadBroken, ReadEnd, EnterSession, DieInSession
  <2>2. /\ pc'[c] # "closed" => pc[c] # "closed" /\ Executed(c)' = Executed(c)
        /\ pc'[c] # "reply"
      BY <1>1, <1>t DEF Accept, TakeWarm, CreateBegin, CreateFail, ReadFrame,
                        ReadBroken, ReadEnd, EnterSession, DieInSession,
                        Executed
  <2>3. \A d \in Conns : d # c => Executed(d)' = Executed(d)
      BY <2>1 DEF Executed
  <2> QED
      BY <2>1, <2>2, <2>3, SoloQuiet
<1>2. ASSUME NEW c \in Conns, GetWarm(c) \/ CreateReturn(c) PROVE Solo
  <2>1. /\ session[c] = None /\ UNCHANGED <<card, sent, read, replies, answer>>
        /\ pc' = [pc EXCEPT ![c] = "idle"]
      BY <1>2 DEF GetWarm, CreateReturn, BaseInv, Attached
  <2>2. PICK k \in Cards : /\ session' = [session EXCEPT ![c] = k]
                           /\ \A d \in Conns : session[d] # k
      BY <1>2, <2>1 DEF GetWarm, CreateReturn, Supplied, Cards
  <2>3. /\ card[k] = FreshCard /\ read[c] = 0 /\ replies[c] = <<>>
      BY <2>1, <2>2 DEF SoloInv, CardIsSolo, FramesRead
  <2>4. SoloRun(sent[c])[0] = FreshCard
      BY <1>t, SoloRunSteps
  <2>5. Executed(c)' = 0 /\ \A d \in Conns : d # c => Executed(d)' = Executed(d)
      BY <2>1, <2>3, <1>t DEF Executed
  <2>6. CardIsSolo'
    <3>1. ASSUME NEW d \in Conns, session'[d] # None, pc'[d] # "closed"
          PROVE  card'[session'[d]] = SoloRun(sent'[d])[Executed(d)']
      <4>1. CASE d = c
          BY <4>1, <2>1, <2>2, <2>3, <2>4, <2>5, <1>t
      <4>2. CASE d # c
          BY <3>1, <4>2, <2>1, <2>2, <2>5, <1>t DEF SoloInv, CardIsSolo
      <4> QED
          BY <4>1, <4>2
    <3>2. ASSUME NEW j \in Cards, \A d \in Conns : session'[d] # j
          PROVE  card'[j] = FreshCard
      <4>1. \A d \in Conns : session[d] # j
          BY <3>2, <2>1, <2>2, <1>t DEF Cards
      <4> QED
          BY <4>1, <2>1 DEF SoloInv, CardIsSolo
    <3> QED
        BY <3>1, <3>2 DEF CardIsSolo
  <2>7. AnswerIsSolo' /\ RepliesAreSolo'
      BY <2>1, <1>t DEF SoloInv, AnswerIsSolo, RepliesAreSolo
  <2> QED
      BY <2>6, <2>7
<1>3. ASSUME NEW c \in Conns, LeaveSession(c) \/ AnswerLocally(c) PROVE Solo
  <2> DEFINE k == session[c]
             r == sent[c][read[c]]
             n == read[c]
  <2>0. pc[c] \in {"dispatch", "inside"}
      BY <1>3 DEF LeaveSession, AnswerLocally
  <2>1. /\ k # None /\ k \in Cards /\ card[k] \in CardStates
        /\ n \in 1..Len(sent[c])
    <3>1. k # None /\ n > 0
        BY <2>0 DEF BaseInv, Attached, SoloInv, FramesRead
    <3> QED
        BY <3>1, <1>t DEF BaseInv, WireOK
  <2>a. card[k] = SoloRun(sent[c])[n - 1]
      BY <2>0, <2>1 DEF SoloInv, CardIsSolo, Executed
  <2>2. /\ UNCHANGED <<session, sent, read, replies>>
        /\ pc' = [pc EXCEPT ![c] = "reply"]
      BY <1>3 DEF LeaveSession, AnswerLocally
  <2>3. /\ card' = [card EXCEPT ![k] = CardAfter(r, card[k])]
        /\ answer' = [answer EXCEPT ![c] = ReplyTo(r, card[k])]
    <3>1. CASE LeaveSession(c)
      <4>1. view[c] = card[k]
          BY <3>1 DEF LeaveSession, CountInv, ViewFresh
      <4>2. r \in CardKinds
          BY <3>1 DEF LeaveSession, SoloInv, InsideAsked
      <4> QED
          BY <3>1, <4>1, <4>2 DEF LeaveSession, ReplyTo
    <3>2. CASE AnswerLocally(c)
      <4>1. r \in LocalKinds
          BY <3>2 DEF AnswerLocally
      <4>2. CardAfter(r, card[k]) = card[k] /\ ReplyTo(r, card[k]) = LocalReply(r)
          BY <4>1, <2>1, LocalKeepsCard
      <4> QED
          BY <3>2, <4>2, <2>1, <1>t DEF AnswerLocally
    <3> QED
        BY <1>3, <3>1, <3>2
  <2>4. SoloRun(sent[c])[n] = CardAfter(r, card[k])
      BY <2>1, <2>a, <1>t, SoloRunSteps
  <2>5. Executed(c)' = n /\ \A d \in Conns : d # c => Executed(d)' = Executed(d)
      BY <2>2, <1>t DEF Executed
  <2>6. \A d \in Conns : d # c => session[d] # k
      BY <2>1 DEF Supplied
  <2>7. CardIsSolo'
    <3>1. ASSUME NEW d \in Conns, session'[d] # None, pc'[d] # "closed"
          PROVE  card'[session'[d]] = SoloRun(sent'[d])[Executed(d)']
      <4>1. CASE d = c
          BY <4>1, <2>1, <2>2, <2>3, <2>4, <2>5, <1>t
      <4>2. CASE d # c
          BY <3>1, <4>2, <2>1, <2>2, <2>3, <2>5, <2>6, <1>t
          DEF SoloInv, CardIsSolo
      <4> QED
          BY <4>1, <4>2
    <3>2. ASSUME NEW j \in Cards, \A d \in Conns : session'[d] # j
          PROVE  card'[j] = FreshCard
        BY <3>2, <2>1, <2>2, <2>3, <1>t DEF SoloInv, CardIsSolo
    <3> QED
        BY <3>1, <3>2 DEF CardIsSolo
  <2>8. AnswerIsSolo'
      BY <2>2, <2>3, <2>a, <1>t DEF SoloInv, AnswerIsSolo
  <2>9. RepliesAreSolo'
      BY <2>2 DEF SoloInv, RepliesAreSolo
  <2> QED
      BY <2>7, <2>8, <2>9
<1>4. ASSUME NEW c \in Conns, WriteFrame(c) \/ WriteLost(c) PROVE Solo
  <2>1. /\ UNCHANGED <<session, card, sent, read>>
        /\ pc[c] = "reply"
        /\ \E l \in {"idle", "closed"} : pc' = [pc EXCEPT ![c] = l]
      BY <1>4 DEF WriteFrame, WriteLost
  <2>2. \A d \in Conns : d # c => answer'[d] = answer[d] /\ pc'[d] = pc[d]
      BY <1>4, <2>1, <1>t DEF WriteFrame, WriteLost
  <2>3. CardIsSolo'
    <3>1. \A d \in Conns : pc'[d] # "closed" =>
             pc[d] # "closed" /\ Executed(d)' = Executed(d)
        BY <2>1, <2>2, <1>t DEF Executed
    <3> QED
        BY <2>1, <3>1 DEF SoloInv, CardIsSolo
  <2>4. AnswerIsSolo'
      BY <2>1, <2>2, <1>t DEF SoloInv, AnswerIsSolo
  <2>5. RepliesAreSolo'
    <3>1. CASE WriteLost(c)
        BY <2>1, <3>1 DEF WriteLost, SoloInv, RepliesAreSolo
    <3>2. CASE WriteFrame(c)
      <4>1. /\ replies'[c] = Append(replies[c], answer[c])
            /\ \A d \in Conns : d # c => replies'[d] = replies[d]
            /\ Len(replies[c]) = read[c] - 1
          BY <3>2, <1>t DEF WriteFrame, SoloInv, RepliesCounted
      <4>2. /\ Len(replies'[c]) = read[c] /\ replies'[c][read[c]] = answer[c]
            /\ \A i \in 1..(read[c] - 1) : replies'[c][i] = replies[c][i]
          BY <4>1, <1>t
      <4>3. answer[c] = ReplyTo(sent[c][read[c]], SoloRun(sent[c])[read[c] - 1])
          BY <2>1 DEF SoloInv, AnswerIsSolo
      <4>4. ASSUME NEW d \in Conns, NEW i \in 1..Len(replies'[d])
            PROVE  replies'[d][i] = ReplyTo(sent[d][i], SoloRun(sent[d])[i - 1])
        <5>1. CASE d # c
            BY <4>1, <5>1 DEF SoloInv, RepliesAreSolo
        <5>2. CASE d = c /\ i = read[c]
            BY <4>2, <4>3, <5>2
        <5>3. CASE d = c /\ i # read[c]
          <6>1. i \in 1..(read[c] - 1)
              BY <4>2, <5>3, <1>t
          <6> QED
              BY <4>1, <4>2, <5>3, <6>1 DEF SoloInv, RepliesAreSolo
        <5> QED
            BY <5>1, <5>2, <5>3
      <4> QED
          BY <2>1, <4>4 DEF RepliesAreSolo
    <3> QED
        BY <1>4, <3>1, <3>2
  <2> QED
      BY <2>3, <2>4, <2>5
<1>5. ASSUME NEW c \in Conns, NEW r \in Requests, Send(c, r) PROVE Solo
  <2>1. /\ UNCHANGED <<pc, session, card, read, answer, replies>>
        /\ sent' = [sent EXCEPT ![c] = Append(sent[c], r)]
      BY <1>5 DEF Send
  <2>2. \A d \in Conns : Executed(d)' = Executed(d)
      BY <2>1 DEF Executed
  <2>3. ASSUME NEW d \in Conns, NEW j \in 0..Len(sent[d])
        PROVE  SoloRun(sent'[d])[j] = SoloRun(sent[d])[j]
    <3>1. CASE d = c
      <4>1. sent[c] \in Seq(Requests) /\ sent'[c] = Append(sent[c], r)
          BY <2>1, <1>t
      <4> QED
          BY <3>1, <4>1, SoloRunPrefix
    <3> QED
        BY <2>1, <3>1, <1>t
  <2>4. ASSUME NEW d \in Conns, NEW j \in 1..Len(sent[d])
        PROVE  sent'[d][j] = sent[d][j]
      BY <2>1, <1>t
  <2>5. \A d \in Conns : read[d] \in 0..Len(sent[d])
      BY <1>t DEF BaseInv, WireOK
  <2>6. CardIsSolo'
    <3>1. \A d \in Conns : Executed(d) \in 0..Len(sent[d])
        BY <2>5, <1>t DEF Executed, SoloInv, FramesRead
    <3> QED
        BY <2>1, <2>2, <2>3, <3>1 DEF SoloInv, CardIsSolo
  <2>7. AnswerIsSolo'
    <3>1. \A d \in Conns : pc[d] = "reply" =>
             read[d] \in 1..Len(sent[d]) /\ read[d] - 1 \in 0..Len(sent[d])
        BY <2>5, <1>t DEF SoloInv, FramesRead
    <3> QED
        BY <2>1, <2>3, <2>4, <3>1 DEF SoloInv, AnswerIsSolo
  <2>8. RepliesAreSolo'
    <3>1. \A d \in Conns : \A i \in 1..Len(replies[d]) :
             i \in 1..Len(sent[d]) /\ i - 1 \in 0..Len(sent[d])
        BY <2>5, <1>t DEF SoloInv, RepliesCounted
    <3> QED
        BY <2>1, <2>3, <2>4, <3>1 DEF SoloInv, RepliesAreSolo
  <2> QED
      BY <2>6, <2>7, <2>8
<1>6. CASE (\E c \in Conns : Disconnect(c)) \/ UNCHANGED vars
  <2>1. UNCHANGED <<pc, session, card, sent, read, answer, replies>>
      BY <1>6 DEF Disconnect, vars
  <2> QED
      BY <2>1, SoloQuiet DEF Executed
<1>7. ASSUME NEW c \in Conns, GetShared(c) PROVE FALSE
    BY <1>7 DEF GetShared
<1> HIDE DEF Solo
<1> QED
    BY <1>1, <1>2, <1>3, <1>4, <1>5, <1>6, <1>7
    DEF Next, Handle, Provide, Client

(* Under connection scope a client sees exactly what it would see of a     *)
(* fresh card that nobody else has, frame by frame.                        *)
THEOREM PrivateToClient == Spec => []PrivateCard
<1>1. CASE Scope = "connection"
  <2>1. Init => Supplied
      BY BridgeAssumption DEF Init, Supplied
  <2>2. /\ BaseInv /\ BaseInv' /\ Supplied /\ CountInv /\ SoloInv /\ [Next]_vars
        => SoloInv'
      BY <1>1, SoloStep
  <2>3. BaseInv /\ SoloInv => PrivateCard
    <3> SUFFICES ASSUME BaseInv, SoloInv, NEW c \in Conns,
                        NEW i \in DOMAIN replies[c]
                 PROVE  replies[c][i] = ReplyTo(sent[c][i], SoloRun(sent[c])[i - 1])
        BY DEF PrivateCard
    <3>1. i \in 1..Len(replies[c])
        BY DEF BaseInv, TypeOK
    <3> QED
        BY <3>1 DEF SoloInv, RepliesAreSolo
  <2> QED
      BY <2>1, <2>2, <2>3, SoloInit, SupplierStep, CountInit, CountStep,
         BaseInvariant, PTL DEF Spec
<1>2. CASE Scope # "connection"
  <2>1. PrivateCard
      BY <1>2 DEF PrivateCard
  <2> QED
      BY <2>1, PTL
<1> QED
    BY <1>1, <1>2
-----------------------------------------------------------------------------
(* The end of a RESET on card k.                                           *)
ResetEnds(k) ==
  \E c \in Conns : /\ session[c] = k
                   /\ pc[c] = "inside" /\ pc'[c] = "reply"
                   /\ Frame(c) = "RESET"

(* Nothing but a request touches a card, and of the requests only RESET    *)
(* deselects.                                                              *)
LEMMA DeselectStep ==
  ASSUME BaseInv, CountInv, [Next]_vars, NEW k \in Cards,
         card[k].selected, ~card'[k].selected
  PROVE  ResetEnds(k)
<1>1. (\E c \in Conns : LeaveSession(c)) \/ UNCHANGED card
    BY DEF Next, Handle, Provide, Client, Accept, GetShared, TakeWarm, GetWarm,
           CreateBegin, CreateReturn, CreateFail, ReadFrame, ReadBroken, ReadEnd, EnterSession,
           DieInSession, AnswerLocally, WriteFrame, WriteLost, Disconnect, Send,
           vars
<1>2. card' # card
    OBVIOUS
<1>3. PICK c \in Conns : LeaveSession(c)
    BY <1>1, <1>2
<1>4. /\ pc[c] = "inside" /\ pc'[c] = "reply" /\ view[c] = card[session[c]]
      /\ session[c] \in Cards /\ card \in [Cards -> CardStates]
      /\ card' = [card EXCEPT ![session[c]] =
                     CardAfter(Frame(c), card[session[c]])]
    BY <1>3 DEF LeaveSession, BaseInv, TypeOK, CountInv, ViewFresh, Attached
<1>5. session[c] = k
  <2>1. ASSUME session[c] # k PROVE card'[k] = card[k]
      BY <1>4, <2>1
  <2> QED
      BY <2>1
<1>6. card'[k] = CardAfter(Frame(c), card[k])
    BY <1>4, <1>5
<1>7. card'[k].selected
        = (Frame(c) = "SELECT" \/ (card[k].selected /\ Frame(c) # "RESET"))
    BY <1>6 DEF CardAfter
<1> QED
    BY <1>4, <1>5, <1>7 DEF ResetEnds

(* Only the end of a RESET deselects an applet, whoever leaves when.       *)
THEOREM ResetAloneDeselects == Spec => OnlyResetDeselects
<1>1. BaseInv /\ CountInv /\ [Next]_vars
        => [\A k \in Cards : (card[k].selected /\ ~card'[k].selected)
               => \E c \in Conns : /\ session[c] = k
                                   /\ pc[c] = "inside" /\ pc'[c] = "reply"
                                   /\ Frame(c) = "RESET"]_vars
    BY DeselectStep DEF ResetEnds
<1> QED
    BY <1>1, BaseInvariant, CountInit, CountStep, PTL
    DEF Spec, OnlyResetDeselects
-----------------------------------------------------------------------------
(* The state of CardService a state of Bridge stands for.                  *)
Phase == [c \in Conns |->
            IF pc[c] \in {"none", "started", "taking", "creating"} THEN "new"
            ELSE IF pc[c] = "reply"  THEN "answered"
            ELSE IF pc[c] = "closed" THEN "closed"
            ELSE "ready"]

Taken == [c \in Conns |-> IF pc[c] \in {"dispatch", "inside"}
                           THEN read[c] - 1 ELSE read[c]]

(* Only the supplier of connection scope has a monitor or calls create().  *)
CreatesPrivately ==
  \A c \in Conns : pc[c] \in {"taking", "creating"} => Scope = "connection"

(* What the refinement uses, under both scopes.                            *)
ServiceInv ==
  BaseInv /\ Supplied /\ ViewFresh /\ FramesRead /\ InsideAsked /\ CreatesPrivately

(* The card model the service uses is the bridge's.                        *)
LEMMA SameCardModel ==
  /\ Service!FreshCard = FreshCard /\ Service!NoReply = NoReply
  /\ Service!BrokenKinds = BrokenKinds
  /\ \A r, s : Service!CardAfter(r, s) = CardAfter(r, s)
  /\ \A r, s : Service!ReplyTo(r, s) = ReplyTo(r, s)
<1>1. \A r, s : Service!CardReply(r, s) = CardReply(r, s)
    BY DEF CardReply, Service!CardReply, Reply, Service!Reply
<1>2. \A r : Service!LocalReply(r) = LocalReply(r)
    BY DEF LocalReply, Service!LocalReply, Reply, Service!Reply
<1>3. Service!CardKinds = CardKinds
    BY DEF CardKinds, ApduKinds, Service!CardKinds, Service!ApduKinds
<1>4. \A r, s : Service!ReplyTo(r, s) = ReplyTo(r, s)
    BY <1>1, <1>2, <1>3 DEF ReplyTo, Service!ReplyTo
<1>5. \A r, s : Service!CardAfter(r, s) = CardAfter(r, s)
    BY DEF CardAfter, Service!CardAfter
<1>6. Service!FreshCard = FreshCard /\ Service!NoReply = NoReply
    BY DEF FreshCard, Service!FreshCard, NoReply, Service!NoReply, Reply,
           Service!Reply
<1> QED
    BY <1>4, <1>5, <1>6 DEF BrokenKinds, Service!BrokenKinds

(* A step that changes neither of the two, nor what both modules share.    *)
LEMMA ServiceStutter ==
  ASSUME Phase' = Phase, Taken' = Taken,
         UNCHANGED <<session, card, sent, answer, replies, gone>>
  PROVE  UNCHANGED Service!vars
  BY DEF Service!vars, Phase, Taken

(* The mapping follows one handler's program counter.                      *)
LEMMA PhaseStep ==
  ASSUME BaseInv, NEW c \in Conns, NEW l \in PCs, pc' = [pc EXCEPT ![c] = l]
  PROVE  /\ l \in {"none", "started", "taking", "creating"}
              => Phase' = [Phase EXCEPT ![c] = "new"]
         /\ l = "reply" => Phase' = [Phase EXCEPT ![c] = "answered"]
         /\ l = "closed" => Phase' = [Phase EXCEPT ![c] = "closed"]
         /\ l \in {"idle", "dispatch", "inside"}
              => Phase' = [Phase EXCEPT ![c] = "ready"]
  BY DEF BaseInv, TypeOK, PCs, Phase

(* The bridge starts where the service starts.                             *)
LEMMA ServiceInit == Init => Service!Init
<1> SUFFICES ASSUME Init PROVE Service!Init
    OBVIOUS
<1>1. Phase = [c \in Conns |-> "new"] /\ Taken = [c \in Conns |-> 0]
    BY DEF Init, Phase, Taken
<1>2. /\ card = [k \in Service!Cards |-> Service!FreshCard]
      /\ answer = [c \in Conns |-> Service!NoReply]
    BY SameCardModel DEF Init, Cards, Service!Cards
<1> QED
    BY <1>1, <1>2 DEF Init, Service!Init, Phase, Taken

(* sessions.get() attaches the connection.                                 *)
LEMMA AttachStep ==
  ASSUME ServiceInv, NEW c \in Conns, GetShared(c) \/ GetWarm(c) \/ CreateReturn(c)
  PROVE  Service!Attach(c)
<1> USE BridgeAssumption
<1>1. /\ session[c] = None /\ UNCHANGED <<card, sent, read, replies, answer, gone>>
      /\ pc[c] \in {"started", "taking", "creating"} /\ pc' = [pc EXCEPT ![c] = "idle"]
    BY DEF GetShared, GetWarm, CreateReturn, ServiceInv, BaseInv, Attached
<1>2. Phase[c] = "new" /\ Phase' = [Phase EXCEPT ![c] = "ready"]
    BY <1>1, PhaseStep DEF ServiceInv, PCs, Phase
<1>3. Taken' = Taken
    BY <1>1 DEF Taken, ServiceInv, BaseInv, TypeOK
<1>4. \E k \in Service!Free(c) : session' = [session EXCEPT ![c] = k]
  <2>1. CASE GetShared(c)
      BY <2>1 DEF GetShared, Service!Free
  <2>2. CASE GetWarm(c)
    <3>1. Warm \in Service!Free(c)
        BY <2>2 DEF GetWarm, Service!Free, Service!Cards, ServiceInv, Supplied,
                    CreatesPrivately
    <3> QED
        BY <2>2, <3>1 DEF GetWarm
  <2>3. CASE CreateReturn(c)
    <3>1. Scope = "connection"
        BY <2>3 DEF CreateReturn, ServiceInv, CreatesPrivately
    <3>2. \A d \in Conns : session[d] # c
        BY <1>1, <3>1 DEF ServiceInv, Supplied
    <3>3. c \in Service!Free(c)
        BY <3>1, <3>2 DEF Service!Free, Service!Cards
    <3> QED
        BY <2>3, <3>3 DEF CreateReturn
  <2> QED
      BY <2>1, <2>2, <2>3
<1> QED
    BY <1>1, <1>2, <1>3, <1>4 DEF Service!Attach, Service!Move, Phase, Taken

(* A frame is taken where the handler leaves the dispatch for the reply.   *)
LEMMA TakenStep ==
  ASSUME ServiceInv, NEW c \in Conns, NEW l \in {"reply", "closed"},
         pc[c] \in {"dispatch", "inside"}, pc' = [pc EXCEPT ![c] = l],
         read' = read
  PROVE  /\ Taken[c] < Len(sent[c]) /\ sent[c][Taken[c] + 1] = Frame(c)
         /\ Taken' = [Taken EXCEPT ![c] = @ + 1]
<1>1. /\ pc \in [Conns -> PCs] /\ read[c] \in Nat /\ read[c] > 0
      /\ read[c] <= Len(sent[c]) /\ Len(sent[c]) \in Nat
    BY BridgeAssumption DEF ServiceInv, BaseInv, TypeOK, WireOK, FramesRead
<1>2. Taken[c] = read[c] - 1
    BY DEF Taken
<1>3. Taken' = [Taken EXCEPT ![c] = read[c]]
    BY <1>1 DEF Taken
<1>4. Taken[c] + 1 = read[c] /\ Taken[c] < Len(sent[c])
    BY <1>1, <1>2
<1>5. Taken' = [Taken EXCEPT ![c] = Taken[c] + 1]
    BY <1>3, <1>4
<1> QED
    BY <1>4, <1>5

(* Leaving a card, or answering without one, serves one frame at once.     *)
LEMMA ServeStep ==
  ASSUME ServiceInv, NEW c \in Conns, LeaveSession(c) \/ AnswerLocally(c)
  PROVE  Service!Serve(c)
<1>1. /\ pc[c] \in {"dispatch", "inside"} /\ pc' = [pc EXCEPT ![c] = "reply"]
      /\ UNCHANGED <<session, sent, read, replies, gone>>
    BY DEF LeaveSession, AnswerLocally
<1>2. Phase[c] = "ready" /\ Phase' = [Phase EXCEPT ![c] = "answered"]
    BY <1>1, PhaseStep DEF ServiceInv, PCs, Phase
<1>3. /\ Taken[c] < Len(sent[c]) /\ sent[c][Taken[c] + 1] = Frame(c)
      /\ Taken' = [Taken EXCEPT ![c] = @ + 1]
    BY <1>1, TakenStep
<1>4. session[c] \in Cards /\ card \in [Cards -> CardStates]
    BY <1>1 DEF ServiceInv, BaseInv, TypeOK, Attached
<1>5. Frame(c) \notin BrokenKinds \cup {"FATAL"}
    BY DEF LeaveSession, AnswerLocally, ServiceInv, InsideAsked, CardKinds,
           ApduKinds, LocalKinds, BrokenKinds
<1>6. /\ card' = [card EXCEPT ![session[c]] = CardAfter(Frame(c), card[session[c]])]
      /\ answer' = [answer EXCEPT ![c] = ReplyTo(Frame(c), card[session[c]])]
  <2>1. CASE LeaveSession(c)
    <3>1. view[c] = card[session[c]] /\ Frame(c) \in CardKinds
        BY <2>1 DEF LeaveSession, ServiceInv, ViewFresh, InsideAsked
    <3> QED
        BY <2>1, <3>1 DEF LeaveSession, ReplyTo
  <2>2. CASE AnswerLocally(c)
    <3>1. Frame(c) \in LocalKinds /\ card' = card
        BY <2>2 DEF AnswerLocally
    <3>2. /\ CardAfter(Frame(c), card[session[c]]) = card[session[c]]
          /\ ReplyTo(Frame(c), card[session[c]]) = LocalReply(Frame(c))
        BY <3>1, <1>4, LocalKeepsCard
    <3> QED
        BY <2>2, <3>1, <3>2, <1>4 DEF AnswerLocally
  <2> QED
      BY <2>1, <2>2
<1>7. /\ sent[c][Taken[c] + 1] \notin Service!BrokenKinds \cup {"FATAL"}
      /\ card' = [card EXCEPT ![session[c]] =
                    Service!CardAfter(sent[c][Taken[c] + 1], card[session[c]])]
      /\ answer' = [answer EXCEPT ![c] =
                    Service!ReplyTo(sent[c][Taken[c] + 1], card[session[c]])]
    BY <1>3, <1>5, <1>6, SameCardModel
<1> QED
    BY <1>1, <1>2, <1>3, <1>7 DEF Service!Serve, Service!Move, Phase, Taken

(* The steps that end a connection.                                        *)
LEMMA EndStep ==
  ASSUME ServiceInv, NEW c \in Conns,
         CreateFail(c) \/ ReadBroken(c) \/ ReadEnd(c) \/ DieInSession(c)
  PROVE  Service!Refuse(c) \/ Service!HangUp(c) \/ Service!Crash(c)
<1>1. /\ pc[c] \in {"creating", "idle", "inside"} /\ pc' = [pc EXCEPT ![c] = "closed"]
      /\ UNCHANGED <<session, card, sent, read, answer, replies, gone>>
    BY DEF CreateFail, ReadBroken, ReadEnd, DieInSession
<1>2. Phase' = [Phase EXCEPT ![c] = "closed"]
    BY <1>1, PhaseStep DEF ServiceInv, PCs
<1>3. pc[c] # "inside" => Taken' = Taken
    BY <1>1 DEF Taken, ServiceInv, BaseInv, TypeOK
<1>4. CASE CreateFail(c)
  <2>1. Phase[c] = "new" /\ Taken' = Taken
      BY <1>3, <1>4 DEF CreateFail, Phase
  <2> QED
      BY <1>1, <1>2, <2>1 DEF Service!Refuse, Service!Move, Phase, Taken
<1>5. CASE ReadBroken(c) \/ ReadEnd(c)
  <2>1. /\ Phase[c] = "ready" /\ Taken' = Taken
        /\ gone[c] \/ (/\ Taken[c] < Len(sent[c])
                       /\ sent[c][Taken[c] + 1] \in Service!BrokenKinds)
      BY <1>3, <1>5, SameCardModel DEF ReadBroken, ReadEnd, Phase, Taken
  <2> QED
      BY <1>1, <1>2, <2>1 DEF Service!HangUp, Service!Move, Phase, Taken
<1>6. CASE DieInSession(c)
  <2>1. Phase[c] = "ready" /\ pc[c] = "inside" /\ Frame(c) = "FATAL"
      BY <1>6 DEF DieInSession, Phase
  <2>2. /\ Taken[c] < Len(sent[c]) /\ sent[c][Taken[c] + 1] = Frame(c)
        /\ Taken' = [Taken EXCEPT ![c] = @ + 1]
      BY <1>1, <2>1, TakenStep
  <2> QED
      BY <1>1, <1>2, <2>1, <2>2 DEF Service!Crash, Service!Move, Phase, Taken
<1> QED
    BY <1>4, <1>5, <1>6

(* Writing the reply delivers it, or loses it with its client.             *)
LEMMA WriteStep ==
  ASSUME ServiceInv, NEW c \in Conns, WriteFrame(c) \/ WriteLost(c)
  PROVE  Service!Deliver(c) \/ Service!Lose(c)
<1>1. PICK l \in {"idle", "closed"} :
        /\ pc[c] = "reply" /\ pc' = [pc EXCEPT ![c] = l]
        /\ l = "closed" => gone[c]
    BY DEF WriteFrame, WriteLost
<1>2. /\ UNCHANGED <<session, card, sent, read, gone>>
      /\ answer' = [answer EXCEPT ![c] = Service!NoReply]
    BY SameCardModel DEF WriteFrame, WriteLost
<1>3. /\ Phase[c] = "answered"
      /\ Phase' = [Phase EXCEPT ![c] = IF l = "idle" THEN "ready" ELSE "closed"]
    BY <1>1, PhaseStep DEF ServiceInv, PCs, Phase
<1>4. Taken' = Taken
    BY <1>1, <1>2 DEF Taken, ServiceInv, BaseInv, TypeOK
<1>5. CASE WriteFrame(c)
  <2>1. ~gone[c] /\ l = "idle"
        /\ replies' = [replies EXCEPT ![c] = Append(@, answer[c])]
      BY <1>1, <1>5 DEF WriteFrame
  <2> QED
      BY <1>2, <1>3, <1>4, <2>1 DEF Service!Deliver, Service!Move, Phase, Taken
<1>6. CASE WriteLost(c)
  <2>1. gone[c] /\ replies' = replies
      BY <1>6 DEF WriteLost
  <2> QED
      BY <1>2, <1>3, <1>4, <2>1 DEF Service!Lose, Service!Move, Phase, Taken
<1> QED
    BY <1>5, <1>6

(* What clients do, they do to the service.                                *)
LEMMA ClientStep ==
  ASSUME ServiceInv, NEW c \in Conns, Client(c)
  PROVE  Service!Leave(c) \/ \E r \in Requests : Service!Send(c, r)
<1>1. /\ UNCHANGED <<pc, session, card, answer, read, replies>>
      /\ pc[c] # "closed" /\ ~gone[c]
    BY DEF Client, Disconnect, Send, Connected
<1>2. Phase[c] # "closed" /\ Phase' = Phase /\ Taken' = Taken
    BY <1>1 DEF Phase, Taken
<1>3. CASE Disconnect(c)
    BY <1>1, <1>2, <1>3 DEF Disconnect, Service!Leave, Phase, Taken
<1>4. ASSUME NEW r \in Requests, Send(c, r) PROVE Service!Send(c, r)
    BY <1>1, <1>2, <1>4 DEF Send, Service!Send, Phase, Taken
<1> QED
    BY <1>3, <1>4 DEF Client

(* Accepting, entering the supplier, reading a frame and entering a card    *)
(* are invisible to clients.                                               *)
LEMMA InvisibleStep ==
  ASSUME ServiceInv, NEW c \in Conns,
         Accept(c) \/ TakeWarm(c) \/ CreateBegin(c) \/ ReadFrame(c)
           \/ EnterSession(c)
  PROVE  UNCHANGED Service!vars
<1>1. PICK l \in PCs : pc' = [pc EXCEPT ![c] = l]
    BY DEF Accept, TakeWarm, CreateBegin, ReadFrame, EnterSession, PCs
<1>2. UNCHANGED <<session, card, sent, answer, replies, gone>>
    BY DEF Accept, TakeWarm, CreateBegin, ReadFrame, EnterSession
<1>3. pc \in [Conns -> PCs] /\ read \in [Conns -> Int]
    BY BridgeAssumption DEF ServiceInv, BaseInv, TypeOK
<1>4. Phase' = Phase
    BY <1>3 DEF Accept, TakeWarm, CreateBegin, ReadFrame, EnterSession, Phase
<1>5. Taken' = Taken
  <2>1. CASE ReadFrame(c)
      BY <2>1, <1>3 DEF ReadFrame, Taken
  <2>2. CASE EnterSession(c)
      BY <2>2, <1>3 DEF EnterSession, Taken
  <2>3. CASE Accept(c) \/ TakeWarm(c) \/ CreateBegin(c)
      BY <2>3, <1>3 DEF Accept, TakeWarm, CreateBegin, Taken
  <2> QED
      BY <2>1, <2>2, <2>3
<1> QED
    BY <1>2, <1>4, <1>5, ServiceStutter

(* Every step of the bridge is a step of the service or invisible.         *)
LEMMA RefinementStep == ServiceInv /\ [Next]_vars => [Service!Next]_(Service!vars)
<1> SUFFICES ASSUME ServiceInv, [Next]_vars
             PROVE  Service!Next \/ UNCHANGED Service!vars
    OBVIOUS
<1>1. CASE UNCHANGED vars
    BY <1>1 DEF vars, Service!vars
<1>2. ASSUME NEW c \in Conns, Accept(c) \/ Handle(c) \/ Provide(c) \/ Client(c)
      PROVE  Service!Next \/ UNCHANGED Service!vars
  <2>1. CASE Accept(c) \/ TakeWarm(c) \/ CreateBegin(c) \/ ReadFrame(c)
               \/ EnterSession(c)
      BY <2>1, InvisibleStep
  <2>2. CASE GetShared(c) \/ GetWarm(c) \/ CreateReturn(c)
      BY <2>2, AttachStep DEF Service!Next
  <2>3. CASE LeaveSession(c) \/ AnswerLocally(c)
      BY <2>3, ServeStep DEF Service!Next
  <2>4. CASE CreateFail(c) \/ ReadBroken(c) \/ ReadEnd(c) \/ DieInSession(c)
      BY <2>4, EndStep DEF Service!Next
  <2>5. CASE WriteFrame(c) \/ WriteLost(c)
      BY <2>5, WriteStep DEF Service!Next
  <2>6. CASE Client(c)
      BY <2>6, ClientStep DEF Service!Next
  <2> QED
      BY <1>2, <2>1, <2>2, <2>3, <2>4, <2>5, <2>6 DEF Handle, Provide
<1> QED
    BY <1>1, <1>2 DEF Next

(* create() is called under connection scope alone.                        *)
LEMMA CreatingStep ==
  BaseInv /\ CreatesPrivately /\ [Next]_vars => CreatesPrivately'
  BY DEF BaseInv, TypeOK, PCs, CreatesPrivately, Next, Handle, Provide, Client,
         Accept, GetShared, TakeWarm, GetWarm, CreateBegin, CreateReturn, CreateFail,
         ReadFrame, ReadBroken, ReadEnd, EnterSession, LeaveSession,
         DieInSession, AnswerLocally, WriteFrame, WriteLost, Send, Disconnect,
         vars

(* The bridge implements the abstract card service under both scopes:      *)
(* monitors, supplier and threads show nowhere in what clients see.        *)
THEOREM RefinesService == Spec => ImplementsService
<1>1. Init => /\ Supplied /\ CreatesPrivately /\ FramesRead /\ RepliesCounted
              /\ InsideAsked
  <2> SUFFICES ASSUME Init
               PROVE  /\ Supplied /\ CreatesPrivately /\ FramesRead
                      /\ RepliesCounted /\ InsideAsked
      OBVIOUS
  <2>1. Supplied
      BY BridgeAssumption DEF Init, Supplied
  <2> QED
      BY <2>1 DEF Init, CreatesPrivately, FramesRead, RepliesCounted, InsideAsked
<1>2. BaseInv /\ FramesRead /\ RepliesCounted /\ [Next]_vars
        => FramesRead' /\ RepliesCounted'
    BY FramesStep
<1>3. BaseInv /\ FramesRead /\ InsideAsked /\ [Next]_vars => InsideAsked'
    BY InsideStep
<1>4. CountInv => ViewFresh
    BY DEF CountInv
<1>5. Spec => []ServiceInv
    BY <1>1, <1>2, <1>3, <1>4, BaseInvariant, CountInit, CountStep,
       SupplierStep, CreatingStep, PTL
    DEF Spec, ServiceInv
<1> QED
    BY <1>5, ServiceInit, RefinementStep, PTL
    DEF Spec, ImplementsService, Service!Spec
=============================================================================

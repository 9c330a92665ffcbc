---------------------------- MODULE CardService ----------------------------
(***************************************************************************)
(* What the bridge promises its clients, without threads, monitors or a    *)
(* session supplier: every connection is attached to one card, its frames  *)
(* are taken in order, each one acts on that card in a single step, and    *)
(* its reply is delivered before the next frame of the same connection is  *)
(* taken.  Under shared scope everybody is attached to one card; under     *)
(* connection scope no card is attached twice.                             *)
(***************************************************************************)
EXTENDS CardModel, Sequences

CONSTANTS Conns, Warm, None, Scope, Requests, MaxFrames

Cards == Conns \cup {Warm}

VARIABLES
  phase,    \* "new", "ready", "answered" or "closed", per connection
  holder,   \* holder[c]: the card connection c is attached to
  card, sent,
  taken,    \* taken[c]: how many frames of c have been executed
  answer, replies, gone

vars == <<phase, holder, card, sent, taken, answer, replies, gone>>

NoReply == Reply("OK", "", 0)

Move(c, from, to) == phase[c] = from /\ phase' = [phase EXCEPT ![c] = to]

Init ==
  /\ phase   = [c \in Conns |-> "new"]
  /\ holder  = [c \in Conns |-> None]
  /\ card    = [k \in Cards |-> FreshCard]
  /\ sent    = [c \in Conns |-> <<>>]
  /\ taken   = [c \in Conns |-> 0]
  /\ answer  = [c \in Conns |-> NoReply]
  /\ replies = [c \in Conns |-> <<>>]
  /\ gone    = [c \in Conns |-> FALSE]

(* The cards connection c may be attached to.                              *)
Free(c) == IF Scope = "shared" THEN {Warm}
           ELSE {k \in Cards : \A d \in Conns : holder[d] # k}

Attach(c) ==
  /\ Move(c, "new", "ready")
  /\ \E k \in Free(c) : holder' = [holder EXCEPT ![c] = k]
  /\ UNCHANGED <<card, sent, taken, answer, replies, gone>>

(* No card for this connection.                                            *)
Refuse(c) ==
  /\ Move(c, "new", "closed")
  /\ UNCHANGED <<holder, card, sent, taken, answer, replies, gone>>

(* The next frame acts on the card, all at once.                           *)
Serve(c) ==
  /\ Move(c, "ready", "answered")
  /\ taken[c] < Len(sent[c])
  /\ LET r == sent[c][taken[c] + 1]
         k == holder[c]
     IN  /\ r \notin BrokenKinds \cup {"FATAL"}
         /\ card' = [card EXCEPT ![k] = CardAfter(r, card[k])]
         /\ answer' = [answer EXCEPT ![c] = ReplyTo(r, card[k])]
  /\ taken' = [taken EXCEPT ![c] = @ + 1]
  /\ UNCHANGED <<holder, sent, replies, gone>>

(* An Error in the card ends the connection and leaves the card alone.     *)
Crash(c) ==
  /\ Move(c, "ready", "closed")
  /\ taken[c] < Len(sent[c])
  /\ sent[c][taken[c] + 1] = "FATAL"
  /\ taken' = [taken EXCEPT ![c] = @ + 1]
  /\ UNCHANGED <<holder, card, sent, answer, replies, gone>>

Deliver(c) ==
  /\ Move(c, "answered", "ready")
  /\ ~gone[c]
  /\ replies' = [replies EXCEPT ![c] = Append(@, answer[c])]
  /\ answer' = [answer EXCEPT ![c] = NoReply]
  /\ UNCHANGED <<holder, card, sent, taken, gone>>

(* A reply is lost only with the client it was for.                        *)
Lose(c) ==
  /\ gone[c]
  /\ Move(c, "answered", "ready") \/ Move(c, "answered", "closed")
  /\ answer' = [answer EXCEPT ![c] = NoReply]
  /\ UNCHANGED <<holder, card, sent, taken, replies, gone>>

(* The service hangs up on a client that left or sent a broken frame.      *)
HangUp(c) ==
  /\ Move(c, "ready", "closed")
  /\ \/ gone[c]
     \/ /\ taken[c] < Len(sent[c])
        /\ sent[c][taken[c] + 1] \in BrokenKinds
  /\ UNCHANGED <<holder, card, sent, taken, answer, replies, gone>>

Send(c, r) ==
  /\ phase[c] # "closed" /\ ~gone[c]
  /\ Len(sent[c]) < MaxFrames
  /\ sent' = [sent EXCEPT ![c] = Append(@, r)]
  /\ gone' = [gone EXCEPT ![c] = (r = "CUT")]
  /\ UNCHANGED <<phase, holder, card, taken, answer, replies>>

Leave(c) ==
  /\ phase[c] # "closed" /\ ~gone[c]
  /\ gone' = [gone EXCEPT ![c] = TRUE]
  /\ UNCHANGED <<phase, holder, card, sent, taken, answer, replies>>

Next ==
  \E c \in Conns :
    \/ Attach(c) \/ Refuse(c) \/ Serve(c) \/ Crash(c) \/ Deliver(c) \/ Lose(c)
    \/ HangUp(c) \/ Leave(c) \/ \E r \in Requests : Send(c, r)

Spec == Init /\ [][Next]_vars
=============================================================================

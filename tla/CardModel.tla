----------------------------- MODULE CardModel -----------------------------
(***************************************************************************)
(* The wire requests a bridge client can put in a frame, the replies the   *)
(* bridge writes, and what one request does to a card.                     *)
(*                                                                         *)
(* The card is jCardSim with an applet installed: code outside this        *)
(* repository, modelled from how SimulatorSession and the bridge tests use *)
(* it.  A card has a volatile part (is the applet selected) and a          *)
(* persistent part (a counter the applet increments).  Bodies and status   *)
(* words are abstracted to what the properties tell apart.                 *)
(***************************************************************************)
EXTENDS Naturals

(* The APDU frames: SELECT and INC are well formed; THROW is one on which  *)
(* CommandAPDU or the simulator raises an Exception, FATAL one on which    *)
(* the simulator raises an Error (ClientHandler only catches Exception).   *)
ApduKinds == {"SELECT", "INC", "THROW", "FATAL"}

(* Requests that go through the SimulatorSession monitor.                  *)
CardKinds == ApduKinds \cup {"RESET", "GET_ATR"}

(* Requests the handler answers without touching the card.                 *)
LocalKinds == {"PING", "UNKNOWN"}

(* What the byte stream may hold instead of a frame: a zero length field,  *)
(* and a frame cut off by the end of the stream.                           *)
BrokenKinds == {"EMPTY", "CUT"}

RequestKinds == CardKinds \cup LocalKinds \cup BrokenKinds

(* A reply frame: its MessageType, the status word or error code, and the  *)
(* counter value an INC response carries (0 in every other reply).         *)
Reply(t, s, v) == [type |-> t, sw |-> s, n |-> v]

Replies ==
  [type : {"APDU_RESPONSE", "OK", "ATR", "ERROR"},
   sw   : {"9000", "6999", "", "ERR_UNKNOWN_MSG", "ERR_SIM_ERROR"},
   n    : Nat]

CardStates == [selected : BOOLEAN, value : Nat]

(* A card as CardProvider.create() returns it: personalised, not selected. *)
FreshCard == [selected |-> FALSE, value |-> 0]

(* The card after request r: RESET clears the selection and keeps the      *)
(* persistent state; INC only acts on a selected applet.                   *)
CardAfter(r, s) ==
  [selected |-> r = "SELECT" \/ (s.selected /\ r # "RESET"),
   value    |-> IF r = "INC" /\ s.selected THEN s.value + 1 ELSE s.value]

(* The reply to request r executed on a card in state s.                   *)
CardReply(r, s) ==
  IF r = "INC" /\ s.selected THEN Reply("APDU_RESPONSE", "9000", s.value + 1)
  ELSE IF r = "INC"          THEN Reply("APDU_RESPONSE", "6999", 0)
  ELSE IF r = "SELECT"       THEN Reply("APDU_RESPONSE", "9000", 0)
  ELSE IF r = "RESET"        THEN Reply("OK", "", 0)
  ELSE IF r = "GET_ATR"      THEN Reply("ATR", "", 0)
  ELSE Reply("ERROR", "ERR_SIM_ERROR", 0)

(* The reply to a request that never reaches a card.                       *)
LocalReply(r) ==
  IF r = "PING" THEN Reply("OK", "", 0)
                ELSE Reply("ERROR", "ERR_UNKNOWN_MSG", 0)

ReplyTo(r, s) == IF r \in CardKinds THEN CardReply(r, s) ELSE LocalReply(r)
=============================================================================

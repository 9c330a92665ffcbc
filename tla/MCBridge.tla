------------------------------ MODULE MCBridge ------------------------------
(***************************************************************************)
(* Instances of Bridge for TLC.                                            *)
(***************************************************************************)
EXTENDS Bridge

CONSTANTS c1, c2, c3

TwoConns == {c1, c2}
ThreeConns == {c1, c2, c3}

(* What changes a card's state.                                            *)
CardRequests == {"SELECT", "INC", "RESET"}
(* With what the card answers by an exception, or by an error that ends    *)
(* the handler.                                                            *)
SharedRequests == CardRequests \cup {"THROW", "FATAL"}
(* With requests that stay outside the card, and a frame that is none.     *)
PrivateRequests == CardRequests \cup {"PING", "UNKNOWN", "EMPTY"}
(* One request that takes the session's monitor, and a frame cut short.    *)
AtrRequests == {"GET_ATR", "CUT"}
=============================================================================

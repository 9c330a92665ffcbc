--------------------------- MODULE MCBridgeServer ---------------------------
(***************************************************************************)
(* Instances of BridgeServer for TLC.                                      *)
(***************************************************************************)
EXTENDS BridgeServer

CONSTANTS s1, s2, a1

TwoStoppers == {s1, s2}
OneAwaiter == {a1}
=============================================================================

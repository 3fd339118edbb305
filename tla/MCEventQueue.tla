---------------------------- MODULE MCEventQueue ----------------------------
(* An instance of EventQueue for TLC: two deliveries for one issue, which  *)
(* compete for its key, for the slot and for the dispatcher.               *)
EXTENDS EventQueue, TLC

CONSTANTS d1, d2, k1

OneIssue == d1 :> k1 @@ d2 :> k1
=============================================================================

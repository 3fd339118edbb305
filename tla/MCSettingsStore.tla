-------------------------- MODULE MCSettingsStore --------------------------
(* Instances of SettingsStore for TLC: a process that may have two saves   *)
(* under way, and one with one.                                            *)
EXTENDS SettingsStore, TLC

CONSTANTS c1, c2, c3, p1, p2

TwoProcs == c1 :> p1 @@ c2 :> p1 @@ c3 :> p2
=============================================================================

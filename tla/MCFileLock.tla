----------------------------- MODULE MCFileLock -----------------------------
(* An instance of FileLock for TLC: processes with one client each.         *)
EXTENDS FileLock, TLC

CONSTANTS c1, c2, c3, p1, p2, p3

ThreeProcs == c1 :> p1 @@ c2 :> p2 @@ c3 :> p3
=============================================================================

---------------------------- MODULE MCSemaphore ----------------------------
(* Instances of Semaphore for TLC: four clients under ceilings of none, one *)
(* and two leave at least two waiters behind a full semaphore.             *)
EXTENDS Semaphore

SmallLimits == 0 .. 2
=============================================================================

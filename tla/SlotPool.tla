------------------------------ MODULE SlotPool ------------------------------
(***************************************************************************)
(* What a counting semaphore with an adjustable ceiling promises its       *)
(* clients (task/parallel.ts, Semaphore): a slot is granted only under the *)
(* ceiling in force, and only its holder gives it back.  Lowering the      *)
(* ceiling takes no slot away.                                             *)
(***************************************************************************)
EXTENDS Naturals, FiniteSets

CONSTANTS
    Clients,
    Limits      \* the ceilings, 0 for none

VARIABLES holders, limit

(* Some holders get in, at most one leaves, the ceiling may change.        *)
Step ==
    /\ limit' \in Limits
    /\ holders' \subseteq Clients
    /\ \A c, d \in holders \ holders' : c = d
    /\ \/ holders' \subseteq holders
       \/ limit' = 0
       \/ Cardinality(holders') <= limit'

Init == holders = {} /\ limit \in Limits

Spec == Init /\ [][Step]_<<holders, limit>>

=============================================================================

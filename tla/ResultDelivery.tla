--------------------------- MODULE ResultDelivery ---------------------------
(***************************************************************************)
(* What background jobs promise the session that starts them               *)
(* (async/job-manager.ts, AsyncJobManager): a job ends once, and a result  *)
(* goes its way once.  It ends in the conversation, with the tool that has *)
(* returned it, or with an await that has announced it and lets it drop;   *)
(* while the session is open it ends nowhere else.                         *)
(***************************************************************************)
EXTENDS Naturals

CONSTANTS Jobs

VARIABLES
    stage,      \* of a job: "new", "live", "done" or "cancelled"
    way,        \* jobs whose result is under way
    returned,   \* jobs whose result a tool has returned
    announced,  \* jobs whose end an await has announced
    delivered,  \* how often a result has come into the conversation
    session     \* "no", or that it is being disposed: "draining", "yes"

Open == session = "no"

(* A job that has ended stays as it is.                                    *)
Moves(j) ==
    \/ stage'[j] = stage[j]
    \/ <<stage[j], stage'[j]>> \in {<<"new", "live">>, <<"live", "done">>, <<"live", "cancelled">>}

(* A result begins its way when its job is done, and only then.            *)
Sent(j) ==
    /\ j \in way' \ way => stage[j] # "done" /\ stage'[j] = "done"
    /\ Open' /\ stage[j] # "done" /\ stage'[j] = "done" => j \in way' \cup returned'

(* Its way ends in the conversation, with a tool, or the session does.     *)
Leaves(j) == Open' /\ j \in way \ way' => j \in returned' \cup announced' \/ delivered'[j] = 1

(* Only what is under way is delivered, and leaves.  What a tool has       *)
(* returned is not, until the marks of the session are forgotten.          *)
Delivers(j) ==
    delivered'[j] # delivered[j] =>
        /\ delivered[j] = 0 /\ delivered'[j] = 1
        /\ j \in way \ way'
        /\ j \in returned => session = "yes"

(* Tools return and announce jobs that have ended.                         *)
Returns(j) ==
    /\ j \in returned => j \in returned'
    /\ j \in announced => j \in announced'
    /\ j \in returned' \cup announced' => stage'[j] \in {"done", "cancelled"}

Step ==
    /\ \A j \in Jobs : Moves(j) /\ Sent(j) /\ Leaves(j) /\ Delivers(j) /\ Returns(j)
    /\ session' # session => <<session, session'>> \in {<<"no", "draining">>, <<"draining", "yes">>}

Init ==
    /\ stage = [j \in Jobs |-> "new"] /\ way = {} /\ returned = {} /\ announced = {}
    /\ delivered = [j \in Jobs |-> 0] /\ session = "no"

Spec == Init /\ [][Step]_<<stage, way, returned, announced, delivered, session>>

=============================================================================

----------------------------- MODULE AsyncJobs -----------------------------
(***************************************************************************)
(* Background jobs and the delivery of their results:                      *)
(* async/job-manager.ts, its onJobComplete callback (sdk.ts), the yield    *)
(* queue the callback feeds (session/yield-queue.ts), the turn of the      *)
(* session that drains the queue (session/agent-session.ts) and the tools  *)
(* that wait for a job themselves (tools/bash.ts, tools/job.ts,            *)
(* tools/subagent.ts).                                                     *)
(*                                                                         *)
(* A job is a job object; its id is a string that is free again once the   *)
(* job is evicted.  The manager's suppression, watch and eviction tables   *)
(* are keyed by id.  A result reaches the conversation in two ways: it is  *)
(* returned by a tool that waited for it, or injected from the yield queue.*)
(* The await of the subagent tool waits too, but returns no result.        *)
(***************************************************************************)
EXTENDS Naturals, Sequences, SequencesExt

CONSTANTS
    Jobs,        \* job objects
    Ids,         \* job ids
    Polls,       \* concurrent calls of the job tool
    Awaits,      \* concurrent await calls of the subagent tool
    None,
    MaxRunning,  \* maxRunningJobs
    Races        \* the interleavings the environment is allowed

(* "evictPending"   the retention of a settled job ends while its result is *)
(*                  still on its way                                        *)
(* "slowAbort"      a cancelled job still runs when its retention ends      *)
(* "overlap"        two tool calls watch one job, at least one an await     *)
(* "polledWait"     bash leaves a failed job in the background after the    *)
(*                  job tool has returned it                                *)
(* "lateAbort"      a foreground wait is aborted after its job has failed   *)
(*                  without a word to it                                    *)
(* "lateCallback"   a delivery is in flight when dispose gives up           *)
(* "lateCompletion" a result is queued after the last aside poll of a turn  *)
(* "abort"          the user aborts a turn                                  *)
(* "abortedFlush"   an abort cancels an idle flush that is scheduled        *)
AllRaces == {"evictPending", "slowAbort", "overlap", "polledWait", "lateAbort",
             "lateCallback", "lateCompletion", "abort", "abortedFlush"}

ASSUME JobsAssumption ==
    /\ MaxRunning \in Nat \ {0}
    /\ Races \subseteq AllRaces
    /\ None \notin Jobs \cup Ids
    /\ Jobs \cap {"off", "on", "ending"} = {}
    /\ Polls \cap Awaits = {}

VARIABLES
    state,      \* the job object's status; "new" before register
    settled,    \* jobs whose run promise has settled
    id,         \* the id a job was registered under
    table,      \* #jobs: id -> job
    evicting,   \* ids with an eviction timer
    deliveries, \* #deliveries: pending deliveries in order
    inFlight,   \* jobs whose onJobComplete callback is running
    loop,       \* #deliveryLoop: "off", "on", "ending", or the job it awaits
    suppressed, \* #suppressedDeliveries
    watched,    \* #watchedJobs
    disposed,   \* "no", "draining" or "yes"
    waiting,    \* jobs bash waits for in the foreground
    watches,    \* the jobs each call of the job or subagent tool waits for
    returned,   \* jobs whose result a tool has returned
    announced,  \* jobs whose end an await has returned, without the result
    queue,      \* the session's yield queue entries
    flush,      \* its idle flush: #idleFlushPending, and the task itself
    turn,       \* the session: "idle", "streaming", or "unwinding" after the
                \* last aside poll of a turn
    injected    \* how often a job's result was injected (counted up to 2)

jobVars      == <<state, settled, id, table, evicting>>
deliveryVars == <<deliveries, inFlight, loop>>
markVars     == <<suppressed, watched>>
toolVars     == <<waiting, watches, returned, announced>>
sessionVars  == <<queue, flush, turn, injected>>

vars == <<jobVars, deliveryVars, markVars, disposed, toolVars, sessionVars>>

Pending == ToSet(deliveries)
Waits   == Polls \cup Awaits

TypeOK ==
    /\ state \in [Jobs -> {"new", "queued", "running", "completed", "failed", "cancelled"}]
    /\ settled \subseteq Jobs
    /\ id \in [Jobs -> Ids \cup {None}]
    /\ table \in [Ids -> Jobs \cup {None}]
    /\ evicting \subseteq Ids
    /\ deliveries \in Seq(Jobs)
    /\ inFlight \subseteq Jobs
    /\ loop \in {"off", "on", "ending"} \cup inFlight
    /\ suppressed \subseteq Ids
    /\ watched \subseteq Ids
    /\ disposed \in {"no", "draining", "yes"}
    /\ waiting \subseteq Jobs
    /\ watches \in [Waits -> SUBSET Jobs]
    /\ returned \subseteq Jobs
    /\ announced \subseteq Jobs
    /\ queue \in Seq(Jobs)
    /\ flush \in [pending : BOOLEAN, task : BOOLEAN]
    /\ turn \in {"idle", "streaming", "unwinding"}
    /\ injected \in [Jobs -> 0..2]
    /\ \A i \in Ids : table[i] # None => id[table[i]] = i

-----------------------------------------------------------------------------

Active == {i \in Ids : table[i] # None /\ state[table[i]] = "running"}

Done(j) == state[j] \in {"completed", "failed"}

IdsOf(S) == {id[j] : j \in S}

(* isDeliverySuppressed                                                    *)
Suppressed(i) == i \in suppressed \cup watched

(* The tools that hold the current turn between two boundaries.            *)
ToolsWait == waiting # {} \/ \E p \in Waits : watches[p] # {}

EnsureLoop(l) == IF l = "off" THEN "on" ELSE l

(* #scheduleEviction: one timer per id, none once the manager is disposed. *)
ScheduleEviction(i) ==
    evicting' = IF disposed = "no" THEN evicting \cup {i} ELSE evicting

(* #enqueueDelivery: skipped when the id is suppressed.                    *)
Enqueue(j) ==
    IF Suppressed(id[j])
    THEN UNCHANGED <<deliveries, loop>>
    ELSE /\ deliveries' = Append(deliveries, j)
         /\ loop' = EnsureLoop(loop)

(* Array.filter, as a function on the prefixes of the list.                *)
Keep(q, S) ==
    LET kept[n \in 0..Len(q)] ==
            IF n = 0 THEN <<>>
            ELSE IF q[n] \in S THEN Append(kept[n-1], q[n]) ELSE kept[n-1]
    IN  kept[Len(q)]

(* acknowledgeDeliveries: suppress the ids and drop what is pending for a  *)
(* suppressed or watched id; watched' and id' are the tables it reads.     *)
Acknowledge(ids) ==
    /\ suppressed' = suppressed \cup ids
    /\ deliveries' = IF ids = {} THEN deliveries
                     ELSE Keep(deliveries,
                               {j \in Jobs : id'[j] \notin suppressed' \cup watched'})

-----------------------------------------------------------------------------
(* The life of a job                                                       *)

(* register under a free id.  A registration in the foreground is bash's:  *)
(* it acknowledges the delivery up front and waits for the job itself.     *)
Register(j, i, queued, foreground) ==
    /\ disposed = "no"
    /\ state[j] = "new" /\ table[i] = None
    /\ Cardinality(Active) < MaxRunning
    /\ foreground => ~queued /\ turn = "streaming"
    /\ state' = [state EXCEPT ![j] = IF queued THEN "queued" ELSE "running"]
    /\ id'    = [id    EXCEPT ![j] = i]
    /\ table' = [table EXCEPT ![i] = j]
    /\ UNCHANGED watched
    /\ IF foreground
       THEN Acknowledge({i}) /\ waiting' = waiting \cup {j}
       ELSE suppressed' = suppressed \ {i} /\ UNCHANGED <<deliveries, waiting>>
    /\ UNCHANGED <<settled, evicting, inFlight, loop, disposed, watches, returned, announced,
                   sessionVars>>

(* A queued job starts once its gate opens; the cap is not consulted.      *)
MarkRunning(j) ==
    /\ state[j] = "queued"
    /\ state' = [state EXCEPT ![j] = "running"]
    /\ UNCHANGED <<settled, id, table, evicting, deliveryVars, markVars, disposed,
                   toolVars, sessionVars>>

(* The run promise settles.  A cancelled job only renews its eviction.     *)
RunSettles(j, outcome) ==
    /\ state[j] \in {"queued", "running", "cancelled"} /\ j \notin settled
    /\ settled' = settled \cup {j}
    /\ IF state[j] = "cancelled"
       THEN UNCHANGED <<state, deliveries, loop>>
       ELSE /\ state' = [state EXCEPT ![j] = outcome]
            /\ Enqueue(j)
    /\ ScheduleEviction(id[j])
    /\ UNCHANGED <<id, table, inFlight, markVars, disposed, toolVars, sessionVars>>

(* Variant: a job that has finished can still be cancelled.                *)
CancelFinished(j) ==
    /\ state[j] \in {"queued", "running", "completed", "failed"} /\ table[id[j]] = j
    /\ state' = [state EXCEPT ![j] = "cancelled"]
    /\ ScheduleEviction(id[j])
    /\ UNCHANGED <<settled, id, table, deliveryVars, markVars, disposed, toolVars, sessionVars>>

Cancel(j) ==
    /\ state[j] \in {"queued", "running"} /\ table[id[j]] = j
    /\ state' = [state EXCEPT ![j] = "cancelled"]
    /\ ScheduleEviction(id[j])
    /\ UNCHANGED <<settled, id, table, deliveryVars, markVars, disposed, toolVars, sessionVars>>

(* Results on their way from the manager to the conversation, and those    *)
(* that a tool waits for.                                                  *)
OnWay == Pending \cup inFlight \cup ToSet(queue)
OnItsWay == OnWay \cup waiting \cup UNION {watches[p] : p \in Waits}

(* Variant: the retention of an id is an interval that is never cleared.   *)
EvictAgain(i) ==
    /\ i \in evicting /\ i \notin IdsOf(OnItsWay)
    /\ table'      = [table EXCEPT ![i] = None]
    /\ suppressed' = suppressed \ {i}
    /\ watched'    = watched \ {i}
    /\ UNCHANGED <<state, settled, id, evicting, deliveryVars, disposed, toolVars, sessionVars>>

(* The retention of an id ends: the tables forget the id.  The foreground  *)
(* wait of bash is shorter than the retention.                             *)
Evict(i) ==
    /\ i \in evicting /\ i \notin IdsOf(waiting)
    /\ i \in IdsOf(OnItsWay) => "evictPending" \in Races
    /\ table[i] # None /\ table[i] \notin settled => "slowAbort" \in Races
    /\ evicting'   = evicting \ {i}
    /\ table'      = [table EXCEPT ![i] = None]
    /\ suppressed' = suppressed \ {i}
    /\ watched'    = watched \ {i}
    /\ UNCHANGED <<state, settled, id, deliveryVars, disposed, toolVars, sessionVars>>

-----------------------------------------------------------------------------
(* Delivery                                                                *)

(* Variant: the delivery stays in the list until its callback returned.    *)
StartDeliveryKeeping(n) ==
    /\ UNCHANGED deliveries
    /\ inFlight' = inFlight \cup {deliveries[n]}

(* The n-th delivery leaves the list, then deliverDelivery up to the       *)
(* callback's await.                                                       *)
StartDelivery(n) ==
    /\ deliveries' = RemoveAt(deliveries, n)
    /\ inFlight' = inFlight \cup {deliveries[n]}

(* The loop drops a suppressed head, delivers it, or ends.  The delay of a *)
(* retry is the time before this step is taken.                            *)
LoopStep ==
    /\ loop = "on"
    /\ \/ /\ deliveries = <<>>
          /\ loop' = "ending"
          /\ UNCHANGED <<deliveries, inFlight>>
       \/ /\ deliveries # <<>> /\ Suppressed(id[Head(deliveries)])
          /\ deliveries' = Tail(deliveries)
          /\ UNCHANGED <<inFlight, loop>>
       \/ /\ deliveries # <<>> /\ ~Suppressed(id[Head(deliveries)])
          /\ StartDelivery(1)
          /\ loop' = Head(deliveries)
    /\ UNCHANGED <<jobVars, markVars, disposed, toolVars, sessionVars>>

(* Variant: the settled loop does not look at the list again.              *)
LoopStops == "off"

(* The settled loop promise's finally: restart when something was queued.  *)
LoopRestart == IF deliveries # <<>> THEN "on" ELSE "off"

LoopEnds ==
    /\ loop = "ending"
    /\ loop' = LoopRestart
    /\ UNCHANGED <<jobVars, deliveries, inFlight, markVars, disposed, toolVars, sessionVars>>

(* A drain scoped to one owner delivers around the loop, out of order.     *)
DrainFiltered(j) ==
    /\ ~Suppressed(id[j])
    /\ \E n \in 1..Len(deliveries) : deliveries[n] = j /\ StartDelivery(n)
    /\ UNCHANGED <<jobVars, loop, markVars, disposed, toolVars, sessionVars>>

(* Variant: the loop that awaited the delivery is not resumed.             *)
AfterDeliveryNoResume(j) ==
    /\ inFlight' = inFlight \ {j}
    /\ loop' = IF loop = "off" /\ deliveries' # <<>> THEN "on" ELSE loop

(* What follows every delivery: the loop that awaited it goes on, and one  *)
(* is started if anything is pending.                                      *)
AfterDelivery(j) ==
    /\ inFlight' = inFlight \ {j}
    /\ loop' = IF loop = j \/ (loop = "off" /\ deliveries' # <<>>) THEN "on" ELSE loop

(* YieldQueue.enqueue: an idle session schedules one flush.                *)
EnqueueEntry(j) ==
    /\ queue' = Append(queue, j)
    /\ flush' = IF turn = "idle" /\ ~flush.pending
                THEN [pending |-> TRUE, task |-> TRUE] ELSE flush

CallbackSettles(j) ==
    j \in inFlight /\ (turn = "unwinding" => "lateCompletion" \in Races)

(* The callback formatted the result, checks the suppression once more and *)
(* hands the entry to the yield queue.                                     *)
CallbackReturns(j) ==
    /\ CallbackSettles(j)
    /\ IF Suppressed(id[j])
       THEN UNCHANGED <<queue, flush>>
       ELSE EnqueueEntry(j)
    /\ UNCHANGED deliveries
    /\ AfterDelivery(j)
    /\ UNCHANGED <<jobVars, markVars, disposed, toolVars, turn, injected>>

(* The callback throws: the delivery is retried later unless suppressed.   *)
CallbackThrows(j) ==
    /\ CallbackSettles(j)
    /\ deliveries' = IF Suppressed(id[j]) THEN deliveries ELSE Append(deliveries, j)
    /\ AfterDelivery(j)
    /\ UNCHANGED <<jobVars, markVars, disposed, toolVars, sessionVars>>

-----------------------------------------------------------------------------
(* Tools that wait for a job                                               *)

(* bash waits for the command's completion, which is told before the job   *)
(* settles, unless the job fails before its command has run: then the wait *)
(* ends only with its threshold or an abort.  (Before that, cancelled or   *)
(* failed jobs may be of either kind.)                                     *)
ForegroundReturns(j) ==
    /\ j \in waiting /\ j \in settled
    /\ waiting'  = waiting \ {j}
    /\ returned' = returned \cup {j}
    /\ UNCHANGED <<jobVars, deliveryVars, markVars, disposed, watches, announced, sessionVars>>

(* The job may not have told its wait of its end.                          *)
Untold(j) == j \in settled => state[j] # "completed"

(* The call is aborted: it cancels the job and returns no result.          *)
ForegroundAborts(j) ==
    /\ j \in waiting /\ Untold(j)
    /\ Done(j) => "lateAbort" \in Races
    /\ waiting'  = waiting \ {j}
    /\ IF state[j] = "running" /\ table[id[j]] = j
       THEN /\ state' = [state EXCEPT ![j] = "cancelled"]
            /\ ScheduleEviction(id[j])
       ELSE UNCHANGED <<state, evicting>>
    /\ UNCHANGED <<settled, id, table, deliveryVars, markVars, disposed, watches, returned,
                   announced, sessionVars>>

(* Variant: what came while the suppression was in force is not delivered. *)
ResumeUnsent(j) ==
    /\ suppressed' = suppressed \ {id[j]}
    /\ UNCHANGED <<deliveries, loop>>

(* resumeDeliveries: lift the suppression, and deliver a result that came  *)
(* while it was in force.                                                  *)
Resume(j) ==
    /\ suppressed' = suppressed \ {id[j]}
    /\ IF /\ id[j] \in suppressed
          /\ table[id[j]] # None /\ Done(table[id[j]])
          /\ id[j] \notin IdsOf(Pending \cup inFlight)
          /\ id[j] \notin watched
       THEN /\ deliveries' = Append(deliveries, table[id[j]])
            /\ loop' = EnsureLoop(loop)
       ELSE UNCHANGED <<deliveries, loop>>

(* The threshold passes: bash leaves the job in the background.            *)
ForegroundBackgrounds(j) ==
    /\ j \in waiting /\ Untold(j)
    /\ Done(j) /\ j \in returned => "polledWait" \in Races
    /\ waiting' = waiting \ {j}
    /\ Resume(j)
    /\ UNCHANGED <<jobVars, inFlight, watched, disposed, watches, returned, announced, sessionVars>>

(* The job tool and the subagent tool watch running jobs of the table.     *)
Overlaps(p, S) ==
    \E q \in Waits \ {p} : watches[q] \cap S # {} /\ {p, q} \cap Awaits # {}

WatchStart(p, S) ==
    /\ turn = "streaming" /\ watches[p] = {} /\ S # {}
    /\ \A j \in S : state[j] \in {"queued", "running"} /\ table[id[j]] = j
    /\ p \in Awaits => S \cap waiting = {}
    /\ Overlaps(p, S) => "overlap" \in Races
    /\ watches' = [watches EXCEPT ![p] = S]
    /\ watched' = watched \cup IdsOf(S)
    /\ UNCHANGED <<jobVars, deliveryVars, suppressed, disposed, waiting, returned, announced,
                   sessionVars>>

(* A job settled, the wait timed out or was aborted: the ids are           *)
(* unwatched.  The job tool returns the results of the jobs that ended and *)
(* acknowledges them; the subagent tool returns no more than that they     *)
(* ended, and delivers nothing that was skipped while it watched.          *)
WatchEnd(p) ==
    LET finished == {j \in watches[p] : state[j] \notin {"queued", "running"}}
    IN  /\ watches[p] # {}
        /\ watches' = [watches EXCEPT ![p] = {}]
        /\ watched' = watched \ IdsOf(watches[p])
        /\ UNCHANGED jobVars
        /\ IF p \in Polls
           THEN /\ returned' = returned \cup finished
                /\ Acknowledge(IdsOf(finished))
                /\ UNCHANGED announced
           ELSE /\ announced' = announced \cup finished
                /\ UNCHANGED <<returned, suppressed, deliveries>>
        /\ UNCHANGED <<inFlight, loop, disposed, waiting, sessionVars>>

(* A poll that finds the job finished reports it at once.                  *)
PollFinished(j) ==
    /\ turn = "streaming" /\ Polls # {}
    /\ Done(j) /\ table[id[j]] = j
    /\ returned' = returned \cup {j}
    /\ UNCHANGED <<jobVars, watched>>
    /\ Acknowledge({id[j]})
    /\ UNCHANGED <<inFlight, loop, disposed, waiting, watches, announced, sessionVars>>

-----------------------------------------------------------------------------
(* The session's turn and its yield queue                                  *)

(* Variant: an entry is never stale.                                       *)
NeverStale(j) == FALSE

(* The isStale of the async-result dispatcher, read when it is injected.   *)
Stale(j) == Suppressed(id[j])

Survivors == {j \in ToSet(queue) : ~Stale(j)}

(* The queue is drained and its survivors become messages.                 *)
Inject ==
    /\ queue' = <<>>
    /\ injected' = [j \in Jobs |->
          IF j \notin Survivors THEN injected[j]
          ELSE IF injected[j] = 0 /\ Cardinality({n \in DOMAIN queue : queue[n] = j}) = 1
               THEN 1 ELSE 2]

(* A prompt starts a turn.                                                 *)
TurnStart ==
    /\ disposed = "no" /\ turn = "idle"
    /\ turn' = "streaming"
    /\ UNCHANGED <<jobVars, deliveryVars, markVars, disposed, toolVars, queue, flush, injected>>

(* A step boundary of the turn polls the asides; the last one finds none.  *)
(* A disposing session has no aside provider any more.                     *)
Boundary ==
    /\ turn = "streaming" /\ ~ToolsWait
    /\ IF disposed = "no"
       THEN /\ Inject
            /\ turn' = IF Survivors = {} THEN "unwinding" ELSE "streaming"
       ELSE turn' = "unwinding" /\ UNCHANGED <<queue, injected>>
    /\ UNCHANGED <<jobVars, deliveryVars, markVars, disposed, toolVars, flush>>

(* An aborted turn polls nothing; abort also cancels post-prompt tasks,    *)
(* the idle flush among them, which leaves its pending flag set.           *)
Abort ==
    /\ disposed = "no"
    /\ \/ turn = "streaming" /\ "abort" \in Races
       \/ turn = "idle" /\ flush.task
    /\ flush.task => "abortedFlush" \in Races
    /\ turn' = IF turn = "streaming" THEN "unwinding" ELSE turn
    /\ flush' = [flush EXCEPT !.task = FALSE]
    /\ UNCHANGED <<jobVars, deliveryVars, markVars, disposed, toolVars, queue, injected>>

TurnEnd ==
    /\ turn = "unwinding" /\ ~ToolsWait
    /\ turn' = "idle"
    /\ UNCHANGED <<jobVars, deliveryVars, markVars, disposed, toolVars, queue, flush, injected>>

(* The scheduled idle flush runs: it prompts the agent with the survivors, *)
(* or leaves the queue alone when a turn has started meanwhile.            *)
IdleFlush ==
    /\ flush.task
    /\ flush' = [pending |-> FALSE, task |-> FALSE]
    /\ IF turn = "idle"
       THEN /\ Inject
            /\ turn' = IF Survivors = {} THEN turn ELSE "streaming"
       ELSE UNCHANGED <<queue, injected, turn>>
    /\ UNCHANGED <<jobVars, deliveryVars, markVars, disposed, toolVars>>

-----------------------------------------------------------------------------
(* Teardown                                                                *)

(* The session is disposed: its yield queue is cleared and its tasks       *)
(* cancelled, the manager cancels every job it tracks and waits.           *)
DisposeStart ==
    /\ disposed = "no"
    /\ disposed' = "draining"
    /\ evicting' = {}
    /\ state' = [j \in Jobs |->
          IF state[j] \in {"queued", "running"} /\ table[id[j]] = j
          THEN "cancelled" ELSE state[j]]
    /\ queue' = <<>>
    /\ flush' = [pending |-> FALSE, task |-> FALSE]
    /\ turn' = IF turn = "streaming" THEN "unwinding" ELSE turn
    /\ UNCHANGED <<settled, id, table, deliveryVars, markVars, toolVars, injected>>

(* The jobs and deliveries are drained, or three seconds have passed.      *)
DisposeEnd ==
    /\ disposed = "draining"
    /\ deliveries # <<>> \/ inFlight # {} => "lateCallback" \in Races
    /\ disposed'   = "yes"
    /\ table'      = [i \in Ids |-> None]
    /\ deliveries' = <<>>
    /\ suppressed' = {}
    /\ watched'    = {}
    /\ UNCHANGED <<state, settled, id, evicting, inFlight, loop, toolVars, sessionVars>>

-----------------------------------------------------------------------------

Init ==
    /\ state = [j \in Jobs |-> "new"]
    /\ settled = {}
    /\ id = [j \in Jobs |-> None]
    /\ table = [i \in Ids |-> None]
    /\ evicting = {}
    /\ deliveries = <<>>
    /\ inFlight = {}
    /\ loop = "off"
    /\ suppressed = {}
    /\ watched = {}
    /\ disposed = "no"
    /\ waiting = {}
    /\ watches = [p \in Waits |-> {}]
    /\ returned = {}
    /\ announced = {}
    /\ queue = <<>>
    /\ flush = [pending |-> FALSE, task |-> FALSE]
    /\ turn = "idle"
    /\ injected = [j \in Jobs |-> 0]

JobStep(j) ==
    \/ \E i \in Ids, queued, foreground \in BOOLEAN : Register(j, i, queued, foreground)
    \/ MarkRunning(j) \/ Cancel(j)
    \/ \E outcome \in {"completed", "failed"} : RunSettles(j, outcome)
    \/ DrainFiltered(j) \/ CallbackReturns(j) \/ CallbackThrows(j)
    \/ ForegroundReturns(j) \/ ForegroundAborts(j) \/ ForegroundBackgrounds(j)
    \/ PollFinished(j)

WaitStep(p) == WatchEnd(p) \/ \E S \in SUBSET Jobs : WatchStart(p, S)

Next ==
    \/ \E j \in Jobs : JobStep(j)
    \/ \E i \in Ids : Evict(i)
    \/ \E p \in Waits : WaitStep(p)
    \/ LoopStep \/ LoopEnds
    \/ TurnStart \/ Boundary \/ Abort \/ TurnEnd \/ IdleFlush
    \/ DisposeStart \/ DisposeEnd

Spec == Init /\ [][Next]_vars

(* Timers fire and microtasks run; a wait is bounded by its timeout; a     *)
(* callback does not fail for ever; the tool calls of a message are        *)
(* finitely many, and a boundary follows them.  Nothing obliges a user to  *)
(* start a turn.                                                           *)
Fairness ==
    /\ WF_vars(LoopStep) /\ WF_vars(LoopEnds)
    /\ \A j \in Jobs : SF_vars(CallbackReturns(j))
    /\ \A j \in Jobs : WF_vars(ForegroundReturns(j)) /\ WF_vars(ForegroundBackgrounds(j))
    /\ \A p \in Waits : WF_vars(WatchEnd(p))
    /\ []<>~ToolsWait
    /\ SF_vars(Boundary) /\ WF_vars(TurnEnd) /\ WF_vars(IdleFlush)

FairSpec == Spec /\ Fairness

(* The user prompts the session again whenever it is idle.                 *)
AttendedSpec == FairSpec /\ WF_vars(TurnStart)

-----------------------------------------------------------------------------
(* Properties                                                              *)

(* A result that a tool has returned is not injected afterwards: the       *)
(* acknowledgement is seen by the loop, the callback and the queue, until  *)
(* the manager that is disposed forgets it.                                *)
NotInjectedAfterReturn ==
    [][\A j \in Jobs :
          disposed # "yes" /\ j \in returned => injected'[j] = injected[j]]_vars

(* Retries, scoped drains and resumed deliveries never add up to a result  *)
(* that is injected twice.                                                 *)
InjectedAtMostOnce == \A j \in Jobs : injected[j] < 2

(* While the session lives, the result of a job that finished is in the    *)
(* conversation, was returned by a tool or is on its way; or an await, for *)
(* which its delivery was skipped, has announced its end without it.       *)
(* Nothing else loses a result: no drain, retry, acknowledgement, wait in  *)
(* the foreground that is given up after the job has ended, or flush.      *)
LostOnlyToAwaits ==
    disposed = "no" =>
        \A j \in Jobs : Done(j) =>
            injected[j] > 0 \/ j \in returned \cup announced \cup OnItsWay

(* What is in the session's queue has a turn or an idle flush before it.   *)
QueueIsAttended ==
    disposed = "no" /\ queue # <<>> => turn = "streaming" \/ flush.task

(* A pending delivery always has a loop that will come to it.              *)
PendingHasLoop == deliveries # <<>> => loop # "off"

(* A running job can be listed and cancelled until the manager is disposed:*)
(* no timer of an earlier job with the same id evicts it.                  *)
RunningAreTracked ==
    disposed = "no" => \A j \in Jobs : state[j] \in {"queued", "running"} => table[id[j]] = j

(* A cancelled job's result is never on its way to the conversation.       *)
CancelledIsSilent ==
    \A j \in Jobs : state[j] = "cancelled" => j \notin OnWay

(* The manager, the queue and the tools implement the delivery of results  *)
(* as a session sees it (ResultDelivery), where what a tool waits for is   *)
(* under way once its job is done.                                         *)
Stage(j) ==
    IF Done(j) THEN "done" ELSE IF state[j] \in {"queued", "running"} THEN "live" ELSE state[j]

Results == INSTANCE ResultDelivery
           WITH stage <- [j \in Jobs |-> Stage(j)], way <- OnWay \cup {j \in OnItsWay : Done(j)},
                delivered <- injected, session <- disposed

ResultSpec == Results!Spec

(* In the end the result of a job that finished is injected or returned,   *)
(* unless an await has announced it or the session ends.                   *)
ResultsArrive ==
    \A j \in Jobs :
        Done(j) ~> (injected[j] > 0 \/ j \in returned \cup announced \/ disposed # "no")

(* "result will be delivered automatically" (tools/bash.ts) and "Results   *)
(* deliver themselves automatically the moment a subagent finishes"        *)
(* (prompts/tools/subagent.md): unless the session ends.                   *)
DeliveredAutomatically ==
    \A j \in Jobs : Done(j) ~> (injected[j] > 0 \/ j \in returned \/ disposed # "no")

=============================================================================

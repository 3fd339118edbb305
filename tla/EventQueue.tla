----------------------------- MODULE EventQueue -----------------------------
(***************************************************************************)
(* The bot's durable event queue (src/python/robomp): rows of the sqlite   *)
(* table events (db.py), the worker pool that claims and runs them         *)
(* (queue.py), the worker thread that drives one agent process per event   *)
(* (worker.py), and the endpoints that record, replay and cancel           *)
(* deliveries (server.py, manual_triage.py).                               *)
(*                                                                         *)
(* Three kinds of actors interleave: the event loop (dispatcher, event     *)
(* tasks, endpoints, each atomic between awaits), threads (a claim, a      *)
(* worker) and the outside (webhooks, operators, the supervisor, crashes). *)
(* The table survives a crash, and so do agent processes; the pool's       *)
(* memory does not.                                                        *)
(***************************************************************************)
EXTENDS Naturals, FiniteSets

CONSTANTS
    Deliveries,
    Keys,        \* issue keys
    KeyOf,       \* the issue_key of a delivery, or a key of its own
    Slots,       \* the slot uids of the pool
    None,
    MaxRetries,  \* event_max_retries
    MaxLives,    \* bound: processes that are started one after the other
    MaxReplays,  \* bound: replays, retries and manual triages
    Faults       \* which ends of a process are considered

ASSUME QueueAssumption ==
    /\ KeyOf \in [Deliveries -> Keys]
    /\ None \notin Deliveries \cup Slots
    /\ Deliveries \cap {"off", "idle", "claiming"} = {}
    /\ MaxRetries \in Nat
    /\ MaxLives \in Nat
    /\ MaxReplays \in Nat
    /\ Faults \subseteq {"crash", "stop"}

VARIABLES
    row,         \* durable: the state column, "absent" without a row
    received,    \* durable: received_at
    attempts,    \* durable: attempts; more than MaxRetries + 1 are all the same
    delayed,     \* durable: deliveries whose available_at is in the future
    agent,       \* the uid a delivery's agent process runs under, or None
    server,      \* "up", "stopping" or "down"
    dispatcher,  \* "off", "idle", "claiming" (a thread is), or what it claimed
    inflight,    \* _inflight: keys
    task,        \* _run_event: "none", "slot", "prep", "agent", "releasing"
    thread,      \* the worker thread, see ThreadPhases
    free,        \* slots in the pool's queue
    slot,        \* the slot a delivery was given
    hooks,       \* _cancel_hooks: deliveries with a hook
    cancelled,   \* _cancelled
    interrupted, \* _shutdown_cancelled
    clock,       \* the next received_at
    life,        \* how many processes have been started
    replays,     \* how many deliveries were queued again by hand
    asked        \* the life in which a cancel was accepted, 0 for none

durable == <<row, received, attempts, delayed>>
pool == <<dispatcher, inflight, task, free, slot>>
cancels == <<hooks, cancelled, interrupted>>
ghosts == <<clock, life, replays, asked>>
vars == <<durable, agent, server, pool, thread, cancels, ghosts>>

Inactive == {"done", "failed", "skipped"}
ThreadPhases == {"none", "spawning", "checked", "turn", "returned", "raised"}

TypeOK ==
    /\ row \in [Deliveries -> Inactive \cup {"absent", "queued", "running"}]
    /\ received \in [Deliveries -> Nat]
    /\ attempts \in [Deliveries -> 0 .. MaxRetries + 1]
    /\ delayed \subseteq Deliveries
    /\ agent \in [Deliveries -> Slots \cup {None}]
    /\ server \in {"up", "stopping", "down"}
    /\ dispatcher \in {"off", "idle", "claiming"} \cup Deliveries
    /\ inflight \subseteq Keys
    /\ task \in [Deliveries -> {"none", "slot", "prep", "agent", "releasing"}]
    /\ thread \in [Deliveries -> ThreadPhases]
    /\ free \subseteq Slots
    /\ slot \in [Deliveries -> Slots \cup {None}]
    /\ hooks \subseteq Deliveries
    /\ cancelled \subseteq Deliveries
    /\ interrupted \subseteq Deliveries
    /\ clock \in Nat /\ life \in Nat /\ replays \in Nat
    /\ asked \in [Deliveries -> Nat]

-----------------------------------------------------------------------------
(* Events come in.                                                         *)

(* A webhook; a delivery id that is known is ignored.  It is recorded as   *)
(* skipped when the router or the rate limit says so.                      *)
Record(d, s) ==
    /\ server = "up"
    /\ row[d] = "absent"
    /\ row' = [row EXCEPT ![d] = s]
    /\ received' = [received EXCEPT ![d] = clock]
    /\ clock' = clock + 1
    /\ UNCHANGED <<attempts, delayed, agent, server, pool, thread, cancels,
                   life, replays, asked>>

ByHand(d) ==
    /\ replays < MaxReplays
    /\ replays' = replays + 1
    /\ asked' = [asked EXCEPT ![d] = 0]

(* POST /replay, the retry mode of the trigger, or the replay command,     *)
(* which needs no server.                                                  *)
Replay(d) ==
    /\ row[d] \in Inactive
    /\ ByHand(d)
    /\ row' = [row EXCEPT ![d] = "queued"]
    /\ delayed' = delayed \ {d}
    /\ UNCHANGED <<received, attempts, agent, server, pool, thread, cancels,
                   clock, life>>

(* A manual triage replaces an inactive row by a new one.                  *)
Retriage(d) ==
    /\ row[d] \in Inactive \cup {"absent"}
    /\ ByHand(d)
    /\ row' = [row EXCEPT ![d] = "queued"]
    /\ received' = [received EXCEPT ![d] = clock]
    /\ attempts' = [attempts EXCEPT ![d] = 0]
    /\ delayed' = delayed \ {d}
    /\ clock' = clock + 1
    /\ UNCHANGED <<agent, server, pool, thread, cancels, life>>

(* The backoff of a scheduled retry is over.                               *)
BackoffEnds(d) ==
    /\ d \in delayed
    /\ delayed' = delayed \ {d}
    /\ UNCHANGED <<row, received, attempts, agent, server, pool, thread,
                   cancels, ghosts>>

-----------------------------------------------------------------------------
(* The dispatcher.  It holds _inflight_lock from the start of a claim until *)
(* it has made a task of it or put it back.                                *)

LockHeld == server = "up" /\ dispatcher \notin {"off", "idle"}

(* An issue with a running row blocks its queued rows.                     *)
Claimable == {d \in Deliveries :
    /\ row[d] = "queued"
    /\ d \notin delayed
    /\ \A e \in Deliveries : row[e] = "running" => KeyOf[e] # KeyOf[d]}

(* asyncio.Lock serves waiters in order: whoever waited for the lock while *)
(* the dispatcher had it goes first.                                       *)
StartClaim ==
    /\ server = "up"
    /\ dispatcher = "idle"
    /\ \A d \in Deliveries : task[d] # "releasing"
    /\ dispatcher' = "claiming"
    /\ UNCHANGED <<durable, agent, server, inflight, task, free, slot, thread,
                   cancels, ghosts>>

(* The thread commits the oldest claimable event.  When the pool stops in  *)
(* the meantime the thread commits all the same and nobody hears of it.    *)
CommitClaim(d) ==
    /\ dispatcher = "claiming"
    /\ d \in Claimable
    /\ \A e \in Claimable : received[d] <= received[e]
    /\ row' = [row EXCEPT ![d] = "running"]
    /\ attempts' = [attempts EXCEPT ![d] = IF @ > MaxRetries THEN @ ELSE @ + 1]
    /\ dispatcher' = IF server = "up" THEN d ELSE "off"
    /\ UNCHANGED <<received, delayed, agent, server, inflight, task, free,
                   slot, thread, cancels, ghosts>>

ClaimNothing ==
    /\ dispatcher = "claiming"
    /\ Claimable = {}
    /\ dispatcher' = IF server = "up" THEN "idle" ELSE "off"
    /\ UNCHANGED <<durable, agent, server, inflight, task, free, slot, thread,
                   cancels, ghosts>>

(* Variant: the in-memory set is not consulted.                            *)
BusyIgnored(d) == FALSE

Busy(d) == KeyOf[d] \in inflight

(* Put it back; another in-flight task is touching the same issue.         *)
Bounce(d) ==
    /\ dispatcher = d
    /\ Busy(d)
    /\ row' = [row EXCEPT ![d] = "queued"]
    /\ delayed' = delayed \ {d}
    /\ dispatcher' = "idle"
    /\ UNCHANGED <<received, attempts, agent, server, inflight, task, free,
                   slot, thread, cancels, ghosts>>

Launch(d) ==
    /\ dispatcher = d
    /\ ~Busy(d)
    /\ inflight' = inflight \cup {KeyOf[d]}
    /\ task' = [task EXCEPT ![d] = "slot"]
    /\ dispatcher' = "idle"
    /\ UNCHANGED <<durable, agent, server, free, slot, thread, cancels, ghosts>>

-----------------------------------------------------------------------------
(* An event task and its worker thread.                                    *)

TakeSlot(d, s) ==
    /\ task[d] = "slot"
    /\ s \in free
    /\ free' = free \ {s}
    /\ slot' = [slot EXCEPT ![d] = s]
    /\ task' = [task EXCEPT ![d] = "prep"]
    /\ UNCHANGED <<durable, agent, server, dispatcher, inflight, thread,
                   cancels, ghosts>>

(* GitHub and the workspace have been prepared: run_task starts the thread.*)
StartThread(d) ==
    /\ task[d] = "prep"
    /\ task' = [task EXCEPT ![d] = "agent"]
    /\ thread' = [thread EXCEPT ![d] = "spawning"]
    /\ UNCHANGED <<durable, agent, server, dispatcher, inflight, free, slot,
                   cancels, ghosts>>

(* A thread whose task has been cancelled ends unheard.                    *)
Result(d, r) == IF task[d] = "agent" THEN r ELSE "none"

(* RpcClient.__enter__ spawns the agent, then register_cancel_hook looks   *)
(* for an earlier cancellation and fires the hook at once if there is one. *)
Spawn(d) ==
    /\ thread[d] = "spawning"
    /\ IF d \in cancelled
       THEN /\ thread' = [thread EXCEPT ![d] = Result(d, "raised")]
            /\ UNCHANGED agent
       ELSE /\ thread' = [thread EXCEPT ![d] = "checked"]
            /\ agent' = [agent EXCEPT ![d] = slot[d]]
    /\ UNCHANGED <<durable, server, pool, cancels, ghosts>>

SpawnFails(d) ==
    /\ thread[d] = "spawning"
    /\ thread' = [thread EXCEPT ![d] = Result(d, "raised")]
    /\ UNCHANGED <<durable, agent, server, pool, cancels, ghosts>>

(* The hook is stored in a second step: the thread does not hold the loop. *)
Arm(d) ==
    /\ thread[d] = "checked"
    /\ thread' = [thread EXCEPT ![d] = "turn"]
    /\ hooks' = hooks \cup {d}
    /\ UNCHANGED <<durable, agent, server, pool, cancelled, interrupted, ghosts>>

(* The turn ends, by itself or because its agent was killed, the hook is   *)
(* disarmed and the client stopped.                                        *)
TurnEnds(d, ok) ==
    /\ thread[d] = "turn"
    /\ ok => agent[d] # None
    /\ thread' = [thread EXCEPT ![d] = Result(d, IF ok THEN "returned" ELSE "raised")]
    /\ agent' = [agent EXCEPT ![d] = None]
    /\ hooks' = hooks \ {d}
    /\ UNCHANGED <<durable, server, pool, cancelled, interrupted, ghosts>>

(* The agents that survive when every process under uid s is killed.       *)
Reaped(s) == [e \in Deliveries |-> IF agent[e] = s THEN None ELSE agent[e]]

(* Variant: the key is released only if the lock is free.                  *)
FreeKeyHastily(d) ==
    /\ task' = [task EXCEPT ![d] = "none"]
    /\ inflight' = IF LockHeld THEN inflight ELSE inflight \ {KeyOf[d]}

(* _release: at once if nobody has the lock, else the task waits for it.   *)
FreeKey(d) ==
    IF LockHeld
    THEN /\ task' = [task EXCEPT ![d] = "releasing"]
         /\ UNCHANGED inflight
    ELSE /\ task' = [task EXCEPT ![d] = "none"]
         /\ inflight' = inflight \ {KeyOf[d]}

(* Variant: the slot is given back whether or not one was acquired.        *)
FinallyReleasing(d) ==
    /\ cancelled' = cancelled \ {d}
    /\ interrupted' = interrupted \ {d}
    /\ hooks' = hooks \ {d}
    /\ agent' = Reaped(slot[d])
    /\ free' = free \cup {slot[d]}
    /\ FreeKey(d)

(* The finally clause, up to the wait for the lock.                        *)
Finally(d) ==
    /\ cancelled' = cancelled \ {d}
    /\ interrupted' = interrupted \ {d}
    /\ hooks' = hooks \ {d}
    /\ IF task[d] = "slot"
       THEN UNCHANGED <<agent, free>>
       ELSE /\ agent' = Reaped(slot[d])
            /\ free' = free \cup {slot[d]}
    /\ FreeKey(d)

(* Variant: the result of the turn decides alone.                          *)
MarkDone(d) == "done"

(* _dispatch_and_mark after a dispatch that returned.                      *)
Mark(d) == IF d \in cancelled THEN "failed" ELSE "done"

(* The dispatch returned: an event without an agent (a cleanup, nothing to *)
(* do) after its preparation, any other after its thread.                  *)
Succeed(d) ==
    /\ task[d] = "prep" \/ (task[d] = "agent" /\ thread[d] = "returned")
    /\ row' = [row EXCEPT ![d] = Mark(d)]
    /\ thread' = [thread EXCEPT ![d] = "none"]
    /\ slot' = [slot EXCEPT ![d] = None]
    /\ Finally(d)
    /\ UNCHANGED <<received, attempts, delayed, server, dispatcher, ghosts>>

Retryable(d) == 0 < attempts[d] /\ attempts[d] <= MaxRetries

(* The exception path: interrupted by a stop, cancelled, retried, failed.  *)
Fail(d) ==
    /\ task[d] = "prep" \/ (task[d] = "agent" /\ thread[d] = "raised")
    /\ row' = [row EXCEPT ![d] =
                 IF d \in interrupted THEN "running"
                 ELSE IF d \notin cancelled /\ Retryable(d) THEN "queued"
                 ELSE "failed"]
    /\ delayed' = IF d \in interrupted \cup cancelled \/ ~Retryable(d)
                  THEN delayed ELSE delayed \cup {d}
    /\ thread' = [thread EXCEPT ![d] = "none"]
    /\ slot' = [slot EXCEPT ![d] = None]
    /\ Finally(d)
    /\ UNCHANGED <<received, attempts, server, dispatcher, ghosts>>

(* A task that waited for the lock gets it.                                *)
Release(d) ==
    /\ task[d] = "releasing"
    /\ ~LockHeld
    /\ task' = [task EXCEPT ![d] = "none"]
    /\ inflight' = inflight \ {KeyOf[d]}
    /\ UNCHANGED <<durable, agent, server, dispatcher, free, slot, thread,
                   cancels, ghosts>>

(* POST /api/cancel, then cancel_event: the mark, and the hook if there is *)
(* one, which kills the agent.                                             *)
Cancel(d) ==
    /\ server = "up"
    /\ row[d] = "running"
    /\ cancelled' = cancelled \cup {d}
    /\ hooks' = hooks \ {d}
    /\ agent' = IF d \in hooks THEN [agent EXCEPT ![d] = None] ELSE agent
    /\ asked' = [asked EXCEPT ![d] = life]
    /\ UNCHANGED <<durable, server, pool, thread, interrupted, clock, life,
                   replays>>

-----------------------------------------------------------------------------
(* The end of a process and the start of the next.                         *)

(* stop: the dispatcher is cancelled, with or without a claim in hand.     *)
StopBegins ==
    /\ "stop" \in Faults /\ life < MaxLives
    /\ server = "up"
    /\ server' = "stopping"
    /\ dispatcher' = IF dispatcher = "claiming" THEN "claiming" ELSE "off"
    /\ UNCHANGED <<durable, agent, inflight, task, free, slot, thread, cancels,
                   ghosts>>

(* The drain has timed out: fire the hook of a task that still runs.       *)
InterruptArmed(d) ==
    /\ server = "stopping"
    /\ task[d] # "none"
    /\ d \in hooks
    /\ interrupted' = interrupted \cup {d}
    /\ hooks' = hooks \ {d}
    /\ agent' = [agent EXCEPT ![d] = None]
    /\ UNCHANGED <<durable, server, pool, thread, cancelled, ghosts>>

(* Without a hook the task itself is cancelled: no handler catches         *)
(* CancelledError, so the row stays as it is.  A worker thread goes on.    *)
InterruptTask(d) ==
    /\ server = "stopping"
    /\ task[d] \notin {"none", "releasing"}
    /\ d \notin hooks \cup interrupted
    /\ thread' = [thread EXCEPT ![d] = IF @ \in {"returned", "raised"} THEN "none" ELSE @]
    /\ Finally(d)
    /\ UNCHANGED <<durable, server, dispatcher, slot, ghosts>>

Forget ==
    /\ server' = "down"
    /\ dispatcher' = "off"
    /\ inflight' = {}
    /\ task' = [d \in Deliveries |-> "none"]
    /\ thread' = [d \in Deliveries |-> "none"]
    /\ free' = Slots
    /\ slot' = [d \in Deliveries |-> None]
    /\ hooks' = {} /\ cancelled' = {} /\ interrupted' = {}

(* stop returns when every task is done, or has been interrupted and the   *)
(* kill timeout is over; the process exits once its threads have ended.    *)
Exit ==
    /\ server = "stopping"
    /\ dispatcher = "off"
    /\ \A d \in Deliveries :
          /\ task[d] = "none" \/ d \in interrupted
          /\ thread[d] \in {"none", "returned", "raised"}
    /\ Forget
    /\ UNCHANGED <<durable, agent, ghosts>>

(* The process dies, or the supervisor kills it while it stops.  Its       *)
(* agents live on.                                                         *)
Crash ==
    /\ "crash" \in Faults /\ life < MaxLives
    /\ server # "down"
    /\ Forget
    /\ UNCHANGED <<durable, agent, ghosts>>

(* Variant: the slots are not reaped.                                      *)
ReapNone == agent

ReapAll == [d \in Deliveries |-> None]

(* Variant: what was running is left alone.                                *)
RecoverNothing == row

(* reset_stuck_running.                                                    *)
Recovered == [d \in Deliveries |-> IF row[d] = "running" THEN "queued" ELSE row[d]]

Start ==
    /\ server = "down"
    /\ server' = "up"
    /\ agent' = ReapAll
    /\ row' = Recovered
    /\ delayed' = delayed \ {d \in Deliveries : row[d] = "running"}
    /\ dispatcher' = "idle"
    /\ life' = life + 1
    /\ UNCHANGED <<received, attempts, inflight, task, free, slot, thread,
                   cancels, clock, replays, asked>>

-----------------------------------------------------------------------------

Init ==
    /\ row = [d \in Deliveries |-> "absent"]
    /\ received = [d \in Deliveries |-> 0]
    /\ attempts = [d \in Deliveries |-> 0]
    /\ delayed = {}
    /\ agent = [d \in Deliveries |-> None]
    /\ server = "down"
    /\ dispatcher = "off"
    /\ inflight = {}
    /\ task = [d \in Deliveries |-> "none"]
    /\ thread = [d \in Deliveries |-> "none"]
    /\ free = Slots
    /\ slot = [d \in Deliveries |-> None]
    /\ hooks = {} /\ cancelled = {} /\ interrupted = {}
    /\ clock = 1 /\ life = 0 /\ replays = 0
    /\ asked = [d \in Deliveries |-> 0]

(* What the pool does with a delivery by itself.                           *)
Work(d) ==
    \/ CommitClaim(d) \/ Bounce(d) \/ Launch(d)
    \/ StartThread(d) \/ Spawn(d) \/ SpawnFails(d) \/ Arm(d)
    \/ Succeed(d) \/ Fail(d) \/ Release(d) \/ BackoffEnds(d)
    \/ \E s \in Slots : TakeSlot(d, s)
    \/ \E ok \in BOOLEAN : TurnEnds(d, ok)

Next ==
    \/ StartClaim \/ ClaimNothing
    \/ StopBegins \/ Exit \/ Crash \/ Start
    \/ \E d \in Deliveries :
          \/ Work(d) \/ Replay(d) \/ Retriage(d) \/ Cancel(d)
          \/ InterruptArmed(d) \/ InterruptTask(d)
          \/ \E s \in {"queued", "skipped"} : Record(d, s)

Spec == Init /\ [][Next]_vars

(* The dispatcher polls every ten seconds, tasks and threads make progress *)
(* (a turn that hangs meets its hard timeout), a backoff ends, a stop has  *)
(* its timeouts and the supervisor restarts what exited.                   *)
FairSpec ==
    /\ Spec
    /\ WF_vars(StartClaim \/ ClaimNothing)
    /\ WF_vars(Exit \/ Start)
    /\ \A d \in Deliveries : WF_vars(Work(d) \/ InterruptArmed(d) \/ InterruptTask(d))

-----------------------------------------------------------------------------
(* Properties                                                              *)

Working(d) == task[d] \in {"slot", "prep", "agent"}

(* While the pool is up, exactly the events that are marked running in the *)
(* table are in somebody's hands: the dispatcher's or a task's.  Nothing   *)
(* else would ever move such a row, and a row that is not marked must not  *)
(* be worked on (db.reset_stuck_running, _run_event's exception path).     *)
RunningIsHandled ==
    server = "up" => \A d \in Deliveries :
        row[d] = "running" <=> (dispatcher = d \/ Working(d))

(* An issue has one event task at a time, up to the end of its cleanup,    *)
(* and _inflight holds the keys of these tasks (_claim_next_unique).       *)
OneTaskPerIssue ==
    server = "up" =>
        /\ inflight = {KeyOf[d] : d \in {e \in Deliveries : task[e] # "none"}}
        /\ \A d, e \in Deliveries :
              task[d] # "none" /\ task[e] # "none" /\ d # e => KeyOf[d] # KeyOf[e]

(* While the pool is up, an agent runs for a task that waits for it, under *)
(* a uid no other agent has: those of a dead process are reaped first.     *)
AgentsAreOwned ==
    server = "up" => \A d \in Deliveries : agent[d] # None =>
        /\ task[d] = "agent"
        /\ agent[d] \notin free
        /\ \A e \in Deliveries \ {d} : agent[e] # agent[d]

(* A delivery whose cancellation was accepted is not completed by the same *)
(* process, wherever the request met it: waiting for a slot, before the    *)
(* hook is armed, after the turn, or in a claim that is put back.          *)
CancelHonoured ==
    \A d \in Deliveries : life > 0 /\ asked[d] = life => row[d] # "done"

(* Every recorded event is dealt with in the end: no retry, bounced claim, *)
(* stop or crash leaves a row that nobody takes up.                        *)
EverySettles ==
    \A d \in Deliveries : row[d] \in {"queued", "running"} ~> row[d] \in Inactive
=============================================================================

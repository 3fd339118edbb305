------------------------- MODULE EventQueue_proofs --------------------------
(* What holds of the bot's event queue for any number of deliveries,       *)
(* issues, slots, retries and restarts.  The inductive invariant is built  *)
(* in layers, each of which is preserved by a step given those before it.  *)
EXTENDS EventQueue, TLAPS

-----------------------------------------------------------------------------
(* The invariant                                                           *)

HasSlot(d) == task[d] \in {"prep", "agent"}

(* A slot that a task has is not free and no other task's.                 *)
SlotsAreTaken ==
    /\ \A d \in Deliveries : HasSlot(d) => slot[d] \in Slots \ free
    /\ \A d, e \in Deliveries :
          HasSlot(d) /\ HasSlot(e) /\ d # e => slot[d] # slot[e]

(* A process that is down has nothing in memory; only one that is up has a *)
(* claim in hand, and only one that stops interrupts.                      *)
MemoryOfServer ==
    /\ server = "down" =>
          /\ dispatcher = "off" /\ inflight = {} /\ interrupted = {}
          /\ \A d \in Deliveries : task[d] = "none" /\ thread[d] = "none"
    /\ server = "up" => interrupted = {}
    /\ server # "up" => dispatcher \in {"off", "claiming"}

Base == TypeOK /\ SlotsAreTaken /\ MemoryOfServer

KeysAreHeld ==
    /\ \A d \in Deliveries : task[d] # "none" => KeyOf[d] \in inflight
    /\ \A k \in inflight : \E d \in Deliveries : task[d] # "none" /\ KeyOf[d] = k
    /\ \A d, e \in Deliveries :
          task[d] # "none" /\ task[e] # "none" /\ d # e => KeyOf[d] # KeyOf[e]

(* A claim in hand is of a delivery no task works on.                      *)
Handled ==
    /\ RunningIsHandled
    /\ \A d \in Deliveries : dispatcher = d => ~Working(d)

(* While the pool is up, threads and agents belong to tasks.               *)
AgentsHaveTasks ==
    server = "up" => \A d \in Deliveries :
        /\ thread[d] # "none" => task[d] = "agent"
        /\ agent[d] # None => task[d] = "agent" /\ agent[d] = slot[d]

(* A cancel that was accepted is remembered until the event has failed.    *)
CancelsAreKept ==
    \A d \in Deliveries :
        /\ asked[d] <= life
        /\ life > 0 /\ asked[d] = life =>
              /\ row[d] \in {"queued", "running", "failed"}
              /\ Working(d) => d \in cancelled
              /\ server = "up" /\ row[d] # "failed" => d \in cancelled

-----------------------------------------------------------------------------
(* The steps                                                               *)

(* The types and the slots, which the code gives back with the task's      *)
(* cleanup, and the memory of a process (SlotPool, stop).                  *)
LEMMA BaseStep ==
    ASSUME Base, [Next]_vars
    PROVE  Base'
<1> USE QueueAssumption DEF Base, TypeOK, SlotsAreTaken, HasSlot, MemoryOfServer, vars, durable, pool, cancels, ghosts, Inactive, ThreadPhases
<1>1. CASE UNCHANGED vars
  BY <1>1
<1>2. CASE StartClaim
  BY <1>2 DEF StartClaim
<1>3. CASE ClaimNothing
  BY <1>3 DEF ClaimNothing
<1>4. CASE StopBegins
  BY <1>4 DEF StopBegins
<1>5. CASE Exit
  BY <1>5 DEF Exit, Forget
<1>6. CASE Crash
  BY <1>6 DEF Crash, Forget
<1>7. CASE Start
  BY <1>7 DEF Start, ReapAll, Recovered
<1>8. ASSUME NEW d \in Deliveries, Work(d) PROVE Base'
  <2>1. CASE CommitClaim(d)
    BY <2>1 DEF CommitClaim, Claimable
  <2>2. CASE Bounce(d)
    BY <2>2 DEF Bounce, Busy
  <2>3. CASE Launch(d)
    BY <2>3 DEF Launch, Busy
  <2>4. CASE StartThread(d)
    BY <2>4 DEF StartThread
  <2>5. CASE Spawn(d)
    BY <2>5 DEF Spawn, Result
  <2>6. CASE SpawnFails(d)
    BY <2>6 DEF SpawnFails, Result
  <2>7. CASE Arm(d)
    BY <2>7 DEF Arm
  <2>8. CASE Succeed(d)
    BY <2>8 DEF Succeed, Mark, Finally, FreeKey, LockHeld, Reaped
  <2>9. CASE Fail(d)
    BY <2>9 DEF Fail, Retryable, Finally, FreeKey, LockHeld, Reaped
  <2>10. CASE Release(d)
    BY <2>10 DEF Release, LockHeld
  <2>11. CASE BackoffEnds(d)
    BY <2>11 DEF BackoffEnds
  <2>12. ASSUME NEW s \in Slots, TakeSlot(d, s) PROVE Base'
    BY <2>12 DEF TakeSlot
  <2>13. ASSUME NEW ok \in BOOLEAN, TurnEnds(d, ok) PROVE Base'
    BY <2>13 DEF TurnEnds, Result
  <2>14. QED
    BY <1>8, <2>1, <2>2, <2>3, <2>4, <2>5, <2>6, <2>7, <2>8, <2>9, <2>10, <2>11, <2>12, <2>13 DEF Work
<1>9. ASSUME NEW d \in Deliveries, Replay(d) PROVE Base'
  BY <1>9 DEF Replay, ByHand
<1>10. ASSUME NEW d \in Deliveries, Retriage(d) PROVE Base'
  BY <1>10 DEF Retriage, ByHand
<1>11. ASSUME NEW d \in Deliveries, Cancel(d) PROVE Base'
  BY <1>11 DEF Cancel
<1>12. ASSUME NEW d \in Deliveries, InterruptArmed(d) PROVE Base'
  BY <1>12 DEF InterruptArmed
<1>13. ASSUME NEW d \in Deliveries, InterruptTask(d) PROVE Base'
  BY <1>13 DEF InterruptTask, Finally, FreeKey, LockHeld, Reaped
<1>14. ASSUME NEW d \in Deliveries, NEW s \in {"queued", "skipped"}, Record(d, s)
      PROVE  Base'
  BY <1>14 DEF Record
<1>15. QED
  BY <1>1, <1>2, <1>3, <1>4, <1>5, <1>6, <1>7, <1>8, <1>9, <1>10, <1>11, <1>12, <1>13, <1>14 DEF Next

(* The keys of the tasks (_claim_next_unique, _release).                   *)
LEMMA KeysStep ==
    ASSUME Base, KeysAreHeld, [Next]_vars
    PROVE  KeysAreHeld'
<1> USE QueueAssumption DEF Base, TypeOK, MemoryOfServer, KeysAreHeld, vars, durable, pool, cancels, ghosts, Inactive, ThreadPhases
<1>1. CASE UNCHANGED vars
  BY <1>1
<1>2. CASE StartClaim
  BY <1>2 DEF StartClaim
<1>3. CASE ClaimNothing
  BY <1>3 DEF ClaimNothing
<1>4. CASE StopBegins
  BY <1>4 DEF StopBegins
<1>5. CASE Exit
  BY <1>5 DEF Exit, Forget
<1>6. CASE Crash
  BY <1>6 DEF Crash, Forget
<1>7. CASE Start
  BY <1>7 DEF Start, ReapAll, Recovered
<1>8. ASSUME NEW d \in Deliveries, Work(d) PROVE KeysAreHeld'
  <2>1. CASE CommitClaim(d)
    BY <2>1 DEF CommitClaim, Claimable
  <2>2. CASE Bounce(d)
    BY <2>2 DEF Bounce, Busy
  <2>3. CASE Launch(d)
    BY <2>3 DEF Launch, Busy
  <2>4. CASE StartThread(d)
    BY <2>4 DEF StartThread
  <2>5. CASE Spawn(d)
    BY <2>5 DEF Spawn, Result
  <2>6. CASE SpawnFails(d)
    BY <2>6 DEF SpawnFails, Result
  <2>7. CASE Arm(d)
    BY <2>7 DEF Arm
  <2>8. CASE Succeed(d)
    BY <2>8 DEF Succeed, Mark, Finally, FreeKey, LockHeld, Reaped
  <2>9. CASE Fail(d)
    BY <2>9 DEF Fail, Retryable, Finally, FreeKey, LockHeld, Reaped
  <2>10. CASE Release(d)
    BY <2>10 DEF Release, LockHeld
  <2>11. CASE BackoffEnds(d)
    BY <2>11 DEF BackoffEnds
  <2>12. ASSUME NEW s \in Slots, TakeSlot(d, s) PROVE KeysAreHeld'
    BY <2>12 DEF TakeSlot
  <2>13. ASSUME NEW ok \in BOOLEAN, TurnEnds(d, ok) PROVE KeysAreHeld'
    BY <2>13 DEF TurnEnds, Result
  <2>14. QED
    BY <1>8, <2>1, <2>2, <2>3, <2>4, <2>5, <2>6, <2>7, <2>8, <2>9, <2>10, <2>11, <2>12, <2>13 DEF Work
<1>9. ASSUME NEW d \in Deliveries, Replay(d) PROVE KeysAreHeld'
  BY <1>9 DEF Replay, ByHand
<1>10. ASSUME NEW d \in Deliveries, Retriage(d) PROVE KeysAreHeld'
  BY <1>10 DEF Retriage, ByHand
<1>11. ASSUME NEW d \in Deliveries, Cancel(d) PROVE KeysAreHeld'
  BY <1>11 DEF Cancel
<1>12. ASSUME NEW d \in Deliveries, InterruptArmed(d) PROVE KeysAreHeld'
  BY <1>12 DEF InterruptArmed
<1>13. ASSUME NEW d \in Deliveries, InterruptTask(d) PROVE KeysAreHeld'
  BY <1>13 DEF InterruptTask, Finally, FreeKey, LockHeld, Reaped
<1>14. ASSUME NEW d \in Deliveries, NEW s \in {"queued", "skipped"}, Record(d, s)
      PROVE  KeysAreHeld'
  BY <1>14 DEF Record
<1>15. QED
  BY <1>1, <1>2, <1>3, <1>4, <1>5, <1>6, <1>7, <1>8, <1>9, <1>10, <1>11, <1>12, <1>13, <1>14 DEF Next

(* Running rows and their handlers (claim_next_event, reset_stuck_running). *)
LEMMA HandledStep ==
    ASSUME Base, KeysAreHeld, Handled, [Next]_vars
    PROVE  Handled'
<1> USE QueueAssumption DEF Base, TypeOK, MemoryOfServer, KeysAreHeld, Handled, RunningIsHandled, Working, vars, durable, pool, cancels, ghosts, Inactive, ThreadPhases
<1>1. CASE UNCHANGED vars
  BY <1>1
<1>2. CASE StartClaim
  BY <1>2 DEF StartClaim
<1>3. CASE ClaimNothing
  BY <1>3 DEF ClaimNothing
<1>4. CASE StopBegins
  BY <1>4 DEF StopBegins
<1>5. CASE Exit
  BY <1>5 DEF Exit, Forget
<1>6. CASE Crash
  BY <1>6 DEF Crash, Forget
<1>7. CASE Start
  BY <1>7 DEF Start, ReapAll, Recovered
<1>8. ASSUME NEW d \in Deliveries, Work(d) PROVE Handled'
  <2>1. CASE CommitClaim(d)
    BY <2>1 DEF CommitClaim, Claimable
  <2>2. CASE Bounce(d)
    BY <2>2 DEF Bounce, Busy
  <2>3. CASE Launch(d)
    BY <2>3 DEF Launch, Busy
  <2>4. CASE StartThread(d)
    BY <2>4 DEF StartThread
  <2>5. CASE Spawn(d)
    BY <2>5 DEF Spawn, Result
  <2>6. CASE SpawnFails(d)
    BY <2>6 DEF SpawnFails, Result
  <2>7. CASE Arm(d)
    BY <2>7 DEF Arm
  <2>8. CASE Succeed(d)
    BY <2>8 DEF Succeed, Mark, Finally, FreeKey, LockHeld, Reaped
  <2>9. CASE Fail(d)
    BY <2>9 DEF Fail, Retryable, Finally, FreeKey, LockHeld, Reaped
  <2>10. CASE Release(d)
    BY <2>10 DEF Release, LockHeld
  <2>11. CASE BackoffEnds(d)
    BY <2>11 DEF BackoffEnds
  <2>12. ASSUME NEW s \in Slots, TakeSlot(d, s) PROVE Handled'
    BY <2>12 DEF TakeSlot
  <2>13. ASSUME NEW ok \in BOOLEAN, TurnEnds(d, ok) PROVE Handled'
    BY <2>13 DEF TurnEnds, Result
  <2>14. QED
    BY <1>8, <2>1, <2>2, <2>3, <2>4, <2>5, <2>6, <2>7, <2>8, <2>9, <2>10, <2>11, <2>12, <2>13 DEF Work
<1>9. ASSUME NEW d \in Deliveries, Replay(d) PROVE Handled'
  BY <1>9 DEF Replay, ByHand
<1>10. ASSUME NEW d \in Deliveries, Retriage(d) PROVE Handled'
  BY <1>10 DEF Retriage, ByHand
<1>11. ASSUME NEW d \in Deliveries, Cancel(d) PROVE Handled'
  BY <1>11 DEF Cancel
<1>12. ASSUME NEW d \in Deliveries, InterruptArmed(d) PROVE Handled'
  BY <1>12 DEF InterruptArmed
<1>13. ASSUME NEW d \in Deliveries, InterruptTask(d) PROVE Handled'
  BY <1>13 DEF InterruptTask, Finally, FreeKey, LockHeld, Reaped
<1>14. ASSUME NEW d \in Deliveries, NEW s \in {"queued", "skipped"}, Record(d, s)
      PROVE  Handled'
  BY <1>14 DEF Record
<1>15. QED
  BY <1>1, <1>2, <1>3, <1>4, <1>5, <1>6, <1>7, <1>8, <1>9, <1>10, <1>11, <1>12, <1>13, <1>14 DEF Next

(* Agents and the tasks that wait for them (_reap_slot, _run_event).       *)
LEMMA AgentsStep ==
    ASSUME Base, KeysAreHeld, AgentsHaveTasks, [Next]_vars
    PROVE  AgentsHaveTasks'
<1> USE QueueAssumption DEF Base, TypeOK, SlotsAreTaken, HasSlot, MemoryOfServer, KeysAreHeld, AgentsHaveTasks, vars, durable, pool, cancels, ghosts, Inactive, ThreadPhases
<1>1. CASE UNCHANGED vars
  BY <1>1
<1>2. CASE StartClaim
  BY <1>2 DEF StartClaim
<1>3. CASE ClaimNothing
  BY <1>3 DEF ClaimNothing
<1>4. CASE StopBegins
  BY <1>4 DEF StopBegins
<1>5. CASE Exit
  BY <1>5 DEF Exit, Forget
<1>6. CASE Crash
  BY <1>6 DEF Crash, Forget
<1>7. CASE Start
  BY <1>7 DEF Start, ReapAll, Recovered
<1>8. ASSUME NEW d \in Deliveries, Work(d) PROVE AgentsHaveTasks'
  <2>1. CASE CommitClaim(d)
    BY <2>1 DEF CommitClaim, Claimable
  <2>2. CASE Bounce(d)
    BY <2>2 DEF Bounce, Busy
  <2>3. CASE Launch(d)
    BY <2>3 DEF Launch, Busy
  <2>4. CASE StartThread(d)
    BY <2>4 DEF StartThread
  <2>5. CASE Spawn(d)
    BY <2>5 DEF Spawn, Result
  <2>6. CASE SpawnFails(d)
    BY <2>6 DEF SpawnFails, Result
  <2>7. CASE Arm(d)
    BY <2>7 DEF Arm
  <2>8. CASE Succeed(d)
    BY <2>8 DEF Succeed, Mark, Finally, FreeKey, LockHeld, Reaped
  <2>9. CASE Fail(d)
    BY <2>9 DEF Fail, Retryable, Finally, FreeKey, LockHeld, Reaped
  <2>10. CASE Release(d)
    BY <2>10 DEF Release, LockHeld
  <2>11. CASE BackoffEnds(d)
    BY <2>11 DEF BackoffEnds
  <2>12. ASSUME NEW s \in Slots, TakeSlot(d, s) PROVE AgentsHaveTasks'
    BY <2>12 DEF TakeSlot
  <2>13. ASSUME NEW ok \in BOOLEAN, TurnEnds(d, ok) PROVE AgentsHaveTasks'
    BY <2>13 DEF TurnEnds, Result
  <2>14. QED
    BY <1>8, <2>1, <2>2, <2>3, <2>4, <2>5, <2>6, <2>7, <2>8, <2>9, <2>10, <2>11, <2>12, <2>13 DEF Work
<1>9. ASSUME NEW d \in Deliveries, Replay(d) PROVE AgentsHaveTasks'
  BY <1>9 DEF Replay, ByHand
<1>10. ASSUME NEW d \in Deliveries, Retriage(d) PROVE AgentsHaveTasks'
  BY <1>10 DEF Retriage, ByHand
<1>11. ASSUME NEW d \in Deliveries, Cancel(d) PROVE AgentsHaveTasks'
  BY <1>11 DEF Cancel
<1>12. ASSUME NEW d \in Deliveries, InterruptArmed(d) PROVE AgentsHaveTasks'
  BY <1>12 DEF InterruptArmed
<1>13. ASSUME NEW d \in Deliveries, InterruptTask(d) PROVE AgentsHaveTasks'
  BY <1>13 DEF InterruptTask, Finally, FreeKey, LockHeld, Reaped
<1>14. ASSUME NEW d \in Deliveries, NEW s \in {"queued", "skipped"}, Record(d, s)
      PROVE  AgentsHaveTasks'
  BY <1>14 DEF Record
<1>15. QED
  BY <1>1, <1>2, <1>3, <1>4, <1>5, <1>6, <1>7, <1>8, <1>9, <1>10, <1>11, <1>12, <1>13, <1>14 DEF Next

(* Cancels (cancel_event, _dispatch_and_mark).                             *)
LEMMA CancelsStep ==
    ASSUME Base, KeysAreHeld, Handled, CancelsAreKept, [Next]_vars
    PROVE  CancelsAreKept'
<1> USE QueueAssumption DEF Base, TypeOK, MemoryOfServer, KeysAreHeld, Handled, RunningIsHandled, CancelsAreKept, Working, vars, durable, pool, cancels, ghosts, Inactive, ThreadPhases
<1>1. CASE UNCHANGED vars
  BY <1>1
<1>2. CASE StartClaim
  BY <1>2 DEF StartClaim
<1>3. CASE ClaimNothing
  BY <1>3 DEF ClaimNothing
<1>4. CASE StopBegins
  BY <1>4 DEF StopBegins
<1>5. CASE Exit
  BY <1>5 DEF Exit, Forget
<1>6. CASE Crash
  BY <1>6 DEF Crash, Forget
<1>7. CASE Start
  BY <1>7 DEF Start, ReapAll, Recovered
<1>8. ASSUME NEW d \in Deliveries, Work(d) PROVE CancelsAreKept'
  <2>1. CASE CommitClaim(d)
    BY <2>1 DEF CommitClaim, Claimable
  <2>2. CASE Bounce(d)
    BY <2>2 DEF Bounce, Busy
  <2>3. CASE Launch(d)
    BY <2>3 DEF Launch, Busy
  <2>4. CASE StartThread(d)
    BY <2>4 DEF StartThread
  <2>5. CASE Spawn(d)
    BY <2>5 DEF Spawn, Result
  <2>6. CASE SpawnFails(d)
    BY <2>6 DEF SpawnFails, Result
  <2>7. CASE Arm(d)
    BY <2>7 DEF Arm
  <2>8. CASE Succeed(d)
    BY <2>8 DEF Succeed, Mark, Finally, FreeKey, LockHeld, Reaped
  <2>9. CASE Fail(d)
    BY <2>9 DEF Fail, Retryable, Finally, FreeKey, LockHeld, Reaped
  <2>10. CASE Release(d)
    BY <2>10 DEF Release, LockHeld
  <2>11. CASE BackoffEnds(d)
    BY <2>11 DEF BackoffEnds
  <2>12. ASSUME NEW s \in Slots, TakeSlot(d, s) PROVE CancelsAreKept'
    BY <2>12 DEF TakeSlot
  <2>13. ASSUME NEW ok \in BOOLEAN, TurnEnds(d, ok) PROVE CancelsAreKept'
    BY <2>13 DEF TurnEnds, Result
  <2>14. QED
    BY <1>8, <2>1, <2>2, <2>3, <2>4, <2>5, <2>6, <2>7, <2>8, <2>9, <2>10, <2>11, <2>12, <2>13 DEF Work
<1>9. ASSUME NEW d \in Deliveries, Replay(d) PROVE CancelsAreKept'
  BY <1>9 DEF Replay, ByHand
<1>10. ASSUME NEW d \in Deliveries, Retriage(d) PROVE CancelsAreKept'
  BY <1>10 DEF Retriage, ByHand
<1>11. ASSUME NEW d \in Deliveries, Cancel(d) PROVE CancelsAreKept'
  BY <1>11 DEF Cancel
<1>12. ASSUME NEW d \in Deliveries, InterruptArmed(d) PROVE CancelsAreKept'
  BY <1>12 DEF InterruptArmed
<1>13. ASSUME NEW d \in Deliveries, InterruptTask(d) PROVE CancelsAreKept'
  BY <1>13 DEF InterruptTask, Finally, FreeKey, LockHeld, Reaped
<1>14. ASSUME NEW d \in Deliveries, NEW s \in {"queued", "skipped"}, Record(d, s)
      PROVE  CancelsAreKept'
  BY <1>14 DEF Record
<1>15. QED
  BY <1>1, <1>2, <1>3, <1>4, <1>5, <1>6, <1>7, <1>8, <1>9, <1>10, <1>11, <1>12, <1>13, <1>14 DEF Next

-----------------------------------------------------------------------------
(* The theorems                                                            *)

IInv ==
    /\ Base
    /\ KeysAreHeld
    /\ Handled
    /\ AgentsHaveTasks
    /\ CancelsAreKept

LEMMA Invariance == Spec => []IInv
<1>1. Init => IInv
  BY QueueAssumption
  DEF Init, IInv, Base, TypeOK, SlotsAreTaken, HasSlot, MemoryOfServer, KeysAreHeld,
      Handled, RunningIsHandled, Working, AgentsHaveTasks, CancelsAreKept, Inactive,
      ThreadPhases
<1>2. IInv /\ [Next]_vars => IInv'
  BY BaseStep, KeysStep, HandledStep, AgentsStep, CancelsStep DEF IInv
<1>3. QED
  BY <1>1, <1>2, PTL DEF Spec

(* Type correctness: among others, a task that has a slot has one of the   *)
(* pool's, and the attempts of a row stay in their bounds (slot_pool.py,   *)
(* claim_next_event).                                                      *)
THEOREM QueueTypeOK == Spec => []TypeOK
  BY Invariance, PTL DEF IInv, Base

(* While the pool is up, the rows marked running are exactly those in the  *)
(* hands of the dispatcher or of a task (reset_stuck_running).             *)
THEOREM RunningRowsAreHandled == Spec => []RunningIsHandled
  BY Invariance, PTL DEF IInv, Handled

(* An issue has one event task at a time, and _inflight holds exactly the  *)
(* keys of the tasks (_claim_next_unique).                                 *)
THEOREM IssuesHaveOneTask == Spec => []OneTaskPerIssue
<1>1. IInv => OneTaskPerIssue
  BY QueueAssumption DEF IInv, Base, TypeOK, KeysAreHeld, OneTaskPerIssue
<1>2. QED
  BY <1>1, Invariance, PTL

(* While the pool is up, an agent runs for one task that waits for it,     *)
(* under a uid that is not free and that no other agent has (_reap_slot,   *)
(* _reap_all_slots).                                                       *)
THEOREM AgentsHaveOneOwner == Spec => []AgentsAreOwned
<1>1. IInv => AgentsAreOwned
  BY QueueAssumption
  DEF IInv, Base, TypeOK, SlotsAreTaken, HasSlot, AgentsHaveTasks, AgentsAreOwned
<1>2. QED
  BY <1>1, Invariance, PTL

(* A delivery whose cancellation the process has accepted is not completed *)
(* by it, wherever the request met it (cancel_event, _dispatch_and_mark).  *)
THEOREM CancelsAreHonoured == Spec => []CancelHonoured
<1>1. IInv => CancelHonoured
  BY DEF IInv, CancelsAreKept, CancelHonoured
<1>2. QED
  BY <1>1, Invariance, PTL
=============================================================================

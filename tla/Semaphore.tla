----------------------------- MODULE Semaphore -----------------------------
(***************************************************************************)
(* The counting semaphore of task/parallel.ts and its two uses: the spawn  *)
(* semaphore of a task tool (task/index.ts), whose ceiling is refreshed    *)
(* from the settings whenever a slot is released and before a job waits    *)
(* for one, and the provider semaphores (task/provider-concurrency.ts),    *)
(* refreshed by each request that acquires.  A caller may refresh or not   *)
(* at every acquire and release, which covers both.  A ceiling of 0 stands *)
(* for none.                                                               *)
(***************************************************************************)
EXTENDS Naturals, SequencesExt

CONSTANTS
    Clients,  \* spawned jobs, inline spawns or LLM requests
    Limits    \* values of the concurrency setting

ASSUME SemaphoreAssumption ==
    /\ IsFiniteSet(Clients)
    /\ Limits \subseteq Nat

VARIABLES
    setting,  \* the concurrency setting
    max,      \* #max
    current,  \* #current
    queue,    \* #queue: the waiters in order
    pc        \* a client is "out", "queued" or "holding"

vars == <<setting, max, current, queue, pc>>

TypeOK ==
    /\ setting \in Limits
    /\ max \in Limits
    /\ current \in Nat
    /\ queue \in Seq(Clients)
    /\ pc \in [Clients -> {"out", "queued", "holding"}]

Holders == {c \in Clients : pc[c] = "holding"}

-----------------------------------------------------------------------------

Under(k, m) == m = 0 \/ k < m

(* Variant: the last slot is never handed to a waiter.                     *)
FitsLess(k, m) ==
    IF m = 0 THEN Len(queue)
    ELSE IF m > k + Len(queue) THEN Len(queue) ELSE IF k + 1 < m THEN m - k - 1 ELSE 0

(* How many waiters fit when k slots are taken and the ceiling is m.       *)
Fits(k, m) ==
    IF m = 0 THEN Len(queue)
    ELSE IF k >= m THEN 0
    ELSE IF m - k >= Len(queue) THEN Len(queue) ELSE m - k

First(n) == {queue[i] : i \in 1..n}

Rest(n) == SubSeq(queue, n + 1, Len(queue))

(* Variant: a new waiter goes to the front of the queue.                   *)
JoinedFirst(q, c) == <<c>> \o q

Joined(q, c) == Append(q, c)

(* The first n waiters get a slot.                                         *)
Admitted(n) == [c \in Clients |-> IF c \in First(n) THEN "holding" ELSE pc[c]]

-----------------------------------------------------------------------------

(* The ceiling and the number of waiters a refresh admits, if there is one.*)
Ceiling(refresh) == IF refresh THEN setting ELSE max
Refreshed(refresh) == IF refresh THEN Fits(current, setting) ELSE 0

(* acquire: the refresh admits waiters that now fit, then the client takes *)
(* a slot or joins the queue.                                              *)
Acquire(c, refresh) ==
    LET m == Ceiling(refresh)
        n == Refreshed(refresh)
    IN  /\ pc[c] = "out"
        /\ max' = m
        /\ IF Under(current + n, m)
           THEN /\ current' = current + n + 1
                /\ queue' = Rest(n)
                /\ pc' = [Admitted(n) EXCEPT ![c] = "holding"]
           ELSE /\ current' = current + n
                /\ queue' = Joined(Rest(n), c)
                /\ pc' = [Admitted(n) EXCEPT ![c] = "queued"]
        /\ UNCHANGED setting

(* A client that is aborted before it acquires only refreshes the ceiling. *)
Refresh ==
    LET n == Fits(current, setting)
    IN  /\ max' = setting
        /\ current' = current + n
        /\ queue' = Rest(n)
        /\ pc' = Admitted(n)
        /\ UNCHANGED setting

Leave(c) ==
    \E i \in 1..Len(queue) : queue[i] = c /\ queue' = RemoveAt(queue, i)

(* Variant: the abandoned waiter stays in the queue.                       *)
AbandonInPlace(c) ==
    /\ pc[c] = "queued"
    /\ pc' = [pc EXCEPT ![c] = "out"]
    /\ UNCHANGED <<setting, max, current, queue>>

(* Variant: the abandoned waiter gives back a slot it never had.           *)
AbandonReleasing(c) ==
    /\ pc[c] = "queued"
    /\ pc' = [pc EXCEPT ![c] = "out"]
    /\ current' = current - 1
    /\ Leave(c)
    /\ UNCHANGED <<setting, max>>

(* A waiter whose signal is aborted leaves the queue.                      *)
Abandon(c) ==
    /\ pc[c] = "queued"
    /\ pc' = [pc EXCEPT ![c] = "out"]
    /\ Leave(c)
    /\ UNCHANGED <<setting, max, current>>

(* Variants: the freed slot is not handed to a waiter, or is handed to the *)
(* first one whatever the ceiling.                                         *)
HandSilent(k, m, n) == n

HandOver(k, m, n) == IF n < Len(queue) THEN n + 1 ELSE n

(* With k slots taken and n waiters admitted, one more is if it fits.      *)
Handed(k, m, n) == IF Under(k, m) /\ n < Len(queue) THEN n + 1 ELSE n

(* release: after the refresh, the freed slot goes to the first waiter.    *)
Release(c, refresh) ==
    LET m == Ceiling(refresh)
        n == Refreshed(refresh)
        t == Handed(current + n - 1, m, n)
    IN  /\ pc[c] = "holding"
        /\ max' = m
        /\ current' = current + t - 1
        /\ queue' = Rest(t)
        /\ pc' = [Admitted(t) EXCEPT ![c] = "out"]
        /\ UNCHANGED setting

ChangeSetting(n) ==
    /\ setting' = n
    /\ UNCHANGED <<max, current, queue, pc>>

-----------------------------------------------------------------------------

Init ==
    /\ setting \in Limits
    /\ max = setting
    /\ current = 0
    /\ queue = <<>>
    /\ pc = [c \in Clients |-> "out"]

Next ==
    \/ \E c \in Clients :
          \/ \E refresh \in BOOLEAN : Acquire(c, refresh) \/ Release(c, refresh)
          \/ Abandon(c)
    \/ Refresh
    \/ \E n \in Limits : ChangeSetting(n)

Spec == Init /\ [][Next]_vars

(* Every holder gives its slot back: jobs end, streams finish.             *)
Fairness ==
    \A c \in Clients : WF_vars(\E refresh \in BOOLEAN : Release(c, refresh))

FairSpec == Spec /\ Fairness

-----------------------------------------------------------------------------
(* Properties                                                              *)

(* The count is the number of holders: no slot leaks when a waiter is      *)
(* abandoned, none is given back twice.                                    *)
SlotAccounting == current = Cardinality(Holders)

(* Nobody waits while a slot is free.                                      *)
NoIdleSlot == queue # <<>> => ~Under(current, max)

(* The queue holds the waiting clients, each once.                         *)
QueueIsWaiters ==
    /\ \A c \in Clients : pc[c] = "queued" <=> \E i \in 1..Len(queue) : queue[i] = c
    /\ \A i, j \in 1..Len(queue) : queue[i] = queue[j] => i = j

Before(c, d) ==
    \E i, j \in 1..Len(queue) : i < j /\ queue[i] = c /\ queue[j] = d

(* First come, first served: nobody who came after a waiter, or has yet to *)
(* come, gets a slot or a better place while it still waits.               *)
FirstComeFirstServed ==
    [][\A c, d \in Clients :
          /\ pc[c] = "queued" /\ pc'[c] = "queued"
          /\ pc[d] = "out" \/ Before(c, d)
          => pc'[d] = "out" \/ Before(c, d)']_vars

(* Every waiter is admitted or abandons its wait.                          *)
EveryWaitEnds == \A c \in Clients : pc[c] = "queued" ~> pc[c] # "queued"

(* The semaphore implements the pool of slots.                             *)
Pool == INSTANCE SlotPool WITH holders <- Holders, limit <- max

PoolSpec == Pool!Spec

=============================================================================

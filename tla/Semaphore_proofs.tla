------------------------- MODULE Semaphore_proofs --------------------------
(***************************************************************************)
(* The semaphore counts right, wastes no slot, serves its waiters in order *)
(* and implements the pool of slots, for any number of clients and any     *)
(* ceilings.                                                               *)
(***************************************************************************)
EXTENDS Semaphore, FiniteSetTheorems, SequenceTheorems, TLAPS

(* What the proofs need to know of each other's facts at once.             *)
SemInv == TypeOK /\ QueueIsWaiters /\ SlotAccounting /\ NoIdleSlot

-----------------------------------------------------------------------------
(* The operators the actions are built from                                *)

(* Fits never counts more than the queue holds or the ceiling allows, and  *)
(* leaves a waiter behind only when no slot is left for it.                *)
LEMMA FitsBounds ==
    ASSUME TypeOK, NEW k \in Nat, NEW m \in Nat
    PROVE  /\ Fits(k, m) \in 0..Len(queue)
           /\ Fits(k, m) > 0 => m = 0 \/ k + Fits(k, m) <= m
           /\ Fits(k, m) < Len(queue) => ~Under(k + Fits(k, m), m)
  BY DEF TypeOK, Fits, Under

(* The first n waiters are n clients.                                      *)
LEMMA FirstCount ==
    ASSUME TypeOK, QueueIsWaiters, NEW n \in 0..Len(queue)
    PROVE  First(n) \subseteq Clients /\ IsFiniteSet(First(n)) /\ Cardinality(First(n)) = n
<1> DEFINE f == [i \in 1..n |-> queue[i]]
<1>1. First(n) \subseteq Clients  BY DEF First, TypeOK
<1>2. f \in Bijection(1..n, First(n))
  BY DEF First, TypeOK, QueueIsWaiters, Bijection, Injection, Surjection, IsInjective
<1>3. IsFiniteSet(1..n) /\ Cardinality(1..n) = n
  BY FS_Interval DEF TypeOK
<1>4. ExistsBijection(1..n, First(n))  BY <1>2 DEF ExistsBijection
<1>5. QED  BY <1>1, <1>3, <1>4, FS_Bijection

(* What is left of the queue when n waiters are admitted.                  *)
LEMMA RestOf ==
    ASSUME TypeOK, NEW n \in 0..Len(queue)
    PROVE  /\ Rest(n) \in Seq(Clients)
           /\ Len(Rest(n)) = Len(queue) - n
           /\ \A i \in 1..Len(Rest(n)) : Rest(n)[i] = queue[n + i]
  BY SMTT(30), SubSeqProperties DEF TypeOK, Rest

(* The holders can be counted.                                             *)
LEMMA HoldersFinite ==
    ASSUME SemaphoreAssumption
    PROVE  IsFiniteSet(Holders) /\ Cardinality(Holders) \in Nat
  BY FS_Subset, FS_CardinalityType DEF SemaphoreAssumption, Holders

(* The holders after n waiters are admitted.                               *)
HoldersAfter(n) == {c \in Clients : Admitted(n)[c] = "holding"}

(* Admitting n waiters takes them from the queue and makes n more holders. *)
LEMMA Admission ==
    ASSUME TypeOK, QueueIsWaiters, NEW n \in 0..Len(queue)
    PROVE  /\ Admitted(n) \in [Clients -> {"out", "queued", "holding"}]
           /\ \A c \in Clients :
                 Admitted(n)[c] = "queued" <=> \E i \in 1..Len(Rest(n)) : Rest(n)[i] = c
           /\ \A i, j \in 1..Len(Rest(n)) : Rest(n)[i] = Rest(n)[j] => i = j
           /\ \A c \in Clients : pc[c] # "queued" => Admitted(n)[c] = pc[c]
           /\ IsFiniteSet(HoldersAfter(n))
           /\ Cardinality(HoldersAfter(n)) = Cardinality(Holders) + n
<1>1. Len(queue) \in Nat /\ n \in Nat /\ n <= Len(queue)  BY DEF TypeOK
<1>2. \A i \in 1..n : i \in 1..Len(queue)  BY <1>1
<1>3. \A i \in 1..Len(Rest(n)) :
         n + i \in n+1..Len(queue) /\ n + i \in 1..Len(queue) /\ Rest(n)[i] = queue[n + i]
  BY <1>1, RestOf
<1>4. Admitted(n) \in [Clients -> {"out", "queued", "holding"}]
  BY DEF TypeOK, Admitted
<1>5. \A c \in First(n) : c \in Clients /\ pc[c] = "queued"
  BY <1>2, FirstCount DEF First, QueueIsWaiters
<1>6. \A i, j \in 1..Len(Rest(n)) : Rest(n)[i] = Rest(n)[j] => i = j
  <2> SUFFICES ASSUME NEW i \in 1..Len(Rest(n)), NEW j \in 1..Len(Rest(n)), Rest(n)[i] = Rest(n)[j]
               PROVE  i = j
    OBVIOUS
  <2>1. n + i \in 1..Len(queue) /\ n + j \in 1..Len(queue) /\ queue[n + i] = queue[n + j]
    BY <1>3, <1>1
  <2>2. n + i = n + j  BY <2>1 DEF QueueIsWaiters
  <2>3. QED  BY <1>1, <2>2
<1>7. ASSUME NEW c \in Clients
      PROVE  Admitted(n)[c] = "queued" <=> \E i \in 1..Len(Rest(n)) : Rest(n)[i] = c
  <2>1. CASE c \in First(n)
    <3>1. PICK j \in 1..n : queue[j] = c  BY <2>1 DEF First
    <3>2. \A i \in 1..Len(Rest(n)) : Rest(n)[i] # c
      <4> SUFFICES ASSUME NEW i \in 1..Len(Rest(n)), Rest(n)[i] = c PROVE FALSE
        OBVIOUS
      <4>1. n + i = j  BY <1>2, <1>3, <1>1, <3>1 DEF QueueIsWaiters
      <4>2. QED  BY <1>3, <1>1, <4>1
    <3>3. QED  BY <2>1, <3>2 DEF Admitted
  <2>2. CASE c \notin First(n)
    <3>1. ASSUME NEW j \in 1..Len(queue), queue[j] = c
          PROVE  \E i \in 1..Len(Rest(n)) : Rest(n)[i] = c
      <4>1. j > n  BY <1>1, <2>2, <3>1 DEF First
      <4>2. Len(Rest(n)) = Len(queue) - n  BY RestOf
      <4>3. j - n \in 1..Len(Rest(n)) /\ n + (j - n) = j  BY <1>1, <4>1, <4>2
      <4>4. QED  BY <3>1, <4>3, <1>3
    <3>2. ASSUME NEW i \in 1..Len(Rest(n)), Rest(n)[i] = c
          PROVE  \E j \in 1..Len(queue) : queue[j] = c
      BY <3>2, <1>3
    <3>3. QED  BY <2>2, <3>1, <3>2 DEF Admitted, QueueIsWaiters
  <2>3. QED  BY <2>1, <2>2
<1>8. \A c \in Clients : pc[c] # "queued" => Admitted(n)[c] = pc[c]
  BY <1>5 DEF Admitted
<1>9. HoldersAfter(n) = Holders \cup First(n) /\ Holders \cap First(n) = {}
  BY <1>5, FirstCount DEF HoldersAfter, Holders, Admitted
<1>10. /\ IsFiniteSet(HoldersAfter(n))
      /\ Cardinality(HoldersAfter(n)) = Cardinality(Holders) + n
  <2>1. IsFiniteSet(First(n)) /\ Cardinality(First(n)) = n  BY FirstCount
  <2>2. IsFiniteSet(Holders) /\ Cardinality(Holders) \in Nat
    BY HoldersFinite, SemaphoreAssumption
  <2>3. IsFiniteSet(Holders \cup First(n)) /\ Cardinality(Holders \cup First(n)) =
           Cardinality(Holders) + Cardinality(First(n)) - Cardinality(Holders \cap First(n))
    BY <2>1, <2>2, FS_Union
  <2>4. Cardinality(Holders \cap First(n)) = 0  BY <1>9, FS_EmptySet
  <2>5. QED  BY <1>9, <2>1, <2>2, <2>3, <2>4
<1>11. QED  BY <1>4, <1>6, <1>7, <1>8, <1>10

(* The same, of a refresh that may or may not take place: it leaves a      *)
(* waiter behind only when no slot is left.                                *)
LEMMA RefreshedBounds ==
    ASSUME SemInv, NEW refresh \in BOOLEAN
    PROVE  /\ Ceiling(refresh) \in Limits /\ Ceiling(refresh) \in Nat
           /\ Refreshed(refresh) \in 0..Len(queue)
           /\ Refreshed(refresh) > 0 =>
                 Ceiling(refresh) = 0 \/ current + Refreshed(refresh) <= Ceiling(refresh)
           /\ Refreshed(refresh) < Len(queue) =>
                 ~Under(current + Refreshed(refresh), Ceiling(refresh))
<1>1. setting \in Nat /\ max \in Nat /\ setting \in Limits /\ max \in Limits /\ current \in Nat
  BY SemaphoreAssumption DEF SemInv, TypeOK
<1>2. CASE refresh
  BY <1>1, <1>2, FitsBounds DEF SemInv, Ceiling, Refreshed
<1>3. CASE ~refresh
  <2>1. 0 < Len(queue) => queue # <<>>  OBVIOUS
  <2>2. Len(queue) \in Nat /\ current + 0 = current  BY <1>1 DEF SemInv, TypeOK
  <2>3. QED  BY <1>1, <1>3, <2>1, <2>2 DEF SemInv, NoIdleSlot, Ceiling, Refreshed
<1>4. QED  BY <1>2, <1>3

-----------------------------------------------------------------------------
(* The actions                                                             *)

(* At first nobody holds a slot or waits for one.                          *)
LEMMA Init_SemInv ==
    ASSUME SemaphoreAssumption, Init
    PROVE  SemInv
<1>1. TypeOK  BY DEF Init, TypeOK
<1>2. QueueIsWaiters  BY DEF Init, QueueIsWaiters
<1>3. Holders = {}  BY DEF Init, Holders
<1>4. SlotAccounting  BY <1>3, FS_EmptySet DEF SlotAccounting, Init
<1>5. NoIdleSlot  BY DEF Init, NoIdleSlot
<1>6. QED  BY <1>1, <1>2, <1>4, <1>5 DEF SemInv

(* acquire: the client joins the holders, or the queue when it is full.    *)
LEMMA Acquire_Inv ==
    ASSUME SemaphoreAssumption, SemInv, NEW c \in Clients, NEW refresh \in BOOLEAN,
           Acquire(c, refresh)
    PROVE  SemInv'
<1> DEFINE m == Ceiling(refresh)
           n == Refreshed(refresh)
<1>1. /\ TypeOK /\ QueueIsWaiters /\ SlotAccounting
      /\ pc[c] = "out" /\ max' = m /\ setting' = setting
  BY DEF SemInv, Acquire
<1>2. /\ m \in Limits /\ m \in Nat /\ n \in 0..Len(queue)
      /\ n < Len(queue) => ~Under(current + n, m)
  BY RefreshedBounds
<1>3. /\ Rest(n) \in Seq(Clients) /\ Len(Rest(n)) = Len(queue) - n
      /\ Len(queue) \in Nat /\ current \in Nat /\ n \in Nat
  BY <1>1, <1>2, RestOf DEF TypeOK
<1>4. /\ Admitted(n) \in [Clients -> {"out", "queued", "holding"}]
      /\ \A d \in Clients :
            Admitted(n)[d] = "queued" <=> \E i \in 1..Len(Rest(n)) : Rest(n)[i] = d
      /\ \A i, j \in 1..Len(Rest(n)) : Rest(n)[i] = Rest(n)[j] => i = j
      /\ Admitted(n)[c] = "out"
      /\ IsFiniteSet(HoldersAfter(n))
      /\ Cardinality(HoldersAfter(n)) = current + n
  BY <1>1, <1>2, Admission DEF SlotAccounting
<1>5. CASE Under(current + n, m)
  <2>1. /\ current' = current + n + 1 /\ queue' = Rest(n)
        /\ pc' = [Admitted(n) EXCEPT ![c] = "holding"]
    BY <1>5 DEF Acquire
  <2>2. TypeOK'  BY <1>1, <1>2, <1>3, <1>4, <2>1 DEF TypeOK
  <2>3. QueueIsWaiters'  BY <1>4, <2>1 DEF QueueIsWaiters
  <2>4. Holders' = HoldersAfter(n) \cup {c} /\ c \notin HoldersAfter(n)
    BY <1>4, <2>1 DEF Holders, HoldersAfter
  <2>5. SlotAccounting'  BY <1>4, <2>1, <2>4, FS_AddElement DEF SlotAccounting
  <2>6. Len(queue') = 0  BY <1>2, <1>3, <1>5, <2>1
  <2>7. NoIdleSlot'  BY <2>2, <2>6 DEF NoIdleSlot, TypeOK
  <2>8. QED  BY <2>2, <2>3, <2>5, <2>7 DEF SemInv
<1>6. CASE ~Under(current + n, m)
  <2>1. /\ current' = current + n /\ queue' = Append(Rest(n), c)
        /\ pc' = [Admitted(n) EXCEPT ![c] = "queued"]
    BY <1>6 DEF Acquire, Joined
  <2>2. TypeOK'  BY <1>1, <1>2, <1>3, <1>4, <2>1, AppendProperties DEF TypeOK
  <2>3. /\ Len(queue') = Len(Rest(n)) + 1 /\ queue'[Len(Rest(n)) + 1] = c
        /\ \A i \in 1..Len(Rest(n)) : queue'[i] = Rest(n)[i]
    BY <1>3, <2>1, AppendProperties
  <2>4. QueueIsWaiters'
    <3>1. \A i \in 1..Len(queue') : i \in 1..Len(Rest(n)) \/ i = Len(Rest(n)) + 1
      BY <1>2, <1>3, <2>3
    <3>2. Len(Rest(n)) + 1 \in 1..Len(queue') /\ 1..Len(Rest(n)) \subseteq 1..Len(queue')
      BY <1>2, <1>3, <2>3
    <3>3. \A i \in 1..Len(Rest(n)) : Rest(n)[i] # c  BY <1>4
    <3>4. QED  BY <1>4, <2>1, <2>3, <3>1, <3>2, <3>3 DEF QueueIsWaiters
  <2>5. Holders' = HoldersAfter(n)  BY <1>4, <2>1 DEF Holders, HoldersAfter
  <2>6. SlotAccounting' /\ NoIdleSlot'
    BY <1>1, <1>4, <1>6, <2>1, <2>5 DEF SlotAccounting, NoIdleSlot
  <2>7. QED  BY <2>2, <2>4, <2>6 DEF SemInv
<1>7. QED  BY <1>5, <1>6

(* release: the holder leaves and at most one waiter takes its place.      *)
LEMMA Release_Inv ==
    ASSUME SemaphoreAssumption, SemInv, NEW c \in Clients, NEW refresh \in BOOLEAN,
           Release(c, refresh)
    PROVE  SemInv'
<1> DEFINE m == Ceiling(refresh)
           n == Refreshed(refresh)
           t == Handed(current + n - 1, m, n)
<1>1. /\ TypeOK /\ QueueIsWaiters /\ SlotAccounting
      /\ pc[c] = "holding" /\ max' = m /\ setting' = setting
      /\ current' = current + t - 1 /\ queue' = Rest(t)
      /\ pc' = [Admitted(t) EXCEPT ![c] = "out"]
  BY DEF SemInv, Release
<1>2. current \in Nat /\ current >= 1
  <2>1. c \in Holders  BY <1>1 DEF Holders
  <2>2. IsFiniteSet(Holders) /\ Cardinality(Holders) \in Nat  BY HoldersFinite
  <2>3. Cardinality(Holders) # 0  BY <2>1, <2>2, FS_EmptySet
  <2>4. QED  BY <1>1, <2>2, <2>3 DEF SlotAccounting
<1>3. /\ m \in Limits /\ m \in Nat /\ n \in 0..Len(queue) /\ Len(queue) \in Nat
      /\ n < Len(queue) => ~Under(current + n, m)
  BY <1>1, RefreshedBounds DEF TypeOK
<1>4. /\ t \in 0..Len(queue)
      /\ t < Len(queue) => ~Under(current + t - 1, m)
  BY <1>2, <1>3 DEF Handed, Under
<1>5. /\ Rest(t) \in Seq(Clients) /\ Len(Rest(t)) = Len(queue) - t
  BY <1>1, <1>4, RestOf
<1>6. /\ Admitted(t) \in [Clients -> {"out", "queued", "holding"}]
      /\ \A d \in Clients :
            Admitted(t)[d] = "queued" <=> \E i \in 1..Len(Rest(t)) : Rest(t)[i] = d
      /\ \A i, j \in 1..Len(Rest(t)) : Rest(t)[i] = Rest(t)[j] => i = j
      /\ Admitted(t)[c] = "holding"
      /\ IsFiniteSet(HoldersAfter(t))
      /\ Cardinality(HoldersAfter(t)) = current + t
  BY <1>1, <1>4, Admission DEF SlotAccounting
<1>7. TypeOK'
  BY <1>1, <1>2, <1>3, <1>4, <1>5, <1>6 DEF TypeOK
<1>8. QueueIsWaiters'
  BY <1>1, <1>6 DEF QueueIsWaiters
<1>9. Holders' = HoldersAfter(t) \ {c} /\ c \in HoldersAfter(t)
  BY <1>1, <1>6 DEF Holders, HoldersAfter
<1>10. SlotAccounting'
  <2>1. Cardinality(HoldersAfter(t) \ {c}) = Cardinality(HoldersAfter(t)) - 1
    BY <1>6, <1>9, FS_RemoveElement
  <2>2. current' = Cardinality(HoldersAfter(t) \ {c})
    BY <1>1, <1>2, <1>4, <1>6, <2>1
  <2>3. QED  BY <1>9, <2>2 DEF SlotAccounting
<1>11. NoIdleSlot'
  <2>1. CASE t < Len(queue)  BY <1>1, <1>4, <2>1 DEF NoIdleSlot
  <2>2. CASE t = Len(queue)
    <3>1. Len(queue') = 0  BY <1>1, <1>3, <1>5, <2>2
    <3>2. QED  BY <1>7, <3>1 DEF NoIdleSlot, TypeOK
  <2>3. QED  BY <1>3, <1>4, <2>1, <2>2
<1>12. QED  BY <1>7, <1>8, <1>10, <1>11 DEF SemInv

(* resize, for a caller that goes on without a slot.                       *)
LEMMA Refresh_Inv ==
    ASSUME SemaphoreAssumption, SemInv, Refresh
    PROVE  SemInv'
<1> DEFINE n == Fits(current, setting)
<1>1. /\ TypeOK /\ QueueIsWaiters /\ SlotAccounting
      /\ max' = setting /\ setting' = setting
      /\ current' = current + n /\ queue' = Rest(n) /\ pc' = Admitted(n)
  BY DEF SemInv, Refresh
<1>2. setting \in Nat /\ current \in Nat /\ Len(queue) \in Nat
  BY <1>1 DEF SemaphoreAssumption, TypeOK
<1>3. n \in 0..Len(queue) /\ (n < Len(queue) => ~Under(current + n, setting))
  BY <1>1, <1>2, FitsBounds
<1>4. Rest(n) \in Seq(Clients) /\ Len(Rest(n)) = Len(queue) - n
  BY <1>1, <1>3, RestOf
<1>5. TypeOK' /\ QueueIsWaiters'
  BY SMTT(30), <1>1, <1>2, <1>3, <1>4, Admission DEF TypeOK, QueueIsWaiters
<1>6. SlotAccounting'
  <2>1. Holders' = HoldersAfter(n)  BY <1>1 DEF Holders, HoldersAfter
  <2>2. QED  BY <1>1, <1>3, <2>1, Admission DEF SlotAccounting
<1>7. NoIdleSlot'
  <2>1. CASE n < Len(queue)  BY <1>1, <1>3, <2>1 DEF NoIdleSlot
  <2>2. CASE n = Len(queue)
    <3>1. Len(queue') = 0  BY <1>1, <1>2, <1>4, <2>2
    <3>2. QED  BY <1>5, <3>1 DEF NoIdleSlot, TypeOK
  <2>3. QED  BY <1>2, <1>3, <2>1, <2>2
<1>8. QED  BY <1>5, <1>6, <1>7 DEF SemInv

(* What is left of a queue when the waiter at place k is spliced out.      *)
LEMMA Splice ==
    ASSUME NEW q \in Seq(Clients), NEW k \in 1..Len(q)
    PROVE  /\ RemoveAt(q, k) \in Seq(Clients)
           /\ Len(RemoveAt(q, k)) = Len(q) - 1
           /\ \A i \in 1..Len(q) - 1 :
                 RemoveAt(q, k)[i] = IF i < k THEN q[i] ELSE q[i + 1]
<1> DEFINE a == SubSeq(q, 1, k - 1)
           b == SubSeq(q, k + 1, Len(q))
<1>1. Len(q) \in Nat /\ k \in Nat /\ 1 <= k /\ k <= Len(q)  OBVIOUS
<1>2. a \in Seq(Clients) /\ Len(a) = k - 1 /\ \A i \in 1..k - 1 : a[i] = q[i]
  BY SubSeqProperties
<1>3. b \in Seq(Clients) /\ Len(b) = Len(q) - k /\ \A i \in 1..Len(q) - k : b[i] = q[k + i]
  BY SubSeqProperties
<1>4. RemoveAt(q, k) = a \o b  BY DEF RemoveAt
<1> HIDE DEF a, b
<1>5. /\ a \o b \in Seq(Clients) /\ Len(a \o b) = Len(q) - 1
      /\ \A i \in 1..Len(q) - 1 : (a \o b)[i] = IF i <= k - 1 THEN a[i] ELSE b[i - (k - 1)]
  <2>1. Len(a) + Len(b) = Len(q) - 1  BY <1>1, <1>2, <1>3
  <2>2. /\ a \o b \in Seq(Clients) /\ Len(a \o b) = Len(a) + Len(b)
        /\ \A i \in 1..Len(a) + Len(b) : (a \o b)[i] = IF i <= Len(a) THEN a[i] ELSE b[i - Len(a)]
    BY <1>2, <1>3, ConcatProperties
  <2>3. QED  BY <1>2, <2>1, <2>2
<1>6. ASSUME NEW i \in 1..Len(q) - 1
      PROVE  (a \o b)[i] = IF i < k THEN q[i] ELSE q[i + 1]
  <2>0. i \in Nat /\ 1 <= i /\ i <= Len(q) - 1  BY <1>1
  <2>1. CASE i < k
    <3>1. i \in 1..k - 1 /\ i <= k - 1  BY <1>1, <2>0, <2>1
    <3>2. QED  BY <1>2, <1>5, <2>1, <3>1
  <2>2. CASE ~(i < k)
    <3>1. i - (k - 1) \in 1..Len(q) - k /\ k + (i - (k - 1)) = i + 1 /\ ~(i <= k - 1)
      BY <1>1, <2>0, <2>2
    <3>2. QED  BY <1>3, <1>5, <2>2, <3>1
  <2>3. QED  BY <2>1, <2>2
<1>7. QED  BY <1>4, <1>5, <1>6

(* A waiter that leaves was in the queue once, and held no slot.           *)
LEMMA Abandon_Inv ==
    ASSUME SemInv, NEW c \in Clients, Abandon(c)
    PROVE  SemInv'
<1>1. /\ TypeOK /\ QueueIsWaiters /\ pc[c] = "queued"
      /\ pc' = [pc EXCEPT ![c] = "out"] /\ UNCHANGED <<setting, max, current>>
      /\ queue \in Seq(Clients) /\ Len(queue) \in Nat
  BY DEF SemInv, TypeOK, Abandon
<1>2. PICK k \in 1..Len(queue) : queue[k] = c /\ queue' = RemoveAt(queue, k)
  BY DEF Abandon, Leave
<1>3. /\ queue' \in Seq(Clients) /\ Len(queue') = Len(queue) - 1
      /\ \A i \in 1..Len(queue') : queue'[i] = IF i < k THEN queue[i] ELSE queue[i + 1]
  BY <1>1, <1>2, Splice
<1>4. TypeOK'  BY <1>1, <1>3 DEF TypeOK
<1>5. QueueIsWaiters'
  <2>1. \A i \in 1..Len(queue') :
           i \in 1..Len(queue) /\ i + 1 \in 1..Len(queue) /\ i \in Nat /\ i + 1 > i
    BY <1>1, <1>3
  <2>2. \A i, j \in 1..Len(queue) : queue[i] = queue[j] => i = j
    BY <1>1 DEF QueueIsWaiters
  <2>3. ASSUME NEW i \in 1..Len(queue'), NEW j \in 1..Len(queue'), queue'[i] = queue'[j]
        PROVE  i = j
    <3>1. CASE i < k /\ j < k  BY <1>3, <2>1, <2>2, <2>3, <3>1
    <3>2. CASE i < k /\ ~(j < k)
      <4>1. i = j + 1  BY <1>3, <2>1, <2>2, <2>3, <3>2
      <4>2. QED  BY <2>1, <3>2, <4>1
    <3>3. CASE ~(i < k) /\ j < k
      <4>1. i + 1 = j  BY <1>3, <2>1, <2>2, <2>3, <3>3
      <4>2. QED  BY <2>1, <3>3, <4>1
    <3>4. CASE ~(i < k) /\ ~(j < k)
      <4>1. i + 1 = j + 1  BY <1>3, <2>1, <2>2, <2>3, <3>4
      <4>2. QED  BY <2>1, <4>1
    <3>5. QED  BY <3>1, <3>2, <3>3, <3>4
  <2>4. ASSUME NEW i \in 1..Len(queue') PROVE queue'[i] # c
    <3>1. CASE i < k  BY <1>2, <1>3, <2>1, <2>2, <3>1
    <3>2. CASE ~(i < k)
      <4>1. i + 1 # k  BY <2>1, <3>2
      <4>2. QED  BY <1>2, <1>3, <2>1, <2>2, <3>2, <4>1
    <3>3. QED  BY <3>1, <3>2
  <2>5. ASSUME NEW d \in Clients, d # c, NEW j \in 1..Len(queue), queue[j] = d
        PROVE  \E i \in 1..Len(queue') : queue'[i] = d
    <3>1. j # k  BY <1>2, <2>5
    <3>2. CASE j < k
      <4>1. j \in 1..Len(queue')  BY <1>1, <1>2, <1>3, <3>2
      <4>2. QED  BY <1>3, <2>5, <3>2, <4>1
    <3>3. CASE j > k
      <4>1. j - 1 \in 1..Len(queue') /\ ~(j - 1 < k) /\ (j - 1) + 1 = j
        BY <1>1, <1>2, <1>3, <3>3
      <4>2. queue'[j - 1] = d  BY <1>3, <2>5, <4>1
      <4>3. QED  BY <4>1, <4>2
    <3>4. QED  BY <1>2, <3>1, <3>2, <3>3
  <2>6. ASSUME NEW d \in Clients, NEW i \in 1..Len(queue'), queue'[i] = d
        PROVE  \E j \in 1..Len(queue) : queue[j] = d
    BY <1>3, <2>1, <2>6
  <2>7. \A d \in Clients : d # c => (pc'[d] = "queued" <=> pc[d] = "queued")
    BY <1>1 DEF TypeOK
  <2>8. pc'[c] # "queued"  BY <1>1 DEF TypeOK
  <2>9. QED  BY <1>1, <2>3, <2>4, <2>5, <2>6, <2>7, <2>8 DEF QueueIsWaiters
<1>6. Holders' = Holders  BY <1>1 DEF Holders, TypeOK
<1>7. SlotAccounting'  BY <1>1, <1>6 DEF SemInv, SlotAccounting
<1>8. NoIdleSlot'
  <2>1. queue # <<>>  BY <1>1, <1>2
  <2>2. QED  BY <1>1, <2>1 DEF SemInv, NoIdleSlot
<1>9. QED  BY <1>4, <1>5, <1>7, <1>8 DEF SemInv

(* A new setting is not in force before a refresh.                         *)
LEMMA ChangeSetting_Inv ==
    ASSUME SemInv, NEW n \in Limits, ChangeSetting(n)
    PROVE  SemInv'
  BY DEF SemInv, TypeOK, QueueIsWaiters, SlotAccounting, NoIdleSlot, Holders, ChangeSetting

(* Every step preserves the invariant.                                     *)
LEMMA Next_SemInv ==
    ASSUME SemaphoreAssumption, SemInv, [Next]_vars
    PROVE  SemInv'
<1>1. CASE Next
  BY <1>1, Acquire_Inv, Release_Inv, Abandon_Inv, Refresh_Inv, ChangeSetting_Inv DEF Next
<1>2. CASE UNCHANGED vars
  BY <1>2 DEF vars, SemInv, TypeOK, QueueIsWaiters, SlotAccounting, NoIdleSlot, Holders
<1>3. QED  BY <1>1, <1>2

-----------------------------------------------------------------------------

(* So it holds for ever.                                                   *)
LEMMA SemInvHolds == Spec => []SemInv
  BY SemaphoreAssumption, Init_SemInv, Next_SemInv, PTL DEF Spec

(* The variables keep their types: the count of Semaphore never drops      *)
(* below zero, so that the guard of release on it is never needed.         *)
THEOREM SemaphoreTypeOK == Spec => []TypeOK
<1>1. SemInv => TypeOK  BY DEF SemInv
<1>2. QED  BY <1>1, SemInvHolds, PTL

(* #current of Semaphore is the number of clients that hold a slot: aborted*)
(* waits leak none, and no release gives one back twice.                   *)
THEOREM SlotsAreCounted == Spec => []SlotAccounting
<1>1. SemInv => SlotAccounting  BY DEF SemInv
<1>2. QED  BY <1>1, SemInvHolds, PTL

(* #queue of Semaphore holds the waiting clients, each once, when waiters  *)
(* are admitted, abort or arrive.                                          *)
THEOREM WaitersAreQueued == Spec => []QueueIsWaiters
<1>1. SemInv => QueueIsWaiters  BY DEF SemInv
<1>2. QED  BY <1>1, SemInvHolds, PTL

(* acquire, release and resize leave no client waiting while a slot is     *)
(* free, whatever becomes of the ceiling.                                  *)
THEOREM NoSlotIsIdle == Spec => []NoIdleSlot
<1>1. SemInv => NoIdleSlot  BY DEF SemInv
<1>2. QED  BY <1>1, SemInvHolds, PTL

-----------------------------------------------------------------------------
(* First come, first served                                                *)

(* Admitting n waiters leaves the others in their order.                   *)
LEMMA AdmissionKeepsOrder ==
    ASSUME TypeOK, QueueIsWaiters, NEW n \in 0..Len(queue),
           NEW c \in Clients, Admitted(n)[c] = "queued"
    PROVE  /\ n < Len(queue)
           /\ \E i \in 1..Len(Rest(n)) : Rest(n)[i] = c
           /\ \A d \in Clients : Before(c, d) =>
                 \E i, j \in 1..Len(Rest(n)) : i < j /\ Rest(n)[i] = c /\ Rest(n)[j] = d
<1>1. Len(queue) \in Nat /\ n \in Nat  BY DEF TypeOK
<1>2. Len(Rest(n)) = Len(queue) - n /\ \A i \in 1..Len(Rest(n)) : Rest(n)[i] = queue[n + i]
  BY RestOf
<1>3. PICK i \in 1..Len(Rest(n)) : Rest(n)[i] = c  BY Admission
<1>4. n < Len(queue)  BY <1>1, <1>2, <1>3
<1>5. ASSUME NEW d \in Clients, Before(c, d)
      PROVE  \E k, l \in 1..Len(Rest(n)) : k < l /\ Rest(n)[k] = c /\ Rest(n)[l] = d
  <2>1. PICK k \in 1..Len(queue), l \in 1..Len(queue) : k < l /\ queue[k] = c /\ queue[l] = d
    BY <1>5 DEF Before
  <2>2. k > n
    <3>1. c \notin First(n)  BY DEF Admitted
    <3>2. QED  BY <1>1, <2>1, <3>1 DEF First
  <2>3. /\ k - n \in 1..Len(Rest(n)) /\ n + (k - n) = k
        /\ l - n \in 1..Len(Rest(n)) /\ n + (l - n) = l
        /\ k - n < l - n
    BY <1>1, <1>2, <2>1, <2>2
  <2>4. Rest(n)[k - n] = c /\ Rest(n)[l - n] = d  BY <1>2, <2>1, <2>3
  <2>5. QED  BY <2>3, <2>4
<1>6. QED  BY <1>3, <1>4, <1>5

(* A refresh that leaves c behind has no slot left for who comes next, so  *)
(* that one joins the queue behind c.                                      *)
LEMMA Acquire_Order ==
    ASSUME SemInv, NEW x \in Clients, NEW refresh \in BOOLEAN, Acquire(x, refresh),
           NEW c \in Clients, NEW d \in Clients, pc[c] = "queued", pc'[c] = "queued",
           pc[d] = "out" \/ Before(c, d)
    PROVE  pc'[d] = "out" \/ Before(c, d)'
<1> DEFINE m == Ceiling(refresh)
           n == Refreshed(refresh)
           r == Rest(n)
<1>1. /\ TypeOK /\ QueueIsWaiters /\ pc[x] = "out" /\ c # x /\ Len(queue) \in Nat
      /\ n \in 0..Len(queue) /\ (n < Len(queue) => ~Under(current + n, m))
  BY RefreshedBounds DEF SemInv, TypeOK, Acquire
<1>2. Admitted(n) \in [Clients -> {"out", "queued", "holding"}]
  BY <1>1, Admission
<1>3. pc'[c] = Admitted(n)[c]  BY <1>1, <1>2 DEF Acquire
<1>4. /\ n < Len(queue)
      /\ \E i \in 1..Len(r) : r[i] = c
      /\ Before(c, d) => \E i, j \in 1..Len(r) : i < j /\ r[i] = c /\ r[j] = d
  BY <1>1, <1>3, AdmissionKeepsOrder
<1>5. queue' = Append(r, x) /\ pc' = [Admitted(n) EXCEPT ![x] = "queued"]
  BY <1>1, <1>4 DEF Acquire, Joined
<1>6. r \in Seq(Clients)  BY <1>1, RestOf
<1> HIDE DEF r
<1>7. /\ Len(queue') = Len(r) + 1 /\ Len(r) \in Nat
      /\ \A i \in 1..Len(r) : queue'[i] = r[i] /\ i \in 1..Len(queue')
      /\ queue'[Len(r) + 1] = x
  BY <1>5, <1>6
<1>8. CASE d = x
  <2>1. PICK i \in 1..Len(r) : r[i] = c  BY <1>4
  <2>2. i < Len(r) + 1 /\ Len(r) + 1 \in 1..Len(queue')  BY <1>7
  <2>3. QED  BY <1>7, <1>8, <2>1, <2>2 DEF Before
<1>9. CASE d # x /\ pc[d] = "out"
  BY <1>1, <1>2, <1>5, <1>9, Admission
<1>10. CASE Before(c, d)
  <2>1. PICK i \in 1..Len(r), j \in 1..Len(r) : i < j /\ r[i] = c /\ r[j] = d
    BY <1>4, <1>10
  <2>2. QED  BY <1>7, <2>1 DEF Before
<1>11. QED  BY <1>8, <1>9, <1>10

(* Waiters that are admitted are the first ones.                           *)
LEMMA Admission_Order ==
    ASSUME SemInv, NEW n \in 0..Len(queue), queue' = Rest(n),
           NEW c \in Clients, NEW d \in Clients, Admitted(n)[c] = "queued", Before(c, d)
    PROVE  Before(c, d)'
  BY AdmissionKeepsOrder DEF SemInv, Before

LEMMA Release_Order ==
    ASSUME SemInv, NEW x \in Clients, NEW refresh \in BOOLEAN, Release(x, refresh),
           NEW c \in Clients, NEW d \in Clients, pc[c] = "queued", pc'[c] = "queued",
           pc[d] = "out" \/ Before(c, d)
    PROVE  pc'[d] = "out" \/ Before(c, d)'
<1> DEFINE m == Ceiling(refresh)
           n == Refreshed(refresh)
           t == Handed(current + n - 1, m, n)
<1>1. /\ TypeOK /\ QueueIsWaiters /\ pc[x] = "holding" /\ c # x
      /\ queue' = Rest(t) /\ pc' = [Admitted(t) EXCEPT ![x] = "out"]
      /\ Len(queue) \in Nat /\ n \in 0..Len(queue)
  BY RefreshedBounds DEF SemInv, TypeOK, Release
<1>2. t \in 0..Len(queue)  BY <1>1 DEF Handed
<1>3. /\ Admitted(t) \in [Clients -> {"out", "queued", "holding"}]
      /\ pc[d] = "out" => Admitted(t)[d] = "out"
  BY <1>1, <1>2, Admission
<1>4. Admitted(t)[c] = "queued"  BY <1>1, <1>3
<1>5. QED  BY <1>1, <1>2, <1>3, <1>4, Admission_Order

LEMMA Refresh_Order ==
    ASSUME SemaphoreAssumption, SemInv, Refresh,
           NEW c \in Clients, NEW d \in Clients, pc[c] = "queued", pc'[c] = "queued",
           pc[d] = "out" \/ Before(c, d)
    PROVE  pc'[d] = "out" \/ Before(c, d)'
<1> DEFINE n == Fits(current, setting)
<1>1. /\ TypeOK /\ QueueIsWaiters /\ queue' = Rest(n) /\ pc' = Admitted(n)
      /\ current \in Nat /\ setting \in Nat
  BY DEF SemaphoreAssumption, SemInv, TypeOK, Refresh
<1>2. n \in 0..Len(queue)  BY <1>1, FitsBounds
<1>3. pc[d] = "out" => Admitted(n)[d] = "out"  BY <1>1, <1>2, Admission
<1>4. QED  BY <1>1, <1>2, <1>3, Admission_Order

(* A waiter that leaves lets those behind it move up.                      *)
LEMMA Abandon_Order ==
    ASSUME SemInv, NEW x \in Clients, Abandon(x),
           NEW c \in Clients, NEW d \in Clients, pc[c] = "queued", pc'[c] = "queued",
           pc[d] = "out" \/ Before(c, d)
    PROVE  pc'[d] = "out" \/ Before(c, d)'
<1>1. /\ pc \in [Clients -> {"out", "queued", "holding"}]
      /\ pc' = [pc EXCEPT ![x] = "out"] /\ c # x
      /\ queue \in Seq(Clients) /\ Len(queue) \in Nat
  BY DEF SemInv, TypeOK, Abandon
<1>2. CASE d = x \/ pc[d] = "out"  BY <1>1, <1>2
<1>3. CASE d # x /\ Before(c, d)
  <2>1. PICK k \in 1..Len(queue) : queue[k] = x /\ queue' = RemoveAt(queue, k)
    BY DEF Abandon, Leave
  <2>2. /\ Len(queue') = Len(queue) - 1
        /\ \A i \in 1..Len(queue') : queue'[i] = IF i < k THEN queue[i] ELSE queue[i + 1]
    BY <1>1, <2>1, Splice
  <2>3. PICK i \in 1..Len(queue), j \in 1..Len(queue) : i < j /\ queue[i] = c /\ queue[j] = d
    BY <1>3 DEF Before
  <2>4. i # k /\ j # k  BY <1>1, <1>3, <2>1, <2>3
  <2> DEFINE At(l) == IF l < k THEN l ELSE l - 1
  <2>5. ASSUME NEW l \in 1..Len(queue), l # k
        PROVE  At(l) \in 1..Len(queue') /\ queue'[At(l)] = queue[l]
    <3>1. CASE l < k
      <4>1. l \in 1..Len(queue')  BY <1>1, <2>2, <3>1
      <4>2. QED  BY <2>2, <3>1, <4>1
    <3>2. CASE l > k
      <4>1. l - 1 \in 1..Len(queue') /\ ~(l - 1 < k) /\ (l - 1) + 1 = l /\ ~(l < k)
        BY <1>1, <2>2, <3>2, <2>5
      <4>2. QED  BY <2>2, <4>1
    <3>3. QED  BY <2>5, <3>1, <3>2
  <2>6. At(i) < At(j)  BY <1>1, <2>3, <2>4
  <2>7. /\ At(i) \in 1..Len(queue') /\ queue'[At(i)] = c
        /\ At(j) \in 1..Len(queue') /\ queue'[At(j)] = d
    BY <2>3, <2>4, <2>5
  <2> HIDE DEF At
  <2>8. QED  BY <2>6, <2>7 DEF Before
<1>4. QED  BY <1>2, <1>3

LEMMA Next_Order ==
    ASSUME SemaphoreAssumption, SemInv, [Next]_vars,
           NEW c \in Clients, NEW d \in Clients, pc[c] = "queued", pc'[c] = "queued",
           pc[d] = "out" \/ Before(c, d)
    PROVE  pc'[d] = "out" \/ Before(c, d)'
<1>1. CASE UNCHANGED vars \/ \E n \in Limits : ChangeSetting(n)
  BY <1>1 DEF vars, ChangeSetting, Before
<1>2. CASE Refresh \/ \E x \in Clients : Abandon(x)
  BY <1>2, Refresh_Order, Abandon_Order
<1>3. CASE \E x \in Clients, refresh \in BOOLEAN : Acquire(x, refresh) \/ Release(x, refresh)
  BY <1>3, Acquire_Order, Release_Order
<1>4. QED  BY <1>1, <1>2, <1>3 DEF Next

(* Waiters are served in the order they came: acquire, release, resize and *)
(* an aborted wait give nobody who came later a slot or a better place     *)
(* than one that goes on waiting (#queue of Semaphore, task/parallel.ts).  *)
THEOREM WaitersAreServedInOrder == Spec => FirstComeFirstServed
<1>1. SemInv /\ [Next]_vars =>
         [\A c, d \in Clients :
             /\ pc[c] = "queued" /\ pc'[c] = "queued"
             /\ pc[d] = "out" \/ Before(c, d)
             => pc'[d] = "out" \/ Before(c, d)']_vars
  BY SemaphoreAssumption, Next_Order
<1>2. QED  BY <1>1, SemInvHolds, PTL DEF Spec, FirstComeFirstServed

-----------------------------------------------------------------------------
(* The semaphore implements the pool of slots                              *)

(* A step that adds no holder, or whose holders fit under the ceiling it   *)
(* leaves in force, and that takes at most one away, is one of the pool.   *)
LEMMA PoolStep ==
    ASSUME TypeOK', SlotAccounting',
           max' = 0 \/ current' <= max' \/ Holders' \subseteq Holders,
           \A c, d \in Holders \ Holders' : c = d
    PROVE  Pool!Step
<1>1. max' \in Limits  BY DEF TypeOK
<1>2. Holders' \subseteq Clients  BY DEF Holders
<1>3. Cardinality(Holders') = current'  BY DEF SlotAccounting
<1>4. Pool!Cardinality(Holders') = Cardinality(Holders')  BY DEF Pool!Cardinality, Cardinality
<1>5. QED  BY <1>1, <1>2, <1>3, <1>4 DEF Pool!Step

(* Waiters that are admitted join the holders; nobody leaves.              *)
LEMMA AdmissionKeeps ==
    ASSUME TypeOK, QueueIsWaiters, NEW n \in 0..Len(queue)
    PROVE  /\ Holders \subseteq HoldersAfter(n)
           /\ n = 0 => HoldersAfter(n) = Holders
<1>1. Holders \subseteq HoldersAfter(n)
  BY Admission DEF Holders, HoldersAfter
<1>2. First(0) = {}  BY DEF First
<1>3. QED  BY <1>1, <1>2 DEF Holders, HoldersAfter, Admitted

(* acquire grants slots under the ceiling and takes none away.             *)
LEMMA Acquire_Pool ==
    ASSUME SemaphoreAssumption, SemInv, SemInv', NEW c \in Clients,
           NEW refresh \in BOOLEAN, Acquire(c, refresh)
    PROVE  Pool!Step
<1> DEFINE m == Ceiling(refresh)
           n == Refreshed(refresh)
<1>1. /\ TypeOK /\ QueueIsWaiters /\ pc[c] = "out" /\ max' = m
      /\ current \in Nat /\ Len(queue) \in Nat
  BY DEF SemInv, TypeOK, Acquire
<1>2. /\ m \in Nat /\ n \in 0..Len(queue) /\ n \in Nat
      /\ n > 0 => m = 0 \/ current + n <= m
  BY <1>1, RefreshedBounds
<1>3. /\ Holders \subseteq HoldersAfter(n) /\ (n = 0 => HoldersAfter(n) = Holders)
      /\ Admitted(n)[c] = "out" /\ Admitted(n) \in [Clients -> {"out", "queued", "holding"}]
  BY <1>1, <1>2, AdmissionKeeps, Admission
<1>4. CASE Under(current + n, m)
  <2>1. current' = current + n + 1 /\ pc' = [Admitted(n) EXCEPT ![c] = "holding"]
    BY <1>4 DEF Acquire
  <2>2. Holders \subseteq Holders'  BY <1>3, <2>1 DEF Holders, HoldersAfter
  <2>3. max' = 0 \/ current' <= max'  BY <1>1, <1>2, <1>4, <2>1 DEF Under
  <2>4. QED  BY <2>2, <2>3, PoolStep DEF SemInv
<1>5. CASE ~Under(current + n, m)
  <2>1. current' = current + n /\ pc' = [Admitted(n) EXCEPT ![c] = "queued"]
    BY <1>5 DEF Acquire
  <2>2. Holders' = HoldersAfter(n)  BY <1>3, <2>1 DEF Holders, HoldersAfter
  <2>3. max' = 0 \/ current' <= max' \/ Holders' \subseteq Holders
    BY <1>1, <1>2, <1>3, <2>1, <2>2
  <2>4. QED  BY <1>3, <2>2, <2>3, PoolStep DEF SemInv
<1>6. QED  BY <1>4, <1>5

(* release takes one slot away and grants slots under the ceiling.         *)
LEMMA Release_Pool ==
    ASSUME SemaphoreAssumption, SemInv, SemInv', NEW c \in Clients,
           NEW refresh \in BOOLEAN, Release(c, refresh)
    PROVE  Pool!Step
<1> DEFINE m == Ceiling(refresh)
           n == Refreshed(refresh)
           t == Handed(current + n - 1, m, n)
<1>1. /\ TypeOK /\ QueueIsWaiters /\ pc[c] = "holding" /\ max' = m
      /\ current' = current + t - 1 /\ pc' = [Admitted(t) EXCEPT ![c] = "out"]
      /\ current \in Nat /\ Len(queue) \in Nat
  BY DEF SemInv, TypeOK, Release
<1>2. /\ m \in Nat /\ n \in 0..Len(queue) /\ n \in Nat
      /\ n > 0 => m = 0 \/ current + n <= m
  BY <1>1, RefreshedBounds
<1>3. t \in 0..Len(queue) /\ (t > 0 => m = 0 \/ current + t - 1 <= m)
  BY <1>1, <1>2 DEF Handed, Under
<1>4. /\ Holders \subseteq HoldersAfter(t) /\ (t = 0 => HoldersAfter(t) = Holders)
      /\ Admitted(t) \in [Clients -> {"out", "queued", "holding"}]
  BY <1>1, <1>3, AdmissionKeeps, Admission
<1>5. Holders' = HoldersAfter(t) \ {c}
  BY <1>1, <1>4 DEF Holders, HoldersAfter
<1>6. \A d, e \in Holders \ Holders' : d = e  BY <1>4, <1>5
<1>7. max' = 0 \/ current' <= max' \/ Holders' \subseteq Holders
  <2>1. CASE t > 0  BY <1>1, <1>3, <2>1
  <2>2. CASE t = 0  BY <1>4, <1>5, <2>2
  <2>3. QED  BY <1>1, <1>3, <2>1, <2>2
<1>8. QED  BY <1>6, <1>7, PoolStep DEF SemInv

(* resize grants slots under the new ceiling.                              *)
LEMMA Refresh_Pool ==
    ASSUME SemaphoreAssumption, SemInv, SemInv', Refresh
    PROVE  Pool!Step
<1> DEFINE n == Fits(current, setting)
<1>1. /\ TypeOK /\ QueueIsWaiters /\ max' = setting
      /\ current' = current + n /\ pc' = Admitted(n)
      /\ current \in Nat /\ setting \in Nat /\ Len(queue) \in Nat
  BY DEF SemaphoreAssumption, SemInv, TypeOK, Refresh
<1>2. n \in 0..Len(queue) /\ (n > 0 => setting = 0 \/ current + n <= setting)
  BY <1>1, FitsBounds
<1>3. Holders \subseteq HoldersAfter(n) /\ (n = 0 => HoldersAfter(n) = Holders)
  BY <1>1, <1>2, AdmissionKeeps
<1>4. Holders' = HoldersAfter(n)  BY <1>1 DEF Holders, HoldersAfter
<1>5. max' = 0 \/ current' <= max' \/ Holders' \subseteq Holders
  BY <1>1, <1>2, <1>3, <1>4
<1>6. QED  BY <1>3, <1>4, <1>5, PoolStep DEF SemInv

(* Every step is one of the pool, or leaves it alone.                      *)
LEMMA Next_Pool ==
    ASSUME SemaphoreAssumption, SemInv, SemInv', [Next]_vars
    PROVE  [Pool!Step]_<<Holders, max>>
<1>1. ASSUME NEW c \in Clients, Abandon(c) PROVE UNCHANGED <<Holders, max>>
  BY <1>1 DEF Abandon, Holders, SemInv, TypeOK
<1>2. ASSUME NEW n \in Limits, ChangeSetting(n) PROVE UNCHANGED <<Holders, max>>
  BY <1>2 DEF ChangeSetting, Holders
<1>3. CASE UNCHANGED vars
  BY <1>3 DEF vars, Holders
<1>4. CASE Next
  BY <1>1, <1>2, <1>4, Acquire_Pool, Release_Pool, Refresh_Pool DEF Next
<1>5. QED  BY <1>3, <1>4

(* Semaphore implements the pool its clients rely on: a slot is granted    *)
(* only under the ceiling in force, and only its holder gives it back.     *)
THEOREM SemaphoreImplementsPool == Spec => PoolSpec
<1>1. Init => Pool!Init
  BY DEF Init, Pool!Init, Holders
<1>2. SemInv /\ SemInv' /\ [Next]_vars => [Pool!Step]_<<Holders, max>>
  BY SemaphoreAssumption, Next_Pool
<1>3. QED  BY <1>1, <1>2, SemInvHolds, PTL DEF Spec, PoolSpec, Pool!Spec

=============================================================================

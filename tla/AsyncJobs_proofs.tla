-------------------------- MODULE AsyncJobs_proofs --------------------------
(***************************************************************************)
(* Job results and their way to the conversation, for any number of jobs,  *)
(* ids and concurrent tool calls.  The inductive invariants are stacked,   *)
(* each under the interleavings it survives:                               *)
(*   DeliveryInv  types, and that results belong to jobs that finished;    *)
(*                under every interleaving;                                *)
(*   TrackInv, WaitInv and NoCopies  unsettled jobs stay in the table,     *)
(*                what bash waits for is held back, and a result is in one *)
(*                place; unless an abort outlasts a retention;             *)
(*   ReturnInv    what a tool has returned stays suppressed; also without  *)
(*                evictions of pending results and returns of what bash    *)
(*                still waits for;                                         *)
(*   LossInv      what is dropped is with a tool; without slow aborts,     *)
(*                evictions of pending results and late aborts;            *)
(*   FlushInv     what is queued has a turn before it; without completions *)
(*                and aborts that race a turn.                             *)
(* Together they show that the module implements ResultDelivery.           *)
(***************************************************************************)
EXTENDS AsyncJobs, TLAPS, WellFoundedInduction, SequenceTheorems, FiniteSetTheorems

-----------------------------------------------------------------------------
(* Lists                                                                   *)

(* A set of numbers has a least element: the induction of the lemmas below.*)
LEMMA LeastOf ==
    ASSUME NEW N \in SUBSET Nat, N # {}
    PROVE  \E m \in N : \A n \in N : m <= n
<1>1. PICK m \in N : \A n \in N : <<n, m>> \notin OpToRel(<, Nat)
  BY NatLessThanWellFounded, WFMin
<1>2. \A n \in N : ~(n < m)
  BY <1>1 DEF OpToRel
<1>3. QED
  BY <1>2

(* What Keep has kept of the first n elements, when f says it.             *)
IsKept(f, q, S, m) ==
    f = [n \in 0..m |->
            IF n = 0 THEN <<>>
            ELSE IF q[n] \in S THEN Append(f[n-1], q[n]) ELSE f[n-1]]

(* The recursive definition of Keep has a solution for every prefix.       *)
LEMMA KeptExists ==
    ASSUME NEW T, NEW q \in Seq(T), NEW S
    PROVE  \A m \in 0..Len(q) : \E f : IsKept(f, q, S, m)
<1> SUFFICES ASSUME NEW k \in 0..Len(q), ~ \E f : IsKept(f, q, S, k)
             PROVE  FALSE
  OBVIOUS
<1> DEFINE N == {m \in 0..Len(q) : ~ \E f : IsKept(f, q, S, m)}
<1>1. PICK m \in N : \A n \in N : m <= n
  <2>1. N \in SUBSET Nat /\ N # {}
    OBVIOUS
  <2>2. QED
    BY <2>1, LeastOf
<1>2. m # 0
  <2>1. IsKept([n \in 0..0 |-> <<>>], q, S, 0)
    BY DEF IsKept
  <2>2. QED
    BY <2>1
<1>3. m - 1 \in 0..Len(q) /\ m \in 1..Len(q)
  BY <1>2
<1>4. PICK f : IsKept(f, q, S, m - 1)
  <2>1. m - 1 \notin N
    BY <1>1, <1>3
  <2>2. QED
    BY <1>3, <2>1
<1> DEFINE g == [n \in 0..m |->
                    IF n < m THEN f[n]
                    ELSE IF q[m] \in S THEN Append(f[m-1], q[m]) ELSE f[m-1]]
<1>5. \A n \in 0..m : n # 0 => g[n-1] = f[n-1]
  BY <1>3
<1>6. \A n \in 0..m-1 : f[n] = IF n = 0 THEN <<>>
                               ELSE IF q[n] \in S THEN Append(f[n-1], q[n]) ELSE f[n-1]
  BY <1>4 DEF IsKept
<1>7. \A n \in 0..m : g[n] = IF n = 0 THEN <<>>
                             ELSE IF q[n] \in S THEN Append(g[n-1], q[n]) ELSE g[n-1]
  <2> SUFFICES ASSUME NEW n \in 0..m
               PROVE  g[n] = IF n = 0 THEN <<>>
                             ELSE IF q[n] \in S THEN Append(g[n-1], q[n]) ELSE g[n-1]
    OBVIOUS
  <2>1. CASE n < m
    <3>1. g[n] = f[n] /\ n \in 0..m-1
      BY <1>3, <2>1
    <3>2. QED
      BY <1>5, <1>6, <3>1
  <2>2. CASE n = m
    BY <1>2, <1>3, <1>5, <2>2
  <2>3. QED
    BY <1>3, <2>1, <2>2
<1>8. IsKept(g, q, S, m)
  BY <1>7 DEF IsKept
<1>9. QED
  BY <1>8

(* No element occurs twice.                                                *)
NoTwice(q) == \A m, n \in DOMAIN q : q[m] = q[n] => m = n

(* Keep keeps the elements of S, in the list once if they were once.       *)
LEMMA KeepLemma ==
    ASSUME NEW T, NEW q \in Seq(T), NEW S
    PROVE  /\ Keep(q, S) \in Seq(T)
           /\ ToSet(Keep(q, S)) = ToSet(q) \cap S
           /\ NoTwice(q) => NoTwice(Keep(q, S))
<1> DEFINE f == CHOOSE g : IsKept(g, q, S, Len(q))
<1>1. Keep(q, S) = f[Len(q)]
  BY DEF Keep, IsKept
<1>2. IsKept(f, q, S, Len(q))
  <2>1. \E g : IsKept(g, q, S, Len(q))
    <3>1. Len(q) \in 0..Len(q)
      OBVIOUS
    <3>2. QED
      BY <3>1, KeptExists
  <2>2. QED
    BY <2>1
<1> HIDE DEF f
<1> DEFINE Good(n) ==
             /\ f[n] \in Seq(T)
             /\ \A e : (\E i \in DOMAIN f[n] : f[n][i] = e)
                          <=> e \in S /\ \E i \in 1..n : q[i] = e
             /\ NoTwice(q) => NoTwice(f[n])
<1>3. Good(0)
  <2>1. f[0] = <<>>
    BY <1>2 DEF IsKept
  <2>2. QED
    BY <2>1 DEF NoTwice
<1>4. ASSUME NEW n \in 1..Len(q), Good(n-1) PROVE Good(n)
  <2>1. f[n] = IF q[n] \in S THEN Append(f[n-1], q[n]) ELSE f[n-1]
    <3>1. n \in 0..Len(q) /\ n # 0
      OBVIOUS
    <3>2. QED
      BY <1>2, <3>1 DEF IsKept
  <2>2. q[n] \in T /\ n - 1 \in Nat
    OBVIOUS
  <2>3. CASE q[n] \notin S
    BY <1>4, <2>1, <2>2, <2>3
  <2>4. CASE q[n] \in S
    <3> DEFINE r == f[n-1]
    <3>1. r \in Seq(T) /\ f[n] = Append(r, q[n])
      BY <1>4, <2>1, <2>4
    <3>2. /\ f[n] \in Seq(T) /\ DOMAIN f[n] = 1..Len(r)+1 /\ DOMAIN r = 1..Len(r)
          /\ \A i \in DOMAIN r : f[n][i] = r[i]
          /\ f[n][Len(r)+1] = q[n]
      BY <2>2, <3>1
    <3>3. \A e : (\E i \in DOMAIN f[n] : f[n][i] = e)
                    <=> e \in S /\ \E i \in 1..n : q[i] = e
      <4> SUFFICES ASSUME NEW e
                   PROVE  (\E i \in DOMAIN f[n] : f[n][i] = e)
                             <=> e \in S /\ \E i \in 1..n : q[i] = e
        OBVIOUS
      <4> DEFINE g == f[n]
      <4>a. /\ DOMAIN g = DOMAIN r \cup {Len(r)+1}
            /\ \A i \in DOMAIN r : g[i] = r[i]
            /\ g[Len(r)+1] = q[n]
        BY <3>1, <3>2
      <4>1. (\E i \in DOMAIN g : g[i] = e) <=> (e = q[n] \/ \E i \in DOMAIN r : r[i] = e)
        <5> HIDE DEF g, r
        <5> QED
          BY <4>a, Zenon
      <4>2. (\E i \in 1..n : q[i] = e) <=> (e = q[n] \/ \E i \in 1..n-1 : q[i] = e)
        BY <2>2
      <4>3. QED
        BY <1>4, <2>4, <4>1, <4>2
    <3>4. NoTwice(q) => NoTwice(f[n])
      <4> SUFFICES ASSUME NoTwice(q) PROVE NoTwice(f[n])
        OBVIOUS
      <4>1. NoTwice(r) /\ DOMAIN q = 1..Len(q)
        BY <1>4
      <4>2. ASSUME NEW i \in DOMAIN r, r[i] = q[n] PROVE FALSE
        <5>1. PICK k \in 1..n-1 : q[k] = q[n]
          BY <1>4, <4>2
        <5>2. k \in DOMAIN q /\ n \in DOMAIN q /\ k # n
          BY <2>2, <4>1
        <5>3. QED
          BY <5>1, <5>2 DEF NoTwice
      <4>3. ASSUME NEW i \in DOMAIN f[n], NEW k \in DOMAIN f[n], f[n][i] = f[n][k]
            PROVE  i = k
        <5>1. CASE i \in DOMAIN r /\ k \in DOMAIN r
          <6>1. r[i] = r[k]
            BY <3>2, <4>3, <5>1
          <6>2. QED
            BY <4>1, <5>1, <6>1 DEF NoTwice
        <5>2. CASE i \notin DOMAIN r \/ k \notin DOMAIN r
          BY <3>2, <4>2, <4>3, <5>2
        <5>3. QED
          BY <5>1, <5>2
      <4>4. QED
        BY <4>3 DEF NoTwice
    <3>5. QED
      BY <3>2, <3>3, <3>4
  <2>5. QED
    BY <2>3, <2>4
<1> HIDE DEF Good
<1>5. Good(Len(q))
  <2> SUFFICES ASSUME ~Good(Len(q)) PROVE FALSE
    OBVIOUS
  <2> DEFINE N == {m \in 0..Len(q) : ~Good(m)}
  <2>1. PICK m \in N : \A n \in N : m <= n
    <3>1. N \in SUBSET Nat /\ N # {}
      OBVIOUS
    <3>2. QED
      BY <3>1, LeastOf
  <2>2. m \in 1..Len(q)
    BY <1>3
  <2>3. Good(m-1)
    BY <2>1, <2>2
  <2>4. QED
    BY <1>4, <2>2, <2>3
<1>6. QED
  BY <1>1, <1>5 DEF Good, ToSet

(* What the list operations do to the elements of a list, and that they    *)
(* bring in no copy.                                                       *)
LEMMA AppendLemma ==
    ASSUME NEW T, NEW q \in Seq(T), NEW e \in T
    PROVE  /\ Append(q, e) \in Seq(T) /\ Append(q, e) # <<>>
           /\ ToSet(Append(q, e)) = ToSet(q) \cup {e}
           /\ NoTwice(q) /\ e \notin ToSet(q) => NoTwice(Append(q, e))
<1>1. /\ DOMAIN q = 1..Len(q) /\ DOMAIN Append(q, e) = 1..Len(q)+1
      /\ \A i \in 1..Len(q) : Append(q, e)[i] = q[i]
      /\ Append(q, e)[Len(q)+1] = e
      /\ Append(q, e) \in Seq(T) /\ Append(q, e) # <<>>
  OBVIOUS
<1>2. QED
  BY <1>1 DEF ToSet, NoTwice

LEMMA RemoveAtLemma ==
    ASSUME NEW T, NEW q \in Seq(T), NEW n \in 1..Len(q)
    PROVE  /\ RemoveAt(q, n) \in Seq(T)
           /\ ToSet(RemoveAt(q, n)) \subseteq ToSet(q)
           /\ ToSet(q) \subseteq ToSet(RemoveAt(q, n)) \cup {q[n]}
           /\ NoTwice(q) =>
                NoTwice(RemoveAt(q, n)) /\ q[n] \notin ToSet(RemoveAt(q, n))
<1> DEFINE a == SubSeq(q, 1, n - 1)
           b == SubSeq(q, n + 1, Len(q))
           r == RemoveAt(q, n)
<1>a. /\ a \in Seq(T) /\ Len(a) = n - 1 /\ \A i \in 1..n - 1 : a[i] = q[i]
      /\ b \in Seq(T) /\ Len(b) = Len(q) - n /\ \A i \in 1..Len(q) - n : b[i] = q[n + i]
  BY SubSeqProperties
<1>b. r = a \o b
  BY DEF RemoveAt
<1> HIDE DEF a, b, r
<1>c. /\ r \in Seq(T) /\ Len(r) = Len(a) + Len(b)
      /\ \A i \in 1..Len(a) + Len(b) : r[i] = IF i <= Len(a) THEN a[i] ELSE b[i - Len(a)]
  BY <1>a, <1>b, ConcatProperties
<1>1. /\ DOMAIN q = 1..Len(q) /\ r \in Seq(T) /\ DOMAIN r = 1..Len(q)-1
      /\ \A i \in DOMAIN r : r[i] = q[IF i < n THEN i ELSE i + 1]
  <2>1. DOMAIN q = 1..Len(q) /\ DOMAIN r = 1..Len(q)-1
    BY <1>a, <1>c
  <2>2. ASSUME NEW i \in 1..Len(q)-1 PROVE r[i] = q[IF i < n THEN i ELSE i + 1]
    <3>1. CASE i < n
      <4>1. i \in 1..n - 1 /\ i \in 1..Len(a) + Len(b) /\ i <= Len(a)
        BY <1>a, <3>1
      <4>2. QED
        BY <1>a, <1>c, <3>1, <4>1
    <3>2. CASE ~(i < n)
      <4>1. i - (n - 1) \in 1..Len(q) - n /\ n + (i - (n - 1)) = i + 1 /\ ~(i <= n - 1)
        BY <3>2
      <4>2. r[i] = b[i - Len(a)]
        <5>1. i \in 1..Len(a) + Len(b) /\ ~(i <= Len(a))
          BY <1>a, <4>1
        <5>2. QED
          BY <1>c, <5>1
      <4>3. b[i - (n - 1)] = q[i + 1]
        BY <1>a, <4>1
      <4>4. QED
        BY <1>a, <3>2, <4>2, <4>3
    <3>3. QED
      BY <3>1, <3>2
  <2>3. QED
    BY <1>c, <2>1, <2>2
<1>2. \A i \in DOMAIN r : (IF i < n THEN i ELSE i + 1) \in DOMAIN q \ {n}
  BY <1>1
<1>3. ToSet(r) \subseteq ToSet(q) /\ ToSet(q) \subseteq ToSet(r) \cup {q[n]}
  <2>1. ToSet(r) \subseteq ToSet(q)
    BY <1>1, <1>2 DEF ToSet
  <2>2. ASSUME NEW k \in DOMAIN q, k # n PROVE q[k] \in ToSet(r)
    <3> DEFINE i == IF k < n THEN k ELSE k - 1
    <3>1. i \in DOMAIN r /\ (IF i < n THEN i ELSE i + 1) = k
      BY <1>1, <2>2
    <3>2. QED
      BY <1>1, <3>1 DEF ToSet
  <2>3. QED
    BY <2>1, <2>2 DEF ToSet
<1>4. ASSUME NoTwice(q) PROVE NoTwice(r) /\ q[n] \notin ToSet(r)
  <2>1. ASSUME NEW i \in DOMAIN r, NEW k \in DOMAIN r, r[i] = r[k] PROVE i = k
    <3>1. (IF i < n THEN i ELSE i + 1) = (IF k < n THEN k ELSE k + 1)
      BY <1>1, <1>2, <1>4, <2>1 DEF NoTwice
    <3>2. i \in Nat /\ k \in Nat
      BY <1>1
    <3>3. QED
      BY <3>1, <3>2
  <2>2. q[n] \notin ToSet(r)
    BY <1>1, <1>2, <1>4 DEF NoTwice, ToSet
  <2>3. QED
    BY <2>1, <2>2 DEF NoTwice
<1>5. QED
  BY <1>1, <1>3, <1>4 DEF r

LEMMA TailLemma ==
    ASSUME NEW T, NEW q \in Seq(T), q # <<>>
    PROVE  /\ Tail(q) \in Seq(T) /\ Head(q) = q[1] /\ 1 \in 1..Len(q) /\ q[1] \in ToSet(q)
           /\ ToSet(Tail(q)) \subseteq ToSet(q) /\ ToSet(q) \subseteq ToSet(Tail(q)) \cup {q[1]}
           /\ NoTwice(q) => NoTwice(Tail(q))
<1>1. /\ DOMAIN q = 1..Len(q) /\ 1 \in 1..Len(q) /\ Head(q) = q[1]
      /\ Tail(q) \in Seq(T) /\ DOMAIN Tail(q) = 1..Len(q)-1
      /\ \A i \in 1..Len(q)-1 : Tail(q)[i] = q[i+1] /\ i + 1 \in 1..Len(q)
      /\ \A k \in 1..Len(q) : k = 1 \/ (k - 1 \in 1..Len(q)-1 /\ Tail(q)[k - 1] = q[k])
  OBVIOUS
<1>2. ToSet(q) \subseteq ToSet(Tail(q)) \cup {q[1]}
  <2>1. ASSUME NEW k \in 1..Len(q), k # 1 PROVE q[k] \in ToSet(Tail(q))
    <3>1. k - 1 \in DOMAIN Tail(q) /\ Tail(q)[k - 1] = q[k]
      BY <1>1, <2>1
    <3>2. QED
      BY <3>1 DEF ToSet
  <2>2. QED
    BY <1>1, <2>1 DEF ToSet
<1>3. ToSet(Tail(q)) \subseteq ToSet(q) /\ (NoTwice(q) => NoTwice(Tail(q)))
  BY <1>1 DEF ToSet, NoTwice
<1>4. QED
  BY <1>1, <1>2, <1>3 DEF ToSet

LEMMA ToSetLemma ==
    ASSUME NEW T, NEW q \in Seq(T)
    PROVE  /\ ToSet(q) \subseteq T
           /\ ToSet(q) = {} <=> q = <<>>
  BY DEF ToSet

-----------------------------------------------------------------------------
(* Types, ids and results                                                  *)

Live(j) == state[j] \in {"queued", "running"}

(* The table and the ids agree; a job that is new has no id and is watched *)
(* by nobody.                                                              *)
TableMatchesIds ==
    /\ \A i \in Ids : table[i] # None => id[table[i]] = i /\ state[table[i]] # "new"
    /\ \A j \in Jobs : state[j] # "new" => id[j] \in Ids
    /\ \A p \in Waits : \A j \in watches[p] : state[j] # "new"

(* Only jobs that completed or failed have a result.                       *)
ResultsAreOfDone == \A j \in Jobs : j \in OnWay \/ injected[j] # 0 => Done(j)

(* The first inductive invariant; it asks nothing of the interleavings.    *)
DeliveryInv == TypeOK /\ TableMatchesIds /\ ResultsAreOfDone /\ PendingHasLoop

(* An acknowledgement suppresses the ids and shortens the list.            *)
LEMMA AcknowledgeLemma ==
    ASSUME TypeOK, NEW ids, Acknowledge(ids)
    PROVE  /\ suppressed' = suppressed \cup ids
           /\ deliveries' \in Seq(Jobs)
           /\ Pending' \subseteq Pending
           /\ deliveries = <<>> => deliveries' = <<>>
           /\ NoTwice(deliveries) => NoTwice(deliveries')
           /\ ids # {} => \A j \in Pending' : id'[j] \notin suppressed'
           /\ \A j \in Pending : j \in Pending' \/ id'[j] \in suppressed' \cup watched'
<1>1. deliveries \in Seq(Jobs) /\ suppressed' = suppressed \cup ids
  BY DEF TypeOK, Acknowledge
<1>2. CASE ids = {}
  BY <1>1, <1>2 DEF Acknowledge, Pending
<1>3. CASE ids # {}
  <2> DEFINE S == {j \in Jobs : id'[j] \notin suppressed' \cup watched'}
  <2>1. deliveries' = Keep(deliveries, S)
    BY <1>3 DEF Acknowledge
  <2>2. /\ deliveries' \in Seq(Jobs)
        /\ Pending' = Pending \cap S
        /\ NoTwice(deliveries) => NoTwice(deliveries')
    BY <1>1, <2>1, KeepLemma DEF Pending
  <2>3. deliveries = <<>> => deliveries' = <<>>
    <3>1. ToSet(deliveries) = {} <=> deliveries = <<>>
      BY <1>1, ToSetLemma
    <3>2. ToSet(deliveries') = {} <=> deliveries' = <<>>
      BY <2>2, ToSetLemma
    <3>3. QED
      BY <2>2, <3>1, <3>2 DEF Pending
  <2>4. \A j \in Pending : j \in Jobs
    BY <1>1, ToSetLemma DEF Pending
  <2>5. QED
    BY <1>1, <2>2, <2>3, <2>4
<1>4. QED
  BY <1>2, <1>3

LEMMA Init_DeliveryInv == Init => DeliveryInv
<1> SUFFICES ASSUME Init PROVE DeliveryInv
  OBVIOUS
<1>1. TypeOK
  BY JobsAssumption DEF Init, TypeOK
<1>2. OnWay = {}
  BY DEF Init, OnWay, Pending, ToSet
<1>3. QED
  BY <1>1, <1>2, JobsAssumption
     DEF Init, DeliveryInv, TableMatchesIds, ResultsAreOfDone, PendingHasLoop

(* Steps in which no result begins its way and none that is delivered is   *)
(* cancelled.                                                              *)
LEMMA ResultsKept ==
    ASSUME ResultsAreOfDone, OnWay' \subseteq OnWay,
           \A j \in Jobs : injected'[j] # 0 => injected[j] # 0 \/ j \in OnWay,
           \A j \in Jobs : Done(j) => Done(j)'
    PROVE  ResultsAreOfDone'
  BY DEF ResultsAreOfDone

(* Steps of tools and turns that leave jobs and results alone.             *)
LEMMA Aside_DeliveryInv ==
    ASSUME DeliveryInv, TypeOK',
           UNCHANGED <<state, id, table, deliveries, inFlight, loop, watches, queue, injected>>
    PROVE  DeliveryInv'
  BY DEF DeliveryInv, TableMatchesIds, ResultsAreOfDone, PendingHasLoop, OnWay, Pending, Done

LEMMA Register_DeliveryInv ==
    ASSUME DeliveryInv, NEW j \in Jobs, NEW i \in Ids,
           NEW queued \in BOOLEAN, NEW foreground \in BOOLEAN,
           Register(j, i, queued, foreground)
    PROVE  DeliveryInv'
<1> USE JobsAssumption DEF DeliveryInv
<1>1. /\ state[j] = "new" /\ table[i] = None
      /\ state' = [state EXCEPT ![j] = IF queued THEN "queued" ELSE "running"]
      /\ id' = [id EXCEPT ![j] = i]
      /\ table' = [table EXCEPT ![i] = j]
      /\ UNCHANGED <<watched, settled, evicting, inFlight, loop, disposed, watches,
                     returned, announced, queue, flush, turn, injected>>
  BY DEF Register, sessionVars
<1>2. /\ deliveries' \in Seq(Jobs) /\ Pending' \subseteq Pending
      /\ deliveries = <<>> => deliveries' = <<>>
      /\ suppressed' \subseteq Ids /\ waiting' \subseteq Jobs
  <2>1. CASE foreground
    BY <2>1, AcknowledgeLemma DEF Register, TypeOK
  <2>2. CASE ~foreground
    BY <2>2 DEF Register, TypeOK, Pending
  <2>3. QED
    BY <2>1, <2>2
<1>3. TypeOK' /\ TableMatchesIds'
  BY <1>1, <1>2 DEF TypeOK, TableMatchesIds
<1>4. ResultsAreOfDone'
  <2>1. OnWay' \subseteq OnWay
    BY <1>1, <1>2 DEF OnWay
  <2>2. \A k \in Jobs : Done(k) => Done(k)'
    BY <1>1 DEF Done, TypeOK
  <2>3. QED
    BY <1>1, <2>1, <2>2, ResultsKept
<1>5. PendingHasLoop'
  BY <1>1, <1>2 DEF PendingHasLoop
<1>6. QED
  BY <1>3, <1>4, <1>5

(* A delivery is added and the loop started if there is none.              *)
LEMMA Enqueued ==
    ASSUME DeliveryInv, NEW j \in Jobs,
           \/ UNCHANGED <<deliveries, loop>>
           \/ deliveries' = Append(deliveries, j) /\ loop' = EnsureLoop(loop)
    PROVE  /\ deliveries' \in Seq(Jobs) /\ Pending' \subseteq Pending \cup {j}
           /\ PendingHasLoop'
           /\ loop' \in {"off", "on", "ending"} \cup inFlight
<1> USE DEF DeliveryInv, TypeOK
<1>1. CASE UNCHANGED <<deliveries, loop>>
  BY <1>1 DEF Pending, PendingHasLoop
<1>2. CASE deliveries' = Append(deliveries, j) /\ loop' = EnsureLoop(loop)
  <2>1. deliveries' \in Seq(Jobs) /\ ToSet(deliveries') = ToSet(deliveries) \cup {j}
    BY <1>2, AppendLemma
  <2>2. loop' \in {"on", "ending"} \cup inFlight /\ loop' # "off"
    BY <1>2, JobsAssumption DEF EnsureLoop
  <2>3. QED
    BY <2>1, <2>2 DEF Pending, PendingHasLoop
<1>3. QED
  BY <1>1, <1>2

LEMMA RunSettles_DeliveryInv ==
    ASSUME DeliveryInv, NEW j \in Jobs, NEW outcome \in {"completed", "failed"},
           RunSettles(j, outcome)
    PROVE  DeliveryInv'
<1> USE JobsAssumption DEF DeliveryInv
<1>1. /\ state[j] \in {"queued", "running", "cancelled"} /\ settled' = settled \cup {j}
      /\ evicting' \subseteq Ids
      /\ UNCHANGED <<id, table, inFlight, suppressed, watched, disposed, waiting,
                     watches, returned, announced, queue, flush, turn, injected>>
  BY DEF RunSettles, ScheduleEviction, TypeOK, TableMatchesIds, markVars, toolVars, sessionVars
<1>2. CASE UNCHANGED <<state, deliveries, loop>>
  <2>1. TypeOK'
    BY <1>1, <1>2 DEF TypeOK
  <2>2. QED
    BY <1>1, <1>2, <2>1, Aside_DeliveryInv
<1>3. CASE /\ state[j] # "cancelled"
           /\ state' = [state EXCEPT ![j] = outcome] /\ Enqueue(j)
  <2>1. Done(j)' /\ \A k \in Jobs : Done(k) => Done(k)'
    BY <1>3 DEF Done, TypeOK
  <2>2. \/ UNCHANGED <<deliveries, loop>>
        \/ /\ deliveries' = Append(deliveries, j)
           /\ loop' = EnsureLoop(loop)
    BY <1>3 DEF Enqueue
  <2>3. /\ deliveries' \in Seq(Jobs) /\ Pending' \subseteq Pending \cup {j}
        /\ PendingHasLoop'
        /\ loop' \in {"off", "on", "ending"} \cup inFlight
    BY <2>2, Enqueued
  <2>4. TypeOK' /\ TableMatchesIds'
    BY <1>1, <1>3, <2>3 DEF TypeOK, TableMatchesIds
  <2>5. ResultsAreOfDone'
    BY <1>1, <2>1, <2>3 DEF ResultsAreOfDone, OnWay
  <2>6. QED
    BY <2>3, <2>4, <2>5
<1>4. QED
  BY <1>2, <1>3 DEF RunSettles

(* A job that is queued or running starts or is cancelled.                 *)
LEMMA Live_DeliveryInv ==
    ASSUME DeliveryInv, NEW j \in Jobs, Live(j), NEW s \in {"running", "cancelled"},
           state' = [state EXCEPT ![j] = s], TypeOK',
           UNCHANGED <<id, table, deliveries, inFlight, loop, watches, queue, injected>>
    PROVE  DeliveryInv'
<1>1. \A k \in Jobs : Done(k) => Done(k)'
  BY DEF DeliveryInv, TypeOK, Live, Done
<1>2. ResultsAreOfDone'
  BY <1>1, ResultsKept DEF DeliveryInv, OnWay, Pending
<1>3. \A k \in Jobs : state[k] # "new" => state'[k] # "new"
  BY DEF DeliveryInv, TypeOK
<1>4. TableMatchesIds'
  BY <1>3 DEF DeliveryInv, TypeOK, TableMatchesIds, Live
<1>5. QED
  BY <1>2, <1>4 DEF DeliveryInv, PendingHasLoop

LEMMA Jobs_DeliveryInv ==
    ASSUME DeliveryInv, NEW j \in Jobs, MarkRunning(j) \/ Cancel(j) \/ ForegroundAborts(j)
    PROVE  DeliveryInv'
<1> USE JobsAssumption
<1>1. TypeOK'
  <2>1. CASE MarkRunning(j)
    BY <2>1 DEF MarkRunning, DeliveryInv, TypeOK, deliveryVars, markVars, toolVars, sessionVars
  <2>2. CASE Cancel(j)
    BY <2>2 DEF Cancel, ScheduleEviction, DeliveryInv, TypeOK, TableMatchesIds,
                deliveryVars, markVars, toolVars, sessionVars
  <2>3. CASE ForegroundAborts(j)
    <3>1. /\ waiting' = waiting \ {j}
          /\ UNCHANGED <<settled, id, table, deliveryVars, markVars, disposed, watches, returned,
                         announced, sessionVars>>
      BY <2>3 DEF ForegroundAborts
    <3>2. /\ state' \in [Jobs -> {"new", "queued", "running", "completed", "failed", "cancelled"}]
          /\ evicting' \subseteq Ids
      <4>1. CASE state[j] = "running" /\ table[id[j]] = j
        <5>1. id[j] \in Ids /\ state' = [state EXCEPT ![j] = "cancelled"]
              /\ evicting' \subseteq evicting \cup {id[j]}
          BY <2>3, <4>1 DEF ForegroundAborts, ScheduleEviction, DeliveryInv, TableMatchesIds
        <5>2. QED
          BY <5>1 DEF DeliveryInv, TypeOK
      <4>2. CASE ~(state[j] = "running" /\ table[id[j]] = j)
        BY <2>3, <4>2 DEF ForegroundAborts, DeliveryInv, TypeOK
      <4>3. QED
        BY <4>1, <4>2
    <3>3. QED
      BY <3>1, <3>2 DEF DeliveryInv, TypeOK, deliveryVars, markVars, sessionVars
  <2>4. QED
    BY <2>1, <2>2, <2>3
<1>2. /\ UNCHANGED <<id, table, deliveries, inFlight, loop, watches, queue, injected>>
      /\ \/ UNCHANGED state
         \/ /\ Live(j)
            /\ \E s \in {"running", "cancelled"} : state' = [state EXCEPT ![j] = s]
  BY DEF MarkRunning, Cancel, ForegroundAborts, Live, deliveryVars, toolVars, sessionVars
<1>3. CASE UNCHANGED state
  BY <1>1, <1>2, <1>3, Aside_DeliveryInv
<1>4. CASE Live(j) /\ \E s \in {"running", "cancelled"} : state' = [state EXCEPT ![j] = s]
  BY <1>1, <1>2, <1>4, Live_DeliveryInv
<1>5. QED
  BY <1>2, <1>3, <1>4

LEMMA Evict_DeliveryInv ==
    ASSUME DeliveryInv, NEW i \in Ids, Evict(i)
    PROVE  DeliveryInv'
<1>1. TypeOK' /\ TableMatchesIds'
  BY JobsAssumption
     DEF Evict, DeliveryInv, TypeOK, TableMatchesIds, deliveryVars, toolVars, sessionVars
<1>2. ResultsAreOfDone' /\ PendingHasLoop'
  BY DEF Evict, DeliveryInv, ResultsAreOfDone, PendingHasLoop, OnWay, Pending, Done,
         deliveryVars, sessionVars
<1>3. QED
  BY <1>1, <1>2 DEF DeliveryInv

(* A delivery leaves the list for its callback.                            *)
LEMMA Starts ==
    ASSUME TypeOK, NEW n \in 1..Len(deliveries), StartDelivery(n)
    PROVE  /\ deliveries[n] \in Pending /\ deliveries[n] \in Jobs
           /\ deliveries' \in Seq(Jobs) /\ Pending' \subseteq Pending
           /\ Pending \subseteq Pending' \cup {deliveries[n]}
           /\ deliveries' # <<>> => deliveries # <<>>
           /\ inFlight' = inFlight \cup {deliveries[n]}
<1>1. deliveries \in Seq(Jobs) /\ deliveries[n] \in Pending /\ deliveries[n] \in Jobs
  BY DEF TypeOK, Pending, ToSet
<1>2. /\ deliveries' \in Seq(Jobs) /\ Pending' \subseteq Pending
      /\ Pending \subseteq Pending' \cup {deliveries[n]}
  BY <1>1, RemoveAtLemma DEF StartDelivery, Pending
<1>3. deliveries # <<>>
  BY <1>1
<1>4. QED
  BY <1>1, <1>2, <1>3 DEF StartDelivery

LEMMA Loop_DeliveryInv ==
    ASSUME DeliveryInv, LoopStep \/ LoopEnds
    PROVE  DeliveryInv'
<1> USE JobsAssumption DEF DeliveryInv
<1>1. UNCHANGED <<jobVars, markVars, disposed, toolVars, sessionVars>>
  BY DEF LoopStep, LoopEnds
<1>2. /\ deliveries' \in Seq(Jobs) /\ Pending' \subseteq Pending
      /\ inFlight' \subseteq inFlight \cup Pending
      /\ loop' \in {"off", "on", "ending"} \cup inFlight'
      /\ PendingHasLoop'
  <2> USE DEF TypeOK, PendingHasLoop
  <2>1. CASE LoopEnds
    BY <2>1 DEF LoopEnds, LoopRestart, Pending
  <2>2. CASE LoopStep /\ deliveries = <<>>
    BY <2>2 DEF LoopStep, Pending
  <2>3. CASE LoopStep /\ deliveries # <<>> /\ Suppressed(id[Head(deliveries)])
    <3>1. deliveries' = Tail(deliveries) /\ inFlight' = inFlight /\ loop' = loop
      BY <2>3 DEF LoopStep
    <3>2. deliveries' \in Seq(Jobs) /\ Pending' \subseteq Pending
      BY <2>3, <3>1, TailLemma DEF Pending
    <3>3. QED
      BY <2>3, <3>1, <3>2
  <2>4. CASE LoopStep /\ deliveries # <<>> /\ ~Suppressed(id[Head(deliveries)])
    <3>1. StartDelivery(1) /\ loop' = Head(deliveries)
      BY <2>4 DEF LoopStep
    <3>2. 1 \in 1..Len(deliveries) /\ Head(deliveries) = deliveries[1]
      BY <2>4, TailLemma
    <3>3. /\ deliveries[1] \in Pending /\ deliveries[1] \in Jobs
          /\ deliveries' \in Seq(Jobs) /\ Pending' \subseteq Pending
          /\ inFlight' = inFlight \cup {deliveries[1]}
      BY <3>1, <3>2, Starts
    <3>4. QED
      BY <3>1, <3>2, <3>3
  <2>5. QED
    BY <2>1, <2>2, <2>3, <2>4
<1>3. Pending \subseteq Jobs
  BY ToSetLemma DEF TypeOK, Pending
<1>4. TypeOK' /\ TableMatchesIds'
  BY <1>1, <1>2, <1>3 DEF TypeOK, TableMatchesIds, jobVars, markVars, toolVars, sessionVars
<1>5. ResultsAreOfDone'
  BY <1>1, <1>2, ResultsKept DEF OnWay, Done, jobVars, sessionVars
<1>6. QED
  BY <1>2, <1>4, <1>5

LEMMA DrainFiltered_DeliveryInv ==
    ASSUME DeliveryInv, NEW j \in Jobs, DrainFiltered(j)
    PROVE  DeliveryInv'
<1> USE JobsAssumption DEF DeliveryInv
<1>1. UNCHANGED <<jobVars, loop, markVars, disposed, toolVars, sessionVars>>
  BY DEF DrainFiltered
<1>2. PICK n \in 1..Len(deliveries) : deliveries[n] = j /\ StartDelivery(n)
  BY DEF DrainFiltered
<1>3. /\ j \in Pending /\ deliveries' \in Seq(Jobs) /\ Pending' \subseteq Pending
      /\ deliveries' # <<>> => deliveries # <<>>
      /\ inFlight' = inFlight \cup {j}
  BY <1>2, Starts
<1>4. TypeOK' /\ TableMatchesIds' /\ PendingHasLoop'
  BY <1>1, <1>3
     DEF TypeOK, TableMatchesIds, PendingHasLoop, jobVars, markVars, toolVars, sessionVars
<1>5. ResultsAreOfDone'
  BY <1>1, <1>3, ResultsKept DEF OnWay, Done, jobVars, sessionVars
<1>6. QED
  BY <1>4, <1>5

LEMMA Callback_DeliveryInv ==
    ASSUME DeliveryInv, NEW j \in Jobs, CallbackReturns(j) \/ CallbackThrows(j)
    PROVE  DeliveryInv'
<1> USE JobsAssumption DEF DeliveryInv
<1>1. /\ j \in inFlight /\ AfterDelivery(j)
      /\ UNCHANGED <<jobVars, markVars, disposed, toolVars, turn, injected>>
  BY DEF CallbackReturns, CallbackThrows, CallbackSettles, sessionVars
<1>2. /\ deliveries' \in Seq(Jobs) /\ Pending' \subseteq Pending \cup {j}
      /\ queue' \in Seq(Jobs) /\ ToSet(queue') \subseteq ToSet(queue) \cup {j}
      /\ flush' \in [pending : BOOLEAN, task : BOOLEAN]
  <2> USE DEF TypeOK
  <2>1. CASE CallbackReturns(j)
    <3>1. deliveries' = deliveries /\ (UNCHANGED <<queue, flush>> \/ EnqueueEntry(j))
      BY <2>1 DEF CallbackReturns
    <3>2. Append(queue, j) \in Seq(Jobs) /\ ToSet(Append(queue, j)) = ToSet(queue) \cup {j}
      BY AppendLemma
    <3>3. /\ queue' \in Seq(Jobs) /\ ToSet(queue') \subseteq ToSet(queue) \cup {j}
      BY <3>1, <3>2 DEF EnqueueEntry
    <3>4. flush' \in [pending : BOOLEAN, task : BOOLEAN]
      <4>1. flush' = flush \/ flush' = [pending |-> TRUE, task |-> TRUE]
        BY <3>1 DEF EnqueueEntry
      <4>2. CASE flush' = flush
        BY <4>2
      <4>3. CASE flush' = [pending |-> TRUE, task |-> TRUE]
        BY <4>3
      <4>4. QED
        BY <4>1, <4>2, <4>3
    <3>5. deliveries' \in Seq(Jobs) /\ Pending' = Pending
      BY <3>1 DEF Pending
    <3>6. QED
      BY <3>3, <3>4, <3>5
  <2>2. CASE CallbackThrows(j)
    <3>1. /\ deliveries' = deliveries \/ deliveries' = Append(deliveries, j)
          /\ UNCHANGED <<queue, flush>>
      BY <2>2 DEF CallbackThrows, sessionVars
    <3>2. /\ Append(deliveries, j) \in Seq(Jobs)
          /\ ToSet(Append(deliveries, j)) = ToSet(deliveries) \cup {j}
      BY AppendLemma
    <3>3. deliveries' \in Seq(Jobs) /\ Pending' \subseteq Pending \cup {j}
      <4>1. CASE deliveries' = deliveries
        BY <4>1 DEF Pending
      <4>2. CASE deliveries' = Append(deliveries, j)
        BY <3>2, <4>2 DEF Pending
      <4>3. QED
        BY <3>1, <4>1, <4>2
    <3>4. QED
      BY <3>1, <3>3
  <2>3. QED
    BY <2>1, <2>2 DEF CallbackReturns
<1>3. /\ inFlight' = inFlight \ {j}
      /\ loop' \in {"off", "on", "ending"} \cup inFlight'
      /\ PendingHasLoop'
  BY <1>1 DEF AfterDelivery, TypeOK, PendingHasLoop
<1>4. TypeOK' /\ TableMatchesIds'
  BY <1>1, <1>2, <1>3 DEF TypeOK, TableMatchesIds, jobVars, markVars, toolVars
<1>5. ResultsAreOfDone'
  BY <1>1, <1>2, <1>3, ResultsKept DEF OnWay, Done, jobVars
<1>6. QED
  BY <1>3, <1>4, <1>5

LEMMA Resume_DeliveryInv ==
    ASSUME DeliveryInv, NEW j \in Jobs, ForegroundBackgrounds(j)
    PROVE  DeliveryInv'
<1> USE JobsAssumption DEF DeliveryInv
<1>1. /\ Resume(j) /\ waiting' = waiting \ {j} /\ suppressed' = suppressed \ {id[j]}
      /\ UNCHANGED <<jobVars, inFlight, watched, disposed, watches, returned, announced, sessionVars>>
  BY DEF ForegroundBackgrounds, Resume
<1>2. \/ UNCHANGED <<deliveries, loop>>
      \/ \E k \in Jobs : /\ Done(k) /\ deliveries' = Append(deliveries, k)
                         /\ loop' = EnsureLoop(loop)
  <2>1. id[j] \in Ids \/ id[j] \notin suppressed
    BY DEF TypeOK
  <2>2. id[j] \in Ids /\ table[id[j]] # None => table[id[j]] \in Jobs
    BY DEF TypeOK
  <2>3. QED
    BY <1>1, <2>1, <2>2 DEF Resume
<1>3. ASSUME NEW k \in Jobs, Done(k) \/ UNCHANGED <<deliveries, loop>>,
             \/ UNCHANGED <<deliveries, loop>>
             \/ deliveries' = Append(deliveries, k) /\ loop' = EnsureLoop(loop)
      PROVE  DeliveryInv'
  <2>1. /\ deliveries' \in Seq(Jobs) /\ Pending' \subseteq Pending \cup {k}
        /\ PendingHasLoop'
        /\ loop' \in {"off", "on", "ending"} \cup inFlight
    BY <1>3, Enqueued
  <2>2. TypeOK' /\ TableMatchesIds'
    BY <1>1, <2>1 DEF TypeOK, TableMatchesIds, jobVars, sessionVars
  <2>3. CASE Done(k)
    BY <1>1, <2>1, <2>2, <2>3 DEF ResultsAreOfDone, OnWay, Done, jobVars, sessionVars
  <2>4. CASE UNCHANGED <<deliveries, loop>>
    BY <1>1, <2>2, <2>4, Aside_DeliveryInv DEF jobVars, sessionVars
  <2>5. QED
    BY <1>3, <2>3, <2>4
<1>4. QED
  BY <1>2, <1>3

(* Tools that return or wait; acknowledging only shortens the list.        *)
LEMMA Tools_DeliveryInv ==
    ASSUME DeliveryInv,
           \/ \E j \in Jobs : ForegroundReturns(j) \/ PollFinished(j)
           \/ \E p \in Waits : WaitStep(p)
    PROVE  DeliveryInv'
<1> USE JobsAssumption DEF DeliveryInv
<1>1. UNCHANGED <<jobVars, inFlight, loop, disposed, sessionVars>>
  BY DEF ForegroundReturns, PollFinished, WaitStep, WatchEnd, WatchStart, deliveryVars
<1>2. /\ waiting' \subseteq Jobs /\ watches' \in [Waits -> SUBSET Jobs]
      /\ returned' \subseteq Jobs /\ announced' \subseteq Jobs /\ watched' \subseteq Ids
      /\ \A q \in Waits : \A j \in watches'[q] : state[j] # "new"
  <2> USE DEF TypeOK, TableMatchesIds
  <2>1. ASSUME NEW j \in Jobs, ForegroundReturns(j) \/ PollFinished(j)
        PROVE  /\ waiting' \subseteq Jobs /\ watches' \in [Waits -> SUBSET Jobs]
               /\ returned' \subseteq Jobs /\ announced' \subseteq Jobs /\ watched' \subseteq Ids
               /\ \A q \in Waits : \A k \in watches'[q] : state[k] # "new"
    BY <2>1 DEF ForegroundReturns, PollFinished, markVars
  <2>2. ASSUME NEW p \in Waits, WatchEnd(p)
        PROVE  /\ waiting' \subseteq Jobs /\ watches' \in [Waits -> SUBSET Jobs]
               /\ returned' \subseteq Jobs /\ announced' \subseteq Jobs /\ watched' \subseteq Ids
               /\ \A q \in Waits : \A k \in watches'[q] : state[k] # "new"
    <3>1. /\ waiting' = waiting /\ watches' = [watches EXCEPT ![p] = {}]
          /\ watched' \subseteq watched
          /\ returned' \subseteq returned \cup watches[p]
          /\ announced' \subseteq announced \cup watches[p]
      BY <2>2 DEF WatchEnd
    <3>2. QED
      BY <3>1
  <2>3. ASSUME NEW p \in Waits, NEW S \in SUBSET Jobs, WatchStart(p, S)
        PROVE  /\ waiting' \subseteq Jobs /\ watches' \in [Waits -> SUBSET Jobs]
               /\ returned' \subseteq Jobs /\ announced' \subseteq Jobs /\ watched' \subseteq Ids
               /\ \A q \in Waits : \A k \in watches'[q] : state[k] # "new"
    <3>1. IdsOf(S) \subseteq Ids
      BY <2>3 DEF WatchStart, IdsOf, TableMatchesIds
    <3>2. QED
      BY <2>3, <3>1 DEF WatchStart
  <2>4. QED
    BY <2>1, <2>2, <2>3 DEF WaitStep
<1>3. /\ suppressed' \subseteq Ids /\ deliveries' \in Seq(Jobs) /\ Pending' \subseteq Pending
      /\ deliveries = <<>> => deliveries' = <<>>
  <2>1. \/ UNCHANGED <<suppressed, deliveries>>
        \/ \E S \in SUBSET Jobs : (\A j \in S : state[j] # "new") /\ Acknowledge(IdsOf(S))
    <3>1. ASSUME NEW j \in Jobs, PollFinished(j)
          PROVE  \E S \in SUBSET Jobs : (\A k \in S : state[k] # "new") /\ Acknowledge(IdsOf(S))
      <4>1. IdsOf({j}) = {id[j]} /\ state[j] # "new"
        BY <3>1 DEF IdsOf, PollFinished, Done
      <4>2. QED
        BY <3>1, <4>1 DEF PollFinished
    <3>2. ASSUME NEW p \in Waits, WatchEnd(p)
          PROVE  \/ UNCHANGED <<suppressed, deliveries>>
                 \/ \E S \in SUBSET Jobs : (\A k \in S : state[k] # "new") /\ Acknowledge(IdsOf(S))
      <4> DEFINE finished == {j \in watches[p] : state[j] \notin {"queued", "running"}}
      <4>1. finished \in SUBSET Jobs /\ \A k \in finished : state[k] # "new"
        BY DEF TypeOK, TableMatchesIds
      <4>2. UNCHANGED <<suppressed, deliveries>> \/ Acknowledge(IdsOf(finished))
        BY <3>2 DEF WatchEnd
      <4> HIDE DEF finished
      <4>3. QED
        BY <4>1, <4>2
    <3>3. QED
      BY <3>1, <3>2 DEF ForegroundReturns, WaitStep, WatchStart, deliveryVars, markVars
  <2>2. ASSUME NEW S \in SUBSET Jobs, \A j \in S : state[j] # "new", Acknowledge(IdsOf(S))
        PROVE  /\ suppressed' \subseteq Ids /\ deliveries' \in Seq(Jobs)
               /\ Pending' \subseteq Pending
               /\ deliveries = <<>> => deliveries' = <<>>
    <3>1. IdsOf(S) \subseteq Ids
      BY <2>2 DEF IdsOf, TableMatchesIds
    <3>2. QED
      BY <2>2, <3>1, AcknowledgeLemma DEF TypeOK
  <2>3. QED
    BY <2>1, <2>2 DEF TypeOK, Pending
<1>4. TypeOK' /\ TableMatchesIds' /\ PendingHasLoop'
  BY <1>1, <1>2, <1>3 DEF TypeOK, TableMatchesIds, PendingHasLoop, jobVars, sessionVars
<1>5. ResultsAreOfDone'
  BY <1>1, <1>3, ResultsKept DEF OnWay, Done, jobVars, sessionVars
<1>6. QED
  BY <1>4, <1>5

(* What the survivors of the queue were injected, and nothing else.        *)
LEMMA InjectLemma ==
    ASSUME TypeOK, Inject
    PROVE  /\ queue' = <<>> /\ ToSet(queue') = {} /\ queue' \in Seq(Jobs)
           /\ injected' \in [Jobs -> 0..2]
           /\ \A j \in Jobs : injected'[j] # injected[j] => j \in ToSet(queue) /\ ~Stale(j)
<1>1. queue' = <<>> /\ ToSet(queue') = {} /\ queue' \in Seq(Jobs)
  BY DEF Inject, ToSet
<1>2. injected' \in [Jobs -> 0..2]
  BY DEF Inject, TypeOK
<1>3. ASSUME NEW j \in Jobs, injected'[j] # injected[j] PROVE j \in ToSet(queue) /\ ~Stale(j)
  BY <1>3 DEF Inject, Survivors
<1>4. QED
  BY <1>1, <1>2, <1>3

LEMMA Turn_DeliveryInv ==
    ASSUME DeliveryInv, TurnStart \/ Boundary \/ Abort \/ TurnEnd \/ IdleFlush
    PROVE  DeliveryInv'
<1> USE DEF DeliveryInv
<1>1. UNCHANGED <<jobVars, deliveryVars, markVars, disposed, toolVars>>
  BY DEF TurnStart, Boundary, Abort, TurnEnd, IdleFlush
<1>2. /\ flush' \in [pending : BOOLEAN, task : BOOLEAN]
      /\ turn' \in {"idle", "streaming", "unwinding"}
      /\ UNCHANGED <<queue, injected>> \/ Inject
  <2> USE DEF TypeOK
  <2>1. CASE TurnStart \/ TurnEnd
    BY <2>1 DEF TurnStart, TurnEnd
  <2>2. CASE Boundary
    BY <2>2 DEF Boundary
  <2>3. CASE Abort
    BY <2>3 DEF Abort
  <2>4. CASE IdleFlush
    BY <2>4 DEF IdleFlush
  <2>5. QED
    BY <2>1, <2>2, <2>3, <2>4
<1>3. CASE UNCHANGED <<queue, injected>>
  <2>1. TypeOK'
    BY <1>1, <1>2, <1>3 DEF TypeOK, jobVars, deliveryVars, markVars, toolVars
  <2>2. QED
    BY <1>1, <1>3, <2>1, Aside_DeliveryInv DEF jobVars, deliveryVars, toolVars
<1>4. CASE Inject
  <2>1. TypeOK' /\ TableMatchesIds' /\ PendingHasLoop'
    BY <1>1, <1>2, <1>4, InjectLemma
       DEF TypeOK, TableMatchesIds, PendingHasLoop, jobVars, deliveryVars, markVars, toolVars
  <2>2. ResultsAreOfDone'
    BY <1>1, <1>4, InjectLemma, ResultsKept DEF OnWay, Done, Pending, jobVars, deliveryVars
  <2>3. QED
    BY <2>1, <2>2
<1>5. QED
  BY <1>2, <1>3, <1>4

LEMMA Dispose_DeliveryInv ==
    ASSUME DeliveryInv, DisposeStart \/ DisposeEnd
    PROVE  DeliveryInv'
<1> USE DEF DeliveryInv
<1>1. CASE DisposeStart
  <2>1. /\ state' = [j \in Jobs |->
              IF state[j] \in {"queued", "running"} /\ table[id[j]] = j
              THEN "cancelled" ELSE state[j]]
        /\ queue' = <<>> /\ ToSet(queue') = {}
        /\ evicting' = {} /\ disposed' = "draining"
        /\ flush' \in [pending : BOOLEAN, task : BOOLEAN]
        /\ turn' \in {"idle", "streaming", "unwinding"}
        /\ UNCHANGED <<settled, id, table, deliveryVars, markVars, toolVars, injected>>
    BY <1>1 DEF DisposeStart, TypeOK, ToSet
  <2>2. TypeOK'
    BY <2>1 DEF TypeOK, deliveryVars, markVars, toolVars
  <2>3. \A j \in Jobs : (Done(j) => Done(j)') /\ (state[j] # "new" => state'[j] # "new")
    BY <2>1 DEF Done
  <2>4. TableMatchesIds' /\ PendingHasLoop'
    BY <2>1, <2>3 DEF TypeOK, TableMatchesIds, PendingHasLoop, deliveryVars, toolVars
  <2>5. ResultsAreOfDone'
    BY <2>1, <2>3, ResultsKept DEF OnWay, Pending, deliveryVars
  <2>6. QED
    BY <2>2, <2>4, <2>5
<1>2. CASE DisposeEnd
  <2>1. /\ disposed' = "yes" /\ table' = [i \in Ids |-> None]
        /\ deliveries' = <<>> /\ Pending' = {} /\ suppressed' = {} /\ watched' = {}
        /\ UNCHANGED <<state, settled, id, evicting, inFlight, loop, toolVars, sessionVars>>
    BY <1>2 DEF DisposeEnd, Pending, ToSet
  <2>2. TypeOK' /\ TableMatchesIds' /\ PendingHasLoop'
    BY <2>1 DEF TypeOK, TableMatchesIds, PendingHasLoop, toolVars, sessionVars
  <2>3. ResultsAreOfDone'
    BY <2>1, ResultsKept DEF OnWay, Done, sessionVars
  <2>4. QED
    BY <2>2, <2>3
<1>3. QED
  BY <1>1, <1>2

LEMMA Next_DeliveryInv == DeliveryInv /\ [Next]_vars => DeliveryInv'
<1> SUFFICES ASSUME DeliveryInv, [Next]_vars PROVE DeliveryInv'
  OBVIOUS
<1>1. CASE UNCHANGED vars
  <2>1. TypeOK'
    BY <1>1 DEF vars, jobVars, deliveryVars, markVars, toolVars, sessionVars, DeliveryInv, TypeOK
  <2>2. QED
    BY <1>1, <2>1, Aside_DeliveryInv DEF vars, jobVars, deliveryVars, toolVars, sessionVars
<1>2. ASSUME NEW j \in Jobs, JobStep(j) PROVE DeliveryInv'
  <2>1. CASE \E i \in Ids, queued, foreground \in BOOLEAN : Register(j, i, queued, foreground)
    BY <2>1, Register_DeliveryInv
  <2>2. CASE MarkRunning(j) \/ Cancel(j) \/ ForegroundAborts(j)
    BY <2>2, Jobs_DeliveryInv
  <2>3. CASE \E outcome \in {"completed", "failed"} : RunSettles(j, outcome)
    BY <2>3, RunSettles_DeliveryInv
  <2>4. CASE DrainFiltered(j)
    BY <2>4, DrainFiltered_DeliveryInv
  <2>5. CASE CallbackReturns(j) \/ CallbackThrows(j)
    BY <2>5, Callback_DeliveryInv
  <2>6. CASE ForegroundBackgrounds(j)
    BY <2>6, Resume_DeliveryInv
  <2>7. CASE ForegroundReturns(j) \/ PollFinished(j)
    BY <2>7, Tools_DeliveryInv
  <2>8. QED
    BY <1>2, <2>1, <2>2, <2>3, <2>4, <2>5, <2>6, <2>7 DEF JobStep
<1>3. ASSUME NEW i \in Ids, Evict(i) PROVE DeliveryInv'
  BY <1>3, Evict_DeliveryInv
<1>4. ASSUME NEW p \in Waits, WaitStep(p) PROVE DeliveryInv'
  BY <1>4, Tools_DeliveryInv
<1>5. CASE LoopStep \/ LoopEnds
  BY <1>5, Loop_DeliveryInv
<1>6. CASE TurnStart \/ Boundary \/ Abort \/ TurnEnd \/ IdleFlush
  BY <1>6, Turn_DeliveryInv
<1>7. CASE DisposeStart \/ DisposeEnd
  BY <1>7, Dispose_DeliveryInv
<1>8. QED
  BY <1>1, <1>2, <1>3, <1>4, <1>5, <1>6, <1>7 DEF Next

(* Every reachable state of the manager, the tools and the session is of   *)
(* the declared types: the loop awaits a callback that runs, and the table *)
(* and the ids of the jobs agree (#jobs of async/job-manager.ts).          *)
THEOREM JobsTypeOK == Spec => []TypeOK
<1>1. DeliveryInv => TypeOK
  BY DEF DeliveryInv
<1>2. QED
  BY <1>1, Init_DeliveryInv, Next_DeliveryInv, PTL DEF Spec

(* A list of deliveries that is not empty always has a loop that will come *)
(* to it (#ensureDeliveryLoop), whatever is acknowledged, retried, drained *)
(* by owner or resumed, under every interleaving the model knows.          *)
THEOREM PendingResultsHaveLoop == Spec => []PendingHasLoop
<1>1. DeliveryInv => PendingHasLoop
  BY DEF DeliveryInv
<1>2. QED
  BY <1>1, Init_DeliveryInv, Next_DeliveryInv, PTL DEF Spec

(* The result of a cancelled job is in no list, callback or queue, so it   *)
(* never reaches the conversation: a job is cancelled before its promise   *)
(* settles or not at all (cancel and #runJob of async/job-manager.ts).     *)
THEOREM CancelledJobsAreSilent == Spec => []CancelledIsSilent
<1>1. DeliveryInv => CancelledIsSilent
  BY DEF DeliveryInv, ResultsAreOfDone, CancelledIsSilent, OnWay, Done
<1>2. QED
  BY <1>1, Init_DeliveryInv, Next_DeliveryInv, PTL DEF Spec

-----------------------------------------------------------------------------
(* The table                                                               *)

(* Eviction timers run for jobs that have ended, and none once the manager *)
(* is being disposed.                                                      *)
TimersAreForEnded ==
    /\ \A i \in evicting : table[i] # None /\ ~Live(table[i])
    /\ disposed # "no" => evicting = {}

(* A job is in the table until its run promise has settled, cancelled or   *)
(* not.                                                                    *)
UnsettledAreTracked ==
    /\ \A j \in Jobs : Live(j) \/ state[j] = "new" => j \notin settled
    /\ \A j \in Jobs : Done(j) => j \in settled
    /\ disposed # "yes" =>
          \A j \in Jobs : state[j] # "new" /\ j \notin settled => table[id[j]] = j

(* No job outlives the start of the disposal, and the table its end.       *)
DisposedIsOver ==
    /\ disposed # "no" => \A j \in Jobs : ~Live(j)
    /\ disposed = "yes" => \A i \in Ids : table[i] = None

(* Only registered jobs are waited for.                                    *)
WaitersAreRegistered == \A j \in waiting : state[j] # "new"

(* The second invariant; an abort that outlasts the retention breaks it.   *)
TrackInv ==
    /\ TimersAreForEnded /\ UnsettledAreTracked /\ DisposedIsOver /\ WaitersAreRegistered

(* Steps that leave the jobs alone.                                        *)
LEMMA Aside_TrackInv ==
    ASSUME TrackInv, UNCHANGED <<jobVars, disposed>>, waiting' \subseteq waiting
    PROVE  TrackInv'
  BY DEF TrackInv, TimersAreForEnded, UnsettledAreTracked, DisposedIsOver,
         WaitersAreRegistered, Live, Done, jobVars

LEMMA JobStep_TrackInv ==
    ASSUME "slowAbort" \notin Races, DeliveryInv, TrackInv, NEW j \in Jobs, JobStep(j)
    PROVE  TrackInv'
<1> USE JobsAssumption
    DEF DeliveryInv, TypeOK, TableMatchesIds, TrackInv, TimersAreForEnded,
        UnsettledAreTracked, DisposedIsOver, WaitersAreRegistered, Live, Done
<1>1. ASSUME NEW i \in Ids, NEW queued \in BOOLEAN, NEW foreground \in BOOLEAN,
             Register(j, i, queued, foreground)
      PROVE  TrackInv'
  <2>1. /\ disposed = "no" /\ disposed' = disposed
        /\ state[j] = "new" /\ table[i] = None
        /\ state' = [state EXCEPT ![j] = IF queued THEN "queued" ELSE "running"]
        /\ id' = [id EXCEPT ![j] = i]
        /\ table' = [table EXCEPT ![i] = j]
        /\ settled' = settled /\ evicting' = evicting
        /\ waiting' \subseteq waiting \cup {j}
    BY <1>1 DEF Register
  <2>2. j \notin settled
    BY <2>1
  <2>3. QED
    BY <2>1, <2>2
<1>2. CASE MarkRunning(j)
  BY <1>2 DEF MarkRunning, toolVars
<1>3. CASE Cancel(j)
  BY <1>3 DEF Cancel, ScheduleEviction, toolVars
<1>4. ASSUME NEW outcome \in {"completed", "failed"}, RunSettles(j, outcome)
      PROVE  TrackInv'
  BY <1>4 DEF RunSettles, ScheduleEviction, toolVars
<1>5. CASE ForegroundAborts(j)
  BY <1>5 DEF ForegroundAborts, ScheduleEviction
<1>6. CASE \/ DrainFiltered(j) \/ CallbackReturns(j) \/ CallbackThrows(j)
           \/ ForegroundReturns(j) \/ ForegroundBackgrounds(j) \/ PollFinished(j)
  <2>1. UNCHANGED <<jobVars, disposed>> /\ waiting' \subseteq waiting
    BY <1>6
    DEF DrainFiltered, CallbackReturns, CallbackThrows, ForegroundReturns,
        ForegroundBackgrounds, PollFinished, toolVars
  <2>2. QED
    BY <2>1, Aside_TrackInv
<1>7. QED
  BY <1>1, <1>2, <1>3, <1>4, <1>5, <1>6 DEF JobStep

LEMMA Next_TrackInv ==
    "slowAbort" \notin Races => (DeliveryInv /\ TrackInv /\ [Next]_vars => TrackInv')
<1> SUFFICES ASSUME "slowAbort" \notin Races, DeliveryInv, TrackInv, [Next]_vars
             PROVE  TrackInv'
  OBVIOUS
<1>1. CASE UNCHANGED vars
  BY <1>1, Aside_TrackInv DEF vars, toolVars
<1>2. ASSUME NEW j \in Jobs, JobStep(j) PROVE TrackInv'
  BY <1>2, JobStep_TrackInv
<1>3. ASSUME NEW i \in Ids, Evict(i) PROVE TrackInv'
  BY <1>3, JobsAssumption
  DEF Evict, DeliveryInv, TypeOK, TableMatchesIds, TrackInv, TimersAreForEnded,
      UnsettledAreTracked, DisposedIsOver, WaitersAreRegistered, Live, Done, toolVars
<1>4. ASSUME NEW p \in Waits, WaitStep(p) PROVE TrackInv'
  BY <1>4, Aside_TrackInv DEF WaitStep, WatchEnd, WatchStart
<1>5. CASE LoopStep \/ LoopEnds \/ TurnStart \/ Boundary \/ Abort \/ TurnEnd \/ IdleFlush
  BY <1>5, Aside_TrackInv
  DEF LoopStep, LoopEnds, TurnStart, Boundary, Abort, TurnEnd, IdleFlush, toolVars
<1>6. CASE DisposeStart
  BY <1>6, JobsAssumption
  DEF DisposeStart, DeliveryInv, TypeOK, TableMatchesIds, TrackInv, TimersAreForEnded,
      UnsettledAreTracked, DisposedIsOver, WaitersAreRegistered, Live, Done, toolVars
<1>7. CASE DisposeEnd
  BY <1>7, JobsAssumption
  DEF DisposeEnd, DeliveryInv, TypeOK, TableMatchesIds, TrackInv, TimersAreForEnded,
      UnsettledAreTracked, DisposedIsOver, WaitersAreRegistered, Live, Done, toolVars
<1>8. QED
  BY <1>1, <1>2, <1>3, <1>4, <1>5, <1>6, <1>7 DEF Next

LEMMA Init_TrackInv == Init => TrackInv
  BY JobsAssumption
  DEF Init, TrackInv, TimersAreForEnded, UnsettledAreTracked, DisposedIsOver,
      WaitersAreRegistered, Live, Done

(* A queued or running job stays in the table, where it can be listed and  *)
(* cancelled, until the manager is disposed: no eviction timer of an       *)
(* earlier job with its id removes it (#scheduleEviction of async/job-     *)
(* manager.ts). A cancelled job that still runs when its retention ends is *)
(* excluded: it renews the eviction of an id that may be somebody else's.  *)
THEOREM RunningJobsAreTracked ==
    ASSUME "slowAbort" \notin Races
    PROVE  Spec => []RunningAreTracked
<1>1. DeliveryInv /\ TrackInv => RunningAreTracked
  BY DEF DeliveryInv, TypeOK, TrackInv, UnsettledAreTracked, Live, RunningAreTracked
<1>2. QED
  BY <1>1, Init_DeliveryInv, Next_DeliveryInv, Init_TrackInv, Next_TrackInv, PTL DEF Spec

-----------------------------------------------------------------------------
(* What bash waits for                                                     *)

(* The result of a job bash waits for has not begun its way.               *)
WaitersAreUnsent == \A j \in waiting : j \notin OnWay /\ injected[j] = 0

(* A job bash waits for is started, tracked and suppressed.                *)
WaitersAreSuppressed ==
    \A j \in waiting : id[j] \in suppressed /\ table[id[j]] = j /\ state[j] # "queued"

WaitInv == WaitersAreUnsent /\ (disposed # "yes" => WaitersAreSuppressed)

LEMMA Init_WaitInv == Init => WaitInv
  BY DEF Init, WaitInv, WaitersAreUnsent, WaitersAreSuppressed

(* Steps that lift no suppression and send no result but those of others.  *)
LEMMA Held_WaitInv ==
    ASSUME DeliveryInv, WaitInv, waiting' \subseteq waiting,
           UNCHANGED <<id, table, disposed>>, suppressed \subseteq suppressed',
           \A j \in Jobs : state[j] # "queued" => state'[j] # "queued",
           \A j \in waiting' : j \notin OnWay => j \notin OnWay' /\ injected'[j] = injected[j]
    PROVE  WaitInv'
<1>1. waiting \subseteq Jobs
  BY DEF DeliveryInv, TypeOK
<1>2. QED
  BY <1>1 DEF WaitInv, WaitersAreUnsent, WaitersAreSuppressed

(* What bash still waits for when it gives up is put on the list by the    *)
(* resume alone, if its job has failed meanwhile.                          *)
LEMMA ResumeSends ==
    ASSUME DeliveryInv, WaitInv, TrackInv, NEW j \in waiting, Resume(j)
    PROVE  \/ UNCHANGED <<deliveries, loop>>
           \/ /\ Done(j) /\ table[id[j]] = j /\ deliveries' = Append(deliveries, j)
              /\ loop' = EnsureLoop(loop)
<1>1. j \in Jobs /\ id[j] \in Ids
  BY DEF TrackInv, WaitersAreRegistered, TableMatchesIds, DeliveryInv, TypeOK
<1>2. CASE disposed = "yes"
  BY <1>1, <1>2 DEF TrackInv, DisposedIsOver, Resume
<1>3. CASE disposed # "yes"
  BY <1>3 DEF WaitInv, WaitersAreSuppressed, Resume
<1>4. QED
  BY <1>2, <1>3

(* Deliveries, callbacks and their loop only move results along.           *)
LEMMA Delivering_OnWay ==
    ASSUME DeliveryInv,
           \/ LoopStep
           \/ \E j \in Jobs : DrainFiltered(j) \/ CallbackReturns(j) \/ CallbackThrows(j)
    PROVE  OnWay' \subseteq OnWay
<1> USE DEF DeliveryInv
<1>1. deliveries \in Seq(Jobs) /\ queue \in Seq(Jobs)
  BY DEF TypeOK
<1>2. CASE LoopStep
  <2>1. queue' = queue
    BY <1>2 DEF LoopStep, sessionVars
  <2>2. CASE deliveries = <<>>
    BY <1>2, <2>1, <2>2 DEF LoopStep, OnWay, Pending
  <2>3. CASE deliveries # <<>> /\ deliveries' = Tail(deliveries) /\ UNCHANGED inFlight
    BY <1>1, <2>1, <2>3, TailLemma DEF OnWay, Pending
  <2>4. CASE deliveries # <<>> /\ StartDelivery(1)
    <3>1. 1 \in 1..Len(deliveries)
      BY <1>1, <2>4, TailLemma
    <3>2. QED
      BY <2>1, <2>4, <3>1, Starts DEF OnWay
  <2>5. QED
    BY <1>2, <2>2, <2>3, <2>4 DEF LoopStep
<1>3. ASSUME NEW j \in Jobs, DrainFiltered(j) PROVE OnWay' \subseteq OnWay
  BY <1>3, Starts DEF DrainFiltered, OnWay, sessionVars
<1>4. ASSUME NEW j \in Jobs, CallbackReturns(j) PROVE OnWay' \subseteq OnWay
  <2>1. /\ j \in inFlight /\ inFlight' = inFlight \ {j} /\ deliveries' = deliveries
        /\ queue' = queue \/ queue' = Append(queue, j)
    BY <1>4 DEF CallbackReturns, CallbackSettles, AfterDelivery, EnqueueEntry
  <2>2. ToSet(Append(queue, j)) = ToSet(queue) \cup {j}
    BY <1>1, AppendLemma
  <2>3. QED
    BY <2>1, <2>2 DEF OnWay, Pending
<1>5. ASSUME NEW j \in Jobs, CallbackThrows(j) PROVE OnWay' \subseteq OnWay
  <2>1. /\ j \in inFlight /\ inFlight' = inFlight \ {j} /\ queue' = queue
        /\ deliveries' = deliveries \/ deliveries' = Append(deliveries, j)
    BY <1>5 DEF CallbackThrows, CallbackSettles, AfterDelivery, sessionVars
  <2>2. ToSet(Append(deliveries, j)) = ToSet(deliveries) \cup {j}
    BY <1>1, AppendLemma
  <2>3. QED
    BY <2>1, <2>2 DEF OnWay, Pending
<1>6. QED
  BY <1>2, <1>3, <1>4, <1>5

LEMMA JobStep_WaitInv ==
    ASSUME DeliveryInv, TrackInv, WaitInv, NEW j \in Jobs, JobStep(j)
    PROVE  WaitInv'
<1> USE DEF DeliveryInv
<1>0. /\ None \notin Jobs /\ waiting \subseteq Jobs
      /\ deliveries \in Seq(Jobs) /\ queue \in Seq(Jobs)
      /\ \A k \in waiting : state[k] # "new" /\ id[k] \in Ids
  BY JobsAssumption DEF TypeOK, TrackInv, WaitersAreRegistered, TableMatchesIds
<1>1. ASSUME NEW i \in Ids, NEW queued \in BOOLEAN, NEW foreground \in BOOLEAN,
             Register(j, i, queued, foreground)
      PROVE  WaitInv'
  <2>1. /\ state[j] = "new" /\ table[i] = None /\ disposed = "no" /\ disposed' = disposed
        /\ state' = [state EXCEPT ![j] = IF queued THEN "queued" ELSE "running"]
        /\ id' = [id EXCEPT ![j] = i]
        /\ table' = [table EXCEPT ![i] = j]
        /\ UNCHANGED <<inFlight, queue, injected>>
        /\ foreground => ~queued
    BY <1>1 DEF Register, sessionVars
  <2>2. /\ Pending' \subseteq Pending /\ suppressed \ {i} \subseteq suppressed'
        /\ \/ waiting' = waiting
           \/ waiting' = waiting \cup {j} /\ foreground /\ i \in suppressed'
    <3>1. CASE foreground
      <4>1. Acknowledge({i}) /\ waiting' = waiting \cup {j}
        BY <1>1, <3>1 DEF Register
      <4>2. QED
        BY <3>1, <4>1, AcknowledgeLemma
    <3>2. CASE ~foreground
      BY <1>1, <3>2 DEF Register, Pending
    <3>3. QED
      BY <3>1, <3>2
  <2>3. OnWay' \subseteq OnWay /\ j \notin OnWay /\ injected[j] = 0 /\ j \notin waiting
    BY <1>0, <2>1, <2>2 DEF OnWay, ResultsAreOfDone, Done
  <2>4. WaitersAreUnsent'
    BY <2>1, <2>2, <2>3 DEF WaitInv, WaitersAreUnsent
  <2>5. id'[j] = i /\ table'[i] = j /\ (foreground => state'[j] = "running")
    BY <2>1 DEF TypeOK
  <2>6. ASSUME NEW k \in waiting
        PROVE  id'[k] \in suppressed' /\ table'[id'[k]] = k /\ state'[k] # "queued"
    <3>1. k # j /\ k \in Jobs /\ id[k] \in Ids /\ table[id[k]] = k /\ id[k] # i
      BY <1>0, <2>1, <2>3 DEF WaitInv, WaitersAreSuppressed
    <3>2. id'[k] = id[k] /\ state'[k] = state[k] /\ table'[id[k]] = k
      BY <2>1, <3>1 DEF TypeOK
    <3>3. QED
      BY <2>1, <2>2, <3>1, <3>2 DEF WaitInv, WaitersAreSuppressed
  <2>7. WaitersAreSuppressed'
    BY <2>2, <2>5, <2>6 DEF WaitersAreSuppressed
  <2>8. QED
    BY <2>4, <2>7 DEF WaitInv
<1>2. CASE MarkRunning(j) \/ Cancel(j) \/ ForegroundReturns(j) \/ ForegroundAborts(j)
  <2>1. /\ waiting' \subseteq waiting /\ UNCHANGED <<id, table, disposed, suppressed>>
        /\ UNCHANGED <<deliveries, inFlight, queue, injected>>
    BY <1>2
    DEF MarkRunning, Cancel, ForegroundReturns, ForegroundAborts, jobVars, deliveryVars, markVars,
        toolVars, sessionVars
  <2>2. OnWay' = OnWay
    BY <2>1 DEF OnWay, Pending
  <2>3. \A k \in Jobs : state[k] # "queued" => state'[k] # "queued"
    <3>1. state' = state \/ \E s \in {"running", "cancelled"} : state' = [state EXCEPT ![j] = s]
      BY <1>2 DEF MarkRunning, Cancel, ForegroundReturns, ForegroundAborts, jobVars
    <3>2. QED
      BY <3>1 DEF TypeOK
  <2>4. QED
    BY <2>1, <2>2, <2>3, Held_WaitInv
<1>3. ASSUME NEW outcome \in {"completed", "failed"}, RunSettles(j, outcome)
      PROVE  WaitInv'
  <2>1. /\ state' = state \/ state' = [state EXCEPT ![j] = outcome]
        /\ UNCHANGED <<id, table, inFlight, suppressed, watched, disposed, waiting, queue, injected>>
        /\ \/ deliveries' = deliveries
           \/ /\ deliveries' = Append(deliveries, j)
              /\ ~Suppressed(id[j]) /\ state[j] \in {"queued", "running"}
    BY <1>3 DEF RunSettles, Enqueue, markVars, toolVars, sessionVars
  <2>2. \A k \in Jobs : state[k] # "queued" => state'[k] # "queued"
    BY <2>1 DEF TypeOK
  <2>3. ToSet(Append(deliveries, j)) = ToSet(deliveries) \cup {j}
    BY <1>0, AppendLemma
  <2>4. j \in waiting => OnWay' = OnWay
    <3>1. state[j] \in {"queued", "running"} => disposed # "yes"
      BY DEF TrackInv, DisposedIsOver, Live
    <3>2. j \in waiting /\ disposed # "yes" => Suppressed(id[j])
      BY DEF WaitInv, WaitersAreSuppressed, Suppressed
    <3>3. QED
      BY <2>1, <3>1, <3>2 DEF OnWay, Pending
  <2>5. OnWay' \subseteq OnWay \cup {j}
    BY <2>1, <2>3 DEF OnWay, Pending
  <2>6. QED
    BY <2>1, <2>2, <2>4, <2>5, Held_WaitInv
<1>4. CASE DrainFiltered(j) \/ CallbackReturns(j) \/ CallbackThrows(j)
  <2>1. UNCHANGED <<state, id, table, suppressed, disposed, waiting, injected>>
    BY <1>4
    DEF DrainFiltered, CallbackReturns, CallbackThrows, jobVars, markVars, toolVars, sessionVars
  <2>2. OnWay' \subseteq OnWay
    BY <1>4, Delivering_OnWay
  <2>3. QED
    BY <2>1, <2>2, Held_WaitInv
<1>5. CASE ForegroundBackgrounds(j)
  <2>1. /\ j \in waiting /\ Resume(j) /\ waiting' = waiting \ {j}
        /\ suppressed' = suppressed \ {id[j]}
        /\ UNCHANGED <<state, id, table, inFlight, queue, disposed, injected>>
    BY <1>5 DEF ForegroundBackgrounds, Resume, jobVars, sessionVars
  <2>2. deliveries' = deliveries \/ deliveries' = Append(deliveries, j)
    BY <2>1, ResumeSends
  <2>3. ToSet(Append(deliveries, j)) = ToSet(deliveries) \cup {j}
    BY <1>0, AppendLemma
  <2>4. OnWay' \subseteq OnWay \cup {j}
    BY <2>1, <2>2, <2>3 DEF OnWay, Pending
  <2>5. WaitersAreUnsent'
    BY <2>1, <2>4 DEF WaitInv, WaitersAreUnsent
  <2>6. disposed # "yes" => WaitersAreSuppressed'
    BY <2>1 DEF WaitInv, WaitersAreSuppressed
  <2>7. QED
    BY <2>1, <2>5, <2>6 DEF WaitInv
<1>6. CASE PollFinished(j)
  <2>1. /\ Acknowledge({id[j]})
        /\ UNCHANGED <<state, id, table, inFlight, queue, waiting, disposed, injected>>
    BY <1>6 DEF PollFinished, jobVars, sessionVars
  <2>2. suppressed' = suppressed \cup {id[j]} /\ OnWay' \subseteq OnWay
    BY <2>1, AcknowledgeLemma DEF OnWay
  <2>3. QED
    BY <2>1, <2>2, Held_WaitInv
<1>7. QED
  BY <1>1, <1>2, <1>3, <1>4, <1>5, <1>6 DEF JobStep

LEMMA Next_WaitInv == DeliveryInv /\ TrackInv /\ WaitInv /\ [Next]_vars => WaitInv'
<1> SUFFICES ASSUME DeliveryInv, TrackInv, WaitInv, [Next]_vars
             PROVE  WaitInv'
  OBVIOUS
<1> USE DEF DeliveryInv
<1>1. ASSUME UNCHANGED <<state, id, table, suppressed, disposed, waiting>>, OnWay' \subseteq OnWay,
             \A k \in Jobs : injected'[k] # injected[k] => k \in OnWay
      PROVE  WaitInv'
  <2>1. waiting \subseteq Jobs
    BY DEF TypeOK
  <2>2. QED
    BY <1>1, <2>1, Held_WaitInv
<1>2. CASE UNCHANGED vars
  BY <1>1, <1>2 DEF vars, jobVars, deliveryVars, markVars, toolVars, sessionVars, OnWay, Pending
<1>3. ASSUME NEW j \in Jobs, JobStep(j) PROVE WaitInv'
  BY <1>3, JobStep_WaitInv
<1>4. ASSUME NEW p \in Waits, WaitStep(p) PROVE WaitInv'
  <2>1. UNCHANGED <<state, id, table, inFlight, queue, waiting, disposed, injected>>
    BY <1>4 DEF WaitStep, WatchEnd, WatchStart, jobVars, deliveryVars, sessionVars
  <2>2. UNCHANGED <<deliveries, suppressed>> \/ \E ids : Acknowledge(ids)
    BY <1>4 DEF WaitStep, WatchEnd, WatchStart, deliveryVars
  <2>3. Pending' \subseteq Pending /\ suppressed \subseteq suppressed'
    BY <2>2, AcknowledgeLemma DEF Pending
  <2>4. OnWay' \subseteq OnWay
    BY <2>1, <2>3 DEF OnWay
  <2>5. QED
    BY <2>1, <2>3, <2>4, Held_WaitInv
<1>5. ASSUME NEW i \in Ids, Evict(i) PROVE WaitInv'
  <2>1. /\ i \notin IdsOf(waiting) /\ table' = [table EXCEPT ![i] = None]
        /\ suppressed' = suppressed \ {i}
        /\ UNCHANGED <<state, id, deliveries, inFlight, queue, waiting, disposed, injected>>
    BY <1>5 DEF Evict, deliveryVars, toolVars, sessionVars
  <2>2. \A k \in waiting : k \in Jobs /\ id[k] \in Ids /\ id[k] # i
    BY <2>1 DEF IdsOf, TypeOK, TrackInv, WaitersAreRegistered, TableMatchesIds
  <2>3. \A k \in waiting : table'[id[k]] = table[id[k]]
    BY <2>1, <2>2 DEF TypeOK
  <2>4. WaitersAreUnsent'
    BY <2>1 DEF WaitInv, WaitersAreUnsent, OnWay, Pending
  <2>5. disposed # "yes" => WaitersAreSuppressed'
    BY <2>1, <2>2, <2>3 DEF WaitInv, WaitersAreSuppressed
  <2>6. QED
    BY <2>1, <2>4, <2>5 DEF WaitInv
<1>6. CASE LoopStep
  <2>1. UNCHANGED <<jobVars, markVars, toolVars, disposed, injected>>
    BY <1>6 DEF LoopStep, sessionVars
  <2>2. OnWay' \subseteq OnWay
    BY <1>6, Delivering_OnWay
  <2>3. QED
    BY <1>1, <2>1, <2>2 DEF jobVars, markVars, toolVars
<1>7. CASE LoopEnds \/ TurnStart \/ Abort \/ TurnEnd
  BY <1>1, <1>7
  DEF LoopEnds, TurnStart, Abort, TurnEnd, jobVars, deliveryVars, markVars, toolVars, sessionVars,
      OnWay, Pending
<1>8. CASE Boundary \/ IdleFlush
  <2>1. /\ UNCHANGED <<jobVars, deliveryVars, markVars, disposed, toolVars>>
        /\ Inject \/ UNCHANGED <<queue, injected>>
    BY <1>8 DEF Boundary, IdleFlush
  <2>2. /\ OnWay' \subseteq OnWay
        /\ \A k \in Jobs : injected'[k] # injected[k] => k \in OnWay
    BY <2>1, InjectLemma DEF OnWay, Pending, deliveryVars
  <2>3. QED
    BY <1>1, <2>1, <2>2 DEF jobVars, markVars, toolVars
<1>9. CASE DisposeStart
  <2>1. /\ UNCHANGED <<id, table, deliveries, inFlight, suppressed, waiting, injected>>
        /\ ToSet(queue') = {} /\ disposed = "no"
        /\ \A j \in Jobs : state'[j] = state[j] \/ state'[j] = "cancelled"
    BY <1>9 DEF DisposeStart, deliveryVars, markVars, toolVars, ToSet
  <2>2. OnWay' \subseteq OnWay /\ waiting \subseteq Jobs
    BY <2>1 DEF OnWay, Pending, TypeOK
  <2>3. QED
    BY <2>1, <2>2 DEF WaitInv, WaitersAreUnsent, WaitersAreSuppressed
<1>10. CASE DisposeEnd
  <2>1. /\ disposed' = "yes" /\ Pending' = {} /\ UNCHANGED <<inFlight, queue, waiting, injected>>
    BY <1>10 DEF DisposeEnd, Pending, toolVars, sessionVars, ToSet
  <2>2. QED
    BY <2>1 DEF WaitInv, WaitersAreUnsent, OnWay
<1>11. QED
  BY <1>2, <1>3, <1>4, <1>5, <1>6, <1>7, <1>8, <1>9, <1>10 DEF Next

-----------------------------------------------------------------------------
(* Copies                                                                  *)

(* A result is in one place at most: in the list, in its callback or in    *)
(* the queue, once there, or injected once.                                *)
NoCopies ==
    /\ NoTwice(deliveries) /\ NoTwice(queue)
    /\ Pending \cap inFlight = {} /\ Pending \cap ToSet(queue) = {}
    /\ inFlight \cap ToSet(queue) = {}
    /\ \A j \in Jobs : injected[j] < 2 /\ (injected[j] # 0 => j \notin OnWay)

LEMMA Init_NoCopies == Init => NoCopies
  BY DEF Init, NoCopies, NoTwice, OnWay, Pending, ToSet

(* Steps that take results off their way, if they move any.                *)
LEMMA Fewer_NoCopies ==
    ASSUME NoCopies, NoTwice(deliveries'), NoTwice(queue'),
           Pending' \subseteq Pending, inFlight' \subseteq inFlight,
           ToSet(queue') \subseteq ToSet(queue), injected' = injected
    PROVE  NoCopies'
  BY DEF NoCopies, OnWay

(* A result is put on the list: a new one, or one whose callback failed.   *)
LEMMA Append_NoCopies ==
    ASSUME TypeOK, NoCopies, NEW j \in Jobs,
           j \notin Pending, j \notin inFlight', j \notin ToSet(queue), injected[j] = 0,
           deliveries' = Append(deliveries, j), inFlight' \subseteq inFlight,
           UNCHANGED <<queue, injected>>
    PROVE  NoCopies'
<1>1. Pending' = Pending \cup {j} /\ NoTwice(deliveries')
  BY AppendLemma DEF TypeOK, NoCopies, Pending
<1>2. ToSet(queue') = ToSet(queue) /\ NoTwice(queue')
  BY DEF NoCopies
<1>3. QED
  BY <1>1, <1>2 DEF NoCopies, OnWay

(* A result leaves the list for its callback.                              *)
LEMMA Start_NoCopies ==
    ASSUME TypeOK, NoCopies, NEW n \in 1..Len(deliveries), StartDelivery(n),
           UNCHANGED <<queue, injected>>
    PROVE  NoCopies'
<1>1. /\ Pending' \subseteq Pending /\ NoTwice(deliveries')
      /\ deliveries[n] \in Pending /\ deliveries[n] \notin Pending'
  BY Starts, RemoveAtLemma DEF TypeOK, NoCopies, StartDelivery, Pending
<1>2. ToSet(queue') = ToSet(queue) /\ NoTwice(queue')
  BY DEF NoCopies
<1>3. inFlight' = inFlight \cup {deliveries[n]}
  BY DEF StartDelivery
<1>4. QED
  BY <1>1, <1>2, <1>3 DEF NoCopies, OnWay

(* A result goes from its callback to the queue.                           *)
LEMMA Queue_NoCopies ==
    ASSUME TypeOK, NoCopies, NEW j \in inFlight,
           queue' = Append(queue, j), inFlight' = inFlight \ {j},
           UNCHANGED <<deliveries, injected>>
    PROVE  NoCopies'
<1>1. j \in Jobs /\ j \notin ToSet(queue)
  BY DEF TypeOK, NoCopies
<1>2. ToSet(queue') = ToSet(queue) \cup {j} /\ NoTwice(queue')
  BY <1>1, AppendLemma DEF TypeOK, NoCopies
<1>3. Pending' = Pending /\ NoTwice(deliveries')
  BY DEF NoCopies, Pending
<1>4. QED
  BY <1>1, <1>2, <1>3 DEF NoCopies, OnWay

(* What is injected is no longer on its way.                               *)
LEMMA Inject_NoCopies ==
    ASSUME TypeOK, NoCopies, Inject, UNCHANGED <<deliveries, inFlight>>
    PROVE  NoCopies'
<1>1. queue' = <<>> /\ ToSet(queue') = {} /\ NoTwice(queue')
  BY InjectLemma DEF NoTwice
<1>2. ASSUME NEW j \in ToSet(queue)
      PROVE  Cardinality({n \in DOMAIN queue : queue[n] = j}) = 1
  <2>1. PICK n \in DOMAIN queue : queue[n] = j
    BY <1>2 DEF ToSet
  <2>2. {m \in DOMAIN queue : queue[m] = j} = {n}
    BY <2>1 DEF NoCopies, NoTwice
  <2>3. QED
    BY <2>2, FS_Singleton
<1>3. ASSUME NEW j \in Jobs
      PROVE  injected'[j] < 2 /\ (injected'[j] # 0 => injected[j] # 0 \/ j \in ToSet(queue))
  <2>1. CASE j \in Survivors
    <3>1. j \in ToSet(queue) /\ injected[j] = 0
      BY <2>1 DEF Survivors, NoCopies, OnWay
    <3>2. injected'[j] = 1
      BY <2>1, <3>1, <1>2 DEF Inject
    <3>3. QED
      BY <3>1, <3>2
  <2>2. CASE j \notin Survivors
    BY <2>2 DEF Inject, NoCopies
  <2>3. QED
    BY <2>1, <2>2
<1>4. Pending' = Pending /\ NoTwice(deliveries')
  BY DEF Pending, NoCopies
<1>5. QED
  BY <1>1, <1>3, <1>4 DEF NoCopies, OnWay

(* Steps that leave the results alone.                                     *)
LEMMA Same_NoCopies ==
    ASSUME NoCopies, UNCHANGED <<deliveries, inFlight, queue, injected>>
    PROVE  NoCopies'
  BY DEF NoCopies, OnWay, Pending

LEMMA JobStep_NoCopies ==
    ASSUME DeliveryInv, TrackInv, WaitInv, NoCopies, NEW j \in Jobs, JobStep(j)
    PROVE  NoCopies'
<1> USE DEF DeliveryInv
<1>1. ASSUME Acknowledge({id'[j]}) \/ deliveries' = deliveries,
             UNCHANGED <<inFlight, queue, injected>>
      PROVE  NoCopies'
  <2>1. NoTwice(deliveries') /\ Pending' \subseteq Pending
    BY <1>1, AcknowledgeLemma DEF NoCopies, Pending
  <2>2. QED
    BY <1>1, <2>1, Fewer_NoCopies DEF NoCopies
<1>2. ASSUME NEW i \in Ids, NEW queued \in BOOLEAN, NEW foreground \in BOOLEAN,
             Register(j, i, queued, foreground)
      PROVE  NoCopies'
  <2>1. /\ id' = [id EXCEPT ![j] = i]
        /\ UNCHANGED <<inFlight, sessionVars>>
        /\ Acknowledge({i}) \/ deliveries' = deliveries
    BY <1>2 DEF Register
  <2>2. id'[j] = i
    BY <2>1 DEF TypeOK
  <2>3. QED
    BY <1>1, <2>1, <2>2 DEF sessionVars
<1>3. CASE \/ MarkRunning(j) \/ Cancel(j) \/ ForegroundReturns(j) \/ ForegroundAborts(j)
  BY <1>3, Same_NoCopies
  DEF MarkRunning, Cancel, ForegroundReturns, ForegroundAborts, deliveryVars, sessionVars
<1>4. ASSUME NEW outcome \in {"completed", "failed"}, RunSettles(j, outcome)
      PROVE  NoCopies'
  <2>1. CASE UNCHANGED deliveries
    BY <1>4, <2>1, Same_NoCopies DEF RunSettles, sessionVars
  <2>2. CASE state[j] # "cancelled" /\ deliveries' = Append(deliveries, j)
    <3>1. ~Done(j) /\ UNCHANGED <<inFlight, queue, injected>>
      BY <1>4, <2>2 DEF RunSettles, Done, sessionVars
    <3>2. j \notin OnWay /\ injected[j] = 0
      BY <3>1 DEF ResultsAreOfDone
    <3>3. QED
      BY <2>2, <3>1, <3>2, Append_NoCopies DEF OnWay
  <2>3. QED
    BY <1>4, <2>1, <2>2 DEF RunSettles, Enqueue
<1>5. CASE DrainFiltered(j)
  BY <1>5, Start_NoCopies DEF DrainFiltered, sessionVars
<1>6. CASE CallbackReturns(j)
  <2>1. /\ j \in inFlight /\ inFlight' = inFlight \ {j} /\ UNCHANGED <<deliveries, injected>>
        /\ UNCHANGED queue \/ queue' = Append(queue, j)
    BY <1>6 DEF CallbackReturns, CallbackSettles, AfterDelivery, EnqueueEntry
  <2>2. CASE UNCHANGED queue
    BY <2>1, <2>2, Fewer_NoCopies DEF NoCopies, Pending
  <2>3. QED
    BY <2>1, <2>2, Queue_NoCopies
<1>7. CASE CallbackThrows(j)
  <2>1. /\ j \in inFlight /\ inFlight' = inFlight \ {j} /\ UNCHANGED <<queue, injected>>
        /\ UNCHANGED deliveries \/ deliveries' = Append(deliveries, j)
    BY <1>7 DEF CallbackThrows, CallbackSettles, AfterDelivery, sessionVars
  <2>2. CASE UNCHANGED deliveries
    BY <2>1, <2>2, Fewer_NoCopies DEF NoCopies, Pending
  <2>3. j \notin Pending /\ j \notin ToSet(queue) /\ injected[j] = 0
    BY <2>1 DEF NoCopies, OnWay
  <2>4. QED
    BY <2>1, <2>2, <2>3, Append_NoCopies
<1>8. CASE ForegroundBackgrounds(j)
  <2>1. /\ j \in waiting /\ Resume(j)
        /\ UNCHANGED <<inFlight, queue, injected>>
    BY <1>8 DEF ForegroundBackgrounds, sessionVars
  <2>2. j \notin OnWay /\ injected[j] = 0
    BY <2>1 DEF WaitInv, WaitersAreUnsent
  <2>3. deliveries' = deliveries \/ deliveries' = Append(deliveries, j)
    BY <2>1, ResumeSends
  <2>4. QED
    BY <2>1, <2>2, <2>3, Same_NoCopies, Append_NoCopies DEF OnWay
<1>9. CASE PollFinished(j)
  BY <1>1, <1>9 DEF PollFinished, jobVars, sessionVars
<1>10. QED
  BY <1>2, <1>3, <1>4, <1>5, <1>6, <1>7, <1>8, <1>9 DEF JobStep

LEMMA Next_NoCopies ==
    DeliveryInv /\ TrackInv /\ WaitInv /\ NoCopies /\ [Next]_vars => NoCopies'
<1> SUFFICES ASSUME DeliveryInv, TrackInv, WaitInv, NoCopies, [Next]_vars
             PROVE  NoCopies'
  OBVIOUS
<1> USE DEF DeliveryInv
<1>1. CASE UNCHANGED vars
  BY <1>1, Same_NoCopies DEF vars, deliveryVars, sessionVars
<1>2. ASSUME NEW j \in Jobs, JobStep(j) PROVE NoCopies'
  BY <1>2, JobStep_NoCopies
<1>3. ASSUME NEW p \in Waits, WaitStep(p) PROVE NoCopies'
  <2>1. UNCHANGED <<inFlight, queue, injected>>
    BY <1>3 DEF WaitStep, WatchEnd, WatchStart, deliveryVars, sessionVars
  <2>2. UNCHANGED deliveries \/ \E ids : Acknowledge(ids)
    BY <1>3 DEF WaitStep, WatchEnd, WatchStart, deliveryVars
  <2>3. NoTwice(deliveries') /\ Pending' \subseteq Pending
    BY <2>2, AcknowledgeLemma DEF NoCopies, Pending
  <2>4. QED
    BY <2>1, <2>3, Fewer_NoCopies DEF NoCopies
<1>4. CASE LoopStep
  <2>1. UNCHANGED <<queue, injected>>
    BY <1>4 DEF LoopStep, sessionVars
  <2>2. CASE deliveries = <<>>
    BY <1>4, <2>1, <2>2, Same_NoCopies DEF LoopStep
  <2>3. CASE deliveries # <<>> /\ deliveries' = Tail(deliveries) /\ UNCHANGED inFlight
    <3>1. Pending' \subseteq Pending /\ NoTwice(deliveries')
      BY <2>3, TailLemma DEF TypeOK, NoCopies, Pending
    <3>2. QED
      BY <2>1, <2>3, <3>1, Fewer_NoCopies DEF NoCopies
  <2>4. CASE deliveries # <<>> /\ StartDelivery(1)
    <3>1. 1 \in 1..Len(deliveries)
      BY <2>4, TailLemma DEF TypeOK
    <3>2. QED
      BY <2>1, <2>4, <3>1, Start_NoCopies
  <2>5. QED
    BY <1>4, <2>2, <2>3, <2>4 DEF LoopStep
<1>5. CASE Boundary \/ IdleFlush
  <2>1. UNCHANGED <<deliveries, inFlight>> /\ (Inject \/ UNCHANGED <<queue, injected>>)
    BY <1>5 DEF Boundary, IdleFlush, deliveryVars
  <2>2. QED
    BY <2>1, Same_NoCopies, Inject_NoCopies
<1>6. CASE \/ \E i \in Ids : Evict(i)
           \/ LoopEnds \/ TurnStart \/ Abort \/ TurnEnd
  BY <1>6, Same_NoCopies
  DEF Evict, LoopEnds, TurnStart, Abort, TurnEnd, deliveryVars, sessionVars
<1>7. CASE DisposeStart
  <2>1. /\ UNCHANGED <<deliveries, inFlight, injected>>
        /\ ToSet(queue') = {} /\ NoTwice(queue')
    BY <1>7 DEF DisposeStart, deliveryVars, ToSet, NoTwice
  <2>2. QED
    BY <2>1, Fewer_NoCopies DEF NoCopies, Pending
<1>8. CASE DisposeEnd
  <2>1. /\ UNCHANGED <<queue, inFlight, injected>>
        /\ Pending' = {} /\ NoTwice(deliveries')
    BY <1>8 DEF DisposeEnd, sessionVars, Pending, ToSet, NoTwice
  <2>2. QED
    BY <2>1, Fewer_NoCopies DEF NoCopies
<1>9. QED
  BY <1>1, <1>2, <1>3, <1>4, <1>5, <1>6, <1>7, <1>8 DEF Next

(* No result is injected twice, however retries, drains by owner, resumed  *)
(* deliveries, aborted flushes and the loop interleave: every delivery is  *)
(* taken out of the list before its callback starts (splice and shift      *)
(* before #deliverDelivery), and a resume puts on it only what the         *)
(* suppression had kept off it.                                            *)
THEOREM ResultsAreInjectedOnce ==
    ASSUME "slowAbort" \notin Races
    PROVE  Spec => []InjectedAtMostOnce
<1>1. NoCopies => InjectedAtMostOnce
  BY DEF NoCopies, InjectedAtMostOnce
<1>2. QED
  BY <1>1, Init_DeliveryInv, Next_DeliveryInv, Init_TrackInv, Next_TrackInv,
     Init_WaitInv, Next_WaitInv, Init_NoCopies, Next_NoCopies, PTL DEF Spec

-----------------------------------------------------------------------------
(* What tools have returned                                                *)

(* A tool has returned or announced only jobs that have ended.             *)
ReturnedAreEnded == \A j \in returned \cup announced : ~Live(j) /\ state[j] # "new"

(* A result on its way keeps its id.                                       *)
HeldAreTracked == \A j \in OnWay : table[id[j]] = j

(* A result that is returned and still on its way is suppressed.           *)
ReturnedAreSuppressed == \A j \in returned \cap OnWay : id[j] \in suppressed

(* The marks hold until the manager forgets them.  It takes a retention    *)
(* that outlasts the deliveries, and a bash that does not leave a job in   *)
(* the background that the job tool has returned.                          *)
ReturnInv ==
    ReturnedAreEnded /\ (disposed # "yes" => HeldAreTracked /\ ReturnedAreSuppressed)

LEMMA Init_ReturnInv == Init => ReturnInv
  BY DEF Init, ReturnInv, ReturnedAreEnded, HeldAreTracked, ReturnedAreSuppressed, OnWay, Pending,
         ToSet

(* A job that has ended stays ended.                                       *)
LEMMA EndedStay ==
    ASSUME TypeOK, ReturnedAreEnded, UNCHANGED <<returned, announced>>,
           \/ UNCHANGED state
           \/ \E j \in Jobs, s \in {"running", "completed", "failed", "cancelled"} :
                (s = "running" => state[j] \in {"new", "queued"})
                /\ state' = [state EXCEPT ![j] = s]
           \/ \E j \in Jobs : state[j] = "new" /\ state' = [state EXCEPT ![j] = "queued"]
    PROVE  ReturnedAreEnded'
  BY DEF TypeOK, ReturnedAreEnded, Live

(* Steps that lift no suppression and put no result on its way.            *)
LEMMA Fewer_ReturnInv ==
    ASSUME ReturnInv, UNCHANGED <<id, table, disposed>>,
           OnWay' \subseteq OnWay, suppressed \subseteq suppressed', ReturnedAreEnded',
           \A j \in returned' : j \in returned \/ j \notin OnWay \/ id[j] \in suppressed'
    PROVE  ReturnInv'
  BY DEF ReturnInv, HeldAreTracked, ReturnedAreSuppressed

LEMMA Register_ReturnInv ==
    ASSUME DeliveryInv, ReturnInv,
           NEW j \in Jobs, NEW i \in Ids, NEW queued \in BOOLEAN, NEW foreground \in BOOLEAN,
           Register(j, i, queued, foreground)
    PROVE  ReturnInv'
<1> USE JobsAssumption DEF DeliveryInv
<1>1. /\ state[j] = "new" /\ table[i] = None /\ disposed = "no" /\ disposed' = disposed
      /\ state' = [state EXCEPT ![j] = IF queued THEN "queued" ELSE "running"]
      /\ id' = [id EXCEPT ![j] = i]
      /\ table' = [table EXCEPT ![i] = j]
      /\ UNCHANGED <<inFlight, returned, announced, queue>>
  BY DEF Register, sessionVars
<1>2. Pending' \subseteq Pending /\ suppressed \ {i} \subseteq suppressed'
  <2>1. CASE foreground
    <3>1. Acknowledge({i})
      BY <2>1 DEF Register
    <3>2. QED
      BY <3>1, AcknowledgeLemma
  <2>2. CASE ~foreground
    BY <2>2 DEF Register, Pending
  <2>3. QED
    BY <2>1, <2>2
<1>3. OnWay' \subseteq OnWay
  BY <1>1, <1>2 DEF OnWay
<1>4. ASSUME NEW k \in OnWay
      PROVE  id'[k] = id[k] /\ id[k] # i /\ table'[id'[k]] = k
  <2>1. k \in Jobs
    BY ToSetLemma DEF TypeOK, OnWay, Pending
  <2>2. k # j /\ id[k] \in Ids /\ table[id[k]] = k
    BY <1>1, <2>1
    DEF ResultsAreOfDone, Done, TableMatchesIds, ReturnInv, HeldAreTracked
  <2>3. QED
    BY <1>1, <2>1, <2>2 DEF TypeOK
<1>5. ReturnedAreEnded'
  BY <1>1, EndedStay DEF ReturnInv
<1>6. HeldAreTracked' /\ ReturnedAreSuppressed'
  BY <1>1, <1>2, <1>3, <1>4 DEF ReturnInv, HeldAreTracked, ReturnedAreSuppressed
<1>7. QED
  BY <1>5, <1>6 DEF ReturnInv

LEMMA RunSettles_ReturnInv ==
    ASSUME DeliveryInv, TrackInv, ReturnInv,
           NEW j \in Jobs, NEW outcome \in {"completed", "failed"}, RunSettles(j, outcome)
    PROVE  ReturnInv'
<1> USE DEF DeliveryInv
<1>1. /\ j \notin settled
      /\ UNCHANGED <<id, table, inFlight, suppressed, disposed, returned, announced, queue>>
  BY DEF RunSettles, markVars, toolVars, sessionVars
<1>2. \/ UNCHANGED <<state, deliveries>>
      \/ /\ Live(j) /\ state' = [state EXCEPT ![j] = outcome]
         /\ deliveries' = deliveries \/ deliveries' = Append(deliveries, j)
  BY DEF RunSettles, Enqueue, Live
<1>3. ReturnedAreEnded'
  BY <1>1, <1>2, EndedStay DEF ReturnInv
<1>4. CASE UNCHANGED deliveries
  <2>1. OnWay' = OnWay
    BY <1>1, <1>4 DEF OnWay, Pending
  <2>2. QED
    BY <1>1, <1>3, <2>1, Fewer_ReturnInv
<1>5. CASE Live(j) /\ deliveries' = Append(deliveries, j)
  <2>1. j \notin returned /\ (disposed # "yes" => table[id[j]] = j)
    BY <1>1, <1>5
    DEF ReturnInv, ReturnedAreEnded, TrackInv, UnsettledAreTracked, Live
  <2>2. ToSet(Append(deliveries, j)) = ToSet(deliveries) \cup {j}
    BY AppendLemma DEF TypeOK
  <2>3. OnWay' = OnWay \cup {j}
    BY <1>1, <1>5, <2>2 DEF OnWay, Pending
  <2>4. QED
    BY <1>1, <1>3, <2>1, <2>3 DEF ReturnInv, HeldAreTracked, ReturnedAreSuppressed
<1>6. QED
  BY <1>2, <1>4, <1>5

LEMMA JobStep_ReturnInv ==
    ASSUME "polledWait" \notin Races, DeliveryInv, TrackInv, WaitInv, ReturnInv,
           NEW j \in Jobs, JobStep(j)
    PROVE  ReturnInv'
<1> USE DEF DeliveryInv
<1>1. CASE \E i \in Ids, queued, foreground \in BOOLEAN : Register(j, i, queued, foreground)
  BY <1>1, Register_ReturnInv
<1>2. CASE \E outcome \in {"completed", "failed"} : RunSettles(j, outcome)
  BY <1>2, RunSettles_ReturnInv
<1>3. CASE MarkRunning(j) \/ Cancel(j) \/ ForegroundAborts(j)
  <2>1. UNCHANGED <<id, table, deliveries, inFlight, queue, suppressed, disposed, returned,
                    announced>>
    BY <1>3
    DEF MarkRunning, Cancel, ForegroundAborts, deliveryVars, markVars, toolVars, sessionVars
  <2>2. \/ UNCHANGED state
        \/ state[j] = "queued" /\ state' = [state EXCEPT ![j] = "running"]
        \/ state' = [state EXCEPT ![j] = "cancelled"]
    BY <1>3 DEF MarkRunning, Cancel, ForegroundAborts
  <2>3. ReturnedAreEnded' /\ OnWay' = OnWay
    BY <2>1, <2>2, EndedStay DEF ReturnInv, OnWay, Pending
  <2>4. QED
    BY <2>1, <2>3, Fewer_ReturnInv
<1>4. CASE ForegroundReturns(j)
  <2>1. /\ j \in waiting /\ j \in settled /\ returned' = returned \cup {j}
        /\ UNCHANGED <<state, id, table, deliveries, inFlight, queue, suppressed, disposed,
                       announced>>
    BY <1>4 DEF ForegroundReturns, jobVars, deliveryVars, markVars, sessionVars
  <2>2. ~Live(j) /\ state[j] # "new" /\ j \notin OnWay
    BY <2>1 DEF TrackInv, UnsettledAreTracked, WaitersAreRegistered, WaitInv, WaitersAreUnsent
  <2>3. ReturnedAreEnded' /\ OnWay' = OnWay
    BY <2>1, <2>2 DEF ReturnInv, ReturnedAreEnded, Live, OnWay, Pending
  <2>4. QED
    BY <2>1, <2>2, <2>3, Fewer_ReturnInv
<1>5. CASE DrainFiltered(j) \/ CallbackReturns(j) \/ CallbackThrows(j)
  <2>1. UNCHANGED <<state, id, table, suppressed, returned, announced, disposed>>
    BY <1>5
    DEF DrainFiltered, CallbackReturns, CallbackThrows, jobVars, markVars, toolVars
  <2>2. OnWay' \subseteq OnWay /\ ReturnedAreEnded'
    BY <1>5, <2>1, Delivering_OnWay, EndedStay DEF ReturnInv
  <2>3. QED
    BY <2>1, <2>2, Fewer_ReturnInv
<1>6. CASE ForegroundBackgrounds(j)
  <2>1. /\ j \in waiting /\ Resume(j)
        /\ ~(Done(j) /\ j \in returned)
        /\ suppressed' = suppressed \ {id[j]}
        /\ UNCHANGED <<state, id, table, inFlight, queue, disposed, returned, announced>>
    BY <1>6 DEF ForegroundBackgrounds, Resume, jobVars, sessionVars
  <2>2. \/ deliveries' = deliveries
        \/ Done(j) /\ table[id[j]] = j /\ deliveries' = Append(deliveries, j)
    BY <2>1, ResumeSends
  <2>3. ToSet(Append(deliveries, j)) = ToSet(deliveries) \cup {j}
    BY <2>1, AppendLemma DEF TypeOK
  <2>4. \/ OnWay' = OnWay
        \/ Done(j) /\ table[id[j]] = j /\ OnWay' = OnWay \cup {j}
    BY <2>1, <2>2, <2>3 DEF OnWay, Pending
  <2>5. ReturnedAreEnded' /\ j \notin OnWay
    BY <2>1, EndedStay DEF ReturnInv, WaitInv, WaitersAreUnsent
  <2>6. ASSUME disposed # "yes" PROVE HeldAreTracked' /\ ReturnedAreSuppressed'
    <3>1. table[id[j]] = j
      BY <2>1, <2>6 DEF WaitInv, WaitersAreSuppressed
    <3>2. \A k \in OnWay : table[id[k]] = k /\ id[k] # id[j]
      BY <2>5, <2>6, <3>1 DEF ReturnInv, HeldAreTracked
    <3>3. j \in returned => OnWay' = OnWay
      BY <2>1, <2>4
    <3>4. QED
      BY <2>1, <2>4, <2>5, <2>6, <3>1, <3>2, <3>3
      DEF ReturnInv, HeldAreTracked, ReturnedAreSuppressed
  <2>7. QED
    BY <2>1, <2>5, <2>6 DEF ReturnInv
<1>7. CASE PollFinished(j)
  <2>1. /\ Done(j) /\ returned' = returned \cup {j} /\ Acknowledge({id[j]})
        /\ UNCHANGED <<state, id, table, inFlight, queue, disposed, announced>>
    BY <1>7 DEF PollFinished, jobVars, sessionVars
  <2>2. suppressed' = suppressed \cup {id[j]} /\ OnWay' \subseteq OnWay
    BY <2>1, AcknowledgeLemma DEF OnWay
  <2>3. ReturnedAreEnded'
    BY <2>1 DEF ReturnInv, ReturnedAreEnded, Live, Done
  <2>4. QED
    BY <2>1, <2>2, <2>3, Fewer_ReturnInv
<1>8. QED
  BY <1>1, <1>2, <1>3, <1>4, <1>5, <1>6, <1>7 DEF JobStep

LEMMA Watch_ReturnInv ==
    ASSUME DeliveryInv, ReturnInv, NEW p \in Waits, WaitStep(p)
    PROVE  ReturnInv'
<1> USE DEF DeliveryInv
<1>1. CASE \E S \in SUBSET Jobs : WatchStart(p, S)
  <2>1. UNCHANGED <<state, id, table, deliveries, inFlight, queue, suppressed, returned,
                    announced, disposed>>
    BY <1>1 DEF WatchStart, jobVars, deliveryVars, sessionVars
  <2>2. OnWay' = OnWay /\ ReturnedAreEnded'
    BY <2>1, EndedStay DEF ReturnInv, OnWay, Pending
  <2>3. QED
    BY <2>1, <2>2, Fewer_ReturnInv
<1>2. CASE WatchEnd(p)
  <2> DEFINE finished == {j \in watches[p] : state[j] \notin {"queued", "running"}}
  <2>1. /\ UNCHANGED <<state, id, table, inFlight, queue, disposed>>
        /\ IF p \in Polls
           THEN /\ returned' = returned \cup finished /\ UNCHANGED announced
                /\ Acknowledge(IdsOf(finished))
           ELSE /\ announced' = announced \cup finished
                /\ UNCHANGED <<returned, suppressed, deliveries>>
    BY <1>2 DEF WatchEnd, jobVars, sessionVars
  <2>2. /\ OnWay' \subseteq OnWay /\ suppressed \subseteq suppressed'
        /\ p \in Polls => suppressed' = suppressed \cup IdsOf(finished)
    BY <2>1, AcknowledgeLemma DEF OnWay, Pending
  <2>3. \A j \in finished : ~Live(j) /\ state[j] # "new"
    BY DEF TableMatchesIds, Live
  <2>4. ReturnedAreEnded'
    BY <2>1, <2>3 DEF ReturnInv, ReturnedAreEnded, Live
  <2>5. \A j \in returned' : j \in returned \/ id[j] \in suppressed'
    BY <2>1, <2>2 DEF IdsOf
  <2>6. QED
    BY <2>1, <2>2, <2>4, <2>5, Fewer_ReturnInv
<1>3. QED
  BY <1>1, <1>2 DEF WaitStep

LEMMA Next_ReturnInv ==
    Races \cap {"polledWait", "evictPending"} = {} =>
        (DeliveryInv /\ TrackInv /\ WaitInv /\ ReturnInv /\ [Next]_vars => ReturnInv')
<1> SUFFICES ASSUME Races \cap {"polledWait", "evictPending"} = {},
                    DeliveryInv, TrackInv, WaitInv, ReturnInv, [Next]_vars
             PROVE  ReturnInv'
  OBVIOUS
<1> USE DEF DeliveryInv
<1>1. ASSUME UNCHANGED <<state, id, table, suppressed, disposed, returned, announced>>,
             OnWay' \subseteq OnWay
      PROVE  ReturnInv'
  <2>1. ReturnedAreEnded'
    BY <1>1, EndedStay DEF ReturnInv
  <2>2. QED
    BY <1>1, <2>1, Fewer_ReturnInv
<1>2. CASE UNCHANGED vars
  BY <1>1, <1>2 DEF vars, jobVars, deliveryVars, markVars, toolVars, sessionVars, OnWay, Pending
<1>3. ASSUME NEW j \in Jobs, JobStep(j) PROVE ReturnInv'
  BY <1>3, JobStep_ReturnInv
<1>4. ASSUME NEW p \in Waits, WaitStep(p) PROVE ReturnInv'
  BY <1>4, Watch_ReturnInv
<1>5. ASSUME NEW i \in Ids, Evict(i) PROVE ReturnInv'
  <2>1. /\ i \notin IdsOf(OnItsWay)
        /\ table' = [table EXCEPT ![i] = None]
        /\ suppressed' = suppressed \ {i}
        /\ UNCHANGED <<state, id, deliveries, inFlight, queue, returned, announced, disposed>>
    BY <1>5 DEF Evict, deliveryVars, toolVars, sessionVars
  <2>2. OnWay' = OnWay /\ \A j \in OnWay : id[j] # i
    BY <2>1 DEF OnWay, Pending, OnItsWay, IdsOf
  <2>3. \A j \in OnWay : id[j] \in Ids
    BY ToSetLemma DEF TypeOK, TableMatchesIds, ResultsAreOfDone, Done, OnWay, Pending
  <2>4. \A j \in OnWay : table'[id[j]] = table[id[j]]
    BY <2>1, <2>2, <2>3 DEF TypeOK
  <2>5. ReturnedAreEnded'
    BY <2>1, EndedStay DEF ReturnInv
  <2>6. QED
    BY <2>1, <2>2, <2>4, <2>5 DEF ReturnInv, HeldAreTracked, ReturnedAreSuppressed
<1>6. CASE LoopStep
  <2>1. UNCHANGED <<jobVars, markVars, toolVars, disposed>>
    BY <1>6 DEF LoopStep
  <2>2. OnWay' \subseteq OnWay
    BY <1>6, Delivering_OnWay
  <2>3. QED
    BY <1>1, <2>1, <2>2 DEF jobVars, markVars, toolVars
<1>7. CASE LoopEnds \/ TurnStart \/ Abort \/ TurnEnd
  BY <1>1, <1>7
  DEF LoopEnds, TurnStart, Abort, TurnEnd, jobVars, deliveryVars, markVars, toolVars, sessionVars,
      OnWay, Pending
<1>8. CASE Boundary \/ IdleFlush
  <2>1. /\ UNCHANGED <<jobVars, deliveryVars, markVars, disposed, toolVars>>
        /\ Inject \/ UNCHANGED queue
    BY <1>8 DEF Boundary, IdleFlush
  <2>2. OnWay' \subseteq OnWay
    BY <2>1, InjectLemma DEF OnWay, Pending, deliveryVars
  <2>3. QED
    BY <1>1, <2>1, <2>2 DEF jobVars, markVars, toolVars
<1>9. CASE DisposeStart
  <2>1. /\ UNCHANGED <<id, table, deliveries, inFlight, suppressed, returned, announced>>
        /\ ToSet(queue') = {} /\ disposed = "no"
        /\ \A j \in Jobs : state'[j] = state[j] \/ state'[j] = "cancelled"
    BY <1>9 DEF DisposeStart, deliveryVars, markVars, toolVars, ToSet
  <2>2. OnWay' \subseteq OnWay
    BY <2>1 DEF OnWay, Pending
  <2>3. ReturnedAreEnded'
    BY <2>1 DEF ReturnInv, ReturnedAreEnded, TypeOK, Live
  <2>4. QED
    BY <2>1, <2>2, <2>3 DEF ReturnInv, HeldAreTracked, ReturnedAreSuppressed
<1>10. CASE DisposeEnd
  <2>1. UNCHANGED <<state, returned, announced>> /\ disposed' = "yes"
    BY <1>10 DEF DisposeEnd, toolVars
  <2>2. QED
    BY <2>1 DEF ReturnInv, ReturnedAreEnded, Live
<1>11. QED
  BY <1>2, <1>3, <1>4, <1>5, <1>6, <1>7, <1>8, <1>9, <1>10 DEF Next

(* What a step injects was not returned before.                            *)
LEMMA InjectedAreNew ==
    ASSUME DeliveryInv, ReturnInv, [Next]_vars, disposed # "yes",
           NEW j \in Jobs, j \in returned
    PROVE  injected'[j] = injected[j]
<1>1. CASE UNCHANGED injected
  BY <1>1
<1>2. CASE Inject /\ UNCHANGED markVars
  <2>1. j \in OnWay => Suppressed(id[j])
    BY DEF ReturnInv, ReturnedAreSuppressed, Suppressed
  <2>2. QED
    BY <1>2, <2>1, InjectLemma DEF DeliveryInv, OnWay, Stale
<1>3. CASE UNCHANGED vars
  BY <1>1, <1>3 DEF vars, sessionVars
<1>4. ASSUME NEW k \in Jobs, JobStep(k) PROVE UNCHANGED injected
  BY <1>4
  DEF JobStep, Register, MarkRunning, Cancel, RunSettles, DrainFiltered, CallbackReturns,
      CallbackThrows, ForegroundReturns, ForegroundAborts, ForegroundBackgrounds, PollFinished,
      sessionVars
<1>5. ASSUME NEW p \in Waits, WaitStep(p) PROVE UNCHANGED injected
  BY <1>5 DEF WaitStep, WatchStart, WatchEnd, sessionVars
<1>6. CASE \/ \E i \in Ids : Evict(i)
           \/ LoopStep \/ LoopEnds \/ TurnStart \/ Abort \/ TurnEnd \/ DisposeStart \/ DisposeEnd
  BY <1>1, <1>6
  DEF Evict, LoopStep, LoopEnds, TurnStart, Abort, TurnEnd, DisposeStart, DisposeEnd, sessionVars
<1>7. CASE Boundary \/ IdleFlush
  <2>1. (Inject /\ UNCHANGED markVars) \/ UNCHANGED injected
    BY <1>7 DEF Boundary, IdleFlush
  <2>2. QED
    BY <1>1, <1>2, <2>1
<1>8. QED
  BY <1>1, <1>3, <1>4, <1>5, <1>6, <1>7 DEF Next

(* A result a tool has returned is not injected afterwards, until the      *)
(* manager is disposed: while it is on its way its id is suppressed, and   *)
(* the queue's isStale drops it (acknowledgeDeliveries and                 *)
(* isDeliverySuppressed).  Excluded are an id that is evicted while its    *)
(* result is on its way, an abort that outlasts the retention, and a bash  *)
(* that resumes the delivery of a failed job after the job tool has        *)
(* returned it.                                                            *)
THEOREM ReturnedAreNotInjected ==
    ASSUME Races \cap {"slowAbort", "evictPending", "polledWait"} = {}
    PROVE  Spec => NotInjectedAfterReturn
<1>1. "slowAbort" \notin Races /\ Races \cap {"polledWait", "evictPending"} = {}
  OBVIOUS
<1>2. DeliveryInv /\ ReturnInv /\ [Next]_vars
         => [\A j \in Jobs :
                disposed # "yes" /\ j \in returned => injected'[j] = injected[j]]_vars
  BY InjectedAreNew
<1>3. QED
  BY <1>1, <1>2, Init_DeliveryInv, Next_DeliveryInv, Init_TrackInv, Next_TrackInv,
     Init_WaitInv, Next_WaitInv, Init_ReturnInv, Next_ReturnInv, PTL
     DEF Spec, NotInjectedAfterReturn

-----------------------------------------------------------------------------
(* Losses                                                                  *)

(* What is held anywhere still has its id.                                 *)
HeldHaveIds == \A j \in OnItsWay : table[id[j]] = j

(* A suppressed id is of a job that bash waits for, that a tool has        *)
(* returned or that is cancelled, a watched one of a job that some call    *)
(* watches.                                                                *)
SuppressedAreAttended ==
    \A i \in suppressed :
        table[i] # None => table[i] \in waiting \cup returned \/ state[table[i]] = "cancelled"
WatchedAreAttended == \A i \in watched : \E p \in Waits : table[i] \in watches[p]

(* The result of every job that finished can be accounted for.             *)
Accounted(j) == injected[j] > 0 \/ j \in returned \cup announced \cup OnItsWay

LossInv ==
    disposed = "no" =>
        /\ HeldHaveIds /\ SuppressedAreAttended /\ WatchedAreAttended
        /\ \A j \in Jobs : Done(j) => Accounted(j)

LEMMA HeldAreJobs ==
    ASSUME DeliveryInv, TrackInv
    PROVE  \A j \in OnItsWay : j \in Jobs /\ state[j] # "new" /\ id[j] \in Ids
<1>1. Pending \subseteq Jobs /\ ToSet(queue) \subseteq Jobs /\ inFlight \subseteq Jobs
  BY ToSetLemma DEF DeliveryInv, TypeOK, Pending
<1>2. ASSUME NEW j \in OnWay PROVE j \in Jobs /\ state[j] # "new"
  BY <1>1, <1>2 DEF DeliveryInv, ResultsAreOfDone, OnWay, Done
<1>3. ASSUME NEW j \in waiting PROVE j \in Jobs /\ state[j] # "new"
  BY DEF DeliveryInv, TypeOK, TrackInv, WaitersAreRegistered
<1>4. ASSUME NEW p \in Waits, NEW j \in watches[p] PROVE j \in Jobs /\ state[j] # "new"
  BY DEF DeliveryInv, TypeOK, TableMatchesIds
<1>5. QED
  BY <1>2, <1>3, <1>4 DEF OnItsWay, OnWay, DeliveryInv, TableMatchesIds

(* A step loses nothing if what leaves its place, and what ends, is        *)
(* accounted for or marked afterwards.                                     *)
LEMMA Step_LossInv ==
    ASSUME LossInv, disposed = "no", None \notin Jobs,
           HeldHaveIds', SuppressedAreAttended', WatchedAreAttended',
           returned \subseteq returned', announced \subseteq announced',
           \A j \in Jobs : injected[j] > 0 => injected'[j] > 0,
           \A j \in Jobs : Done(j)' /\ (j \in OnItsWay \/ ~Done(j))
              => Accounted(j)' \/ (table'[id'[j]] = j /\ Suppressed(id[j])')
    PROVE  LossInv'
<1>1. ASSUME NEW j \in Jobs, Done(j)' PROVE Accounted(j)'
  <2>1. CASE Done(j) /\ j \notin OnItsWay
    BY <2>1 DEF LossInv, Accounted
  <2>2. CASE table'[id'[j]] = j /\ Suppressed(id[j])'
    <3>1. CASE id'[j] \in suppressed'
      BY <1>1, <2>2, <3>1 DEF SuppressedAreAttended, Accounted, Done, OnWay, OnItsWay
    <3>2. CASE id'[j] \in watched'
      BY <2>2, <3>2 DEF WatchedAreAttended, Accounted, OnWay, OnItsWay
    <3>3. QED
      BY <2>2, <3>1, <3>2 DEF Suppressed
  <2>3. QED
    BY <1>1, <2>1, <2>2
<1>2. QED
  BY <1>1 DEF LossInv

(* Steps of deliveries and turns, which leave the tables and the tools     *)
(* alone.                                                                  *)
LEMMA Passing_LossInv ==
    ASSUME DeliveryInv, TrackInv, LossInv, disposed = "no", None \notin Jobs,
           UNCHANGED <<state, id, table, markVars, toolVars>>,
           OnWay' \subseteq OnWay,
           \A j \in OnWay : j \in OnWay' \/ Suppressed(id[j]) \/ injected'[j] > 0,
           \A j \in Jobs : injected[j] > 0 => injected'[j] > 0
    PROVE  LossInv'
<1>1. /\ OnItsWay = OnWay \cup waiting \cup UNION {watches[p] : p \in Waits}
      /\ OnItsWay' = OnWay' \cup waiting \cup UNION {watches[p] : p \in Waits}
  BY DEF OnItsWay, OnWay, toolVars
<1>2. HeldHaveIds' /\ SuppressedAreAttended' /\ WatchedAreAttended'
  BY <1>1 DEF LossInv, HeldHaveIds, SuppressedAreAttended, WatchedAreAttended, markVars, toolVars
<1>3. ASSUME NEW j \in Jobs, Done(j)', j \in OnItsWay \/ ~Done(j)
      PROVE  Accounted(j)' \/ (table'[id'[j]] = j /\ Suppressed(id[j])')
  <2>1. j \in OnItsWay /\ table[id[j]] = j
    BY <1>3 DEF Done, LossInv, HeldHaveIds
  <2>2. j \in OnItsWay' \/ Suppressed(id[j]) \/ injected'[j] > 0
    BY <1>1, <2>1
  <2>3. QED
    BY <2>1, <2>2 DEF Accounted, Suppressed, markVars
<1>4. QED
  BY <1>2, <1>3, Step_LossInv DEF toolVars

LEMMA Register_LossInv ==
    ASSUME DeliveryInv, TrackInv, LossInv, disposed = "no",
           NEW j \in Jobs, NEW i \in Ids, NEW queued \in BOOLEAN, NEW foreground \in BOOLEAN,
           Register(j, i, queued, foreground)
    PROVE  LossInv'
<1>1. /\ state[j] = "new" /\ table[i] = None
      /\ state' = [state EXCEPT ![j] = IF queued THEN "queued" ELSE "running"]
      /\ id' = [id EXCEPT ![j] = i]
      /\ table' = [table EXCEPT ![i] = j]
      /\ UNCHANGED <<watched, inFlight, watches, returned, announced, queue, injected>>
  BY DEF Register, sessionVars
<1>2. /\ Pending' \subseteq Pending
      /\ \A k \in Pending : k \in Pending' \/ id'[k] \in suppressed' \cup watched'
      /\ suppressed' \subseteq suppressed \cup {i}
      /\ waiting \subseteq waiting' /\ waiting' \subseteq waiting \cup {j}
      /\ i \in suppressed' => j \in waiting'
  <2>1. CASE foreground
    <3>1. Acknowledge({i}) /\ waiting' = waiting \cup {j}
      BY <2>1 DEF Register
    <3>2. QED
      BY <3>1, AcknowledgeLemma DEF DeliveryInv
  <2>2. CASE ~foreground
    BY <2>2 DEF Register, Pending
  <2>3. QED
    BY <2>1, <2>2
<1>3. /\ HeldHaveIds /\ SuppressedAreAttended /\ WatchedAreAttended
      /\ None \notin Jobs /\ id \in [Jobs -> Ids \cup {None}] /\ table \in [Ids -> Jobs \cup {None}]
      /\ suppressed \subseteq Ids /\ watched \subseteq Ids
      /\ \A p \in Waits : watches[p] \subseteq Jobs
  BY JobsAssumption DEF LossInv, DeliveryInv, TypeOK
<1>4. ASSUME NEW k \in OnItsWay
      PROVE  /\ k \in Jobs /\ k # j /\ id'[k] = id[k] /\ id[k] \in Ids /\ id[k] # i
             /\ table'[id'[k]] = k
  <2>1. k \in Jobs /\ id[k] \in Ids /\ k # j /\ table[id[k]] = k
    BY <1>1, <1>3, HeldAreJobs DEF HeldHaveIds
  <2>2. QED
    BY <1>1, <1>3, <2>1
<1>5. id'[j] = i /\ table'[i] = j /\ \A k \in Ids : k # i => table'[k] = table[k]
  BY <1>1, <1>3
<1>6. OnItsWay' \subseteq OnItsWay \cup {j}
  BY <1>1, <1>2 DEF OnWay, OnItsWay
<1>7. HeldHaveIds'
  BY <1>4, <1>5, <1>6 DEF HeldHaveIds
<1>8. SuppressedAreAttended' /\ WatchedAreAttended'
  <2>1. i \notin watched
    BY <1>1, <1>3 DEF WatchedAreAttended
  <2>2. WatchedAreAttended'
    BY <1>1, <1>3, <1>5, <2>1 DEF WatchedAreAttended
  <2>3. ASSUME NEW k \in suppressed', table'[k] # None
        PROVE  table'[k] \in waiting' \cup returned' \/ state'[table'[k]] = "cancelled"
    <3>1. CASE k = i
      BY <1>2, <1>5, <2>3, <3>1
    <3>2. CASE k # i
      <4>1. k \in suppressed /\ k \in Ids /\ table'[k] = table[k] /\ table[k] \in Jobs
        BY <1>2, <1>3, <1>5, <2>3, <3>2
      <4>2. state[table[k]] = "cancelled" => state'[table[k]] = "cancelled"
        BY <1>1, <4>1 DEF DeliveryInv, TypeOK
      <4>3. QED
        BY <1>1, <1>2, <1>3, <2>3, <4>1, <4>2 DEF SuppressedAreAttended
    <3>3. QED
      BY <3>1, <3>2
  <2>4. QED
    BY <2>2, <2>3 DEF SuppressedAreAttended
<1>9. ASSUME NEW k \in Jobs, Done(k)', k \in OnItsWay \/ ~Done(k)
      PROVE  Accounted(k)' \/ (table'[id'[k]] = k /\ Suppressed(id[k])')
  <2>1. k \in OnItsWay
    BY <1>1, <1>9 DEF Done, DeliveryInv, TypeOK
  <2>2. k \in OnItsWay' \/ id'[k] \in suppressed' \cup watched'
    BY <1>1, <1>2, <2>1 DEF OnWay, OnItsWay
  <2>3. QED
    BY <1>4, <2>1, <2>2 DEF Accounted, Suppressed
<1>10. QED
  BY <1>1, <1>3, <1>7, <1>8, <1>9, Step_LossInv

LEMMA RunSettles_LossInv ==
    ASSUME DeliveryInv, TrackInv, LossInv, disposed = "no",
           NEW j \in Jobs, NEW outcome \in {"completed", "failed"}, RunSettles(j, outcome)
    PROVE  LossInv'
<1>1. /\ state[j] # "new" /\ j \notin settled
      /\ UNCHANGED <<id, table, inFlight, suppressed, watched, waiting, watches, returned,
                     announced, queue, injected>>
      /\ \A k \in Jobs : k # j \/ state[k] = "cancelled" => state'[k] = state[k]
  BY DEF RunSettles, markVars, toolVars, sessionVars, DeliveryInv, TypeOK
<1>2. table[id[j]] = j /\ None \notin Jobs
  BY <1>1, JobsAssumption DEF TrackInv, UnsettledAreTracked
<1>3. /\ Pending \subseteq Pending' /\ Pending' \subseteq Pending \cup {j}
      /\ Done(j)' => j \in Pending' \/ Suppressed(id[j]) \/ Done(j)
  <2>1. deliveries \in Seq(Jobs)
    BY DEF DeliveryInv, TypeOK
  <2>2. CASE deliveries' = Append(deliveries, j)
    <3>1. ToSet(deliveries') = ToSet(deliveries) \cup {j}
      BY <2>1, <2>2, AppendLemma
    <3>2. QED
      BY <3>1 DEF Pending
  <2>3. CASE deliveries' = deliveries /\ Suppressed(id[j])
    BY <2>3 DEF Pending
  <2>4. CASE deliveries' = deliveries /\ state' = state
    BY <2>4 DEF Pending, Done
  <2>5. QED
    BY <2>2, <2>3, <2>4 DEF RunSettles, Enqueue
<1>4. OnItsWay \subseteq OnItsWay' /\ OnItsWay' \subseteq OnItsWay \cup {j}
  BY <1>1, <1>3 DEF OnWay, OnItsWay
<1>5. HeldHaveIds' /\ SuppressedAreAttended' /\ WatchedAreAttended'
  <2>1. \A i \in suppressed : table[i] # None => table[i] \in Jobs
    BY DEF DeliveryInv, TypeOK
  <2>2. QED
    BY <1>1, <1>2, <1>4, <2>1
    DEF LossInv, HeldHaveIds, SuppressedAreAttended, WatchedAreAttended
<1>6. ASSUME NEW k \in Jobs, Done(k)', k \in OnItsWay \/ ~Done(k)
      PROVE  Accounted(k)' \/ (table'[id'[k]] = k /\ Suppressed(id[k])')
  <2>1. CASE k \in OnItsWay
    BY <1>4, <2>1 DEF Accounted
  <2>2. CASE ~Done(k)
    <3>1. k = j
      BY <1>1, <1>6, <2>2 DEF Done
    <3>2. k \in Pending' \/ Suppressed(id[k])
      BY <1>3, <1>6, <2>2, <3>1
    <3>3. QED
      BY <1>1, <1>2, <3>1, <3>2 DEF Accounted, OnWay, OnItsWay, Suppressed
  <2>3. QED
    BY <1>6, <2>1, <2>2
<1>7. QED
  BY <1>1, <1>2, <1>5, <1>6, Step_LossInv

(* Steps that move jobs along and send nothing: who stops waiting for a    *)
(* job has its result, or has cancelled it.                                *)
LEMMA Settling_LossInv ==
    ASSUME DeliveryInv, TrackInv, LossInv, disposed = "no", None \notin Jobs,
           UNCHANGED <<id, table, suppressed, watched, inFlight, watches, queue, deliveries, injected>>,
           UNCHANGED announced, returned \subseteq returned', waiting' \subseteq waiting,
           \A j \in waiting \ waiting' : j \in returned' \/ state'[j] = "cancelled",
           \A j \in Jobs : Done(j)' => Done(j),
           \A j \in Jobs : state[j] = "cancelled" => state'[j] = "cancelled"
    PROVE  LossInv'
<1>1. /\ OnItsWay' \subseteq OnItsWay
      /\ \A j \in OnItsWay : j \in OnItsWay' \cup returned' \/ state'[j] = "cancelled"
  BY DEF OnWay, OnItsWay, Pending
<1>2. \A i \in suppressed : table[i] # None => table[i] \in Jobs
  BY DEF DeliveryInv, TypeOK
<1>3. HeldHaveIds' /\ SuppressedAreAttended' /\ WatchedAreAttended'
  BY <1>1, <1>2 DEF LossInv, HeldHaveIds, SuppressedAreAttended, WatchedAreAttended
<1>4. \A j \in Jobs : Done(j)' /\ (j \in OnItsWay \/ ~Done(j)) => Accounted(j)'
  BY <1>1 DEF Accounted, Done
<1>5. QED
  BY <1>3, <1>4, Step_LossInv

LEMMA JobStep_LossInv ==
    ASSUME "lateAbort" \notin Races, DeliveryInv, TrackInv, WaitInv, LossInv, disposed = "no",
           NEW j \in Jobs, JobStep(j)
    PROVE  LossInv'
<1>0. None \notin Jobs /\ deliveries \in Seq(Jobs) /\ queue \in Seq(Jobs)
  BY JobsAssumption DEF DeliveryInv, TypeOK
<1>1. CASE \E i \in Ids, queued, foreground \in BOOLEAN : Register(j, i, queued, foreground)
  BY <1>1, Register_LossInv
<1>2. CASE \E outcome \in {"completed", "failed"} : RunSettles(j, outcome)
  BY <1>2, RunSettles_LossInv
<1>3. CASE MarkRunning(j) \/ Cancel(j) \/ ForegroundReturns(j) \/ ForegroundAborts(j)
  <2>1. /\ UNCHANGED <<id, table, suppressed, watched, inFlight, watches, queue, deliveries, injected>>
        /\ UNCHANGED announced /\ returned \subseteq returned'
        /\ waiting' \subseteq waiting
    BY <1>3
    DEF MarkRunning, Cancel, ForegroundReturns, ForegroundAborts, jobVars, deliveryVars, markVars,
        toolVars, sessionVars
  <2>2. /\ \A k \in Jobs : Done(k)' => Done(k)
        /\ \A k \in Jobs : state[k] = "cancelled" => state'[k] = "cancelled"
    <3>1. \/ state' = state
          \/ state[j] = "queued" /\ state' = [state EXCEPT ![j] = "running"]
          \/ state' = [state EXCEPT ![j] = "cancelled"]
      BY <1>3 DEF MarkRunning, Cancel, ForegroundReturns, ForegroundAborts, jobVars
    <3>2. QED
      BY <3>1 DEF Done, DeliveryInv, TypeOK
  <2>3. ASSUME ForegroundAborts(j) PROVE state'[j] = "cancelled"
    <3>1. j \in waiting /\ ~Done(j)
      BY <2>3 DEF ForegroundAborts
    <3>2. table[id[j]] = j /\ state[j] \in {"running", "cancelled"}
      BY <3>1
      DEF WaitInv, WaitersAreSuppressed, TrackInv, WaitersAreRegistered, Done, DeliveryInv, TypeOK
    <3>3. QED
      BY <2>3, <3>2 DEF ForegroundAborts, DeliveryInv, TypeOK
  <2>4. \A k \in waiting \ waiting' : k \in returned' \/ state'[k] = "cancelled"
    BY <1>3, <2>3 DEF MarkRunning, Cancel, ForegroundReturns, ForegroundAborts, toolVars
  <2>5. QED
    BY <1>0, <2>1, <2>2, <2>4, Settling_LossInv
<1>4. CASE DrainFiltered(j) \/ CallbackReturns(j) \/ CallbackThrows(j)
  <2>1. UNCHANGED <<state, id, table, markVars, toolVars, injected>>
    BY <1>4 DEF DrainFiltered, CallbackReturns, CallbackThrows, jobVars, sessionVars
  <2>2. OnWay' \subseteq OnWay /\ \A k \in OnWay : k \in OnWay' \/ Suppressed(id[k])
    <3>1. CASE DrainFiltered(j)
      <4>1. PICK n \in 1..Len(deliveries) : deliveries[n] = j /\ StartDelivery(n)
        BY <3>1 DEF DrainFiltered
      <4>2. /\ j \in Pending /\ Pending' \subseteq Pending /\ Pending \subseteq Pending' \cup {j}
            /\ inFlight' = inFlight \cup {j}
        BY <4>1, Starts DEF DeliveryInv
      <4>3. queue' = queue
        BY <3>1 DEF DrainFiltered, sessionVars
      <4>4. QED
        BY <4>2, <4>3 DEF OnWay
    <3>2. CASE CallbackReturns(j)
      <4>1. /\ j \in inFlight /\ inFlight' = inFlight \ {j} /\ deliveries' = deliveries
            /\ \/ Suppressed(id[j]) /\ queue' = queue
               \/ queue' = Append(queue, j)
        BY <3>2 DEF CallbackReturns, CallbackSettles, AfterDelivery, EnqueueEntry
      <4>2. j \in Jobs
        BY <4>1 DEF DeliveryInv, TypeOK
      <4>3. ToSet(Append(queue, j)) = ToSet(queue) \cup {j}
        BY <1>0, <4>2, AppendLemma
      <4>4. QED
        BY <4>1, <4>3 DEF OnWay, Pending
    <3>3. CASE CallbackThrows(j)
      <4>1. /\ j \in inFlight /\ inFlight' = inFlight \ {j} /\ queue' = queue
            /\ \/ Suppressed(id[j]) /\ deliveries' = deliveries
               \/ deliveries' = Append(deliveries, j)
        BY <3>3 DEF CallbackThrows, CallbackSettles, AfterDelivery, sessionVars
      <4>2. ToSet(Append(deliveries, j)) = ToSet(deliveries) \cup {j}
        BY <1>0, AppendLemma
      <4>3. QED
        BY <4>1, <4>2 DEF OnWay, Pending
    <3>4. QED
      BY <1>4, <3>1, <3>2, <3>3
  <2>3. QED
    BY <1>0, <2>1, <2>2, Passing_LossInv
<1>5. CASE ForegroundBackgrounds(j)
  <2>1. /\ j \in waiting /\ waiting' = waiting \ {j} /\ Resume(j)
        /\ suppressed' = suppressed \ {id[j]}
        /\ UNCHANGED <<state, id, table, inFlight, queue, watched, watches, returned, announced,
                       injected>>
    BY <1>5 DEF ForegroundBackgrounds, Resume, jobVars, sessionVars
  <2>2. /\ table[id[j]] = j /\ id[j] \in suppressed /\ j \notin OnWay
    BY <2>1 DEF WaitInv, WaitersAreSuppressed, WaitersAreUnsent
  <2>3. id[j] \notin IdsOf(Pending \cup inFlight)
    BY <2>2 DEF LossInv, HeldHaveIds, OnItsWay, OnWay, IdsOf
  <2>4. \/ deliveries' = deliveries /\ (Done(j) => id[j] \in watched)
        \/ deliveries' = Append(deliveries, j)
    BY <1>0, <2>1, <2>2, <2>3 DEF Resume
  <2>5. ToSet(Append(deliveries, j)) = ToSet(deliveries) \cup {j}
    BY <1>0, AppendLemma
  <2>6. /\ OnItsWay' \subseteq OnItsWay /\ OnItsWay \subseteq OnItsWay' \cup {j}
        /\ Done(j) => j \in OnItsWay' \/ id[j] \in watched
    <3>1. /\ Pending \subseteq Pending' /\ Pending' \subseteq Pending \cup {j}
          /\ Done(j) => j \in Pending' \/ id[j] \in watched
      BY <2>4, <2>5 DEF Pending
    <3>2. QED
      BY <2>1, <3>1 DEF OnWay, OnItsWay
  <2>7. HeldHaveIds' /\ WatchedAreAttended'
    BY <2>1, <2>6 DEF LossInv, HeldHaveIds, WatchedAreAttended
  <2>8. SuppressedAreAttended'
    <3>1. ASSUME NEW i \in suppressed', table[i] # None
          PROVE  table[i] \in waiting' \cup returned \/ state[table[i]] = "cancelled"
      <4>1. i \in Ids /\ id[table[i]] = i
        BY <2>1, <3>1 DEF DeliveryInv, TypeOK, TableMatchesIds
      <4>2. QED
        BY <2>1, <3>1, <4>1 DEF LossInv, SuppressedAreAttended
    <3>2. QED
      BY <2>1, <3>1 DEF SuppressedAreAttended
  <2>9. ASSUME NEW k \in Jobs, Done(k)', k \in OnItsWay \/ ~Done(k)
        PROVE  Accounted(k)' \/ (table'[id'[k]] = k /\ Suppressed(id[k])')
    <3>1. k \in OnItsWay /\ Done(k)
      BY <2>1, <2>9 DEF Done
    <3>2. QED
      BY <2>1, <2>2, <2>6, <3>1 DEF Accounted, Suppressed
  <2>10. QED
    BY <1>0, <2>1, <2>7, <2>8, <2>9, Step_LossInv
<1>6. CASE PollFinished(j)
  <2>1. /\ table[id[j]] = j /\ returned' = returned \cup {j} /\ Acknowledge({id[j]})
        /\ UNCHANGED <<state, id, table, inFlight, queue, watched, watches, waiting, announced,
                       injected>>
    BY <1>6 DEF PollFinished, jobVars, sessionVars
  <2>2. /\ suppressed' = suppressed \cup {id[j]} /\ Pending' \subseteq Pending
        /\ \A k \in Pending : k \in Pending' \/ id[k] \in suppressed' \cup watched'
    BY <2>1, AcknowledgeLemma DEF DeliveryInv
  <2>3. /\ OnItsWay' \subseteq OnItsWay
        /\ \A k \in OnItsWay : k \in OnItsWay' \/ id[k] \in suppressed' \cup watched'
    BY <2>1, <2>2 DEF OnWay, OnItsWay
  <2>4. HeldHaveIds' /\ SuppressedAreAttended' /\ WatchedAreAttended'
    BY <2>1, <2>2, <2>3 DEF LossInv, HeldHaveIds, SuppressedAreAttended, WatchedAreAttended
  <2>5. ASSUME NEW k \in Jobs, Done(k)', k \in OnItsWay \/ ~Done(k)
        PROVE  Accounted(k)' \/ (table'[id'[k]] = k /\ Suppressed(id[k])')
    <3>1. k \in OnItsWay /\ table[id[k]] = k
      BY <2>1, <2>5 DEF Done, LossInv, HeldHaveIds
    <3>2. QED
      BY <2>1, <2>3, <3>1 DEF Accounted, Suppressed
  <2>6. QED
    BY <1>0, <2>1, <2>4, <2>5, Step_LossInv
<1>7. QED
  BY <1>1, <1>2, <1>3, <1>4, <1>5, <1>6 DEF JobStep

LEMMA Watch_LossInv ==
    ASSUME DeliveryInv, TrackInv, LossInv, disposed = "no", NEW p \in Waits, WaitStep(p)
    PROVE  LossInv'
<1>0. /\ None \notin Jobs /\ \A q \in Waits : watches[q] \subseteq Jobs
      /\ watches \in [Waits -> SUBSET Jobs]
  BY JobsAssumption DEF DeliveryInv, TypeOK
<1>1. ASSUME NEW S \in SUBSET Jobs, WatchStart(p, S) PROVE LossInv'
  <2>1. /\ watches[p] = {} /\ \A j \in S : table[id[j]] = j
        /\ watches' = [watches EXCEPT ![p] = S]
        /\ watched' = watched \cup IdsOf(S)
        /\ UNCHANGED <<state, id, table, deliveries, inFlight, queue, suppressed, waiting,
                       returned, announced, injected>>
    BY <1>1 DEF WatchStart, jobVars, deliveryVars, sessionVars
  <2>2. \A q \in Waits : watches[q] \subseteq watches'[q] /\ watches'[q] \subseteq watches[q] \cup S
    BY <1>0, <2>1
  <2>3. OnItsWay \subseteq OnItsWay' /\ OnItsWay' \subseteq OnItsWay \cup S
    BY <2>1, <2>2 DEF OnWay, OnItsWay, Pending
  <2>4. HeldHaveIds' /\ SuppressedAreAttended'
    BY <2>1, <2>3 DEF LossInv, HeldHaveIds, SuppressedAreAttended
  <2>5. WatchedAreAttended'
    <3>1. ASSUME NEW i \in watched PROVE \E q \in Waits : table[i] \in watches'[q]
      BY <2>2 DEF LossInv, WatchedAreAttended
    <3>2. ASSUME NEW j \in S PROVE table[id[j]] \in watches'[p]
      BY <1>0, <2>1
    <3>3. QED
      BY <2>1, <3>1, <3>2 DEF WatchedAreAttended, IdsOf
  <2>6. \A k \in Jobs : Done(k)' /\ (k \in OnItsWay \/ ~Done(k)) => Accounted(k)'
    BY <2>1, <2>3 DEF Accounted, Done
  <2>7. QED
    BY <1>0, <2>1, <2>4, <2>5, <2>6, Step_LossInv
<1>2. CASE WatchEnd(p)
  <2> DEFINE finished == {j \in watches[p] : state[j] \notin {"queued", "running"}}
  <2>1. /\ watches' = [watches EXCEPT ![p] = {}]
        /\ watched' = watched \ IdsOf(watches[p])
        /\ IF p \in Polls
           THEN /\ returned' = returned \cup finished /\ UNCHANGED announced
                /\ Acknowledge(IdsOf(finished))
           ELSE /\ announced' = announced \cup finished
                /\ UNCHANGED <<returned, suppressed, deliveries>>
        /\ UNCHANGED <<state, id, table, inFlight, queue, waiting, injected>>
    BY <1>2 DEF WatchEnd, jobVars, sessionVars
  <2>2. /\ \/ suppressed' = suppressed
           \/ suppressed' = suppressed \cup IdsOf(finished) /\ finished \subseteq returned'
        /\ returned \subseteq returned' /\ announced \subseteq announced'
        /\ Pending' \subseteq Pending
        /\ \A k \in Pending : k \in Pending' \/ id[k] \in suppressed' \cup watched'
    <3>1. CASE p \in Polls
      <4>1. Acknowledge(IdsOf(finished)) /\ id' = id
        BY <2>1, <3>1
      <4>2. /\ suppressed' = suppressed \cup IdsOf(finished) /\ Pending' \subseteq Pending
            /\ \A k \in Pending : k \in Pending' \/ id[k] \in suppressed' \cup watched'
        BY <4>1, AcknowledgeLemma DEF DeliveryInv
      <4>3. QED
        BY <2>1, <3>1, <4>2
    <3>2. CASE p \notin Polls
      BY <2>1, <3>2 DEF Pending
    <3>3. QED
      BY <3>1, <3>2
  <2>3. \A q \in Waits : watches'[q] = IF q = p THEN {} ELSE watches[q]
    BY <1>0, <2>1
  <2>4. /\ OnItsWay' \subseteq OnItsWay
        /\ \A k \in OnItsWay : \/ k \in OnItsWay' \cup watches[p]
                               \/ id[k] \in suppressed' \cup watched'
    BY <2>1, <2>2, <2>3 DEF OnWay, OnItsWay
  <2>5. \A j \in watches[p] : table[id[j]] = j
    BY DEF LossInv, HeldHaveIds, OnWay, OnItsWay
  <2>6. HeldHaveIds'
    BY <2>1, <2>4 DEF LossInv, HeldHaveIds
  <2>7. SuppressedAreAttended'
    BY <2>1, <2>2, <2>5 DEF LossInv, SuppressedAreAttended, IdsOf
  <2>8. WatchedAreAttended'
    <3>1. ASSUME NEW i \in watched' PROVE \E q \in Waits : table[i] \in watches'[q]
      <4>1. PICK q \in Waits : table[i] \in watches[q]
        BY <2>1, <3>1 DEF LossInv, WatchedAreAttended
      <4>2. i \in Ids /\ table[i] # None
        BY <1>0, <2>1, <3>1, <4>1 DEF DeliveryInv, TypeOK
      <4>3. id[table[i]] = i
        BY <4>2 DEF DeliveryInv, TableMatchesIds
      <4>4. q # p
        BY <2>1, <3>1, <4>1, <4>3 DEF IdsOf
      <4>5. QED
        BY <2>3, <4>1, <4>4
    <3>2. QED
      BY <2>1, <3>1 DEF WatchedAreAttended
  <2>9. ASSUME NEW k \in Jobs, Done(k)', k \in OnItsWay \/ ~Done(k)
        PROVE  Accounted(k)' \/ (table'[id'[k]] = k /\ Suppressed(id[k])')
    <3>1. k \in OnItsWay /\ table[id[k]] = k
      BY <2>1, <2>9 DEF Done, LossInv, HeldHaveIds
    <3>2. k \in watches[p] => k \in returned' \cup announced'
      BY <2>1, <2>9 DEF Done
    <3>3. QED
      BY <2>1, <2>4, <3>1, <3>2 DEF Accounted, Suppressed
  <2>10. QED
    BY <1>0, <2>1, <2>2, <2>6, <2>7, <2>8, <2>9, Step_LossInv
<1>3. QED
  BY <1>1, <1>2 DEF WaitStep

LEMMA Evict_LossInv ==
    ASSUME "evictPending" \notin Races, DeliveryInv, TrackInv, LossInv, disposed = "no",
           NEW i \in Ids, Evict(i)
    PROVE  LossInv'
<1>1. /\ i \notin IdsOf(OnItsWay)
      /\ table' = [table EXCEPT ![i] = None]
      /\ suppressed' = suppressed \ {i} /\ watched' = watched \ {i}
      /\ UNCHANGED <<state, id, deliveries, inFlight, queue, waiting, watches, returned,
                     announced, injected>>
  BY DEF Evict, deliveryVars, toolVars, sessionVars
<1>2. /\ None \notin Jobs /\ \A k \in Ids : k # i => table'[k] = table[k]
      /\ suppressed \subseteq Ids /\ watched \subseteq Ids
  BY <1>1, JobsAssumption DEF DeliveryInv, TypeOK
<1>3. OnItsWay' = OnItsWay
  BY <1>1 DEF OnWay, OnItsWay, Pending
<1>4. \A j \in OnItsWay : id[j] # i /\ id[j] \in Ids
  BY <1>1, HeldAreJobs DEF IdsOf
<1>5. HeldHaveIds'
  BY <1>1, <1>2, <1>3, <1>4 DEF LossInv, HeldHaveIds
<1>6. SuppressedAreAttended' /\ WatchedAreAttended'
  BY <1>1, <1>2 DEF LossInv, SuppressedAreAttended, WatchedAreAttended
<1>7. \A k \in Jobs : Done(k)' /\ (k \in OnItsWay \/ ~Done(k)) => Accounted(k)'
  BY <1>1, <1>3 DEF Accounted, Done
<1>8. QED
  BY <1>1, <1>2, <1>5, <1>6, <1>7, Step_LossInv

LEMMA Turn_LossInv ==
    ASSUME DeliveryInv, TrackInv, LossInv, disposed = "no",
           LoopStep \/ LoopEnds \/ TurnStart \/ Boundary \/ Abort \/ TurnEnd \/ IdleFlush
    PROVE  LossInv'
<1>0. None \notin Jobs /\ deliveries \in Seq(Jobs)
  BY JobsAssumption DEF DeliveryInv, TypeOK
<1>1. UNCHANGED <<state, id, table, markVars, toolVars>>
  BY DEF LoopStep, LoopEnds, TurnStart, Boundary, Abort, TurnEnd, IdleFlush, jobVars
<1>2. ASSUME UNCHANGED <<deliveries, inFlight, queue, injected>> PROVE LossInv'
  <2>1. OnWay' = OnWay
    BY <1>2 DEF OnWay, Pending
  <2>2. QED
    BY <1>0, <1>1, <1>2, <2>1, Passing_LossInv
<1>3. CASE LoopEnds \/ TurnStart \/ Abort \/ TurnEnd
  BY <1>2, <1>3 DEF LoopEnds, TurnStart, Abort, TurnEnd, deliveryVars, sessionVars
<1>4. CASE LoopStep
  <2>1. queue' = queue /\ injected' = injected
    BY <1>4 DEF LoopStep, sessionVars
  <2>2. CASE deliveries = <<>>
    BY <1>2, <1>4, <2>1, <2>2 DEF LoopStep
  <2>3. CASE /\ deliveries # <<>> /\ Suppressed(id[Head(deliveries)])
             /\ deliveries' = Tail(deliveries) /\ inFlight' = inFlight
    <3>1. /\ Pending' \subseteq Pending /\ Pending \subseteq Pending' \cup {Head(deliveries)}
      BY <1>0, <2>3, TailLemma DEF Pending
    <3>2. OnWay' \subseteq OnWay /\ \A k \in OnWay : k \in OnWay' \/ Suppressed(id[k])
      BY <2>1, <2>3, <3>1 DEF OnWay
    <3>3. QED
      BY <1>0, <1>1, <2>1, <3>2, Passing_LossInv
  <2>4. CASE deliveries # <<>> /\ StartDelivery(1)
    <3>1. 1 \in 1..Len(deliveries)
      BY <1>0, <2>4, TailLemma
    <3>2. /\ deliveries[1] \in Pending /\ Pending' \subseteq Pending
          /\ Pending \subseteq Pending' \cup {deliveries[1]}
          /\ inFlight' = inFlight \cup {deliveries[1]}
      BY <2>4, <3>1, Starts DEF DeliveryInv
    <3>3. OnWay' \subseteq OnWay /\ OnWay \subseteq OnWay'
      BY <2>1, <3>2 DEF OnWay
    <3>4. QED
      BY <1>0, <1>1, <2>1, <3>3, Passing_LossInv
  <2>5. QED
    BY <1>4, <2>2, <2>3, <2>4 DEF LoopStep
<1>5. CASE Boundary \/ IdleFlush
  <2>1. deliveries' = deliveries /\ inFlight' = inFlight
    BY <1>5 DEF Boundary, IdleFlush, deliveryVars
  <2>2. Inject \/ UNCHANGED <<queue, injected>>
    BY <1>5 DEF Boundary, IdleFlush
  <2>3. CASE Inject
    <3>1. ToSet(queue') = {}
      BY <2>3, InjectLemma DEF DeliveryInv
    <3>2. \A k \in Jobs : IF k \in Survivors THEN injected'[k] \in {1, 2}
                                            ELSE injected'[k] = injected[k]
      <4>1. ASSUME NEW k \in Jobs, k \in Survivors PROVE injected'[k] \in {1, 2}
        <5> DEFINE once == injected[k] = 0 /\ Cardinality({n \in DOMAIN queue : queue[n] = k}) = 1
        <5>1. injected'[k] = IF once THEN 1 ELSE 2
          BY <2>3, <4>1 DEF Inject
        <5> HIDE DEF once
        <5>2. QED
          BY <5>1
      <4>2. ASSUME NEW k \in Jobs, k \notin Survivors PROVE injected'[k] = injected[k]
        BY <2>3, <4>2 DEF Inject
      <4>3. QED
        BY <4>1, <4>2
    <3>3. /\ \A k \in Jobs : injected[k] > 0 => injected'[k] > 0
          /\ \A k \in Jobs : k \in Survivors => injected'[k] > 0
      BY <3>2
    <3>4. ASSUME NEW k \in OnWay PROVE k \in OnWay' \/ Suppressed(id[k]) \/ injected'[k] > 0
      <4>1. k \in Jobs
        BY HeldAreJobs DEF OnWay, OnItsWay
      <4>2. k \in OnWay' \/ k \in ToSet(queue)
        BY <2>1 DEF OnWay, Pending
      <4>3. k \in ToSet(queue) => k \in Survivors \/ Suppressed(id[k])
        BY DEF Survivors, Stale
      <4>4. QED
        BY <3>3, <4>1, <4>2, <4>3
    <3>5. OnWay' \subseteq OnWay
      BY <2>1, <3>1 DEF OnWay, Pending
    <3>6. QED
      BY <1>0, <1>1, <3>3, <3>4, <3>5, Passing_LossInv
  <2>4. QED
    BY <1>2, <2>1, <2>2, <2>3
<1>6. QED
  BY <1>3, <1>4, <1>5

(* What a tool has returned or announced stays so, and disposal goes its   *)
(* way.                                                                    *)
LEMMA ToolsAndSession ==
    ASSUME [Next]_vars
    PROVE  /\ returned \subseteq returned' /\ announced \subseteq announced'
           /\ announced' = announced \/ state' = state
           /\ disposed' # disposed =>
                 <<disposed, disposed'>> \in {<<"no", "draining">>, <<"draining", "yes">>}
<1>1. CASE UNCHANGED vars
  BY <1>1 DEF vars, toolVars
<1>2. CASE DisposeStart \/ DisposeEnd
  BY <1>2 DEF DisposeStart, DisposeEnd, toolVars
<1>3. ASSUME NEW j \in Jobs, JobStep(j)
      PROVE  returned \subseteq returned' /\ announced' = announced /\ disposed' = disposed
  <2>1. CASE \/ \E i \in Ids, queued, foreground \in BOOLEAN : Register(j, i, queued, foreground)
             \/ MarkRunning(j) \/ Cancel(j) \/ DrainFiltered(j)
             \/ \E outcome \in {"completed", "failed"} : RunSettles(j, outcome)
    BY <2>1 DEF Register, MarkRunning, Cancel, RunSettles, DrainFiltered, toolVars
  <2>2. QED
    BY <1>3, <2>1
    DEF JobStep, CallbackReturns, CallbackThrows, ForegroundReturns, ForegroundAborts,
        ForegroundBackgrounds, PollFinished, toolVars
<1>4. ASSUME NEW p \in Waits, WaitStep(p)
      PROVE  /\ returned \subseteq returned' /\ announced \subseteq announced'
             /\ state' = state /\ disposed' = disposed
  BY <1>4 DEF WaitStep, WatchStart, WatchEnd, jobVars, toolVars
<1>5. CASE \/ \E i \in Ids : Evict(i)
           \/ LoopStep \/ LoopEnds
           \/ TurnStart \/ Boundary \/ Abort \/ TurnEnd \/ IdleFlush
  BY <1>5 DEF Evict, LoopStep, LoopEnds, TurnStart, Boundary, Abort, TurnEnd, IdleFlush, toolVars
<1>6. QED
  BY <1>1, <1>2, <1>3, <1>4, <1>5 DEF Next

LEMMA Next_LossInv ==
    Races \cap {"evictPending", "lateAbort"} = {} =>
        (DeliveryInv /\ TrackInv /\ WaitInv /\ LossInv /\ [Next]_vars => LossInv')
<1> SUFFICES ASSUME Races \cap {"evictPending", "lateAbort"} = {},
                    DeliveryInv, TrackInv, WaitInv, LossInv, [Next]_vars
             PROVE  LossInv'
  OBVIOUS
<1>1. CASE disposed' # "no"
  BY <1>1 DEF LossInv
<1>2. CASE disposed' = "no" /\ disposed # "no"
  BY <1>2, ToolsAndSession
<1>3. CASE disposed = "no" /\ disposed' = "no"
  <2>1. CASE UNCHANGED vars
    <3>1. OnItsWay' = OnItsWay
      BY <2>1 DEF vars, deliveryVars, toolVars, sessionVars, OnWay, OnItsWay, Pending
    <3>2. QED
      BY <2>1, <3>1
      DEF LossInv, HeldHaveIds, SuppressedAreAttended, WatchedAreAttended, Accounted, Done,
          vars, jobVars, markVars, toolVars, sessionVars
  <2>2. ASSUME NEW j \in Jobs, JobStep(j) PROVE LossInv'
    BY <1>3, <2>2, JobStep_LossInv
  <2>3. ASSUME NEW i \in Ids, Evict(i) PROVE LossInv'
    BY <1>3, <2>3, Evict_LossInv
  <2>4. ASSUME NEW p \in Waits, WaitStep(p) PROVE LossInv'
    BY <1>3, <2>4, Watch_LossInv
  <2>5. CASE LoopStep \/ LoopEnds \/ TurnStart \/ Boundary \/ Abort \/ TurnEnd \/ IdleFlush
    BY <1>3, <2>5, Turn_LossInv
  <2>6. CASE DisposeStart \/ DisposeEnd
    BY <1>3, <2>6 DEF DisposeStart, DisposeEnd
  <2>7. QED
    BY <2>1, <2>2, <2>3, <2>4, <2>5, <2>6 DEF Next
<1>4. QED
  BY <1>1, <1>2, <1>3

LEMMA Init_LossInv == Init => LossInv
  BY DEF Init, LossInv, HeldHaveIds, SuppressedAreAttended, WatchedAreAttended, OnWay, OnItsWay,
         Pending, ToSet, Waits, Done

(* While the session lives no result is lost but to an await: what the     *)
(* acknowledgements, the delivery loop, the callback and the queue drop is *)
(* returned by a tool, waited for by one, or skipped while a call watched  *)
(* it (acknowledgeDeliveries, resumeDeliveries, watchJobs and              *)
(* isDeliverySuppressed of async/job-manager.ts).  Excluded are an id that *)
(* is evicted while its result is on its way, and an abort that outlasts   *)
(* the retention, which both leave marks to a job that reuses the id, and  *)
(* a foreground wait that is aborted after its job has failed.             *)
THEOREM ResultsAreLostOnlyToAwaits ==
    ASSUME Races \cap {"slowAbort", "evictPending", "lateAbort"} = {}
    PROVE  Spec => []LostOnlyToAwaits
<1>1. "slowAbort" \notin Races /\ Races \cap {"evictPending", "lateAbort"} = {}
  OBVIOUS
<1>2. LossInv => LostOnlyToAwaits
  BY DEF LossInv, LostOnlyToAwaits, Accounted
<1>3. QED
  BY <1>1, <1>2, Init_DeliveryInv, Next_DeliveryInv, Init_TrackInv, Next_TrackInv,
     Init_WaitInv, Next_WaitInv, Init_LossInv, Next_LossInv, PTL DEF Spec

(* What is queued is injected by the turn or by the flush that is          *)
(* scheduled, and nothing is left behind when the turn unwinds.            *)
FlushInv ==
    disposed = "no" =>
        /\ QueueIsAttended
        /\ turn = "unwinding" => queue = <<>>
        /\ flush.pending = flush.task

LEMMA Next_FlushInv ==
    Races \cap {"lateCompletion", "abort", "abortedFlush"} = {} =>
        (TypeOK /\ FlushInv /\ [Next]_vars => FlushInv')
<1> SUFFICES ASSUME Races \cap {"lateCompletion", "abort", "abortedFlush"} = {},
                    TypeOK, FlushInv, [Next]_vars, disposed' = "no"
             PROVE  FlushInv'
  BY DEF FlushInv
<1> USE DEF FlushInv, QueueIsAttended
<1>1. CASE UNCHANGED <<disposed, queue, flush, turn>>
  BY <1>1
<1>2. CASE UNCHANGED vars
  BY <1>1, <1>2 DEF vars, sessionVars
<1>3. ASSUME NEW j \in Jobs, JobStep(j), ~CallbackReturns(j) PROVE FlushInv'
  <2>1. UNCHANGED <<disposed, queue, flush, turn>>
    BY <1>3
    DEF JobStep, Register, MarkRunning, Cancel, RunSettles, DrainFiltered, CallbackThrows,
        ForegroundReturns, ForegroundAborts, ForegroundBackgrounds, PollFinished, sessionVars
  <2>2. QED
    BY <1>1, <2>1
<1>4. ASSUME NEW j \in Jobs, CallbackReturns(j) PROVE FlushInv'
  <2>1. turn' = turn /\ disposed' = disposed /\ turn # "unwinding"
    BY <1>4 DEF CallbackReturns, CallbackSettles
  <2>2. CASE UNCHANGED <<queue, flush>>
    BY <1>1, <2>1, <2>2
  <2>3. CASE EnqueueEntry(j)
    <3>1. flush' = IF turn = "idle" /\ ~flush.pending
                   THEN [pending |-> TRUE, task |-> TRUE] ELSE flush
      BY <2>3 DEF EnqueueEntry
    <3>2. turn \in {"idle", "streaming"} /\ flush \in [pending : BOOLEAN, task : BOOLEAN]
      BY <2>1 DEF TypeOK
    <3>3. flush'.pending = flush'.task /\ (turn = "idle" => flush'.task)
      BY <2>1, <3>1, <3>2
    <3>4. QED
      BY <2>1, <3>2, <3>3
  <2>4. QED
    BY <1>4, <2>2, <2>3 DEF CallbackReturns
<1>5. CASE \/ \E i \in Ids : Evict(i)
           \/ \E p \in Waits : WaitStep(p)
           \/ LoopStep \/ LoopEnds
  <2>1. UNCHANGED <<disposed, queue, flush, turn>>
    BY <1>5 DEF Evict, WaitStep, WatchStart, WatchEnd, LoopStep, LoopEnds, sessionVars
  <2>2. QED
    BY <1>1, <2>1
<1>6. CASE TurnStart \/ TurnEnd
  BY <1>6 DEF TurnStart, TurnEnd
<1>7. CASE Boundary
  <2>1. disposed = "no" /\ flush' = flush /\ queue' = <<>>
    BY <1>7 DEF Boundary, Inject
  <2>2. QED
    BY <2>1
<1>8. CASE Abort
  BY <1>8 DEF Abort
<1>9. CASE IdleFlush
  <2>1. /\ disposed = "no" /\ flush' = [pending |-> FALSE, task |-> FALSE]
        /\ \/ queue' = <<>> /\ turn = "idle"
           \/ turn # "idle" /\ UNCHANGED <<queue, turn>>
    BY <1>9 DEF IdleFlush, Inject
  <2>2. flush'.pending = flush'.task
    BY <2>1
  <2>3. CASE queue' = <<>>
    BY <2>2, <2>3
  <2>4. CASE turn # "idle" /\ UNCHANGED <<queue, turn>>
    BY <2>1, <2>2, <2>4 DEF TypeOK
  <2>5. QED
    BY <2>1, <2>3, <2>4
<1>10. CASE DisposeStart \/ DisposeEnd
  BY <1>10 DEF DisposeStart, DisposeEnd
<1>11. QED
  BY <1>2, <1>3, <1>4, <1>5, <1>6, <1>7, <1>8, <1>9, <1>10 DEF Next, JobStep

(* What is in the session's yield queue has a turn that will come to a     *)
(* step boundary, or an idle flush, before it (enqueue of                  *)
(* session/yield-queue.ts). Excluded are a result that is queued after the *)
(* last poll of a turn, and aborts, of a turn or of the flush: each leaves *)
(* entries that only the user's next prompt comes to.                      *)
THEOREM QueuedResultsHaveTurn ==
    ASSUME Races \cap {"lateCompletion", "abort", "abortedFlush"} = {}
    PROVE  Spec => []QueueIsAttended
<1>1. Init => FlushInv
  BY DEF Init, FlushInv, QueueIsAttended
<1>2. DeliveryInv => TypeOK
  BY DEF DeliveryInv
<1>3. FlushInv => QueueIsAttended
  BY DEF FlushInv, QueueIsAttended
<1>4. QED
  BY <1>1, <1>2, <1>3, Init_DeliveryInv, Next_DeliveryInv, Next_FlushInv, PTL DEF Spec

-----------------------------------------------------------------------------
(* The delivery of results, as a session sees it                           *)

(* A tool that waits holds its turn.                                       *)
ToolsHoldTurn == ToolsWait => turn # "idle"

LEMMA Next_ToolsHoldTurn == TypeOK /\ ToolsHoldTurn /\ [Next]_vars => ToolsHoldTurn'
<1> SUFFICES ASSUME TypeOK, ToolsHoldTurn, [Next]_vars PROVE ToolsHoldTurn'
  OBVIOUS
<1> USE DEF ToolsHoldTurn
<1>1. ASSUME waiting' \subseteq waiting, \A p \in Waits : watches'[p] \subseteq watches[p],
             turn' = "idle" => turn = "idle" \/ ~ToolsWait
      PROVE  ToolsHoldTurn'
  BY <1>1 DEF ToolsWait
<1>2. CASE UNCHANGED vars
  BY <1>1, <1>2 DEF vars, toolVars, sessionVars
<1>3. ASSUME NEW j \in Jobs, JobStep(j) PROVE ToolsHoldTurn'
  <2>1. CASE \E i \in Ids, queued, foreground \in BOOLEAN : Register(j, i, queued, foreground)
    <3>1. watches' = watches /\ turn' = turn /\ (waiting' = waiting \/ turn = "streaming")
      BY <2>1 DEF Register, sessionVars
    <3>2. QED
      BY <3>1 DEF ToolsWait
  <2>2. CASE ~\E i \in Ids, queued, foreground \in BOOLEAN : Register(j, i, queued, foreground)
    <3>1. waiting' \subseteq waiting /\ watches' = watches /\ turn' = turn
      BY <1>3, <2>2
      DEF JobStep, MarkRunning, Cancel, RunSettles, DrainFiltered, CallbackReturns, CallbackThrows,
          ForegroundReturns, ForegroundAborts, ForegroundBackgrounds, PollFinished, toolVars,
          sessionVars
    <3>2. QED
      BY <1>1, <3>1
  <2>3. QED
    BY <2>1, <2>2
<1>4. ASSUME NEW p \in Waits, WaitStep(p) PROVE ToolsHoldTurn'
  <2>1. CASE WatchEnd(p)
    <3>1. waiting' = waiting /\ watches' = [watches EXCEPT ![p] = {}] /\ turn' = turn
      BY <2>1 DEF WatchEnd, sessionVars
    <3>2. QED
      BY <1>1, <3>1 DEF TypeOK
  <2>2. CASE \E S \in SUBSET Jobs : WatchStart(p, S)
    BY <2>2 DEF WatchStart, sessionVars
  <2>3. QED
    BY <1>4, <2>1, <2>2 DEF WaitStep
<1>5. CASE \/ \E i \in Ids : Evict(i)
           \/ LoopStep \/ LoopEnds \/ TurnStart \/ Boundary \/ Abort \/ TurnEnd \/ IdleFlush
           \/ DisposeStart \/ DisposeEnd
  <2>1. waiting' = waiting /\ watches' = watches
    BY <1>5
    DEF Evict, LoopStep, LoopEnds, TurnStart, Boundary, Abort, TurnEnd, IdleFlush, DisposeStart,
        DisposeEnd, toolVars
  <2>2. turn' = "idle" => turn = "idle" \/ ~ToolsWait
    BY <1>5
    DEF Evict, LoopStep, LoopEnds, TurnStart, Boundary, Abort, TurnEnd, IdleFlush, DisposeStart,
        DisposeEnd, sessionVars
  <2>3. QED
    BY <1>1, <2>1, <2>2
<1>6. QED
  BY <1>2, <1>3, <1>4, <1>5 DEF Next

LEMMA StagesMove ==
    ASSUME DeliveryInv, TrackInv, [Next]_vars, NEW j \in Jobs
    PROVE  Results!Moves(j)
<1> USE DEF DeliveryInv, TypeOK, Stage, Done, Results!Moves
<1>1. CASE state'[j] = state[j]
  BY <1>1
<1>2. CASE state[j] = "new" /\ state'[j] \in {"queued", "running"}
  BY <1>2
<1>3. CASE state[j] \in {"queued", "running"} /\ state'[j] # "new"
           /\ state'[j] \in {"running", "completed", "failed", "cancelled"}
  BY <1>3
<1>4. \/ state'[j] = state[j]
      \/ state[j] = "new" /\ state'[j] \in {"queued", "running"}
      \/ state[j] \in {"queued", "running"}
         /\ state'[j] \in {"running", "completed", "failed", "cancelled"}
  <2>1. CASE UNCHANGED state
    BY <2>1
  <2>2. CASE UNCHANGED vars
    BY <2>2 DEF vars, jobVars
  <2>3. ASSUME NEW k \in Jobs, JobStep(k)
        PROVE  \/ state'[j] = state[j]
               \/ state[j] = "new" /\ state'[j] \in {"queued", "running"}
               \/ state[j] \in {"queued", "running"}
                  /\ state'[j] \in {"running", "completed", "failed", "cancelled"}
    BY <2>3
    DEF JobStep, Register, MarkRunning, Cancel, RunSettles, DrainFiltered, CallbackReturns,
        CallbackThrows, ForegroundReturns, ForegroundAborts, ForegroundBackgrounds, PollFinished,
        jobVars
  <2>4. CASE \/ \E i \in Ids : Evict(i)
             \/ \E p \in Waits : WaitStep(p)
             \/ LoopStep \/ LoopEnds \/ TurnStart \/ Boundary \/ Abort \/ TurnEnd \/ IdleFlush
             \/ DisposeEnd
    BY <2>1, <2>4
    DEF Evict, WaitStep, WatchStart, WatchEnd, LoopStep, LoopEnds, TurnStart, Boundary, Abort,
        TurnEnd, IdleFlush, DisposeEnd, jobVars
  <2>5. CASE DisposeStart
    BY <2>5 DEF DisposeStart
  <2>6. QED
    BY <2>2, <2>3, <2>4, <2>5 DEF Next
<1>5. QED
  BY <1>1, <1>2, <1>3, <1>4

(* No finished result is put on its way again: a resume sends what bash    *)
(* has waited for.                                                         *)
LEMMA NothingIsResent ==
    ASSUME DeliveryInv, TrackInv, WaitInv, [Next]_vars, NEW j \in Jobs, Done(j), j \in OnItsWay'
    PROVE  j \in OnItsWay
<1>0. deliveries \in Seq(Jobs) /\ queue \in Seq(Jobs)
  BY DEF DeliveryInv, TypeOK
<1>1. ASSUME Pending' \subseteq Pending, inFlight' \subseteq inFlight \cup Pending,
             ToSet(queue') \subseteq ToSet(queue) \cup inFlight, waiting' \subseteq waiting,
             \A p \in Waits : watches'[p] \subseteq watches[p]
      PROVE  j \in OnItsWay
  BY <1>1 DEF OnWay, OnItsWay
<1>2. CASE UNCHANGED <<deliveries, inFlight, queue, watches>> /\ waiting' \subseteq waiting
  BY <1>1, <1>2 DEF Pending
<1>3. CASE UNCHANGED vars
  BY <1>2, <1>3 DEF vars, deliveryVars, toolVars, sessionVars
<1>4. ASSUME NEW k \in Jobs, JobStep(k) PROVE j \in OnItsWay
  <2>1. CASE \E i \in Ids, queued, foreground \in BOOLEAN : Register(k, i, queued, foreground)
    <3>1. PICK i \in Ids, queued, foreground \in BOOLEAN : Register(k, i, queued, foreground)
      BY <2>1
    <3>2. Pending' \subseteq Pending
      <4>1. CASE foreground
        BY <3>1, <4>1, AcknowledgeLemma DEF Register, DeliveryInv
      <4>2. CASE ~foreground
        BY <3>1, <4>2 DEF Register, Pending
      <4>3. QED
        BY <4>1, <4>2
    <3>3. /\ state[k] = "new" /\ waiting' \subseteq waiting \cup {k}
          /\ UNCHANGED <<inFlight, queue, watches>>
      BY <3>1 DEF Register, sessionVars
    <3>4. QED
      BY <3>2, <3>3 DEF OnWay, OnItsWay, Done
  <2>2. CASE \E outcome \in {"completed", "failed"} : RunSettles(k, outcome)
    <3>1. /\ state[k] \in {"queued", "running", "cancelled"}
          /\ UNCHANGED <<inFlight, queue, waiting, watches>>
          /\ deliveries' = deliveries \/ deliveries' = Append(deliveries, k)
      BY <2>2 DEF RunSettles, Enqueue, toolVars, sessionVars
    <3>2. ToSet(Append(deliveries, k)) = ToSet(deliveries) \cup {k}
      BY <1>0, AppendLemma
    <3>3. QED
      BY <3>1, <3>2 DEF OnWay, OnItsWay, Pending, Done
  <2>3. CASE MarkRunning(k) \/ Cancel(k) \/ ForegroundReturns(k) \/ ForegroundAborts(k)
    BY <1>2, <2>3
    DEF MarkRunning, Cancel, ForegroundReturns, ForegroundAborts, deliveryVars, toolVars, sessionVars
  <2>4. CASE DrainFiltered(k)
    <3>1. PICK n \in 1..Len(deliveries) : deliveries[n] = k /\ StartDelivery(n)
      BY <2>4 DEF DrainFiltered
    <3>2. k \in Pending /\ Pending' \subseteq Pending /\ inFlight' = inFlight \cup {k}
      BY <3>1, Starts DEF DeliveryInv
    <3>3. UNCHANGED <<queue, waiting, watches>>
      BY <2>4 DEF DrainFiltered, toolVars, sessionVars
    <3>4. QED
      BY <1>1, <3>2, <3>3
  <2>5. CASE CallbackReturns(k)
    <3>1. /\ k \in inFlight /\ inFlight' \subseteq inFlight /\ deliveries' = deliveries
          /\ queue' = queue \/ queue' = Append(queue, k)
          /\ UNCHANGED <<waiting, watches>>
      BY <2>5 DEF CallbackReturns, CallbackSettles, AfterDelivery, EnqueueEntry, toolVars
    <3>2. ToSet(Append(queue, k)) = ToSet(queue) \cup {k}
      BY <1>0, AppendLemma
    <3>3. QED
      BY <1>1, <3>1, <3>2 DEF Pending
  <2>6. CASE CallbackThrows(k)
    <3>1. /\ k \in inFlight /\ inFlight' \subseteq inFlight /\ queue' = queue
          /\ deliveries' = deliveries \/ deliveries' = Append(deliveries, k)
          /\ UNCHANGED <<waiting, watches>>
      BY <2>6 DEF CallbackThrows, CallbackSettles, AfterDelivery, toolVars, sessionVars
    <3>2. ToSet(Append(deliveries, k)) = ToSet(deliveries) \cup {k}
      BY <1>0, AppendLemma
    <3>3. QED
      BY <3>1, <3>2 DEF OnWay, OnItsWay, Pending
  <2>7. CASE ForegroundBackgrounds(k)
    <3>1. k \in waiting /\ Resume(k) /\ waiting' = waiting \ {k}
          /\ UNCHANGED <<inFlight, queue, watches>>
      BY <2>7 DEF ForegroundBackgrounds, sessionVars
    <3>2. deliveries' = deliveries \/ deliveries' = Append(deliveries, k)
      BY <3>1, ResumeSends
    <3>3. ToSet(Append(deliveries, k)) = ToSet(deliveries) \cup {k}
      BY <1>0, AppendLemma
    <3>4. QED
      BY <3>1, <3>2, <3>3 DEF OnWay, OnItsWay, Pending
  <2>8. CASE PollFinished(k)
    <3>1. Acknowledge({id[k]}) /\ UNCHANGED <<inFlight, queue, waiting, watches>>
      BY <2>8 DEF PollFinished, sessionVars
    <3>2. Pending' \subseteq Pending
      BY <3>1, AcknowledgeLemma DEF DeliveryInv
    <3>3. QED
      BY <1>1, <3>1, <3>2
  <2>9. QED
    BY <1>4, <2>1, <2>2, <2>3, <2>4, <2>5, <2>6, <2>7, <2>8 DEF JobStep
<1>5. ASSUME NEW p \in Waits, WaitStep(p) PROVE j \in OnItsWay
  <2>0. watches \in [Waits -> SUBSET Jobs]
    BY DEF DeliveryInv, TypeOK
  <2>1. ASSUME NEW S \in SUBSET Jobs, WatchStart(p, S) PROVE j \in OnItsWay
    <3>1. /\ UNCHANGED <<deliveries, inFlight, queue, waiting>>
          /\ j \notin S /\ watches' = [watches EXCEPT ![p] = S]
      BY <2>1 DEF WatchStart, Done, deliveryVars, sessionVars
    <3>2. QED
      BY <2>0, <3>1 DEF OnWay, OnItsWay, Pending
  <2>2. CASE WatchEnd(p)
    <3> DEFINE finished == {k \in watches[p] : state[k] \notin {"queued", "running"}}
    <3>1. /\ UNCHANGED <<inFlight, queue, waiting>> /\ watches' = [watches EXCEPT ![p] = {}]
          /\ IF p \in Polls THEN Acknowledge(IdsOf(finished)) ELSE deliveries' = deliveries
      BY <2>2 DEF WatchEnd, sessionVars
    <3>2. Pending' \subseteq Pending
      BY <3>1, AcknowledgeLemma DEF DeliveryInv, Pending
    <3>3. QED
      BY <1>1, <2>0, <3>1, <3>2
  <2>3. QED
    BY <1>5, <2>1, <2>2 DEF WaitStep
<1>6. CASE LoopStep
  <2>1. UNCHANGED <<queue, waiting, watches>>
    BY <1>6 DEF LoopStep, toolVars, sessionVars
  <2>2. Pending' \subseteq Pending /\ inFlight' \subseteq inFlight \cup Pending
    <3>1. CASE deliveries = <<>>
      BY <1>6, <3>1 DEF LoopStep, Pending
    <3>2. CASE deliveries # <<>> /\ deliveries' = Tail(deliveries) /\ inFlight' = inFlight
      BY <1>0, <3>2, TailLemma DEF Pending
    <3>3. CASE deliveries # <<>> /\ StartDelivery(1)
      <4>1. 1 \in 1..Len(deliveries)
        BY <1>0, <3>3, TailLemma
      <4>2. QED
        BY <3>3, <4>1, Starts DEF DeliveryInv
    <3>4. QED
      BY <1>6, <3>1, <3>2, <3>3 DEF LoopStep
  <2>3. QED
    BY <1>1, <2>1, <2>2
<1>7. CASE Boundary \/ IdleFlush
  <2>1. UNCHANGED <<deliveries, inFlight, waiting, watches>> /\ (Inject \/ queue' = queue)
    BY <1>7 DEF Boundary, IdleFlush, deliveryVars, toolVars
  <2>2. ToSet(queue') \subseteq ToSet(queue)
    BY <2>1, InjectLemma DEF DeliveryInv
  <2>3. QED
    BY <1>1, <2>1, <2>2 DEF Pending
<1>8. CASE DisposeStart \/ DisposeEnd
  <2>1. /\ UNCHANGED <<inFlight, waiting, watches>>
        /\ deliveries' = deliveries \/ deliveries' = <<>>
        /\ queue' = queue \/ queue' = <<>>
    BY <1>8 DEF DisposeStart, DisposeEnd, deliveryVars, toolVars, sessionVars
  <2>2. QED
    BY <1>1, <2>1 DEF Pending, ToSet
<1>9. CASE (\E i \in Ids : Evict(i)) \/ LoopEnds \/ TurnStart \/ Abort \/ TurnEnd
  BY <1>2, <1>9
  DEF Evict, LoopEnds, TurnStart, Abort, TurnEnd, deliveryVars, toolVars, sessionVars
<1>10. QED
  BY <1>3, <1>4, <1>5, <1>6, <1>7, <1>8, <1>9 DEF Next

(* What a step injects comes from the queue, and no tool waits then.       *)
LEMMA InjectedAreQueued ==
    ASSUME DeliveryInv, ToolsHoldTurn, [Next]_vars, NEW j \in Jobs, injected'[j] # injected[j]
    PROVE  j \in ToSet(queue) /\ OnItsWay' = OnWay'
<1>1. Boundary \/ IdleFlush
  <2>1. ASSUME NEW k \in Jobs, JobStep(k) PROVE UNCHANGED injected
    BY <2>1
    DEF JobStep, Register, MarkRunning, Cancel, RunSettles, DrainFiltered, CallbackReturns,
        CallbackThrows, ForegroundReturns, ForegroundAborts, ForegroundBackgrounds, PollFinished,
        sessionVars
  <2>2. ASSUME NEW p \in Waits, WaitStep(p) PROVE UNCHANGED injected
    BY <2>2 DEF WaitStep, WatchStart, WatchEnd, sessionVars
  <2>3. CASE \/ UNCHANGED vars \/ \E i \in Ids : Evict(i)
             \/ LoopStep \/ LoopEnds \/ TurnStart \/ Abort \/ TurnEnd
             \/ DisposeStart \/ DisposeEnd
    BY <2>3
    DEF vars, Evict, LoopStep, LoopEnds, TurnStart, Abort, TurnEnd, DisposeStart, DisposeEnd,
        sessionVars
  <2>4. QED
    BY <2>1, <2>2, <2>3 DEF Next
<1>2. Inject /\ ~ToolsWait /\ UNCHANGED toolVars
  BY <1>1 DEF Boundary, IdleFlush, ToolsHoldTurn
<1>3. j \in ToSet(queue)
  BY <1>2, InjectLemma DEF DeliveryInv
<1>4. OnItsWay' = OnWay'
  BY <1>2 DEF ToolsWait, toolVars, OnItsWay, OnWay
<1>5. QED
  BY <1>3, <1>4

Way == OnWay \cup {j \in OnItsWay : Done(j)}
Stages == [j \in Jobs |-> Stage(j)]

LEMMA StageIs ==
    ASSUME DeliveryInv, NEW j \in Jobs
    PROVE  /\ Stages[j] = Stage(j) /\ (Stage(j) = "done" <=> Done(j))
           /\ Stage(j) \in {"done", "cancelled"} <=> ~Live(j) /\ state[j] # "new"
  BY DEF Stages, Stage, Done, Live, DeliveryInv, TypeOK

LEMMA Step_Results ==
    ASSUME DeliveryInv, TrackInv, WaitInv, NoCopies, ReturnInv, LossInv, ToolsHoldTurn,
           DeliveryInv', NoCopies', ReturnInv', LossInv', [Next]_vars
    PROVE  Results!Step
<1>1. /\ returned \subseteq returned' /\ announced \subseteq announced'
      /\ announced' = announced \/ state' = state
      /\ disposed' # disposed =>
            <<disposed, disposed'>> \in {<<"no", "draining">>, <<"draining", "yes">>}
  BY ToolsAndSession
<1>2. ASSUME NEW j \in Jobs
      PROVE  /\ Stages[j] = Stage(j) /\ (Stage(j) = "done" <=> Done(j))
             /\ Stages'[j] = Stage(j)' /\ (Stage(j)' = "done" <=> Done(j)')
             /\ j \in returned' \cup announced' => Stage(j)' \in {"done", "cancelled"}
             /\ Done(j) => Done(j)'
  <2>1. Stages[j] = Stage(j) /\ (Stage(j) = "done" <=> Done(j))
    BY StageIs
  <2>2. /\ Stages'[j] = Stage(j)' /\ (Stage(j)' = "done" <=> Done(j)')
        /\ Stage(j)' \in {"done", "cancelled"} <=> ~Live(j)' /\ state'[j] # "new"
    BY DEF Stages, Stage, Done, Live, DeliveryInv, TypeOK
  <2>3. Results!Moves(j)
    BY StagesMove
  <2>4. QED
    BY <2>1, <2>2, <2>3 DEF Results!Moves, ReturnInv, ReturnedAreEnded
<1>3. ASSUME NEW j \in Jobs
      PROVE  /\ j \in Way <=> j \in OnItsWay /\ Done(j)
             /\ j \in Way' <=> j \in OnItsWay' /\ Done(j)'
  BY DEF Way, OnItsWay, DeliveryInv, ResultsAreOfDone
<1>4. ASSUME NEW j \in Jobs
      PROVE  /\ Results!Moves(j)
             /\ Results!Sent(j) /\ Results!Leaves(j) /\ Results!Delivers(j) /\ Results!Returns(j)
  <2>1. Results!Moves(j)
    BY StagesMove
  <2>2. Results!Returns(j)
    BY <1>1, <1>2 DEF Results!Returns, Stages
  <2>3. injected'[j] # injected[j] =>
           /\ injected[j] = 0 /\ injected'[j] = 1 /\ Done(j)
           /\ j \in OnItsWay /\ j \notin OnItsWay'
           /\ j \in returned => disposed = "yes"
    <3>1. SUFFICES ASSUME injected'[j] # injected[j]
                   PROVE  /\ injected[j] = 0 /\ injected'[j] = 1 /\ Done(j)
                          /\ j \in OnItsWay /\ j \notin OnItsWay'
                          /\ j \in returned => disposed = "yes"
      OBVIOUS
    <3>2. j \in OnWay /\ j \in OnItsWay /\ OnItsWay' = OnWay'
      BY <3>1, InjectedAreQueued DEF OnWay, OnItsWay
    <3>3. injected[j] = 0 /\ Done(j)
      BY <3>2 DEF NoCopies, DeliveryInv, TypeOK, ResultsAreOfDone
    <3>4. injected'[j] = 1 /\ j \notin OnWay'
      BY <3>1, <3>3 DEF NoCopies, DeliveryInv, TypeOK
    <3>5. j \in returned => disposed = "yes"
      BY <3>1, InjectedAreNew
    <3>6. QED
      BY <3>2, <3>3, <3>4, <3>5
  <2>4. Results!Delivers(j)
    BY <1>2, <1>3, <2>3 DEF Results!Delivers, Way
  <2>5. disposed' = "no" /\ Done(j)'
           => injected'[j] > 0 \/ j \in returned' \cup announced' \cup OnItsWay'
    BY DEF LossInv, Accounted
  <2>6. Results!Sent(j)
    <3>1. j \in OnItsWay' /\ Done(j)' /\ j \notin Way => ~Done(j)
      BY <1>3, NothingIsResent
    <3>2. ~Done(j) => injected'[j] = 0
      BY <2>3 DEF DeliveryInv, ResultsAreOfDone
    <3>3. ~Done(j) /\ Done(j)' => j \notin announced'
      <4>1. j \in announced => ~Live(j) /\ state[j] # "new"
        BY DEF ReturnInv, ReturnedAreEnded
      <4>2. ~Done(j) /\ ~Live(j) /\ state[j] # "new" => ~Done(j)'
        BY <2>1, <1>2, StageIs DEF Results!Moves
      <4>3. QED
        BY <1>1, <4>1, <4>2 DEF Done
    <3>4. QED
      BY <1>2, <1>3, <2>5, <3>1, <3>2, <3>3 DEF Results!Sent, Results!Open, Way, Stages
  <2>7. Results!Leaves(j)
    <3>1. Done(j) => Done(j)'
      BY <1>2
    <3>2. injected'[j] \in 0..2
      BY DEF DeliveryInv, TypeOK
    <3>3. injected'[j] < 2
      BY DEF NoCopies
    <3>4. injected'[j] > 0 => injected'[j] = 1
      BY <3>2, <3>3
    <3>5. QED
      BY <1>3, <2>5, <3>1, <3>4 DEF Results!Leaves, Results!Open, Way
  <2>8. QED
    BY <2>1, <2>2, <2>4, <2>6, <2>7
<1>5. QED
  BY <1>1, <1>4 DEF Results!Step

(* The manager, the yield queue and the tools implement the delivery of    *)
(* results as a session sees it: a job ends once, its result goes its way  *)
(* once, and while the session is open the way ends in the conversation,   *)
(* with a tool that has returned it, or with an await that has announced   *)
(* it: never with a tool and then in the conversation, and never nowhere   *)
(* (async/job-manager.ts, session/yield-queue.ts, onJobComplete of         *)
(* sdk.ts).  The interleavings excluded are those of the theorems above.   *)
THEOREM JobsImplementDelivery ==
    ASSUME Races \cap {"slowAbort", "evictPending", "polledWait", "lateAbort"} = {}
    PROVE  Spec => ResultSpec
<1>1. /\ "slowAbort" \notin Races
      /\ Races \cap {"evictPending", "lateAbort"} = {}
      /\ Races \cap {"polledWait", "evictPending"} = {}
  OBVIOUS
<1>2. Init => Results!Init /\ ToolsHoldTurn
  <2>1. ASSUME Init PROVE Results!Init
    <3>1. OnItsWay = {}
      BY <2>1 DEF Init, OnWay, OnItsWay, Pending, ToSet, Waits
    <3>2. [j \in Jobs |-> Stage(j)] = [j \in Jobs |-> "new"]
      BY <2>1 DEF Init, Stage, Done
    <3>3. QED
      BY <2>1, <3>1, <3>2 DEF Init, Results!Init, OnItsWay
  <2>2. Init => ToolsHoldTurn
    BY DEF Init, ToolsHoldTurn, ToolsWait
  <2>3. QED
    BY <2>1, <2>2
<1>3. DeliveryInv /\ ToolsHoldTurn /\ [Next]_vars => ToolsHoldTurn'
  BY Next_ToolsHoldTurn DEF DeliveryInv
<1>4. DeliveryInv /\ TrackInv /\ WaitInv /\ NoCopies /\ ReturnInv /\ LossInv /\ ToolsHoldTurn
         /\ DeliveryInv' /\ NoCopies' /\ ReturnInv' /\ LossInv' /\ [Next]_vars
      => [Results!Step]_<<[j \in Jobs |-> Stage(j)], OnWay \cup {j \in OnItsWay : Done(j)},
                          returned, announced, injected, disposed>>
  BY Step_Results
<1>5. QED
  BY <1>1, <1>2, <1>3, <1>4, Init_DeliveryInv, Next_DeliveryInv, Init_TrackInv, Next_TrackInv,
     Init_WaitInv, Next_WaitInv, Init_NoCopies, Next_NoCopies, Init_ReturnInv, Next_ReturnInv,
     Init_LossInv, Next_LossInv, PTL DEF Spec, ResultSpec, Results!Spec

=============================================================================

------------------------ MODULE SessionTurns_proofs ------------------------
(* What holds of the turns of a session for any number of prompts, drains, *)
(* wakes, messages and aborts.  First, that the model answers one steer at *)
(* a time; then, with an invariant that tallies every message over all the *)
(* places it may be in, that none is lost or doubled; and, by counting who *)
(* is under way, that none waits when everybody has left.                  *)
EXTENDS SessionTurns, FunctionTheorems, FiniteSetTheorems, SequenceTheorems, TLAPS

Steerings  == {"steer"} \X Nat
LaterOnes  == {"followUp"} \X Nat
IrcRecords == {"irc"} \X Nat
Anything   == Kinds \X Nat

(* Each queue holds messages of its kind.                                  *)
QueueTypes ==
    /\ steering \in Seq(Steerings)
    /\ followUps \in Seq(LaterOnes)
    /\ records \in Seq(IrcRecords)
    /\ parked \in [Wakes -> Seq(LaterOnes)]
    /\ sent \in [Kinds -> Nat]

LoopTypes ==
    /\ run \in {"off", "start", "turn", "call", "work", "stop", "yield", "ending"}
    /\ pending \in Seq(Anything)
    /\ newSteers \in Nat
    /\ skip \in BOOLEAN /\ aborted \in BOOLEAN

(* What the model has not answered yet, with what the loop is about to     *)
(* inject: a run that has begun with a steer skips its first poll, and     *)
(* every other poll follows an answer.                                     *)
Unanswered ==
    /\ run = "start" => pending = <<>> /\ newSteers <= 1 /\ (~skip => newSteers = 0)
    /\ run = "turn" => newSteers + SteersIn(pending) <= 1
    /\ run = "call" => newSteers <= 1
    /\ run \notin {"start", "turn", "call"} => newSteers = 0

IInv == QueueTypes /\ LoopTypes /\ Unanswered

-----------------------------------------------------------------------------
(* Steers in a sequence of messages.                                       *)

SteerPlaces(q) == {i \in DOMAIN q : q[i][1] = "steer"}

LEMMA SteersInType ==
    ASSUME NEW q \in Seq(Anything)
    PROVE  /\ SteersIn(q) = Cardinality(SteerPlaces(q))
           /\ IsFiniteSet(SteerPlaces(q))
           /\ SteersIn(q) \in Nat
<1>1. DOMAIN q = 1 .. Len(q) /\ Len(q) \in Nat
  BY LenProperties
<1>2. IsFiniteSet(1 .. Len(q))
  <2>1. 1 \in Int /\ Len(q) \in Int
    BY <1>1
  <2>2. QED
    BY <2>1, FS_Interval
<1>3. SteerPlaces(q) \in SUBSET (1 .. Len(q))
  BY <1>1 DEF SteerPlaces
<1>4. IsFiniteSet(SteerPlaces(q))
  BY <1>2, <1>3, FS_Subset
<1>5. SteersIn(q) = Cardinality(SteerPlaces(q))
  BY DEF SteersIn, SteerPlaces
<1>6. QED
  BY <1>4, <1>5, FS_CardinalityType

LEMMA NoSteers ==
    ASSUME NEW q, \A i \in DOMAIN q : q[i][1] # "steer"
    PROVE  SteersIn(q) = 0
  BY FS_EmptySet DEF SteersIn

LEMMA OtherKinds ==
    ASSUME NEW q \in Seq(LaterOnes) \cup Seq(IrcRecords)
    PROVE  /\ SteersIn(q) = 0
           /\ q \in Seq(Anything)
<1>1. /\ DOMAIN q = 1 .. Len(q)
      /\ \A i \in 1 .. Len(q) : q[i] \in LaterOnes \cup IrcRecords
  BY LenProperties, ElementOfSeq
<1>2. \A i \in DOMAIN q : q[i][1] # "steer"
  BY <1>1 DEF LaterOnes, IrcRecords
<1>3. LaterOnes \subseteq Anything /\ IrcRecords \subseteq Anything
  BY DEF LaterOnes, IrcRecords, Anything, Kinds
<1>4. q \in Seq(Anything)
  BY <1>3
<1>5. QED
  BY <1>2, <1>4, NoSteers

(* A poll of a queue that is one at a time takes one message at most.      *)
LEMMA OneInBatch ==
    ASSUME "steer" \in OneAtATime, NEW q \in Seq(Steerings)
    PROVE  /\ SteersIn(Batch("steer", q)) <= 1
           /\ Batch("steer", q) \in Seq(Anything)
           /\ Rest("steer", q) \in Seq(Steerings)
<1>1. CASE q = <<>>
  <2>1. Batch("steer", q) = <<>> /\ Rest("steer", q) = <<>>
    BY <1>1 DEF Batch, Rest
  <2>2. SteersIn(<<>>) <= 1
    <3>1. SteersIn(<<>>) = 0
      BY NoSteers
    <3>2. QED
      BY <3>1
  <2>3. <<>> \in Seq(Anything) /\ <<>> \in Seq(Steerings)
    OBVIOUS
  <2>4. QED
    BY <2>1, <2>2, <2>3
<1>2. CASE q # <<>>
  <2>1. /\ Batch("steer", q) = <<Head(q)>>
        /\ Rest("steer", q) = Tail(q)
        /\ Head(q) \in Steerings /\ Tail(q) \in Seq(Steerings)
    <3>1. Head(q) \in Steerings /\ Tail(q) \in Seq(Steerings)
      BY <1>2, HeadTailProperties
    <3>2. QED
      BY <1>2, <3>1 DEF Batch, Rest
  <2>2. Head(q) \in Anything
    BY <2>1 DEF Steerings, Anything, Kinds
  <2>3. <<Head(q)>> \in Seq(Anything) /\ DOMAIN <<Head(q)>> = {1}
    BY <2>2
  <2>4. SteerPlaces(<<Head(q)>>) \in SUBSET {1}
    BY <2>3 DEF SteerPlaces
  <2>5. Cardinality(SteerPlaces(<<Head(q)>>)) <= 1
    <3>1. IsFiniteSet({1}) /\ Cardinality({1}) = 1
      BY FS_Singleton
    <3>2. QED
      BY <2>4, <3>1, FS_Subset
  <2>6. QED
    BY <2>1, <2>3, <2>5, SteersInType
<1>3. QED
  BY <1>1, <1>2

(* Asides and follow-ups that are polled with a steer do not count.        *)
LEMMA SteersInConcat ==
    ASSUME NEW q \in Seq(Anything), NEW r \in Seq(Anything), SteersIn(r) = 0
    PROVE  /\ SteersIn(q \o r) = SteersIn(q)
           /\ q \o r \in Seq(Anything)
<1>1. /\ DOMAIN q = 1 .. Len(q) /\ DOMAIN r = 1 .. Len(r)
      /\ DOMAIN (q \o r) = 1 .. Len(q) + Len(r)
      /\ Len(q) \in Nat /\ Len(r) \in Nat
      /\ \A i \in 1 .. Len(q) : (q \o r)[i] = q[i]
      /\ \A i \in Len(q) + 1 .. Len(q) + Len(r) : (q \o r)[i] = r[i - Len(q)]
  BY LenProperties, ConcatProperties
<1>2. \A i \in 1 .. Len(r) : r[i][1] # "steer"
  <2>1. SteerPlaces(r) = {}
    BY SteersInType, FS_EmptySet
  <2>2. QED
    BY <1>1, <2>1 DEF SteerPlaces
<1>3. SteerPlaces(q \o r) = SteerPlaces(q)
  <2>1. ASSUME NEW i \in Len(q) + 1 .. Len(q) + Len(r)
        PROVE  (q \o r)[i][1] # "steer"
    BY <1>1, <1>2
  <2>2. QED
    BY <1>1, <2>1 DEF SteerPlaces
<1>4. q \o r \in Seq(Anything)
  BY ConcatProperties
<1>5. QED
  BY <1>3, <1>4, SteersInType

LEMMA TakenTypes ==
    ASSUME NEW k, NEW S, NEW q \in Seq(S)
    PROVE  /\ Batch(k, q) \in Seq(S) /\ Rest(k, q) \in Seq(S)
           /\ Polled(k, q) \in Seq(S) /\ Left(k, q) \in Seq(S)
<1>1. <<>> \in Seq(S)
  OBVIOUS
<1>2. Batch(k, q) \in Seq(S) /\ Rest(k, q) \in Seq(S)
  <2>1. CASE k \in OneAtATime /\ q # <<>>
    <3>1. Head(q) \in S /\ Tail(q) \in Seq(S)
      BY <2>1, HeadTailProperties
    <3>2. <<Head(q)>> \in Seq(S)
      BY <3>1
    <3>3. QED
      BY <2>1, <3>1, <3>2 DEF Batch, Rest
  <2>2. CASE ~(k \in OneAtATime /\ q # <<>>)
    BY <1>1, <2>2 DEF Batch, Rest
  <2>3. QED
    BY <2>1, <2>2
<1>3. QED
  BY <1>1, <1>2 DEF Polled, Left

(* What the loop is given by its polls.                                    *)
LEMMA PolledSteers ==
    ASSUME "steer" \in OneAtATime, steering \in Seq(Steerings)
    PROVE  /\ Polled("steer", steering) \in Seq(Anything)
           /\ SteersIn(Polled("steer", steering)) \in 0 .. 1
<1>1. <<>> \in Seq(Anything) /\ SteersIn(<<>>) = 0
  BY NoSteers
<1>2. /\ Batch("steer", steering) \in Seq(Anything)
      /\ SteersIn(Batch("steer", steering)) <= 1
      /\ SteersIn(Batch("steer", steering)) \in Nat
  BY OneInBatch, SteersInType
<1>3. CASE aborted
  BY <1>1, <1>3 DEF Polled
<1>4. CASE ~aborted
  BY <1>2, <1>4 DEF Polled
<1>5. QED
  BY <1>3, <1>4

LEMMA PolledOthers ==
    ASSUME QueueTypes
    PROVE  /\ Polled("irc", records) \in Seq(Anything)
           /\ SteersIn(Polled("irc", records)) = 0
           /\ Polled("followUp", followUps) \in Seq(Anything)
           /\ SteersIn(Polled("followUp", followUps)) = 0
<1>1. /\ Polled("irc", records) \in Seq(IrcRecords)
      /\ Polled("followUp", followUps) \in Seq(LaterOnes)
  BY TakenTypes DEF QueueTypes
<1>2. QED
  BY <1>1, OtherKinds

-----------------------------------------------------------------------------
(* Runs begin with at most one steer, and with one only if they skip their *)
(* first poll.                                                             *)

LEMMA RunStarts ==
    ASSUME NEW a, NEW messages \in Seq(Anything), NEW skipPoll \in BOOLEAN,
           SteersIn(messages) <= 1, skipPoll \/ SteersIn(messages) = 0,
           StartRun(a, messages, skipPoll)
    PROVE  LoopTypes' /\ Unanswered'
<1>1. /\ run' = "start" /\ pending' = <<>> /\ skip' = skipPoll
      /\ aborted' = FALSE /\ newSteers' = SteersIn(messages)
  BY DEF StartRun
<1>2. newSteers' \in Nat
  BY <1>1, SteersInType
<1>3. LoopTypes'
  <2>1. <<>> \in Seq(Anything)
    OBVIOUS
  <2>2. pending' \in Seq(Anything)
    BY <1>1, <2>1
  <2>3. QED
    BY <1>1, <1>2, <2>2 DEF LoopTypes
<1>4. Unanswered'
  BY <1>1, <1>2 DEF Unanswered
<1>5. QED
  BY <1>3, <1>4

LEMMA LoopUnchanged ==
    ASSUME LoopTypes, Unanswered, UNCHANGED loop
    PROVE  LoopTypes' /\ Unanswered'
  BY DEF LoopTypes, Unanswered, loop

(* A wake starts with records, and sets aside nothing but follow-ups.      *)
LEMMA WakeStarts ==
    ASSUME NEW c, NEW ph, NEW later \in Seq(LaterOnes),
           NEW held \in [Wakes -> Seq(LaterOnes)],
           NEW messages \in Seq(IrcRecords),
           WakeForIrc(c, ph, later, held, messages)
    PROVE  /\ followUps' \in Seq(LaterOnes)
           /\ parked' \in [Wakes -> Seq(LaterOnes)]
           /\ LoopTypes' /\ Unanswered'
<1> DEFINE w == FreeOf(Wakes, ph)
<1>1. /\ \/ parked' = [held EXCEPT ![w] = later] /\ followUps' = <<>>
         \/ parked' = held /\ followUps' = later
      /\ StartRun(w, messages, FALSE)
  BY DEF WakeForIrc
<1>2. messages \in Seq(Anything) /\ SteersIn(messages) = 0
  BY OtherKinds
<1>3. LoopTypes' /\ Unanswered'
  <2>1. SteersIn(messages) <= 1
    BY <1>2
  <2> HIDE DEF w
  <2>2. QED
    BY <1>1, <1>2, <2>1, RunStarts
<1>4. <<>> \in Seq(LaterOnes)
  OBVIOUS
<1>5. followUps' \in Seq(LaterOnes) /\ parked' \in [Wakes -> Seq(LaterOnes)]
  <2> HIDE DEF w
  <2>1. QED
    BY <1>1, <1>4
<1>6. QED
  BY <1>3, <1>5

LEMMA StrandedDrained ==
    ASSUME IInv, NEW c, NEW ph, NEW later \in Seq(LaterOnes),
           NEW held \in [Wakes -> Seq(LaterOnes)],
           DrainStranded(c, ph, later, held), UNCHANGED <<steering, sent>>
    PROVE  IInv'
<1>1. CASE UNCHANGED <<records, loop, talk>> /\ followUps' = later /\ parked' = held
  <2>1. LoopTypes' /\ Unanswered'
    BY <1>1, LoopUnchanged DEF IInv
  <2>2. QueueTypes'
    BY <1>1 DEF IInv, QueueTypes
  <2>3. QED
    BY <2>1, <2>2 DEF IInv
<1>2. CASE WakeForIrc(c, ph, later, held, records) /\ records' = <<>>
  <2>1. records \in Seq(IrcRecords) /\ <<>> \in Seq(IrcRecords)
    BY DEF IInv, QueueTypes
  <2>2. /\ followUps' \in Seq(LaterOnes)
        /\ parked' \in [Wakes -> Seq(LaterOnes)]
        /\ LoopTypes' /\ Unanswered'
    BY <1>2, <2>1, WakeStarts
  <2>3. QueueTypes'
    BY <1>2, <2>1, <2>2 DEF IInv, QueueTypes
  <2>4. QED
    BY <2>2, <2>3 DEF IInv
<1>3. QED
  BY <1>1, <1>2 DEF DrainStranded

LEMMA FlightEnds ==
    ASSUME IInv, NEW a, NEW later \in Seq(LaterOnes),
           NEW held \in [Wakes -> Seq(LaterOnes)], EndInFlight(a, later, held)
    PROVE  IInv'
<1> DEFINE c == IF count = 0 THEN 0 ELSE count - 1
           ph == [phase EXCEPT ![a] = IF a \in Prompts THEN "done" ELSE "off"]
<1>1. CASE DrainStranded(c, ph, later, held) /\ UNCHANGED <<steering, sent, stops>>
  <2> HIDE DEF c, ph
  <2>1. QED
    BY <1>1, StrandedDrained
<1>2. CASE /\ followUps' = later /\ parked' = held
           /\ UNCHANGED <<records, loop, talk, steering, sent>>
  <2>1. LoopTypes' /\ Unanswered'
    BY <1>2, LoopUnchanged DEF IInv
  <2>2. QueueTypes'
    BY <1>2 DEF IInv, QueueTypes
  <2>3. QED
    BY <2>1, <2>2 DEF IInv
<1>3. QED
  BY <1>1, <1>2 DEF EndInFlight

-----------------------------------------------------------------------------
(* The steps.                                                              *)

LEMMA LoopStepInv ==
    ASSUME "steer" \in OneAtATime, IInv, LoopSteps
    PROVE  IInv'
<1> USE DEF IInv
<1>1. CASE InitialPoll
  <2>1. QueueTypes'
    <3>1. steering' \in Seq(Steerings)
      BY <1>1, TakenTypes DEF InitialPoll, QueueTypes
    <3>2. QED
      BY <1>1, <3>1 DEF InitialPoll, QueueTypes
  <2>2. CASE skip
    <3>1. /\ run' = "turn" /\ pending' = <<>> /\ newSteers' = newSteers
          /\ newSteers <= 1 /\ newSteers \in Nat
          /\ skip' \in BOOLEAN /\ aborted' = aborted
      BY <1>1, <2>2 DEF InitialPoll, LoopTypes, Unanswered
    <3>2. <<>> \in Seq(Anything) /\ SteersIn(<<>>) = 0
      BY NoSteers
    <3>3. pending' \in Seq(Anything) /\ SteersIn(pending') = 0
      BY <3>1, <3>2
    <3>4. LoopTypes' /\ Unanswered'
      BY <3>1, <3>3 DEF LoopTypes, Unanswered
    <3>5. QED
      BY <2>1, <3>4
  <2>3. CASE ~skip
    <3>1. /\ run' = "turn" /\ pending' = Polled("steer", steering)
          /\ newSteers' = 0 /\ skip' \in BOOLEAN /\ aborted' = aborted
      BY <1>1, <2>3 DEF InitialPoll, LoopTypes, Unanswered
    <3>2. pending' \in Seq(Anything) /\ SteersIn(pending') \in 0 .. 1
      BY <3>1, PolledSteers DEF QueueTypes
    <3>3. LoopTypes' /\ Unanswered'
      BY <3>1, <3>2 DEF LoopTypes, Unanswered
    <3>4. QED
      BY <2>1, <3>3
  <2>4. QED
    BY <2>2, <2>3
<1>2. CASE Inject
  <2>1. /\ run' = "call" /\ newSteers' = newSteers + SteersIn(pending)
        /\ newSteers + SteersIn(pending) <= 1 /\ newSteers \in Nat
        /\ pending' = <<>> /\ UNCHANGED <<queues, parked, sent, aborted, skip>>
    BY <1>2 DEF Inject, LoopTypes, Unanswered
  <2>2. SteersIn(pending) \in Nat /\ <<>> \in Seq(Anything)
    BY SteersInType DEF LoopTypes
  <2>3. pending' \in Seq(Anything)
    BY <2>1, <2>2
  <2>4. LoopTypes' /\ Unanswered'
    BY <2>1, <2>2, <2>3 DEF LoopTypes, Unanswered
  <2>5. QueueTypes'
    BY <2>1 DEF QueueTypes, queues
  <2>6. QED
    BY <2>4, <2>5
<1>3. ASSUME NEW tools \in BOOLEAN, Answer(tools)
      PROVE  IInv'
  BY <1>3 DEF Answer, queues, QueueTypes, LoopTypes, Unanswered
<1>4. ASSUME NEW t \in {"assistant", "toolResult"}, CallFails(t)
      PROVE  IInv'
  BY <1>4 DEF CallFails, queues, QueueTypes, LoopTypes, Unanswered
<1>5. CASE Boundary
  <2>1. QueueTypes'
    <3>1. steering' \in Seq(Steerings) /\ records' \in Seq(IrcRecords)
      BY <1>5, TakenTypes DEF Boundary, QueueTypes
    <3>2. QED
      BY <1>5, <3>1 DEF Boundary, QueueTypes
  <2>2. pending' \in Seq(Anything) /\ SteersIn(pending') \in 0 .. 1
    <3>1. /\ Polled("steer", steering) \in Seq(Anything)
          /\ SteersIn(Polled("steer", steering)) \in 0 .. 1
          /\ Polled("irc", records) \in Seq(Anything)
          /\ SteersIn(Polled("irc", records)) = 0
      BY PolledSteers, PolledOthers DEF QueueTypes
    <3>2. \/ pending' = Polled("steer", steering)
          \/ pending' = Polled("steer", steering) \o Polled("irc", records)
      BY <1>5 DEF Boundary
    <3>3. QED
      BY <3>1, <3>2, SteersInConcat
  <2>3. LoopTypes' /\ Unanswered'
    BY <1>5, <2>2 DEF Boundary, LoopTypes, Unanswered
  <2>4. QED
    BY <2>1, <2>3
<1>6. CASE LastPoll
  <2>1. QueueTypes'
    <3>1. /\ steering' \in Seq(Steerings) /\ records' \in Seq(IrcRecords)
          /\ followUps' \in Seq(LaterOnes)
      BY <1>6, TakenTypes DEF LastPoll, QueueTypes
    <3>2. QED
      BY <1>6, <3>1 DEF LastPoll, QueueTypes
  <2>2. pending' \in Seq(Anything) /\ SteersIn(pending') \in 0 .. 1
    <3>1. /\ Polled("steer", steering) \in Seq(Anything)
          /\ SteersIn(Polled("steer", steering)) \in 0 .. 1
      BY PolledSteers DEF QueueTypes
    <3>2. /\ Polled("irc", records) \in Seq(Anything)
          /\ SteersIn(Polled("irc", records)) = 0
          /\ Polled("followUp", followUps) \in Seq(Anything)
          /\ SteersIn(Polled("followUp", followUps)) = 0
      BY PolledOthers
    <3>3. pending' = (Polled("steer", steering) \o Polled("irc", records))
                         \o Polled("followUp", followUps)
      BY <1>6 DEF LastPoll
    <3>4. /\ Polled("steer", steering) \o Polled("irc", records) \in Seq(Anything)
          /\ SteersIn(Polled("steer", steering) \o Polled("irc", records))
                = SteersIn(Polled("steer", steering))
      BY <3>1, <3>2, SteersInConcat
    <3>5. QED
      BY <3>1, <3>2, <3>3, <3>4, SteersInConcat
  <2>3. LoopTypes' /\ Unanswered'
    BY <1>6, <2>2 DEF LastPoll, LoopTypes, Unanswered
  <2>4. QED
    BY <2>1, <2>3
<1>7. CASE RunEnds
  BY <1>7 DEF RunEnds, queues, QueueTypes, LoopTypes, Unanswered
<1>8. QED
  BY <1>1, <1>2, <1>3, <1>4, <1>5, <1>6, <1>7 DEF LoopSteps

LEMMA DrainStepInv ==
    ASSUME "steer" \in OneAtATime, IInv, NEW t \in Drains, DrainSteps(t)
    PROVE  IInv'
<1>1. followUps \in Seq(LaterOnes) /\ parked \in [Wakes -> Seq(LaterOnes)]
  BY DEF IInv, QueueTypes
<1>2. CASE DrainGivesUp(t) \/ DrainEnds(t)
  BY <1>1, <1>2, FlightEnds DEF DrainGivesUp, DrainEnds
<1>3. CASE DrainContinues(t)
  <2>1. CASE /\ StartRun(t, Batch("steer", steering), TRUE)
             /\ steering' = Rest("steer", steering)
             /\ UNCHANGED followUps
    <3>1. /\ Batch("steer", steering) \in Seq(Anything)
          /\ SteersIn(Batch("steer", steering)) <= 1
          /\ steering' \in Seq(Steerings)
      BY <2>1, OneInBatch DEF IInv, QueueTypes
    <3>2. LoopTypes' /\ Unanswered'
      BY <2>1, <3>1, RunStarts
    <3>3. QueueTypes'
      BY <1>3, <2>1, <3>1 DEF DrainContinues, IInv, QueueTypes
    <3>4. QED
      BY <3>2, <3>3 DEF IInv
  <2>2. CASE /\ StartRun(t, Batch("followUp", followUps), FALSE)
             /\ followUps' = Rest("followUp", followUps)
             /\ UNCHANGED steering
    <3>1. /\ Batch("followUp", followUps) \in Seq(LaterOnes)
          /\ followUps' \in Seq(LaterOnes)
      BY <1>1, <2>2, TakenTypes
    <3>2. /\ Batch("followUp", followUps) \in Seq(Anything)
          /\ SteersIn(Batch("followUp", followUps)) = 0
          /\ SteersIn(Batch("followUp", followUps)) <= 1
      <4>1. /\ Batch("followUp", followUps) \in Seq(Anything)
            /\ SteersIn(Batch("followUp", followUps)) = 0
        BY <3>1, OtherKinds
      <4>2. QED
        BY <4>1
    <3>3. LoopTypes' /\ Unanswered'
      BY <2>2, <3>2, RunStarts
    <3>4. QueueTypes'
      BY <1>3, <2>2, <3>1 DEF DrainContinues, IInv, QueueTypes
    <3>5. QED
      BY <3>3, <3>4 DEF IInv
  <2>3. CASE StartRun(t, <<>>, FALSE) /\ UNCHANGED <<steering, followUps>>
    <3>1. <<>> \in Seq(Anything) /\ SteersIn(<<>>) = 0
      BY NoSteers
    <3>2. SteersIn(<<>>) <= 1
      BY <3>1
    <3>3. LoopTypes' /\ Unanswered'
      BY <2>3, <3>1, <3>2, RunStarts
    <3>4. QueueTypes'
      BY <1>3, <2>3 DEF DrainContinues, IInv, QueueTypes
    <3>5. QED
      BY <3>3, <3>4 DEF IInv
  <2>4. QED
    BY <1>3, <2>1, <2>2, <2>3 DEF DrainContinues
<1>4. QED
  BY <1>2, <1>3 DEF DrainSteps

LEMMA WakeEndInv ==
    ASSUME IInv, NEW w \in Wakes, WakeEnds(w)
    PROVE  IInv'
<1>1. /\ followUps \in Seq(LaterOnes)
      /\ parked \in [Wakes -> Seq(LaterOnes)]
      /\ parked[w] \in Seq(LaterOnes)
  BY DEF IInv, QueueTypes
<1>2. parked[w] \o followUps \in Seq(LaterOnes)
  BY <1>1, ConcatProperties
<1>3. [parked EXCEPT ![w] = <<>>] \in [Wakes -> Seq(LaterOnes)]
  <2>1. <<>> \in Seq(LaterOnes)
    OBVIOUS
  <2>2. QED
    BY <1>1, <2>1
<1>4. QED
  BY <1>2, <1>3, FlightEnds DEF WakeEnds

LEMMA PromptStepInv ==
    ASSUME IInv, NEW p \in Prompts, AskPrompt(p) \/ PromptSteps(p)
    PROVE  IInv'
<1>1. followUps \in Seq(LaterOnes) /\ parked \in [Wakes -> Seq(LaterOnes)]
  BY DEF IInv, QueueTypes
<1>2. CASE AskPrompt(p)
  <2>1. UNCHANGED <<queues, parked, sent, loop>>
    BY <1>2 DEF AskPrompt
  <2>2. QueueTypes'
    BY <2>1 DEF IInv, QueueTypes, queues
  <2>3. QED
    BY <2>1, <2>2, LoopUnchanged DEF IInv
<1>3. CASE BeginPrompt(p)
  <2>1. <<>> \in Seq(IrcRecords)
    OBVIOUS
  <2>2. QueueTypes' /\ UNCHANGED loop
    BY <1>3, <2>1 DEF BeginPrompt, IInv, QueueTypes
  <2>3. QED
    BY <2>2, LoopUnchanged DEF IInv
<1>4. CASE PromptAgent(p)
  <2>1. QueueTypes'
    BY <1>4 DEF PromptAgent, IInv, QueueTypes, queues
  <2>2. CASE StartRun(p, <<>>, FALSE)
    <3>1. <<>> \in Seq(Anything) /\ SteersIn(<<>>) = 0
      BY NoSteers
    <3>2. SteersIn(<<>>) <= 1
      BY <3>1
    <3>3. LoopTypes' /\ Unanswered'
      BY <2>2, <3>1, <3>2, RunStarts
    <3>4. QED
      BY <2>1, <3>3 DEF IInv
  <2>3. CASE UNCHANGED loop
    BY <2>1, <2>3, LoopUnchanged DEF IInv
  <2>4. QED
    BY <1>4, <2>2, <2>3 DEF PromptAgent
<1>5. CASE PromptGivesUp(p) \/ PromptEnds(p)
  BY <1>1, <1>5, FlightEnds DEF PromptGivesUp, PromptEnds
<1>6. QED
  BY <1>2, <1>3, <1>4, <1>5 DEF PromptSteps

(* A message that is counted is one more of its kind.                      *)
LEMMA Counted ==
    ASSUME QueueTypes, NEW k \in Kinds, Count(k)
    PROVE  /\ sent' \in [Kinds -> Nat]
           /\ NextMessage(k) \in {k} \X Nat
  BY DEF Count, NextMessage, QueueTypes

LEMMA MessageInv ==
    ASSUME IInv, Steer \/ SteerOfParent \/ FollowUp \/ Irc
    PROVE  IInv'
<1>1. "steer" \in Kinds /\ "followUp" \in Kinds /\ "irc" \in Kinds
  BY DEF Kinds
<1>2. CASE Steer \/ SteerOfParent
  <2>1. /\ Count("steer") /\ steering' = Append(steering, NextMessage("steer"))
        /\ UNCHANGED <<followUps, records, parked, loop>>
    BY <1>2 DEF Steer, SteerOfParent
  <2>2. steering' \in Seq(Steerings) /\ sent' \in [Kinds -> Nat]
    BY <1>1, <2>1, Counted, AppendProperties DEF IInv, QueueTypes, Steerings
  <2>3. QueueTypes'
    BY <2>1, <2>2 DEF IInv, QueueTypes
  <2>4. QED
    BY <2>1, <2>3, LoopUnchanged DEF IInv
<1>3. CASE FollowUp
  <2>1. /\ Count("followUp") /\ followUps' = Append(followUps, NextMessage("followUp"))
        /\ UNCHANGED <<steering, records, parked, loop>>
    BY <1>3 DEF FollowUp
  <2>2. followUps' \in Seq(LaterOnes) /\ sent' \in [Kinds -> Nat]
    BY <1>1, <2>1, Counted, AppendProperties DEF IInv, QueueTypes, LaterOnes
  <2>3. QueueTypes'
    BY <2>1, <2>2 DEF IInv, QueueTypes
  <2>4. QED
    BY <2>1, <2>3, LoopUnchanged DEF IInv
<1>4. CASE Irc
  <2>1. /\ Count("irc") /\ UNCHANGED steering
        /\ \/ /\ records' = Append(records, NextMessage("irc"))
              /\ UNCHANGED <<followUps, parked, loop>>
           \/ /\ WakeForIrc(count, phase, followUps, parked, <<NextMessage("irc")>>)
              /\ UNCHANGED records
    BY <1>4 DEF Irc
  <2>2. sent' \in [Kinds -> Nat] /\ NextMessage("irc") \in IrcRecords
    BY <1>1, <2>1, Counted DEF IInv, IrcRecords
  <2>3. CASE /\ records' = Append(records, NextMessage("irc"))
             /\ UNCHANGED <<followUps, parked, loop>>
    <3>1. records' \in Seq(IrcRecords)
      BY <2>2, <2>3, AppendProperties DEF IInv, QueueTypes
    <3>2. QueueTypes'
      BY <2>1, <2>2, <2>3, <3>1 DEF IInv, QueueTypes
    <3>3. QED
      BY <2>3, <3>2, LoopUnchanged DEF IInv
  <2>4. CASE /\ WakeForIrc(count, phase, followUps, parked, <<NextMessage("irc")>>)
             /\ UNCHANGED records
    <3>1. <<NextMessage("irc")>> \in Seq(IrcRecords)
      BY <2>2
    <3>2. /\ followUps' \in Seq(LaterOnes)
          /\ parked' \in [Wakes -> Seq(LaterOnes)]
          /\ LoopTypes' /\ Unanswered'
      BY <2>4, <3>1, WakeStarts DEF IInv, QueueTypes
    <3>3. QueueTypes'
      BY <2>1, <2>2, <2>4, <3>2 DEF IInv, QueueTypes
    <3>4. QED
      BY <3>2, <3>3 DEF IInv
  <2>5. QED
    BY <2>1, <2>3, <2>4
<1>5. QED
  BY <1>2, <1>3, <1>4

LEMMA UserInv ==
    ASSUME IInv, TakeBack \/ TakeLastBack \/ Remark
    PROVE  IInv'
<1>1. steering \in Seq(Steerings) /\ followUps \in Seq(LaterOnes)
  BY DEF IInv, QueueTypes
<1>2. CASE TakeBack
  <2>1. <<>> \in Seq(Steerings) /\ <<>> \in Seq(LaterOnes)
    OBVIOUS
  <2>2. QueueTypes' /\ UNCHANGED loop
    BY <1>2, <2>1 DEF TakeBack, IInv, QueueTypes
  <2>3. QED
    BY <2>2, LoopUnchanged DEF IInv
<1>3. CASE TakeLastBack
  <2>1. steering' \in Seq(Steerings)
    <3>1. ASSUME NEW S, NEW q \in Seq(S)
          PROVE  SubSeq(q, 1, Len(q) - 1) \in Seq(S)
      <4>1. Len(q) \in Nat /\ \A i \in 1 .. Len(q) : q[i] \in S
        BY LenProperties, ElementOfSeq
      <4>2. 1 \in Int /\ Len(q) - 1 \in Int
            /\ \A i \in 1 .. Len(q) - 1 : q[i] \in S
        BY <4>1
      <4>3. QED
        BY <4>2, SubSeqProperties
    <3>2. \/ steering' = SubSeq(steering, 1, Len(steering) - 1)
          \/ steering' = steering
      BY <1>3 DEF TakeLastBack
    <3>3. QED
      BY <1>1, <3>1, <3>2
  <2>2. followUps' \in Seq(LaterOnes)
    <3>1. Len(followUps) \in Nat
          /\ \A i \in 1 .. Len(followUps) : followUps[i] \in LaterOnes
      BY <1>1, LenProperties, ElementOfSeq
    <3>2. 1 \in Int /\ Len(followUps) - 1 \in Int
          /\ \A i \in 1 .. Len(followUps) - 1 : followUps[i] \in LaterOnes
      BY <3>1
    <3>3. SubSeq(followUps, 1, Len(followUps) - 1) \in Seq(LaterOnes)
      BY <3>2, SubSeqProperties
    <3>4. \/ followUps' = SubSeq(followUps, 1, Len(followUps) - 1)
          \/ followUps' = followUps
      BY <1>3 DEF TakeLastBack
    <3>5. QED
      BY <1>1, <3>3, <3>4
  <2>3. QueueTypes' /\ UNCHANGED loop
    BY <1>3, <2>1, <2>2 DEF TakeLastBack, IInv, QueueTypes
  <2>4. QED
    BY <2>3, LoopUnchanged DEF IInv
<1>4. CASE Remark
  <2>1. QueueTypes' /\ UNCHANGED loop
    BY <1>4 DEF Remark, IInv, QueueTypes, queues
  <2>2. QED
    BY <2>1, LoopUnchanged DEF IInv
<1>5. QED
  BY <1>2, <1>3, <1>4

LEMMA AbortInv ==
    ASSUME IInv, (\E user \in BOOLEAN : AbortBegins(user)) \/ AbortSteps
    PROVE  IInv'
<1>1. ASSUME NEW user \in BOOLEAN, AbortBegins(user) PROVE IInv'
  BY <1>1 DEF AbortBegins, IInv, QueueTypes, LoopTypes, Unanswered, queues
<1>2. CASE AbortSettles
  <2>1. QueueTypes' /\ UNCHANGED loop
    BY <1>2 DEF AbortSettles, IInv, QueueTypes, queues
  <2>2. QED
    BY <2>1, LoopUnchanged DEF IInv
<1>3. CASE AbortEnds
  <2>1. followUps \in Seq(LaterOnes) /\ parked \in [Wakes -> Seq(LaterOnes)]
    BY DEF IInv, QueueTypes
  <2>2. QED
    BY <1>3, <2>1, StrandedDrained DEF AbortEnds
<1>4. QED
  BY <1>1, <1>2, <1>3 DEF AbortSteps

-----------------------------------------------------------------------------
(* In the mode one-at-a-time the model gets to answer each steer before it *)
(* is given the next: runs that begin with a steer skip their first poll   *)
(* (Agent.continue), and every later poll follows an answer, however       *)
(* prompts, drains, wakes and aborts meet.                                 *)
THEOREM SteersAreAnsweredSingly ==
    ASSUME "steer" \in OneAtATime
    PROVE  Spec => []OneSteerPerAnswer
<1>1. Init => IInv
  <2> SUFFICES ASSUME Init PROVE IInv
    OBVIOUS
  <2>1. /\ <<>> \in Seq(Steerings) /\ <<>> \in Seq(LaterOnes)
        /\ <<>> \in Seq(IrcRecords) /\ <<>> \in Seq(Anything)
    OBVIOUS
  <2>2. QueueTypes
    BY <2>1 DEF Init, QueueTypes
  <2>3. LoopTypes /\ Unanswered
    BY <2>1 DEF Init, LoopTypes, Unanswered
  <2>4. QED
    BY <2>2, <2>3 DEF IInv
<1>2. IInv /\ [Next]_vars => IInv'
  <2> SUFFICES ASSUME IInv, [Next]_vars PROVE IInv'
    OBVIOUS
  <2>1. CASE UNCHANGED vars
    <3>1. QueueTypes' /\ UNCHANGED loop
      BY <2>1 DEF vars, queues, IInv, QueueTypes
    <3>2. QED
      BY <3>1, LoopUnchanged DEF IInv
  <2>2. CASE LoopSteps
    BY <2>2, LoopStepInv
  <2>3. ASSUME NEW t \in Drains, DrainSteps(t) PROVE IInv'
    BY <2>3, DrainStepInv
  <2>4. ASSUME NEW w \in Wakes, WakeEnds(w) PROVE IInv'
    BY <2>4, WakeEndInv
  <2>5. ASSUME NEW p \in Prompts, AskPrompt(p) \/ PromptSteps(p) PROVE IInv'
    BY <2>5, PromptStepInv
  <2>6. CASE Steer \/ SteerOfParent \/ FollowUp \/ Irc
    BY <2>6, MessageInv
  <2>7. CASE TakeBack \/ TakeLastBack \/ Remark
    BY <2>7, UserInv
  <2>8. CASE (\E user \in BOOLEAN : AbortBegins(user)) \/ AbortSteps
    BY <2>8, AbortInv
  <2>9. QED
    BY <2>1, <2>2, <2>3, <2>4, <2>5, <2>6, <2>7, <2>8 DEF Next
<1>3. IInv => OneSteerPerAnswer
  <2>1. IInv => SteersIn(pending) \in Nat
    BY SteersInType DEF IInv, LoopTypes
  <2>2. QED
    BY <2>1 DEF IInv, LoopTypes, Unanswered, OneSteerPerAnswer
<1>4. QED
  BY <1>1, <1>2, <1>3, PTL DEF Spec

-----------------------------------------------------------------------------
(* The tally of messages.                                                 *)

(* Occurrences of a message in a sequence.                                 *)

OccPlaces(m, q) == {i \in DOMAIN q : q[i] = m}

LEMMA OccType ==
    ASSUME NEW S, NEW q \in Seq(S), NEW m
    PROVE  /\ Occurrences(m, q) = Cardinality(OccPlaces(m, q))
           /\ IsFiniteSet(OccPlaces(m, q))
           /\ Occurrences(m, q) \in Nat
<1>1. DOMAIN q = 1 .. Len(q) /\ Len(q) \in Nat
  BY LenProperties
<1>2. IsFiniteSet(1 .. Len(q))
  <2>1. 1 \in Int /\ Len(q) \in Int
    BY <1>1
  <2>2. QED
    BY <2>1, FS_Interval
<1>3. OccPlaces(m, q) \in SUBSET (1 .. Len(q))
  BY <1>1 DEF OccPlaces
<1>4. IsFiniteSet(OccPlaces(m, q))
  BY <1>2, <1>3, FS_Subset
<1>5. Occurrences(m, q) = Cardinality(OccPlaces(m, q))
  BY DEF Occurrences, OccPlaces
<1>6. QED
  BY <1>4, <1>5, FS_CardinalityType

LEMMA OccEmpty ==
    ASSUME NEW m
    PROVE  Occurrences(m, <<>>) = 0
  BY FS_EmptySet DEF Occurrences

LEMMA OccMember ==
    ASSUME NEW S, NEW q \in Seq(S), NEW m
    PROVE  Occurrences(m, q) = 0 <=> m \notin MessagesIn(q)
<1>1. Occurrences(m, q) = 0 <=> OccPlaces(m, q) = {}
  BY OccType, FS_EmptySet
<1>2. OccPlaces(m, q) = {} <=> m \notin MessagesIn(q)
  BY DEF OccPlaces, MessagesIn
<1>3. QED
  BY <1>1, <1>2

LEMMA OccOne ==
    ASSUME NEW S, NEW x \in S, NEW m
    PROVE  Occurrences(m, <<x>>) = IF x = m THEN 1 ELSE 0
<1>1. DOMAIN <<x>> = {1} /\ <<x>>[1] = x /\ <<x>> \in Seq(S)
  OBVIOUS
<1>2. CASE x = m
  <2>1. OccPlaces(m, <<x>>) = {1}
    BY <1>1, <1>2 DEF OccPlaces
  <2>2. QED
    BY ZenonT(60), <1>1, <1>2, <2>1, OccType, FS_Singleton
<1>3. CASE x # m
  <2>1. OccPlaces(m, <<x>>) = {}
    BY <1>1, <1>3 DEF OccPlaces
  <2>2. QED
    BY <1>1, <1>3, <2>1, OccType, FS_EmptySet
<1>4. QED
  BY <1>2, <1>3

LEMMA OccConcat ==
    ASSUME NEW S, NEW q \in Seq(S), NEW r \in Seq(S), NEW m
    PROVE  /\ Occurrences(m, q \o r) = Occurrences(m, q) + Occurrences(m, r)
           /\ q \o r \in Seq(S)
<1> DEFINE A == OccPlaces(m, q)
           B == OccPlaces(m, r)
           C == {i \in Len(q) + 1 .. Len(q) + Len(r) : (q \o r)[i] = m}
           f == [i \in B |-> i + Len(q)]
<1>1. /\ DOMAIN q = 1 .. Len(q) /\ DOMAIN r = 1 .. Len(r)
      /\ DOMAIN (q \o r) = 1 .. Len(q) + Len(r)
      /\ Len(q) \in Nat /\ Len(r) \in Nat
      /\ \A i \in 1 .. Len(q) : (q \o r)[i] = q[i]
      /\ \A i \in Len(q) + 1 .. Len(q) + Len(r) : (q \o r)[i] = r[i - Len(q)]
      /\ q \o r \in Seq(S)
  BY LenProperties, ConcatProperties
<1>2. OccPlaces(m, q \o r) = A \cup C /\ A \cap C = {}
  BY <1>1 DEF OccPlaces
<1>3. IsFiniteSet(C) /\ Cardinality(C) = Cardinality(B)
  <2>1. f \in [B -> C]
    BY <1>1 DEF OccPlaces
  <2>2. \A i, j \in B : f[i] = f[j] => i = j
    BY <1>1 DEF OccPlaces
  <2>3. \A k \in C : \E i \in B : f[i] = k
    <3>1. SUFFICES ASSUME NEW k \in C PROVE \E i \in B : f[i] = k
      OBVIOUS
    <3>2. k - Len(q) \in 1 .. Len(r) /\ r[k - Len(q)] = m
      BY <1>1
    <3>3. k - Len(q) \in B
      BY <1>1, <3>2 DEF OccPlaces
    <3>4. f[k - Len(q)] = k
      BY <1>1, <3>3
    <3>5. QED
      BY <3>3, <3>4
  <2> HIDE DEF f, B, C
  <2>4. f \in Bijection(B, C)
    BY <2>1, <2>2, <2>3 DEF Bijection, Injection, Surjection, IsInjective
  <2>5. ExistsBijection(B, C)
    BY <2>4, Fun_ExistsBij
  <2>6. IsFiniteSet(B)
    BY OccType DEF B
  <2>7. QED
    BY <2>5, <2>6, FS_Bijection
<1>4. IsFiniteSet(A) /\ Cardinality(A) \in Nat /\ Cardinality(B) \in Nat
  BY OccType
<1>5. Cardinality(OccPlaces(m, q \o r)) = Cardinality(A) + Cardinality(B)
  <2> HIDE DEF A, B, C
  <2>1. Cardinality(A \cup C) = Cardinality(A) + Cardinality(C) - Cardinality(A \cap C)
    BY <1>3, <1>4, FS_Union
  <2>2. Cardinality(A \cap C) = 0
    BY <1>2, FS_EmptySet
  <2>3. QED
    BY <1>2, <1>3, <1>4, <2>1, <2>2
<1>6. QED
  <2>1. /\ Occurrences(m, q) = Cardinality(A)
        /\ Occurrences(m, r) = Cardinality(B)
        /\ Occurrences(m, q \o r) = Cardinality(OccPlaces(m, q \o r))
    BY <1>1, OccType
  <2> HIDE DEF A, B, C
  <2>2. QED
    BY <1>1, <1>5, <2>1

(* A poll splits a queue.                                                  *)
LEMMA OccSplit ==
    ASSUME NEW k, NEW S, NEW q \in Seq(S), NEW m
    PROVE  /\ Occurrences(m, q) = Occurrences(m, Batch(k, q)) + Occurrences(m, Rest(k, q))
           /\ Occurrences(m, q) = Occurrences(m, Polled(k, q)) + Occurrences(m, Left(k, q))
<1>1. Occurrences(m, <<>>) = 0 /\ Occurrences(m, q) \in Nat
  BY OccEmpty, OccType
<1>2. Occurrences(m, q) = Occurrences(m, Batch(k, q)) + Occurrences(m, Rest(k, q))
  <2>1. CASE k \in OneAtATime /\ q # <<>>
    <3>1. Head(q) \in S /\ Tail(q) \in Seq(S) /\ <<Head(q)>> \in Seq(S)
      BY <2>1, HeadTailProperties
    <3>2. q = <<Head(q)>> \o Tail(q)
      <4>1. Len(q) \in Nat \ {0} /\ Head(q) = q[1]
        BY <2>1, EmptySeq
      <4>2. SubSeq(q, 1, Len(q)) = <<q[1]>> \o SubSeq(q, 2, Len(q))
        <5>1. 1 \in 1 .. Len(q) /\ Len(q) \in 1 .. Len(q) /\ 1 + 1 = 2
          BY <4>1
        <5>2. SubSeq(q, 1, Len(q)) = <<q[1]>> \o SubSeq(q, 1 + 1, Len(q))
          BY <5>1, SubSeqRecursiveFirst
        <5>3. QED
          BY <5>1, <5>2
      <4>3. SubSeq(q, 1, Len(q)) = q /\ Tail(q) = SubSeq(q, 2, Len(q))
        BY <2>1, SubSeqFull, TailIsSubSeq
      <4>4. QED
        BY <4>1, <4>2, <4>3
    <3>3. Occurrences(m, q) = Occurrences(m, <<Head(q)>>) + Occurrences(m, Tail(q))
      <4>1. Occurrences(m, <<Head(q)>> \o Tail(q))
              = Occurrences(m, <<Head(q)>>) + Occurrences(m, Tail(q))
        BY ZenonT(60), <3>1, OccConcat
      <4>2. QED
        BY <3>2, <4>1
    <3>4. QED
      BY <2>1, <3>3 DEF Batch, Rest
  <2>2. CASE ~(k \in OneAtATime /\ q # <<>>)
    <3>1. Batch(k, q) = q /\ Rest(k, q) = <<>>
      BY <2>2 DEF Batch, Rest
    <3>2. QED
      BY <1>1, <3>1
  <2>3. QED
    BY <2>1, <2>2
<1>3. CASE aborted
  <2>1. Polled(k, q) = <<>> /\ Left(k, q) = q
    BY <1>3 DEF Polled, Left
  <2>2. QED
    BY <1>1, <1>2, <2>1
<1>4. CASE ~aborted
  BY <1>2, <1>4 DEF Polled, Left
<1>5. QED
  BY <1>3, <1>4, <1>2

(* Taking the last message of a queue.                                     *)
LEMMA OccLast ==
    ASSUME NEW S, NEW q \in Seq(S), q # <<>>, NEW m
    PROVE  /\ SubSeq(q, 1, Len(q) - 1) \in Seq(S)
           /\ q[Len(q)] \in S
           /\ Occurrences(m, q) = Occurrences(m, SubSeq(q, 1, Len(q) - 1))
                                    + (IF q[Len(q)] = m THEN 1 ELSE 0)
<1>1. Len(q) \in Nat \ {0} /\ q[Len(q)] \in S
  BY EmptySeq, ElementOfSeq
<1>2. SubSeq(q, 1, Len(q) - 1) \in Seq(S)
  <2>1. /\ 1 \in Int /\ Len(q) - 1 \in Int
        /\ \A i \in 1 .. Len(q) - 1 : q[i] \in S
    BY <1>1, ElementOfSeq
  <2>2. QED
    BY <2>1, SubSeqProperties
<1>3. q = SubSeq(q, 1, Len(q) - 1) \o <<q[Len(q)]>>
  <2>1. Len(q) \in 1 .. Len(q) /\ 1 \in 1 .. Len(q)
    BY <1>1
  <2>2. SubSeq(q, 1, Len(q)) = SubSeq(q, 1, Len(q) - 1) \o <<q[Len(q)]>>
    BY <2>1, SubSeqRecursiveSecond
  <2>3. QED
    BY <2>2, SubSeqFull
<1>4. <<q[Len(q)]>> \in Seq(S)
  BY <1>1
<1>5. Occurrences(m, q) = Occurrences(m, SubSeq(q, 1, Len(q) - 1))
                           + Occurrences(m, <<q[Len(q)]>>)
  <2>1. Occurrences(m, SubSeq(q, 1, Len(q) - 1) \o <<q[Len(q)]>>)
          = Occurrences(m, SubSeq(q, 1, Len(q) - 1)) + Occurrences(m, <<q[Len(q)]>>)
    BY ZenonT(60), <1>2, <1>4, OccConcat
  <2>2. QED
    BY <1>3, <2>1
<1>6. Occurrences(m, <<q[Len(q)]>>) = IF q[Len(q)] = m THEN 1 ELSE 0
  BY <1>1, OccOne
<1>7. QED
  BY <1>1, <1>2, <1>5, <1>6

-----------------------------------------------------------------------------
(* Where the messages are.                                                 *)

AllMessages == Kinds \X (Nat \ {0})

Here(m, S) == IF m \in S THEN 1 ELSE 0

ParkedAt(m, held) == {w \in Wakes : m \in MessagesIn(held[w])}

(* The tally of a message over queues of a given content.                  *)
Tally(m, st, fu, rc, pe, held, said) ==
    Occurrences(m, st) + Occurrences(m, fu) + Occurrences(m, rc)
    + Occurrences(m, pe) + Cardinality(ParkedAt(m, held)) + Here(m, said)

(* Whether the message has been queued, when n of each kind have.          *)
Due(m, n) == IF m[2] <= n[m[1]] THEN 1 ELSE 0

(* What one wake sets aside counts once for every message in it.           *)
LEMMA ParkTally ==
    ASSUME NEW less, NEW more, NEW w \in Wakes, NEW m,
           more[w] \in Seq(Messages),
           w \notin ParkedAt(m, less), \A v \in Wakes \ {w} : more[v] = less[v],
           IsFiniteSet(ParkedAt(m, less)), Occurrences(m, more[w]) <= 1
    PROVE  /\ IsFiniteSet(ParkedAt(m, more))
           /\ Cardinality(ParkedAt(m, less)) \in Nat
           /\ Cardinality(ParkedAt(m, more))
                 = Cardinality(ParkedAt(m, less)) + Occurrences(m, more[w])
<1>2. /\ Occurrences(m, more[w]) \in Nat
      /\ Occurrences(m, more[w]) = 0 <=> m \notin MessagesIn(more[w])
  BY OccType, OccMember
<1>3. Cardinality(ParkedAt(m, less)) \in Nat
  BY FS_CardinalityType
<1>4. CASE m \in MessagesIn(more[w])
  <2>1. ParkedAt(m, more) = ParkedAt(m, less) \cup {w}
    BY <1>4 DEF ParkedAt
  <2>2. Occurrences(m, more[w]) = 1
    BY <1>2, <1>4
  <2>3. /\ IsFiniteSet(ParkedAt(m, less) \cup {w})
        /\ Cardinality(ParkedAt(m, less) \cup {w}) = Cardinality(ParkedAt(m, less)) + 1
    BY FS_AddElement
  <2>4. QED
    BY <1>3, <2>1, <2>2, <2>3
<1>5. CASE m \notin MessagesIn(more[w])
  <2>1. ParkedAt(m, more) = ParkedAt(m, less)
    <3>1. ASSUME NEW v \in Wakes
          PROVE  m \in MessagesIn(more[v]) <=> m \in MessagesIn(less[v])
      <4>1. CASE v = w
        BY <1>5, <4>1 DEF ParkedAt
      <4>2. CASE v # w
        <5>1. more[v] = less[v]
          BY <4>2
        <5>2. QED
          BY <5>1
      <4>3. QED
        BY <4>1, <4>2
    <3>2. QED
      BY <3>1 DEF ParkedAt
  <2>2. QED
    BY <1>2, <1>3, <1>5, <2>1
<1>6. QED
  BY <1>4, <1>5

(* Messages that join the conversation.                                    *)
LEMMA SaidTally ==
    ASSUME NEW S, NEW q \in Seq(S), NEW m, NEW said,
           Occurrences(m, q) + Here(m, said) <= 1
    PROVE  Here(m, said \cup MessagesIn(q)) = Occurrences(m, q) + Here(m, said)
  BY OccType, OccMember DEF Here

(* A free actor exists as long as the busy ones are finitely many.         *)
Busy(K, ph) == {a \in K : ph[a] # "off"}

LEMMA FreeExists ==
    ASSUME NEW K, ~IsFiniteSet(K), NEW ph, IsFiniteSet(Busy(K, ph))
    PROVE  FreeOf(K, ph) \in K /\ ph[FreeOf(K, ph)] = "off"
<1>1. \E a \in K : ph[a] = "off"
  <2>1. SUFFICES ASSUME \A a \in K : ph[a] # "off" PROVE FALSE
    OBVIOUS
  <2>2. Busy(K, ph) = K
    BY <2>1 DEF Busy
  <2>3. QED
    BY <2>2
<1>2. QED
  BY <1>1 DEF FreeOf

LEMMA BusyMore ==
    ASSUME NEW K, NEW D, NEW R, NEW ph \in [D -> R], K \subseteq D,
           IsFiniteSet(Busy(K, ph)), NEW a, NEW x
    PROVE  IsFiniteSet(Busy(K, [ph EXCEPT ![a] = x]))
<1>1. Busy(K, [ph EXCEPT ![a] = x]) \in SUBSET (Busy(K, ph) \cup {a})
  BY DEF Busy
<1>2. QED
  BY <1>1, FS_AddElement, FS_Subset

-----------------------------------------------------------------------------
(* The invariant.                                                          *)

(* The code can always schedule another drain and start another wake: the  *)
(* model has as many of them as it takes.                                  *)
Enough == ~IsFiniteSet(Drains) /\ ~IsFiniteSet(Wakes)

PhasesOK(ph, o) ==
    /\ ph \in [Actors -> Phases]
    /\ \A a \in Actors : ph[a] = "run" <=> o = a
    /\ IsFiniteSet(Busy(Drains, ph)) /\ IsFiniteSet(Busy(Wakes, ph))

(* Only a wake that is under way has set messages aside.                   *)
SetAside(held, ph) ==
    /\ held \in [Wakes -> Seq(Messages)]
    /\ \A w \in Wakes : held[w] # <<>> => ph[w] \in {"run", "after"}
    /\ \A w \in Wakes, m \in AllMessages : Occurrences(m, held[w]) <= 1

Tallied(st, fu, rc, pe, held, said, n) ==
    \A m \in AllMessages : Tally(m, st, fu, rc, pe, held, said) = Due(m, n)

QueuesOK ==
    /\ steering \in Seq(Messages) /\ followUps \in Seq(Messages)
    /\ records \in Seq(Messages) /\ pending \in Seq(Messages)
    /\ gone \subseteq Messages
    /\ sent \in [Kinds -> Nat]
    /\ \A k \in Kinds : sent[k] <= MaxMessages[k]

RunOK ==
    /\ run \in {"off", "start", "turn", "call", "work", "stop", "yield", "ending"}
    /\ owner \in Actors \cup {None}
    /\ run = "off" <=> owner = None
    /\ run = "off" => ~aborted
    /\ run # "turn" => pending = <<>>
    /\ aborted \in BOOLEAN /\ skip \in BOOLEAN
    /\ newSteers \in Nat

RestOK ==
    /\ tail \in {"none", "assistant", "toolResult", "other"}
    /\ suppressed \in BOOLEAN
    /\ count \in Nat /\ aborts \in Nat
    /\ stale \subseteq Actors
    /\ abort \in {"no", "drains", "run", "settling"}

TurnInv ==
    /\ QueuesOK /\ RunOK /\ RestOK
    /\ PhasesOK(phase, owner)
    /\ SetAside(parked, phase)
    /\ Tallied(steering, followUps, records, pending, parked, gone, sent)

LEMMA MessageKinds ==
    /\ Messages \subseteq AllMessages
    /\ \A k \in Kinds, i \in Nat \ {0} :
          <<k, i>> \in AllMessages /\ (i <= MaxMessages[k] => <<k, i>> \in Messages)
    /\ \A m \in AllMessages, k \in Kinds : m[1] \in Kinds /\ m[2] \in Nat \ {0}
<1>1. \A k \in Kinds : MaxMessages[k] \in Nat
  BY TurnsAssumption
<1>2. QED
  BY <1>1 DEF Messages, AllMessages

LEMMA PhaseMoves ==
    ASSUME NEW ph, NEW o, PhasesOK(ph, o), NEW a \in Actors, ph[a] # "run",
           NEW x \in Phases \ {"run"}
    PROVE  PhasesOK([ph EXCEPT ![a] = x], o)
<1>1. Drains \subseteq Actors /\ Wakes \subseteq Actors
  BY DEF Actors
<1>2. ph \in [Actors -> Phases] /\ IsFiniteSet(Busy(Drains, ph)) /\ IsFiniteSet(Busy(Wakes, ph))
  BY DEF PhasesOK
<1>3. /\ IsFiniteSet(Busy(Drains, [ph EXCEPT ![a] = x]))
      /\ IsFiniteSet(Busy(Wakes, [ph EXCEPT ![a] = x]))
  BY <1>1, <1>2, BusyMore
<1>4. QED
  BY <1>3 DEF PhasesOK

LEMMA PhaseBegins ==
    ASSUME NEW ph, PhasesOK(ph, None), NEW a \in Actors
    PROVE  PhasesOK([ph EXCEPT ![a] = "run"], a)
<1>1. Drains \subseteq Actors /\ Wakes \subseteq Actors /\ "run" \in Phases
  BY DEF Actors, Phases
<1>2. ph \in [Actors -> Phases] /\ IsFiniteSet(Busy(Drains, ph)) /\ IsFiniteSet(Busy(Wakes, ph))
  BY DEF PhasesOK
<1>3. /\ IsFiniteSet(Busy(Drains, [ph EXCEPT ![a] = "run"]))
      /\ IsFiniteSet(Busy(Wakes, [ph EXCEPT ![a] = "run"]))
  BY <1>1, <1>2, BusyMore
<1>4. QED
  BY <1>1, <1>3, TurnsAssumption DEF PhasesOK

LEMMA PhaseEnds ==
    ASSUME NEW ph, NEW a \in Actors, PhasesOK(ph, a)
    PROVE  PhasesOK([ph EXCEPT ![a] = "after"], None)
<1>1. Drains \subseteq Actors /\ Wakes \subseteq Actors /\ "after" \in Phases
  BY DEF Actors, Phases
<1>2. ph \in [Actors -> Phases] /\ IsFiniteSet(Busy(Drains, ph)) /\ IsFiniteSet(Busy(Wakes, ph))
  BY DEF PhasesOK
<1>3. /\ IsFiniteSet(Busy(Drains, [ph EXCEPT ![a] = "after"]))
      /\ IsFiniteSet(Busy(Wakes, [ph EXCEPT ![a] = "after"]))
  BY <1>1, <1>2, BusyMore
<1>4. QED
  BY <1>1, <1>3, TurnsAssumption DEF PhasesOK

LEMMA AsideMoves ==
    ASSUME NEW held, NEW ph \in [Actors -> Phases], SetAside(held, ph), NEW a \in Actors, NEW x,
           x \in {"run", "after"} \/ (a \in Wakes => held[a] = <<>>)
    PROVE  SetAside(held, [ph EXCEPT ![a] = x])
<1>1. Wakes \subseteq Actors
  BY DEF Actors
<1>2. QED
  BY <1>1 DEF SetAside

LEMMA ParkedFinite ==
    ASSUME NEW m, NEW held, NEW ph, IsFiniteSet(Busy(Wakes, ph)), SetAside(held, ph)
    PROVE  IsFiniteSet(ParkedAt(m, held)) /\ Cardinality(ParkedAt(m, held)) \in Nat
<1>1. ParkedAt(m, held) \in SUBSET Busy(Wakes, ph)
  <2>1. \A w \in Wakes : m \in MessagesIn(held[w]) => held[w] # <<>>
    BY DEF MessagesIn
  <2>2. QED
    BY <2>1 DEF ParkedAt, Busy, SetAside
<1>2. QED
  BY <1>1, FS_Subset, FS_CardinalityType

(* The terms of a tally are numbers.                                       *)
LEMMA TallyTerms ==
    ASSUME NEW m, NEW st \in Seq(Messages), NEW fu \in Seq(Messages),
           NEW rc \in Seq(Messages), NEW pe \in Seq(Messages),
           NEW held, NEW ph, IsFiniteSet(Busy(Wakes, ph)), SetAside(held, ph), NEW said
    PROVE  /\ Occurrences(m, st) \in Nat /\ Occurrences(m, fu) \in Nat
           /\ Occurrences(m, rc) \in Nat /\ Occurrences(m, pe) \in Nat
           /\ IsFiniteSet(ParkedAt(m, held))
           /\ Cardinality(ParkedAt(m, held)) \in Nat
           /\ Here(m, said) \in 0 .. 1
  BY ParkedFinite, OccType DEF Here

-----------------------------------------------------------------------------

LEMMA SteerCount ==
    ASSUME NEW q \in Seq(Messages)
    PROVE  SteersIn(q) \in Nat
<1>1. DOMAIN q = 1 .. Len(q) /\ Len(q) \in Nat
  BY LenProperties
<1>2. IsFiniteSet(1 .. Len(q))
  <2>1. 1 \in Int /\ Len(q) \in Int
    BY <1>1
  <2>2. QED
    BY <2>1, FS_Interval
<1>3. {i \in DOMAIN q : q[i][1] = "steer"} \in SUBSET (1 .. Len(q))
  BY <1>1
<1>4. QED
  BY <1>2, <1>3, FS_Subset, FS_CardinalityType DEF SteersIn

LEMMA RunBegins ==
    ASSUME NEW a \in Actors, NEW messages \in Seq(Messages), NEW skipPoll \in BOOLEAN,
           gone \subseteq Messages, RestOK, StartRun(a, messages, skipPoll)
    PROVE  /\ RunOK'
           /\ owner' = a /\ pending' = <<>>
           /\ gone' = gone \cup MessagesIn(messages) /\ gone' \subseteq Messages
           /\ tail' \in {"none", "assistant", "toolResult", "other"}
<1>1. /\ run' = "start" /\ owner' = a /\ aborted' = FALSE /\ skip' = skipPoll
      /\ pending' = <<>> /\ newSteers' = SteersIn(messages)
      /\ gone' = gone \cup MessagesIn(messages)
      /\ tail' = IF messages = <<>> THEN tail ELSE "other"
  BY DEF StartRun, Say
<1>2. newSteers' \in Nat
  BY <1>1, SteerCount
<1>3. MessagesIn(messages) \subseteq Messages
  BY LenProperties, ElementOfSeq DEF MessagesIn
<1>4. a # None
  BY TurnsAssumption
<1>5. RunOK'
  BY <1>1, <1>2, <1>4 DEF RunOK
<1>6. tail' \in {"none", "assistant", "toolResult", "other"}
  BY <1>1 DEF RestOK
<1>7. QED
  BY <1>1, <1>3, <1>5, <1>6

(* A wake starts with messages that were in no queue any more, and may set *)
(* the follow-ups aside.                                                   *)
LEMMA WakeBegins ==
    ASSUME Enough, NEW c \in Nat, NEW ph, PhasesOK(ph, None),
           NEW later \in Seq(Messages), NEW held, SetAside(held, ph),
           NEW messages \in Seq(Messages),
           QueuesOK, RestOK, records' \in Seq(Messages), steering' = steering,
           \A m \in AllMessages :
               Occurrences(m, messages)
               + Tally(m, steering, later, records', <<>>, held, gone) = Due(m, sent'),
           WakeForIrc(c, ph, later, held, messages)
    PROVE  /\ RunOK' /\ PhasesOK(phase, owner)' /\ SetAside(parked, phase)'
           /\ followUps' \in Seq(Messages) /\ pending' = <<>>
           /\ gone' \subseteq Messages
           /\ tail' \in {"none", "assistant", "toolResult", "other"}
           /\ count' \in Nat
           /\ Tallied(steering, followUps, records, pending, parked, gone, sent)'
<1> DEFINE w == FreeOf(Wakes, ph)
<1>1. w \in Wakes /\ ph[w] = "off" /\ w \in Actors
  BY FreeExists DEF Enough, PhasesOK, Actors
<1>2. /\ phase' = [ph EXCEPT ![w] = "run"] /\ count' = c + 1
      /\ \/ parked' = [held EXCEPT ![w] = later] /\ followUps' = <<>>
         \/ parked' = held /\ followUps' = later
      /\ StartRun(w, messages, FALSE)
  BY DEF WakeForIrc
<1> HIDE DEF w
<1>3. held \in [Wakes -> Seq(Messages)] /\ held[w] = <<>>
  BY <1>1 DEF SetAside
<1>4. /\ RunOK' /\ owner' = w /\ pending' = <<>>
      /\ gone' = gone \cup MessagesIn(messages) /\ gone' \subseteq Messages
      /\ tail' \in {"none", "assistant", "toolResult", "other"}
  BY <1>1, <1>2, RunBegins DEF QueuesOK
<1>5. PhasesOK(phase', owner')
  BY <1>1, <1>2, <1>4, PhaseBegins
<1>6. ph \in [Actors -> Phases] /\ IsFiniteSet(Busy(Wakes, ph))
  BY DEF PhasesOK
<1>7. ASSUME NEW m \in AllMessages
      PROVE  /\ Occurrences(m, messages) \in Nat
             /\ Occurrences(m, steering) \in Nat /\ Occurrences(m, later) \in Nat
             /\ Occurrences(m, records') \in Nat /\ Occurrences(m, <<>>) = 0
             /\ IsFiniteSet(ParkedAt(m, held))
             /\ Cardinality(ParkedAt(m, held)) \in Nat
             /\ Here(m, gone) \in 0 .. 1
             /\ Due(m, sent') \in 0 .. 1
  <2>1. <<>> \in Seq(Messages) /\ steering \in Seq(Messages)
    BY DEF QueuesOK
  <2>2. Due(m, sent') \in 0 .. 1
    BY DEF Due
  <2>3. QED
    BY <1>6, <2>1, <2>2, TallyTerms, OccType, OccEmpty
<1>8. ASSUME NEW m \in AllMessages
      PROVE  /\ Occurrences(m, later) <= 1
             /\ Here(m, gone') = Occurrences(m, messages) + Here(m, gone)
  <2>1. Occurrences(m, messages)
          + Tally(m, steering, later, records', <<>>, held, gone) = Due(m, sent')
    OBVIOUS
  <2>2. Occurrences(m, messages) + Here(m, gone) <= 1 /\ Occurrences(m, later) <= 1
    <3> DEFINE oM == Occurrences(m, messages)
               oS == Occurrences(m, steering)
               oL == Occurrences(m, later)
               oR == Occurrences(m, records')
               pH == Cardinality(ParkedAt(m, held))
               hh == Here(m, gone)
    <3>1. /\ oM \in Nat /\ oS \in Nat /\ oL \in Nat /\ oR \in Nat
          /\ pH \in Nat /\ hh \in Nat /\ Due(m, sent') <= 1
      BY <1>7
    <3>2. oM + (oS + oL + oR + 0 + pH + hh) = Due(m, sent')
      BY <1>7, <2>1 DEF Tally
    <3> HIDE DEF oM, oS, oL, oR, pH, hh
    <3>3. oM + hh <= 1 /\ oL <= 1
      BY <3>1, <3>2
    <3>4. QED
      BY <3>3 DEF oM, oL, hh
  <2>3. QED
    BY <1>4, <2>2, SaidTally
<1>9. SetAside(parked', phase')
  <2>1. CASE parked' = held
    <3>1. SetAside(held, [ph EXCEPT ![w] = "run"])
      BY <1>1, <1>6, AsideMoves
    <3>2. QED
      BY <1>2, <2>1, <3>1
  <2>2. CASE parked' = [held EXCEPT ![w] = later]
    <3>1. Wakes \subseteq Actors
      BY DEF Actors
    <3>2. parked' \in [Wakes -> Seq(Messages)]
      BY <1>3, <2>2
    <3>3. \A v \in Wakes : parked'[v] # <<>> => phase'[v] \in {"run", "after"}
      BY <1>1, <1>2, <1>3, <1>6, <2>2, <3>1 DEF SetAside
    <3>4. \A v \in Wakes, m \in AllMessages : Occurrences(m, parked'[v]) <= 1
      BY <1>1, <1>3, <1>8, <2>2 DEF SetAside
    <3>5. QED
      BY <3>2, <3>3, <3>4 DEF SetAside
  <2>3. QED
    BY <1>2, <2>1, <2>2
<1>10. followUps' \in Seq(Messages) /\ count' \in Nat
  <2>1. <<>> \in Seq(Messages)
    OBVIOUS
  <2>2. CASE followUps' = <<>>
    BY <1>2, <2>1, <2>2
  <2>3. CASE followUps' = later
    BY <1>2, <2>3
  <2>4. QED
    BY <1>2, <2>2, <2>3
<1>11. Tallied(steering', followUps', records', pending', parked', gone', sent')
  <2>1. SUFFICES ASSUME NEW m \in AllMessages
                 PROVE  Tally(m, steering, followUps', records', <<>>, parked', gone')
                          = Due(m, sent')
    BY <1>4 DEF Tallied
  <2>2. Occurrences(m, messages)
          + Tally(m, steering, later, records', <<>>, held, gone) = Due(m, sent')
    OBVIOUS
  <2>3. Cardinality(ParkedAt(m, parked')) + Occurrences(m, followUps')
          = Cardinality(ParkedAt(m, held)) + Occurrences(m, later)
    <3>1. CASE parked' = held /\ followUps' = later
      BY <3>1
    <3>2. CASE parked' = [held EXCEPT ![w] = later] /\ followUps' = <<>>
      <4>1. /\ parked'[w] = later /\ parked'[w] \in Seq(Messages)
            /\ \A v \in Wakes \ {w} : parked'[v] = held[v]
        BY <1>1, <1>3, <3>2
      <4>2. /\ Occurrences(m, parked'[w]) <= 1
            /\ IsFiniteSet(ParkedAt(m, held))
            /\ w \notin ParkedAt(m, held)
        <5>1. Occurrences(m, parked'[w]) <= 1
          BY <1>8, <4>1
        <5>2. IsFiniteSet(ParkedAt(m, held))
          BY <1>7
        <5>3. m \notin MessagesIn(held[w])
          BY <1>3 DEF MessagesIn
        <5>4. QED
          BY <5>1, <5>2, <5>3 DEF ParkedAt
      <4>3. Cardinality(ParkedAt(m, parked'))
              = Cardinality(ParkedAt(m, held)) + Occurrences(m, parked'[w])
        BY <1>1, <4>1, <4>2, ParkTally
      <4>4. Occurrences(m, followUps') = 0
        BY <3>2, OccEmpty
      <4>5. QED
        BY <1>7, <4>1, <4>3, <4>4
    <3>3. QED
      BY <1>2, <3>1, <3>2
  <2>4. Occurrences(m, followUps') \in Nat /\ Cardinality(ParkedAt(m, parked')) \in Nat
    <3>1. followUps' \in Seq(Messages)
      BY <1>10
    <3>2. IsFiniteSet(Busy(Wakes, phase'))
      BY <1>5 DEF PhasesOK
    <3>3. <<>> \in Seq(Messages)
      OBVIOUS
    <3>4. QED
      BY <1>9, <3>1, <3>2, <3>3, TallyTerms
  <2>5. Here(m, gone') = Occurrences(m, messages) + Here(m, gone)
    BY <1>8
  <2> DEFINE oM == Occurrences(m, messages)
             oS == Occurrences(m, steering)
             oF == Occurrences(m, followUps')
             oL == Occurrences(m, later)
             oR == Occurrences(m, records')
             pP == Cardinality(ParkedAt(m, parked'))
             pH == Cardinality(ParkedAt(m, held))
             hh == Here(m, gone)
             hg == Here(m, gone')
  <2>6. /\ oM \in Nat /\ oS \in Nat /\ oF \in Nat /\ oL \in Nat /\ oR \in Nat
        /\ pP \in Nat /\ pH \in Nat /\ hh \in Nat
        /\ pP + oF = pH + oL /\ hg = oM + hh
        /\ oM + (oS + oL + oR + 0 + pH + hh) = Due(m, sent')
    <3>1. oM + (oS + oL + oR + 0 + pH + hh) = Due(m, sent')
      BY <1>7, <2>2 DEF Tally
    <3>2. oM \in Nat /\ oS \in Nat /\ oL \in Nat /\ oR \in Nat /\ pH \in Nat /\ hh \in Nat
      BY <1>7
    <3>3. QED
      BY <2>3, <2>4, <2>5, <3>1, <3>2
  <2>7. Tally(m, steering, followUps', records', <<>>, parked', gone')
          = oS + oF + oR + 0 + pP + hg
    BY <1>7 DEF Tally
  <2> HIDE DEF oM, oS, oF, oL, oR, pP, pH, hh, hg
  <2>8. QED
    BY <2>6, <2>7
<1>12. QED
  BY <1>4, <1>5, <1>9, <1>10, <1>11

TailOK == tail \in {"none", "assistant", "toolResult", "other"}

(* What a drain of stranded messages keeps.                                *)
LEMMA StrandedTurns ==
    ASSUME Enough, NEW c \in Nat, NEW ph, PhasesOK(ph, owner),
           NEW later \in Seq(Messages), NEW held, SetAside(held, ph),
           QueuesOK, RunOK, RestOK,
           Tallied(steering, later, records, pending, held, gone, sent),
           DrainStranded(c, ph, later, held), UNCHANGED <<steering, sent>>
    PROVE  /\ QueuesOK' /\ RunOK' /\ TailOK' /\ count' \in Nat
           /\ PhasesOK(phase, owner)' /\ SetAside(parked, phase)'
           /\ Tallied(steering, followUps, records, pending, parked, gone, sent)'
<1>1. ph \in [Actors -> Phases]
  BY DEF PhasesOK
<1>2. CASE /\ ScheduleDrain(c, ph) /\ followUps' = later /\ parked' = held
           /\ UNCHANGED <<records, loop, talk>>
  <2> DEFINE t == FreeOf(Drains, ph)
  <2>1. t \in Drains /\ ph[t] = "off" /\ t \in Actors /\ t \notin Wakes
    BY FreeExists, TurnsAssumption DEF Enough, PhasesOK, Actors
  <2>2. phase' = [ph EXCEPT ![t] = "setup"] /\ count' = c + 1
    BY <1>2 DEF ScheduleDrain
  <2> HIDE DEF t
  <2>3. "setup" \in Phases \ {"run"} /\ ph[t] # "run"
    BY <2>1 DEF Phases
  <2>4. PhasesOK(phase', owner)
    BY <2>1, <2>2, <2>3, PhaseMoves
  <2>5. SetAside(held, phase')
    BY <1>1, <2>1, <2>2, AsideMoves
  <2>6. PhasesOK(phase', owner') /\ SetAside(parked', phase')
    BY <1>2, <2>4, <2>5 DEF loop
  <2>7. QueuesOK' /\ RunOK' /\ TailOK' /\ count' \in Nat
    BY <1>2, <2>2 DEF loop, talk, QueuesOK, RunOK, RestOK, TailOK
  <2>8. Tallied(steering', followUps', records', pending', parked', gone', sent')
    BY <1>2 DEF loop, talk
  <2>9. QED
    BY <2>6, <2>7, <2>8
<1>3. CASE /\ ~Streaming(c) /\ WakeForIrc(c, ph, later, held, records)
           /\ records' = <<>>
  <2>1. run = "off" /\ owner = None /\ pending = <<>>
    BY <1>3 DEF Streaming, RunOK
  <2>2. PhasesOK(ph, None)
    BY <2>1
  <2>3. records \in Seq(Messages) /\ records' \in Seq(Messages) /\ steering' = steering
    <3>1. <<>> \in Seq(Messages)
      OBVIOUS
    <3>2. records' \in Seq(Messages)
      BY <1>3, <3>1
    <3>3. QED
      BY <3>2 DEF QueuesOK
  <2>4. ASSUME NEW m \in AllMessages
        PROVE  Occurrences(m, records)
               + Tally(m, steering, later, records', <<>>, held, gone) = Due(m, sent')
    <3>1. Tally(m, steering, later, records, pending, held, gone) = Due(m, sent)
      BY DEF Tallied
    <3>2. /\ Occurrences(m, steering) \in Nat /\ Occurrences(m, later) \in Nat
          /\ Occurrences(m, records) \in Nat
          /\ Cardinality(ParkedAt(m, held)) \in Nat /\ Here(m, gone) \in 0 .. 1
      <4>1. /\ IsFiniteSet(Busy(Wakes, ph)) /\ steering \in Seq(Messages)
            /\ pending \in Seq(Messages)
        BY DEF QueuesOK, PhasesOK
      <4>2. /\ Occurrences(m, steering) \in Nat /\ Occurrences(m, later) \in Nat
            /\ Occurrences(m, records) \in Nat
        BY <2>3, <4>1, OccType
      <4>3. Cardinality(ParkedAt(m, held)) \in Nat
        BY <4>1, ParkedFinite
      <4>4. QED
        BY <4>2, <4>3 DEF Here
    <3>3. Occurrences(m, pending) = 0 /\ Occurrences(m, records') = 0
          /\ Occurrences(m, <<>>) = 0 /\ sent' = sent
      BY <1>3, <2>1, OccEmpty
    <3>4. /\ Occurrences(m, steering) + Occurrences(m, later) + Occurrences(m, records) + 0
               + Cardinality(ParkedAt(m, held)) + Here(m, gone) = Due(m, sent)
          /\ Tally(m, steering, later, records', <<>>, held, gone)
               = Occurrences(m, steering) + Occurrences(m, later) + 0 + 0
                 + Cardinality(ParkedAt(m, held)) + Here(m, gone)
      BY <3>1, <3>3 DEF Tally
    <3>5. QED
      BY <3>2, <3>3, <3>4
  <2>5. /\ RunOK' /\ PhasesOK(phase, owner)' /\ SetAside(parked, phase)'
        /\ followUps' \in Seq(Messages) /\ pending' = <<>>
        /\ gone' \subseteq Messages
        /\ tail' \in {"none", "assistant", "toolResult", "other"}
        /\ count' \in Nat
        /\ Tallied(steering, followUps, records, pending, parked, gone, sent)'
    BY <1>3, <2>2, <2>3, <2>4, WakeBegins
  <2>6. pending' \in Seq(Messages)
    <3>1. <<>> \in Seq(Messages)
      OBVIOUS
    <3>2. QED
      BY <2>5, <3>1
  <2>7. QueuesOK' /\ TailOK'
    BY <2>3, <2>5, <2>6 DEF QueuesOK, TailOK
  <2>8. QED
    BY <2>5, <2>7
<1>4. CASE /\ count' = c /\ phase' = ph /\ followUps' = later /\ parked' = held
           /\ UNCHANGED <<records, loop, talk>>
  <2>1. PhasesOK(phase', owner') /\ SetAside(parked', phase')
    BY <1>4 DEF loop
  <2>2. QueuesOK' /\ RunOK' /\ TailOK' /\ count' \in Nat
    BY <1>4 DEF loop, talk, QueuesOK, RunOK, RestOK, TailOK
  <2>3. Tallied(steering', followUps', records', pending', parked', gone', sent')
    BY <1>4 DEF loop, talk
  <2>4. QED
    BY <2>1, <2>2, <2>3
<1>5. QED
  BY <1>2, <1>3, <1>4 DEF DrainStranded

(* An actor that is not in its run leaves.                                 *)
LEMMA FlightTurns ==
    ASSUME Enough, TurnInv, NEW a \in Actors, phase[a] # "run",
           NEW later \in Seq(Messages), NEW held,
           held \in [Wakes -> Seq(Messages)],
           \A w \in Wakes : held[w] = parked[w] \/ held[w] = <<>>,
           a \in Wakes => held[a] = <<>>,
           Tallied(steering, later, records, pending, held, gone, sent),
           EndInFlight(a, later, held)
    PROVE  TurnInv'
<1> DEFINE c  == IF count = 0 THEN 0 ELSE count - 1
           x  == IF a \in Prompts THEN "done" ELSE "off"
           ph == [phase EXCEPT ![a] = x]
<1>1. c \in Nat
  BY DEF TurnInv, RestOK
<1>2. x \in Phases \ {"run"}
  BY DEF Phases
<1>3. phase \in [Actors -> Phases]
  BY DEF TurnInv, PhasesOK
<1>4. SetAside(held, phase)
  <2>1. \A w \in Wakes, m \in AllMessages : Occurrences(m, held[w]) <= 1
    <3>1. SUFFICES ASSUME NEW w \in Wakes, NEW m \in AllMessages
                   PROVE  Occurrences(m, held[w]) <= 1
      OBVIOUS
    <3>2. CASE held[w] = parked[w]
      BY <3>2 DEF TurnInv, SetAside
    <3>3. CASE held[w] = <<>>
      <4>1. Occurrences(m, held[w]) = 0
        BY <3>3, OccEmpty
      <4>2. QED
        BY <4>1
    <3>4. QED
      BY <3>2, <3>3
  <2>2. \A w \in Wakes : held[w] # <<>> => phase[w] \in {"run", "after"}
    BY DEF TurnInv, SetAside
  <2>3. QED
    BY <2>1, <2>2 DEF SetAside
<1> HIDE DEF c, x
<1>5. PhasesOK(ph, owner)
  BY <1>2, PhaseMoves DEF TurnInv
<1>6. SetAside(held, ph)
  BY <1>3, <1>4, AsideMoves
<1>7. /\ steering' = steering /\ sent' = sent
      /\ UNCHANGED stops /\ stale' = stale \ {a}
      /\ \/ DrainStranded(c, ph, later, held)
         \/ /\ count' = c /\ phase' = ph /\ followUps' = later /\ parked' = held
            /\ UNCHANGED <<records, loop, talk>>
  BY DEF EndInFlight, c, x
<1> HIDE DEF ph
<1>8. /\ QueuesOK' /\ RunOK' /\ TailOK' /\ count' \in Nat
      /\ PhasesOK(phase, owner)' /\ SetAside(parked, phase)'
      /\ Tallied(steering, followUps, records, pending, parked, gone, sent)'
  <2>1. CASE DrainStranded(c, ph, later, held)
    BY <1>1, <1>5, <1>6, <1>7, <2>1, StrandedTurns DEF TurnInv
  <2>2. CASE /\ count' = c /\ phase' = ph /\ followUps' = later /\ parked' = held
             /\ UNCHANGED <<records, loop, talk>>
    <3>1. PhasesOK(phase', owner') /\ SetAside(parked', phase')
      BY <1>5, <1>6, <2>2 DEF loop
    <3>2. QueuesOK' /\ RunOK' /\ TailOK' /\ count' \in Nat
      BY <1>1, <1>7, <2>2 DEF TurnInv, loop, talk, QueuesOK, RunOK, RestOK, TailOK
    <3>3. Tallied(steering', followUps', records', pending', parked', gone', sent')
      BY <1>7, <2>2 DEF loop, talk
    <3>4. QED
      BY <3>1, <3>2, <3>3
  <2>3. QED
    BY <1>7, <2>1, <2>2
<1>9. RestOK'
  BY <1>7, <1>8 DEF TurnInv, RestOK, TailOK, stops
<1>10. QED
  BY <1>8, <1>9 DEF TurnInv

LEMMA TallyNow ==
    ASSUME TurnInv, NEW m \in AllMessages
    PROVE  /\ Occurrences(m, steering) \in Nat /\ Occurrences(m, followUps) \in Nat
           /\ Occurrences(m, records) \in Nat /\ Occurrences(m, pending) \in Nat
           /\ IsFiniteSet(ParkedAt(m, parked))
           /\ Cardinality(ParkedAt(m, parked)) \in Nat
           /\ Here(m, gone) \in 0 .. 1
           /\ Due(m, sent) \in 0 .. 1
           /\ Occurrences(m, steering) + Occurrences(m, followUps)
              + Occurrences(m, records) + Occurrences(m, pending)
              + Cardinality(ParkedAt(m, parked)) + Here(m, gone) = Due(m, sent)
<1>1. /\ steering \in Seq(Messages) /\ followUps \in Seq(Messages)
      /\ records \in Seq(Messages) /\ pending \in Seq(Messages)
      /\ IsFiniteSet(Busy(Wakes, phase)) /\ SetAside(parked, phase)
  BY DEF TurnInv, QueuesOK, PhasesOK
<1>2. Tally(m, steering, followUps, records, pending, parked, gone) = Due(m, sent)
  BY DEF TurnInv, Tallied
<1>3. Due(m, sent) \in 0 .. 1
  BY DEF Due
<1>4. QED
  BY <1>1, <1>2, <1>3, TallyTerms DEF Tally

-----------------------------------------------------------------------------
(* The steps of the loop.                                                  *)

(* The sequences polls make are of messages, and take what they leave out. *)
LEMMA Polls ==
    ASSUME QueuesOK, NEW m
    PROVE  /\ Polled("steer", steering) \in Seq(Messages)
           /\ Left("steer", steering) \in Seq(Messages)
           /\ Polled("irc", records) \in Seq(Messages)
           /\ Left("irc", records) \in Seq(Messages)
           /\ Polled("followUp", followUps) \in Seq(Messages)
           /\ Left("followUp", followUps) \in Seq(Messages)
           /\ Occurrences(m, steering)
                = Occurrences(m, Polled("steer", steering)) + Occurrences(m, Left("steer", steering))
           /\ Occurrences(m, records)
                = Occurrences(m, Polled("irc", records)) + Occurrences(m, Left("irc", records))
           /\ Occurrences(m, followUps)
                = Occurrences(m, Polled("followUp", followUps))
                  + Occurrences(m, Left("followUp", followUps))
  BY TakenTypes, OccSplit DEF QueuesOK

LEMMA InitialPollTurns ==
    ASSUME TurnInv, InitialPoll
    PROVE  TurnInv'
<1>1. CASE skip
  BY <1>1 DEF InitialPoll, TurnInv, QueuesOK, RunOK, RestOK, talk, actors, stops
<1>2. CASE ~skip
  <2>1. /\ pending = <<>> /\ pending' = Polled("steer", steering)
        /\ steering' = Left("steer", steering)
        /\ UNCHANGED <<followUps, records, parked, sent, talk, owner, aborted,
                       newSteers, actors, stops>>
        /\ run' = "turn" /\ skip' = FALSE /\ run = "start"
    BY <1>2 DEF InitialPoll, TurnInv, RunOK
  <2>2. pending' \in Seq(Messages) /\ steering' \in Seq(Messages)
    BY <2>1, Polls DEF TurnInv
  <2>3. QueuesOK' /\ RunOK' /\ RestOK' /\ PhasesOK(phase', owner') /\ SetAside(parked', phase')
    BY <2>1, <2>2 DEF TurnInv, QueuesOK, RunOK, RestOK, talk, actors, stops
  <2>4. ASSUME NEW m \in AllMessages
        PROVE  Tally(m, steering', followUps', records', pending', parked', gone') = Due(m, sent')
    <3>1. Occurrences(m, steering) = Occurrences(m, pending') + Occurrences(m, steering')
      BY <2>1, Polls DEF TurnInv
    <3>2. Occurrences(m, pending') \in Nat /\ Occurrences(m, steering') \in Nat
      BY <2>2, OccType
    <3>3. Occurrences(m, pending) = 0
      BY <2>1, OccEmpty
    <3>4. /\ followUps' = followUps /\ records' = records /\ parked' = parked
          /\ gone' = gone /\ sent' = sent
      BY <2>1 DEF talk
    <3>5. QED
      BY <3>1, <3>2, <3>3, <3>4, TallyNow DEF Tally
  <2>5. QED
    BY <2>3, <2>4 DEF TurnInv, Tallied
<1>3. QED
  BY <1>1, <1>2

LEMMA InjectTurns ==
    ASSUME TurnInv, Inject
    PROVE  TurnInv'
<1>1. /\ run = "turn" /\ run' = "call" /\ pending' = <<>>
      /\ gone' = gone \cup MessagesIn(pending)
      /\ tail' = IF pending = <<>> THEN tail ELSE "other"
      /\ newSteers' = newSteers + SteersIn(pending)
      /\ UNCHANGED <<queues, parked, sent, owner, aborted, skip, actors, stops>>
  BY DEF Inject, Say
<1>2. pending \in Seq(Messages) /\ pending' \in Seq(Messages)
  <2>1. <<>> \in Seq(Messages)
    OBVIOUS
  <2>2. pending' \in Seq(Messages)
    BY <1>1, <2>1
  <2>3. QED
    BY <2>2 DEF TurnInv, QueuesOK
<1>3. MessagesIn(pending) \subseteq Messages /\ SteersIn(pending) \in Nat
  BY <1>2, LenProperties, ElementOfSeq, SteerCount DEF MessagesIn
<1>4. QueuesOK' /\ RunOK' /\ RestOK' /\ PhasesOK(phase', owner') /\ SetAside(parked', phase')
  BY <1>1, <1>2, <1>3 DEF TurnInv, QueuesOK, RunOK, RestOK, queues, actors, stops
<1>5. ASSUME NEW m \in AllMessages
      PROVE  Tally(m, steering', followUps', records', pending', parked', gone') = Due(m, sent')
  <2>1. /\ steering' = steering /\ followUps' = followUps /\ records' = records
        /\ parked' = parked /\ sent' = sent
    BY <1>1 DEF queues
  <2>2. Occurrences(m, pending') = 0
    BY <1>1, OccEmpty
  <2>3. Occurrences(m, pending) + Here(m, gone) <= 1
    BY TallyNow
  <2>4. Here(m, gone') = Occurrences(m, pending) + Here(m, gone)
    BY <1>1, <1>2, <2>3, SaidTally
  <2>5. QED
    BY <2>1, <2>2, <2>4, TallyNow DEF Tally
<1>6. QED
  BY <1>4, <1>5 DEF TurnInv, Tallied

-----------------------------------------------------------------------------
LEMMA CallEnds ==
    ASSUME TurnInv, run = "call", run' \in {"work", "stop", "ending"},
           tail' \in {"assistant", "toolResult"}, newSteers' = 0,
           UNCHANGED <<queues, parked, sent, gone, owner, aborted, skip, pending,
                       actors, stops>>
    PROVE  TurnInv'
<1>1. /\ UNCHANGED <<steering, followUps, records, parked, sent, gone, owner, aborted,
                     skip, pending, phase, stale, count, abort, aborts, suppressed>>
  BY DEF queues, actors, stops
<1>2. QueuesOK' /\ RunOK' /\ RestOK' /\ PhasesOK(phase', owner') /\ SetAside(parked', phase')
  BY <1>1 DEF TurnInv, QueuesOK, RunOK, RestOK
<1>3. Tallied(steering', followUps', records', pending', parked', gone', sent')
  BY <1>1 DEF TurnInv
<1>4. QED
  BY <1>2, <1>3 DEF TurnInv

(* What a poll at the end of a turn keeps: the loop had nothing pending.   *)
LEMMA PollTurns ==
    ASSUME TurnInv, run \notin {"off", "start", "turn"},
           pending' \in Seq(Messages), steering' \in Seq(Messages),
           followUps' \in Seq(Messages), records' \in Seq(Messages),
           run' \in {"turn", "yield", "ending"}, run' # "turn" => pending' = <<>>,
           UNCHANGED <<parked, sent, talk, owner, aborted, skip, newSteers, actors, stops>>,
           \A m \in AllMessages :
               Occurrences(m, steering) + Occurrences(m, followUps) + Occurrences(m, records)
               = Occurrences(m, steering') + Occurrences(m, followUps')
                 + Occurrences(m, records') + Occurrences(m, pending')
    PROVE  TurnInv'
<1>1. /\ UNCHANGED <<parked, sent, gone, tail, owner, aborted,
                     skip, newSteers, phase, stale, count, abort, aborts, suppressed>>
  BY DEF talk, actors, stops
<1>2. QueuesOK' /\ RunOK' /\ RestOK' /\ PhasesOK(phase', owner') /\ SetAside(parked', phase')
  BY <1>1 DEF TurnInv, QueuesOK, RunOK, RestOK
<1>3. ASSUME NEW m \in AllMessages
      PROVE  Tally(m, steering', followUps', records', pending', parked', gone') = Due(m, sent')
  <2>1. pending = <<>>
    BY DEF TurnInv, RunOK
  <2>2. Occurrences(m, pending) = 0
    BY <2>1, OccEmpty
  <2>3. /\ Occurrences(m, steering') \in Nat /\ Occurrences(m, followUps') \in Nat
        /\ Occurrences(m, records') \in Nat /\ Occurrences(m, pending') \in Nat
    BY OccType
  <2>4. Occurrences(m, steering) + Occurrences(m, followUps) + Occurrences(m, records)
               = Occurrences(m, steering') + Occurrences(m, followUps')
                 + Occurrences(m, records') + Occurrences(m, pending')
    OBVIOUS
  <2>5. QED
    BY <1>1, <2>2, <2>3, <2>4, TallyNow DEF Tally
<1>4. QED
  BY <1>2, <1>3 DEF TurnInv, Tallied

LEMMA BoundaryTurns ==
    ASSUME TurnInv, Boundary
    PROVE  TurnInv'
<1> DEFINE P == Polled("steer", steering)
           R == Polled("irc", records)
<1>1. /\ run \in {"work", "stop"} /\ steering' = Left("steer", steering)
      /\ followUps' = followUps
      /\ UNCHANGED <<parked, sent, talk, owner, aborted, skip, newSteers, actors, stops>>
      /\ \/ run = "work" /\ pending' = P \o R /\ records' = Left("irc", records)
         \/ pending' = P /\ records' = records
      /\ run' \in {"turn", "yield"} /\ (run' # "turn" => pending' = <<>>)
  BY DEF Boundary
<1>2. /\ P \in Seq(Messages) /\ R \in Seq(Messages) /\ P \o R \in Seq(Messages)
      /\ Left("steer", steering) \in Seq(Messages) /\ Left("irc", records) \in Seq(Messages)
      /\ followUps \in Seq(Messages) /\ records \in Seq(Messages)
      /\ steering \in Seq(Messages)
  <2>1. QueuesOK
    BY DEF TurnInv
  <2>2. P \in Seq(Messages) /\ R \in Seq(Messages)
    BY <2>1, Polls
  <2>3. P \o R \in Seq(Messages)
    BY <2>2, OccConcat
  <2>4. QED
    BY <2>1, <2>2, <2>3, Polls DEF QueuesOK
<1>3. ASSUME NEW m \in AllMessages
      PROVE  Occurrences(m, steering) + Occurrences(m, followUps) + Occurrences(m, records)
               = Occurrences(m, steering') + Occurrences(m, followUps')
                 + Occurrences(m, records') + Occurrences(m, pending')
  <2>1. /\ Occurrences(m, steering) = Occurrences(m, P) + Occurrences(m, Left("steer", steering))
        /\ Occurrences(m, records) = Occurrences(m, R) + Occurrences(m, Left("irc", records))
    BY Polls DEF TurnInv
  <2>2. Occurrences(m, P \o R) = Occurrences(m, P) + Occurrences(m, R)
    BY <1>2, OccConcat
  <2>3. /\ Occurrences(m, P) \in Nat /\ Occurrences(m, R) \in Nat
        /\ Occurrences(m, Left("steer", steering)) \in Nat
        /\ Occurrences(m, Left("irc", records)) \in Nat
        /\ Occurrences(m, followUps) \in Nat /\ Occurrences(m, records) \in Nat
    BY <1>2, OccType
  <2> HIDE DEF P, R
  <2>4. followUps' = followUps /\ steering' = Left("steer", steering)
    BY <1>1
  <2>5. CASE pending' = P \o R /\ records' = Left("irc", records)
    BY <2>1, <2>2, <2>3, <2>4, <2>5
  <2>6. CASE pending' = P /\ records' = records
    BY <2>1, <2>3, <2>4, <2>6
  <2>7. QED
    BY <1>1, <2>5, <2>6
<1> HIDE DEF P, R
<1>4. /\ pending' \in Seq(Messages) /\ steering' \in Seq(Messages)
      /\ followUps' \in Seq(Messages) /\ records' \in Seq(Messages)
  BY <1>1, <1>2
<1>5. QED
  BY <1>1, <1>3, <1>4, PollTurns

LEMMA LastPollTurns ==
    ASSUME TurnInv, LastPoll
    PROVE  TurnInv'
<1> DEFINE P == Polled("steer", steering)
           R == Polled("irc", records)
           F == Polled("followUp", followUps)
<1>1. /\ run = "yield" /\ steering' = Left("steer", steering)
      /\ followUps' = Left("followUp", followUps) /\ records' = Left("irc", records)
      /\ UNCHANGED <<parked, sent, talk, owner, aborted, skip, newSteers, actors, stops>>
      /\ pending' = (P \o R) \o F
      /\ run' \in {"turn", "ending"} /\ (run' # "turn" => pending' = <<>>)
  BY DEF LastPoll
<1>2. /\ P \in Seq(Messages) /\ R \in Seq(Messages) /\ F \in Seq(Messages)
      /\ Left("steer", steering) \in Seq(Messages) /\ Left("irc", records) \in Seq(Messages)
      /\ Left("followUp", followUps) \in Seq(Messages)
  BY Polls DEF TurnInv
<1>3. P \o R \in Seq(Messages)
  BY <1>2, OccConcat
<1>4. (P \o R) \o F \in Seq(Messages)
  BY <1>2, <1>3, OccConcat
<1>5. ASSUME NEW m \in AllMessages
      PROVE  Occurrences(m, steering) + Occurrences(m, followUps) + Occurrences(m, records)
               = Occurrences(m, steering') + Occurrences(m, followUps')
                 + Occurrences(m, records') + Occurrences(m, pending')
  <2>1. /\ Occurrences(m, steering) = Occurrences(m, P) + Occurrences(m, Left("steer", steering))
        /\ Occurrences(m, records) = Occurrences(m, R) + Occurrences(m, Left("irc", records))
        /\ Occurrences(m, followUps)
             = Occurrences(m, F) + Occurrences(m, Left("followUp", followUps))
    BY Polls DEF TurnInv
  <2>2. Occurrences(m, P \o R) = Occurrences(m, P) + Occurrences(m, R)
    BY <1>2, OccConcat
  <2>3. Occurrences(m, (P \o R) \o F) = Occurrences(m, P \o R) + Occurrences(m, F)
    <3> DEFINE Q == P \o R
    <3>1. Q \in Seq(Messages)
      BY <1>3
    <3> HIDE DEF P, R, F, Q
    <3>2. Occurrences(m, Q \o F) = Occurrences(m, Q) + Occurrences(m, F)
      BY <1>2, <3>1, OccConcat
    <3>3. QED
      BY <3>2 DEF Q
  <2>4. /\ Occurrences(m, P) \in Nat /\ Occurrences(m, R) \in Nat /\ Occurrences(m, F) \in Nat
        /\ Occurrences(m, Left("steer", steering)) \in Nat
        /\ Occurrences(m, Left("irc", records)) \in Nat
        /\ Occurrences(m, Left("followUp", followUps)) \in Nat
    BY <1>2, OccType
  <2> HIDE DEF P, R, F
  <2>5. QED
    BY <1>1, <2>1, <2>2, <2>3, <2>4
<1> HIDE DEF P, R, F
<1>6. /\ pending' \in Seq(Messages) /\ steering' \in Seq(Messages)
      /\ followUps' \in Seq(Messages) /\ records' \in Seq(Messages)
  BY <1>1, <1>2, <1>4
<1>7. QED
  BY <1>1, <1>5, <1>6, PollTurns

LEMMA RunEndsTurns ==
    ASSUME TurnInv, RunEnds
    PROVE  TurnInv'
<1>1. /\ run = "ending" /\ run' = "off" /\ owner' = None /\ aborted' = FALSE
      /\ phase' = [phase EXCEPT ![owner] = "after"]
      /\ abort' = IF abort = "run" THEN "settling" ELSE abort
      /\ UNCHANGED <<steering, followUps, records, parked, sent, gone, tail, skip, pending,
                     newSteers, stale, count, aborts, suppressed>>
  BY DEF RunEnds, queues, talk
<1>2. owner \in Actors /\ pending = <<>>
  BY <1>1 DEF TurnInv, RunOK
<1>3. PhasesOK(phase', owner')
  BY <1>1, <1>2, PhaseEnds DEF TurnInv
<1>4. SetAside(parked', phase')
  <2>1. phase \in [Actors -> Phases] /\ SetAside(parked, phase)
    BY DEF TurnInv, PhasesOK
  <2>2. SetAside(parked, [phase EXCEPT ![owner] = "after"])
    BY <1>2, <2>1, AsideMoves
  <2>3. QED
    BY <1>1, <2>2
<1>5. QueuesOK' /\ RunOK' /\ RestOK'
  BY <1>1, <1>2 DEF TurnInv, QueuesOK, RunOK, RestOK
<1>6. Tallied(steering', followUps', records', pending', parked', gone', sent')
  BY <1>1 DEF TurnInv
<1>7. QED
  BY <1>3, <1>4, <1>5, <1>6 DEF TurnInv

LEMMA LoopTurns ==
    ASSUME TurnInv, LoopSteps
    PROVE  TurnInv'
<1>1. ASSUME NEW tools \in BOOLEAN, Answer(tools) PROVE TurnInv'
  BY <1>1, CallEnds DEF Answer
<1>2. ASSUME NEW t \in {"assistant", "toolResult"}, CallFails(t) PROVE TurnInv'
  BY <1>2, CallEnds DEF CallFails
<1>3. QED
  BY <1>1, <1>2, InitialPollTurns, InjectTurns, BoundaryTurns, LastPollTurns, RunEndsTurns
  DEF LoopSteps

-----------------------------------------------------------------------------
(* Drains, wakes and prompts.                                              *)

(* An idle agent is started with messages taken from the queues.           *)
LEMMA RunTurns ==
    ASSUME TurnInv, run = "off", NEW a \in Actors,
           NEW messages \in Seq(Messages), NEW skipPoll \in BOOLEAN,
           StartRun(a, messages, skipPoll), phase' = [phase EXCEPT ![a] = "run"],
           steering' \in Seq(Messages), followUps' \in Seq(Messages),
           UNCHANGED <<records, parked, sent, stale, count, stops>>,
           \A m \in AllMessages :
               Occurrences(m, steering) + Occurrences(m, followUps)
               = Occurrences(m, messages) + Occurrences(m, steering')
                 + Occurrences(m, followUps')
    PROVE  TurnInv'
<1>1. UNCHANGED <<records, parked, sent, stale, count, abort, aborts, suppressed>>
  BY DEF stops
<1>2. owner = None /\ pending = <<>>
  BY DEF TurnInv, RunOK
<1>3. /\ RunOK' /\ owner' = a /\ pending' = <<>>
      /\ gone' = gone \cup MessagesIn(messages) /\ gone' \subseteq Messages
      /\ tail' \in {"none", "assistant", "toolResult", "other"}
  BY RunBegins DEF TurnInv, QueuesOK
<1>4. PhasesOK(phase', owner')
  BY <1>2, <1>3, PhaseBegins DEF TurnInv
<1>5. SetAside(parked', phase')
  <2>1. phase \in [Actors -> Phases] /\ SetAside(parked, phase)
    BY DEF TurnInv, PhasesOK
  <2>2. SetAside(parked, [phase EXCEPT ![a] = "run"])
    BY <2>1, AsideMoves
  <2>3. QED
    BY <1>1, <2>2
<1>6. pending' \in Seq(Messages)
  <2>1. <<>> \in Seq(Messages)
    OBVIOUS
  <2>2. QED
    BY <1>3, <2>1
<1>7. QueuesOK' /\ RestOK'
  BY <1>1, <1>3, <1>6 DEF TurnInv, QueuesOK, RestOK
<1>8. ASSUME NEW m \in AllMessages
      PROVE  Tally(m, steering', followUps', records', pending', parked', gone') = Due(m, sent')
  <2>1. Occurrences(m, pending) = 0 /\ Occurrences(m, pending') = 0
    BY <1>2, <1>3, OccEmpty
  <2>2. /\ Occurrences(m, messages) \in Nat /\ Occurrences(m, steering') \in Nat
        /\ Occurrences(m, followUps') \in Nat
    BY OccType
  <2>3. Occurrences(m, steering) + Occurrences(m, followUps)
               = Occurrences(m, messages) + Occurrences(m, steering')
                 + Occurrences(m, followUps')
    OBVIOUS
  <2> DEFINE oM == Occurrences(m, messages)
             oS == Occurrences(m, steering)
             oF == Occurrences(m, followUps)
             nS == Occurrences(m, steering')
             nF == Occurrences(m, followUps')
             oR == Occurrences(m, records)
             pP == Cardinality(ParkedAt(m, parked))
             hh == Here(m, gone)
             hg == Here(m, gone')
             du == Due(m, sent)
  <2>4. /\ oM \in Nat /\ nS \in Nat /\ nF \in Nat
        /\ oS \in Nat /\ oF \in Nat /\ oR \in Nat /\ pP \in Nat
        /\ hh \in Nat /\ du <= 1
        /\ oS + oF + oR + 0 + pP + hh = du
        /\ oS + oF = oM + nS + nF
    <3>1. /\ oS \in Nat /\ oF \in Nat /\ oR \in Nat /\ pP \in Nat
          /\ hh \in 0 .. 1 /\ du \in 0 .. 1
          /\ oS + oF + oR + Occurrences(m, pending) + pP + hh = du
      BY TallyNow
    <3>2. oM \in Nat /\ nS \in Nat /\ nF \in Nat /\ oS + oF = oM + nS + nF
      BY <2>2, <2>3
    <3> HIDE DEF oM, oS, oF, nS, nF, oR, pP, hh, du
    <3>3. QED
      BY <2>1, <3>1, <3>2
  <2>5. oM + hh <= 1
    <3> HIDE DEF oM, oS, oF, nS, nF, oR, pP, hh, du
    <3>1. QED
      BY <2>4
  <2>6. hg = oM + hh
    BY <1>3, <2>5, SaidTally
  <2>7. /\ Tally(m, steering', followUps', records', pending', parked', gone')
             = nS + nF + oR + 0 + pP + hg
        /\ Due(m, sent') = du
    <3>1. records' = records /\ parked' = parked /\ sent' = sent
      BY <1>1
    <3>2. /\ Occurrences(m, records') = oR /\ Cardinality(ParkedAt(m, parked')) = pP
          /\ Due(m, sent') = du
      BY <3>1
    <3> HIDE DEF oR, pP, du, nS, nF, hg
    <3>3. Tally(m, steering', followUps', records', pending', parked', gone')
             = nS + nF + oR + 0 + pP + hg
      BY <2>1, <3>2 DEF Tally, nS, nF, hg
    <3>4. QED
      BY <3>2, <3>3
  <2>8. QED
    <3> HIDE DEF oM, oS, oF, nS, nF, oR, pP, hh, hg, du
    <3>1. nS + nF + oR + 0 + pP + hg = du
      BY <2>4, <2>6
    <3>2. QED
      BY <2>7, <3>1, Zenon
<1>9. QED
  BY <1>3, <1>4, <1>5, <1>7, <1>8 DEF TurnInv, Tallied

LEMMA DrainContinuesTurns ==
    ASSUME TurnInv, NEW t \in Drains, DrainContinues(t)
    PROVE  TurnInv'
<1>1. /\ run = "off" /\ phase' = [phase EXCEPT ![t] = "run"]
      /\ UNCHANGED <<records, parked, sent, stale, count, stops>>
      /\ \/ /\ StartRun(t, Batch("steer", steering), TRUE)
            /\ steering' = Rest("steer", steering) /\ followUps' = followUps
         \/ /\ StartRun(t, Batch("followUp", followUps), FALSE)
            /\ followUps' = Rest("followUp", followUps) /\ steering' = steering
         \/ /\ StartRun(t, <<>>, FALSE)
            /\ steering' = steering /\ followUps' = followUps
  BY DEF DrainContinues
<1>2. t \in Actors /\ steering \in Seq(Messages) /\ followUps \in Seq(Messages)
  BY DEF TurnInv, QueuesOK, Actors
<1>3. CASE /\ StartRun(t, Batch("steer", steering), TRUE)
           /\ steering' = Rest("steer", steering) /\ followUps' = followUps
  <2>1. Batch("steer", steering) \in Seq(Messages) /\ steering' \in Seq(Messages)
    BY <1>2, <1>3, TakenTypes
  <2>2. ASSUME NEW m \in AllMessages
        PROVE  Occurrences(m, steering) + Occurrences(m, followUps)
               = Occurrences(m, Batch("steer", steering)) + Occurrences(m, steering')
                 + Occurrences(m, followUps')
    <3>1. Occurrences(m, steering)
            = Occurrences(m, Batch("steer", steering)) + Occurrences(m, steering')
      BY <1>2, <1>3, OccSplit
    <3>2. QED
      BY <1>3, <3>1
  <2>3. QED
    BY <1>1, <1>2, <1>3, <2>1, <2>2, RunTurns
<1>4. CASE /\ StartRun(t, Batch("followUp", followUps), FALSE)
           /\ followUps' = Rest("followUp", followUps) /\ steering' = steering
  <2>1. Batch("followUp", followUps) \in Seq(Messages) /\ followUps' \in Seq(Messages)
    BY <1>2, <1>4, TakenTypes
  <2>2. ASSUME NEW m \in AllMessages
        PROVE  Occurrences(m, steering) + Occurrences(m, followUps)
               = Occurrences(m, Batch("followUp", followUps)) + Occurrences(m, steering')
                 + Occurrences(m, followUps')
    <3>1. Occurrences(m, followUps)
            = Occurrences(m, Batch("followUp", followUps)) + Occurrences(m, followUps')
      BY <1>2, <1>4, OccSplit
    <3>2. /\ Occurrences(m, steering) \in Nat /\ Occurrences(m, followUps') \in Nat
          /\ Occurrences(m, Batch("followUp", followUps)) \in Nat
      BY <1>2, <2>1, OccType
    <3>3. QED
      BY <1>4, <3>1, <3>2
  <2>3. QED
    BY <1>1, <1>2, <1>4, <2>1, <2>2, RunTurns
<1>5. CASE /\ StartRun(t, <<>>, FALSE)
           /\ steering' = steering /\ followUps' = followUps
  <2>1. <<>> \in Seq(Messages)
    OBVIOUS
  <2>2. ASSUME NEW m \in AllMessages
        PROVE  Occurrences(m, steering) + Occurrences(m, followUps)
               = Occurrences(m, <<>>) + Occurrences(m, steering')
                 + Occurrences(m, followUps')
    <3>1. Occurrences(m, <<>>) = 0
      BY OccEmpty
    <3>2. Occurrences(m, steering) \in Nat /\ Occurrences(m, followUps) \in Nat
      BY <1>2, OccType
    <3>3. QED
      BY <1>5, <3>1, <3>2
  <2>3. QED
    BY <1>1, <1>2, <1>5, <2>1, <2>2, RunTurns
<1>6. QED
  BY <1>1, <1>3, <1>4, <1>5

(* An actor that sets nothing aside leaves.                                *)
LEMMA LeaveTurns ==
    ASSUME Enough, TurnInv, NEW a \in Prompts \cup Drains, phase[a] # "run",
           EndInFlight(a, followUps, parked)
    PROVE  TurnInv'
<1>1. a \in Actors /\ a \notin Wakes
  BY TurnsAssumption DEF Actors
<1>2. followUps \in Seq(Messages) /\ parked \in [Wakes -> Seq(Messages)]
  BY DEF TurnInv, QueuesOK, SetAside
<1>3. Tallied(steering, followUps, records, pending, parked, gone, sent)
  BY DEF TurnInv
<1>4. QED
  BY <1>1, <1>2, <1>3, FlightTurns

LEMMA WakeEndsTurns ==
    ASSUME Enough, TurnInv, NEW w \in Wakes, WakeEnds(w)
    PROVE  TurnInv'
<1> DEFINE held  == [parked EXCEPT ![w] = <<>>]
           later == parked[w] \o followUps
<1>1. phase[w] = "after" /\ EndInFlight(w, later, held) /\ w \in Actors
  BY DEF WakeEnds, Actors
<1>2. parked \in [Wakes -> Seq(Messages)] /\ followUps \in Seq(Messages)
  BY DEF TurnInv, QueuesOK, SetAside
<1>3. parked[w] \in Seq(Messages)
  BY <1>2
<1>4. later \in Seq(Messages)
  BY <1>2, <1>3, OccConcat
<1>5. /\ held \in [Wakes -> Seq(Messages)] /\ held[w] = <<>>
      /\ \A v \in Wakes \ {w} : held[v] = parked[v]
  <2>1. <<>> \in Seq(Messages)
    OBVIOUS
  <2>2. QED
    BY <1>2, <2>1
<1>6. ASSUME NEW m \in AllMessages
      PROVE  Tally(m, steering, later, records, pending, held, gone) = Due(m, sent)
  <2>1. Occurrences(m, later) = Occurrences(m, parked[w]) + Occurrences(m, followUps)
    BY <1>2, <1>3, OccConcat
  <2> HIDE DEF held, later
  <2>2. m \notin MessagesIn(held[w])
    BY <1>5 DEF MessagesIn
  <2>3. ParkedAt(m, held) \in SUBSET ParkedAt(m, parked)
    <3>1. ASSUME NEW v \in Wakes, m \in MessagesIn(held[v]) PROVE m \in MessagesIn(parked[v])
      <4>1. v # w
        BY <2>2, <3>1
      <4>2. held[v] = parked[v]
        BY <1>5, <4>1
      <4>3. QED
        BY <3>1, <4>2
    <3>2. QED
      BY <3>1 DEF ParkedAt
  <2>4. IsFiniteSet(ParkedAt(m, held)) /\ w \notin ParkedAt(m, held)
    BY <2>2, <2>3, TallyNow, FS_Subset DEF ParkedAt
  <2>5. Occurrences(m, parked[w]) <= 1
    BY DEF TurnInv, SetAside
  <2>6. /\ Cardinality(ParkedAt(m, parked))
             = Cardinality(ParkedAt(m, held)) + Occurrences(m, parked[w])
        /\ Cardinality(ParkedAt(m, held)) \in Nat
    <3>1. \A v \in Wakes \ {w} : parked[v] = held[v]
      BY <1>5
    <3>2. QED
      BY ZenonT(60), <1>3, <2>4, <2>5, <3>1, ParkTally
  <2>7. Occurrences(m, parked[w]) \in Nat
    BY <1>3, OccType
  <2>8. QED
    BY <2>1, <2>6, <2>7, TallyNow DEF Tally
<1> HIDE DEF held, later
<1>7. Tallied(steering, later, records, pending, held, gone, sent)
  BY <1>6 DEF Tallied
<1>8. \A v \in Wakes : held[v] = parked[v] \/ held[v] = <<>>
  BY <1>5
<1>9. QED
  BY <1>1, <1>4, <1>5, <1>7, <1>8, FlightTurns

-----------------------------------------------------------------------------
LEMMA AskPromptTurns ==
    ASSUME TurnInv, NEW p \in Prompts, AskPrompt(p)
    PROVE  TurnInv'
<1>1. p \in Actors /\ p \notin Wakes /\ "asked" \in Phases \ {"run"}
  BY TurnsAssumption DEF Actors, Phases
<1>2. /\ phase[p] = "off" /\ phase' = [phase EXCEPT ![p] = "asked"] /\ suppressed' = FALSE
      /\ UNCHANGED <<steering, followUps, records, parked, sent, gone, tail, run, owner,
                     aborted, skip, pending, newSteers, stale, count, abort, aborts>>
  BY DEF AskPrompt, queues, talk, loop
<1>3. PhasesOK(phase', owner')
  BY <1>1, <1>2, PhaseMoves DEF TurnInv
<1>4. SetAside(parked', phase')
  <2>1. phase \in [Actors -> Phases] /\ SetAside(parked, phase)
    BY DEF TurnInv, PhasesOK
  <2>2. SetAside(parked, [phase EXCEPT ![p] = "asked"])
    BY <1>1, <2>1, AsideMoves
  <2>3. QED
    BY <1>2, <2>2
<1>5. QueuesOK' /\ RunOK' /\ RestOK'
  BY <1>2 DEF TurnInv, QueuesOK, RunOK, RestOK
<1>6. Tallied(steering', followUps', records', pending', parked', gone', sent')
  BY <1>2 DEF TurnInv
<1>7. QED
  BY <1>3, <1>4, <1>5, <1>6 DEF TurnInv

LEMMA BeginPromptTurns ==
    ASSUME TurnInv, NEW p \in Prompts, BeginPrompt(p)
    PROVE  TurnInv'
<1>1. p \in Actors /\ p \notin Wakes /\ "setup" \in Phases \ {"run"}
  BY TurnsAssumption DEF Actors, Phases
<1>2. /\ phase[p] = "asked" /\ phase' = [phase EXCEPT ![p] = "setup"]
      /\ count' = count + 1 /\ records' = <<>>
      /\ gone' = gone \cup MessagesIn(records)
      /\ tail' = IF records = <<>> THEN tail ELSE "other"
      /\ UNCHANGED <<steering, followUps, parked, sent, run, owner, aborted, skip,
                     pending, newSteers, stale, abort, aborts, suppressed>>
  BY DEF BeginPrompt, Say, loop, stops
<1>3. PhasesOK(phase', owner')
  BY <1>1, <1>2, PhaseMoves DEF TurnInv
<1>4. SetAside(parked', phase')
  <2>1. phase \in [Actors -> Phases] /\ SetAside(parked, phase)
    BY DEF TurnInv, PhasesOK
  <2>2. SetAside(parked, [phase EXCEPT ![p] = "setup"])
    BY <1>1, <2>1, AsideMoves
  <2>3. QED
    BY <1>2, <2>2
<1>5. records \in Seq(Messages) /\ records' \in Seq(Messages)
  <2>1. <<>> \in Seq(Messages)
    OBVIOUS
  <2>2. records' \in Seq(Messages)
    BY <1>2, <2>1
  <2>3. QED
    BY <2>2 DEF TurnInv, QueuesOK
<1>6. MessagesIn(records) \subseteq Messages
  BY <1>5, LenProperties, ElementOfSeq DEF MessagesIn
<1>7. QueuesOK' /\ RunOK' /\ RestOK'
  BY <1>2, <1>5, <1>6 DEF TurnInv, QueuesOK, RunOK, RestOK
<1>8. ASSUME NEW m \in AllMessages
      PROVE  Tally(m, steering', followUps', records', pending', parked', gone') = Due(m, sent')
  <2>1. Occurrences(m, records') = 0
    BY <1>2, OccEmpty
  <2>2. Occurrences(m, records) + Here(m, gone) <= 1
    BY TallyNow
  <2>3. Here(m, gone') = Occurrences(m, records) + Here(m, gone)
    BY <1>2, <1>5, <2>2, SaidTally
  <2>4. QED
    BY <1>2, <2>1, <2>3, TallyNow DEF Tally
<1>9. QED
  BY <1>3, <1>4, <1>7, <1>8 DEF TurnInv, Tallied

LEMMA PromptAgentTurns ==
    ASSUME TurnInv, NEW p \in Prompts, PromptAgent(p)
    PROVE  TurnInv'
<1>1. p \in Actors /\ p \notin Wakes /\ "busy" \in Phases \ {"run"}
  BY TurnsAssumption DEF Actors, Phases
<1>2. phase[p] # "run" /\ UNCHANGED <<queues, parked, sent, stale, count, stops>>
  BY DEF PromptAgent
<1>3. CASE run = "off"
  <2>1. phase' = [phase EXCEPT ![p] = "run"] /\ StartRun(p, <<>>, FALSE)
    BY <1>3 DEF PromptAgent
  <2>2. <<>> \in Seq(Messages)
    OBVIOUS
  <2>3. /\ steering' = steering /\ followUps' = followUps
        /\ steering \in Seq(Messages) /\ followUps \in Seq(Messages)
        /\ UNCHANGED <<records, parked, sent, stale, count, stops>>
    BY <1>2 DEF queues, TurnInv, QueuesOK
  <2>4. ASSUME NEW m \in AllMessages
        PROVE  Occurrences(m, steering) + Occurrences(m, followUps)
               = Occurrences(m, <<>>) + Occurrences(m, steering')
                 + Occurrences(m, followUps')
    <3>1. Occurrences(m, <<>>) = 0
      BY OccEmpty
    <3>2. Occurrences(m, steering) \in Nat /\ Occurrences(m, followUps) \in Nat
      BY <2>3, OccType
    <3>3. QED
      BY <2>3, <3>1, <3>2
  <2>5. QED
    BY <1>1, <1>3, <2>1, <2>2, <2>3, <2>4, RunTurns
<1>4. CASE run # "off"
  <2>1. phase' = [phase EXCEPT ![p] = "busy"] /\ UNCHANGED <<talk, loop>>
    BY <1>4 DEF PromptAgent
  <2>2. UNCHANGED <<steering, followUps, records, parked, sent, gone, tail, run, owner,
                     aborted, skip, pending, newSteers, stale, count, abort, aborts, suppressed>>
    BY <1>2, <2>1 DEF queues, talk, loop, stops
  <2>3. PhasesOK(phase', owner')
    BY <1>1, <1>2, <2>1, <2>2, PhaseMoves DEF TurnInv
  <2>4. SetAside(parked', phase')
    <3>1. phase \in [Actors -> Phases] /\ SetAside(parked, phase)
      BY DEF TurnInv, PhasesOK
    <3>2. SetAside(parked, [phase EXCEPT ![p] = "busy"])
      BY <1>1, <3>1, AsideMoves
    <3>3. QED
      BY <2>1, <2>2, <3>2
  <2>5. QueuesOK' /\ RunOK' /\ RestOK'
    BY <2>2 DEF TurnInv, QueuesOK, RunOK, RestOK
  <2>6. Tallied(steering', followUps', records', pending', parked', gone', sent')
    BY <2>2 DEF TurnInv
  <2>7. QED
    BY <2>3, <2>4, <2>5, <2>6 DEF TurnInv
<1>5. QED
  BY <1>3, <1>4

-----------------------------------------------------------------------------
(* Messages.                                                               *)

LEMMA OccAppend ==
    ASSUME NEW S, NEW q \in Seq(S), NEW x \in S, NEW m
    PROVE  /\ Append(q, x) \in Seq(S)
           /\ Occurrences(m, Append(q, x)) = Occurrences(m, q) + (IF x = m THEN 1 ELSE 0)
           /\ Occurrences(m, q) \in Nat
<1>1. <<x>> \in Seq(S)
  OBVIOUS
<1>2. Append(q, x) = q \o <<x>>
  BY AppendIsConcat
<1>3. /\ Occurrences(m, q \o <<x>>) = Occurrences(m, q) + Occurrences(m, <<x>>)
      /\ q \o <<x>> \in Seq(S)
  BY <1>1, OccConcat
<1>4. Occurrences(m, <<x>>) = IF x = m THEN 1 ELSE 0
  BY OccOne
<1>5. QED
  BY <1>2, <1>3, <1>4, OccType

LEMMA NewMessage ==
    ASSUME QueuesOK, NEW k \in Kinds, Count(k)
    PROVE  /\ NextMessage(k) \in Messages
           /\ sent' \in [Kinds -> Nat] /\ \A j \in Kinds : sent'[j] <= MaxMessages[j]
           /\ \A m \in AllMessages :
                 /\ Due(m, sent') = Due(m, sent) + (IF NextMessage(k) = m THEN 1 ELSE 0)
                 /\ Due(m, sent) \in 0 .. 1
<1>1. /\ sent \in [Kinds -> Nat] /\ \A j \in Kinds : sent[j] <= MaxMessages[j]
      /\ sent[k] < MaxMessages[k] /\ sent' = [sent EXCEPT ![k] = sent[k] + 1]
      /\ MaxMessages \in [Kinds -> Nat]
  BY TurnsAssumption DEF QueuesOK, Count
<1>2. sent' \in [Kinds -> Nat] /\ \A j \in Kinds : sent'[j] <= MaxMessages[j]
  BY <1>1
<1>3. sent[k] + 1 \in Nat \ {0} /\ sent[k] + 1 <= MaxMessages[k]
  BY <1>1
<1>4. NextMessage(k) \in Messages
  BY <1>3, MessageKinds DEF NextMessage
<1>5. ASSUME NEW m \in AllMessages
      PROVE  Due(m, sent') = Due(m, sent) + (IF NextMessage(k) = m THEN 1 ELSE 0)
  <2>1. PICK j \in Kinds, i \in Nat \ {0} : m = <<j, i>>
    BY DEF AllMessages
  <2>2. m[1] = j /\ m[2] = i
    BY <2>1
  <2>3. CASE j = k
    <3>1. sent'[m[1]] = sent[k] + 1 /\ sent[m[1]] = sent[k]
      BY <1>1, <2>2, <2>3
    <3>2. NextMessage(k) = m <=> i = sent[k] + 1
      BY <2>1, <2>3 DEF NextMessage
    <3>3. i <= sent[k] + 1 <=> i <= sent[k] \/ i = sent[k] + 1
      BY <1>1
    <3>4. i = sent[k] + 1 => ~(i <= sent[k])
      BY <1>1
    <3>5. QED
      BY <2>2, <3>1, <3>2, <3>3, <3>4 DEF Due
  <2>4. CASE j # k
    <3>1. sent'[m[1]] = sent[m[1]]
      BY <1>1, <2>2, <2>4
    <3>2. NextMessage(k) # m
      BY <2>1, <2>4 DEF NextMessage
    <3>3. QED
      BY <3>1, <3>2 DEF Due
  <2>5. QED
    BY <2>3, <2>4
<1>6. \A m \in AllMessages : Due(m, sent) \in 0 .. 1
  BY DEF Due
<1>7. QED
  BY <1>2, <1>4, <1>5, <1>6

(* A message may make the session schedule a drain.                        *)
LEMMA DrainScheduled ==
    ASSUME Enough, TurnInv,
           (UNCHANGED <<phase, count>>) \/ ScheduleDrain(count, phase)
    PROVE  PhasesOK(phase', owner) /\ SetAside(parked, phase') /\ count' \in Nat
<1>1. /\ phase \in [Actors -> Phases] /\ PhasesOK(phase, owner) /\ SetAside(parked, phase)
      /\ count \in Nat
  BY DEF TurnInv, PhasesOK, RestOK
<1>2. CASE UNCHANGED <<phase, count>>
  BY <1>1, <1>2
<1>3. CASE ScheduleDrain(count, phase)
  <2> DEFINE t == FreeOf(Drains, phase)
  <2>1. t \in Drains /\ phase[t] = "off" /\ t \in Actors /\ t \notin Wakes
    BY <1>1, FreeExists, TurnsAssumption DEF Enough, PhasesOK, Actors
  <2>2. phase' = [phase EXCEPT ![t] = "setup"] /\ count' = count + 1
    BY <1>3 DEF ScheduleDrain
  <2> HIDE DEF t
  <2>3. "setup" \in Phases \ {"run"} /\ phase[t] # "run"
    BY <2>1 DEF Phases
  <2>4. PhasesOK(phase', owner)
    BY <1>1, <2>1, <2>2, <2>3, PhaseMoves
  <2>5. SetAside(parked, phase')
    BY <1>1, <2>1, <2>2, AsideMoves
  <2>6. QED
    BY <1>1, <2>2, <2>4, <2>5
<1>4. QED
  BY <1>2, <1>3

(* A message is queued.                                                    *)
LEMMA QueueTurns ==
    ASSUME Enough, TurnInv, NEW k \in Kinds, Count(k),
           \/ /\ steering' = Append(steering, NextMessage(k))
              /\ UNCHANGED <<followUps, records>>
           \/ /\ followUps' = Append(followUps, NextMessage(k))
              /\ UNCHANGED <<steering, records>>
           \/ /\ records' = Append(records, NextMessage(k))
              /\ UNCHANGED <<steering, followUps>>,
           (UNCHANGED <<phase, count>>) \/ ScheduleDrain(count, phase),
           suppressed' \in BOOLEAN,
           UNCHANGED <<parked, talk, loop, stale, abort, aborts>>
    PROVE  TurnInv'
<1>1. UNCHANGED <<parked, gone, tail, run, owner, aborted, skip, pending, newSteers,
                  stale, abort, aborts>>
  BY DEF talk, loop
<1>2. PhasesOK(phase', owner') /\ SetAside(parked', phase') /\ count' \in Nat
  BY <1>1, DrainScheduled
<1>3. /\ NextMessage(k) \in Messages
      /\ sent' \in [Kinds -> Nat] /\ \A j \in Kinds : sent'[j] <= MaxMessages[j]
  BY NewMessage DEF TurnInv
<1>4. steering \in Seq(Messages) /\ followUps \in Seq(Messages) /\ records \in Seq(Messages)
  BY DEF TurnInv, QueuesOK
<1>5. steering' \in Seq(Messages) /\ followUps' \in Seq(Messages) /\ records' \in Seq(Messages)
  BY <1>3, <1>4, OccAppend
<1>6. QueuesOK' /\ RunOK' /\ RestOK'
  BY <1>1, <1>2, <1>3, <1>5 DEF TurnInv, QueuesOK, RunOK, RestOK
<1>7. ASSUME NEW m \in AllMessages
      PROVE  Tally(m, steering', followUps', records', pending', parked', gone') = Due(m, sent')
  <2> DEFINE x  == IF NextMessage(k) = m THEN 1 ELSE 0
             oS == Occurrences(m, steering)
             oF == Occurrences(m, followUps)
             oR == Occurrences(m, records)
             oP == Occurrences(m, pending)
             nS == Occurrences(m, steering')
             nF == Occurrences(m, followUps')
             nR == Occurrences(m, records')
             pP == Cardinality(ParkedAt(m, parked))
             hh == Here(m, gone)
  <2>1. Due(m, sent') = Due(m, sent) + x
    BY NewMessage DEF TurnInv
  <2>2. /\ oS \in Nat /\ oF \in Nat /\ oR \in Nat /\ oP \in Nat /\ pP \in Nat
        /\ hh \in Nat /\ oS + oF + oR + oP + pP + hh = Due(m, sent)
    BY TallyNow
  <2>3. \/ nS = oS + x /\ nF = oF /\ nR = oR
        \/ nS = oS /\ nF = oF + x /\ nR = oR
        \/ nS = oS /\ nF = oF /\ nR = oR + x
    <3>1. /\ Occurrences(m, Append(steering, NextMessage(k))) = oS + x
          /\ Occurrences(m, Append(followUps, NextMessage(k))) = oF + x
          /\ Occurrences(m, Append(records, NextMessage(k))) = oR + x
      BY <1>3, <1>4, OccAppend
    <3>2. CASE /\ steering' = Append(steering, NextMessage(k))
               /\ UNCHANGED <<followUps, records>>
      <4>1. nF = oF /\ nR = oR /\ nS = oS + x
        BY <3>1, <3>2
      <4>2. QED
        BY <4>1
    <3>3. CASE /\ followUps' = Append(followUps, NextMessage(k))
               /\ UNCHANGED <<steering, records>>
      <4>1. nS = oS /\ nR = oR /\ nF = oF + x
        BY <3>1, <3>3
      <4>2. QED
        BY <4>1
    <3>4. CASE /\ records' = Append(records, NextMessage(k))
               /\ UNCHANGED <<steering, followUps>>
      <4>1. nS = oS /\ nF = oF /\ nR = oR + x
        BY <3>1, <3>4
      <4>2. QED
        BY <4>1
    <3>5. QED
      BY <3>2, <3>3, <3>4
  <2>4. Tally(m, steering', followUps', records', pending', parked', gone')
          = nS + nF + nR + oP + pP + hh
    BY <1>1 DEF Tally
  <2>5. x \in Nat
    OBVIOUS
  <2> HIDE DEF x, oS, oF, oR, oP, nS, nF, nR, pP, hh
  <2>6. QED
    BY <2>1, <2>2, <2>3, <2>4, <2>5
<1>8. QED
  BY <1>2, <1>6, <1>7 DEF TurnInv, Tallied

LEMMA IrcTurns ==
    ASSUME Enough, TurnInv, Irc
    PROVE  TurnInv'
<1>1. "irc" \in Kinds /\ Count("irc") /\ UNCHANGED <<steering, stale, stops>>
  BY DEF Irc, Kinds
<1>2. CASE /\ records' = Append(records, NextMessage("irc"))
           /\ UNCHANGED <<followUps, parked, talk, loop, phase, count>>
  <2>1. UNCHANGED <<abort, aborts>> /\ suppressed' \in BOOLEAN
    BY <1>1 DEF stops, TurnInv, RestOK
  <2>2. QED
    BY <1>1, <1>2, <2>1, QueueTurns
<1>3. CASE /\ ~Streaming(count)
           /\ WakeForIrc(count, phase, followUps, parked, <<NextMessage("irc")>>)
           /\ UNCHANGED records
  <2>1. run = "off" /\ owner = None /\ pending = <<>>
    BY <1>3 DEF Streaming, TurnInv, RunOK
  <2>2. /\ PhasesOK(phase, None) /\ count \in Nat /\ SetAside(parked, phase)
        /\ followUps \in Seq(Messages) /\ steering \in Seq(Messages)
        /\ records \in Seq(Messages) /\ QueuesOK /\ RestOK
    BY <2>1 DEF TurnInv, QueuesOK, RestOK
  <2>3. NextMessage("irc") \in Messages /\ sent' \in [Kinds -> Nat]
        /\ \A j \in Kinds : sent'[j] <= MaxMessages[j]
    BY <1>1, <2>2, NewMessage
  <2>4. <<NextMessage("irc")>> \in Seq(Messages)
    BY <2>3
  <2>5. ASSUME NEW m \in AllMessages
        PROVE  Occurrences(m, <<NextMessage("irc")>>)
               + Tally(m, steering, followUps, records', <<>>, parked, gone) = Due(m, sent')
    <3>1. Occurrences(m, <<NextMessage("irc")>>) = IF NextMessage("irc") = m THEN 1 ELSE 0
      BY <2>3, OccOne
    <3>2. Due(m, sent') = Due(m, sent) + (IF NextMessage("irc") = m THEN 1 ELSE 0)
      BY <1>1, <2>2, NewMessage
    <3>3. Tally(m, steering, followUps, records', <<>>, parked, gone) = Due(m, sent)
      BY <1>3, <2>1 DEF TurnInv, Tallied
    <3>4. Due(m, sent) \in Nat
      BY DEF Due
    <3>5. QED
      BY <3>1, <3>2, <3>3, <3>4
  <2>6. /\ RunOK' /\ PhasesOK(phase, owner)' /\ SetAside(parked, phase)'
        /\ followUps' \in Seq(Messages) /\ pending' = <<>>
        /\ gone' \subseteq Messages
        /\ tail' \in {"none", "assistant", "toolResult", "other"}
        /\ count' \in Nat
        /\ Tallied(steering, followUps, records, pending, parked, gone, sent)'
    <3>1. records' \in Seq(Messages) /\ steering' = steering
      BY <1>1, <1>3, <2>2
    <3>2. QED
      BY <1>3, <2>2, <2>4, <2>5, <3>1, WakeBegins
  <2>7. pending' \in Seq(Messages)
    <3>1. <<>> \in Seq(Messages)
      OBVIOUS
    <3>2. QED
      BY <2>6, <3>1
  <2>8. QueuesOK' /\ RestOK'
    BY <1>1, <1>3, <2>2, <2>3, <2>6, <2>7 DEF QueuesOK, RestOK, stops
  <2>9. QED
    BY <2>6, <2>8 DEF TurnInv
<1>4. QED
  BY <1>2, <1>3 DEF Irc

LEMMA MessageTurns ==
    ASSUME Enough, TurnInv, Steer \/ SteerOfParent \/ FollowUp \/ Irc
    PROVE  TurnInv'
<1>1. "steer" \in Kinds /\ "followUp" \in Kinds
  BY DEF Kinds
<1>2. CASE Steer
  <2>1. (UNCHANGED <<phase, count>>) \/ ScheduleDrain(count, phase)
    BY <1>2 DEF Steer
  <2>2. QED
    BY <1>1, <1>2, <2>1, QueueTurns DEF Steer
<1>3. CASE SteerOfParent
  <2>1. /\ UNCHANGED <<phase, count, stale, abort, aborts>> /\ suppressed' \in BOOLEAN
    BY <1>3 DEF SteerOfParent, actors, stops, TurnInv, RestOK
  <2>2. QED
    BY <1>1, <1>3, <2>1, QueueTurns DEF SteerOfParent
<1>4. CASE FollowUp
  <2>1. (UNCHANGED <<phase, count>>) \/ ScheduleDrain(count, phase)
    BY <1>4 DEF FollowUp
  <2>2. QED
    BY <1>1, <1>4, <2>1, QueueTurns DEF FollowUp
<1>5. QED
  BY <1>2, <1>3, <1>4, IrcTurns

(* Messages go back to the user.                                           *)
LEMMA BackTurns ==
    ASSUME TurnInv, steering' \in Seq(Messages), followUps' \in Seq(Messages),
           gone' \subseteq Messages,
           UNCHANGED <<records, parked, sent, tail, loop, actors, stops>>,
           \A m \in AllMessages :
               Occurrences(m, steering') + Occurrences(m, followUps') + Here(m, gone')
               = Occurrences(m, steering) + Occurrences(m, followUps) + Here(m, gone)
    PROVE  TurnInv'
<1>1. UNCHANGED <<records, parked, sent, tail, run, owner, aborted, skip, pending,
                  newSteers, phase, stale, count, abort, aborts, suppressed>>
  BY DEF loop, actors, stops
<1>2. QueuesOK' /\ RunOK' /\ RestOK' /\ PhasesOK(phase', owner') /\ SetAside(parked', phase')
  BY <1>1 DEF TurnInv, QueuesOK, RunOK, RestOK
<1>3. ASSUME NEW m \in AllMessages
      PROVE  Tally(m, steering', followUps', records', pending', parked', gone') = Due(m, sent')
  <2> DEFINE oS == Occurrences(m, steering)
             oF == Occurrences(m, followUps)
             oR == Occurrences(m, records)
             oP == Occurrences(m, pending)
             nS == Occurrences(m, steering')
             nF == Occurrences(m, followUps')
             pP == Cardinality(ParkedAt(m, parked))
             hh == Here(m, gone)
             hg == Here(m, gone')
  <2>1. /\ oS \in Nat /\ oF \in Nat /\ oR \in Nat /\ oP \in Nat /\ pP \in Nat
        /\ hh \in Nat /\ oS + oF + oR + oP + pP + hh = Due(m, sent)
    BY TallyNow
  <2>2. nS + nF + hg = oS + oF + hh
    OBVIOUS
  <2>3. nS \in Nat /\ nF \in Nat /\ hg \in Nat
    BY OccType DEF Here
  <2>4. /\ Tally(m, steering', followUps', records', pending', parked', gone')
             = nS + nF + oR + oP + pP + hg
        /\ Due(m, sent') = Due(m, sent)
    BY <1>1 DEF Tally
  <2> HIDE DEF oS, oF, oR, oP, nS, nF, pP, hh, hg
  <2>5. QED
    BY <2>1, <2>2, <2>3, <2>4
<1>4. QED
  BY <1>2, <1>3 DEF TurnInv, Tallied

LEMMA TakeBackTurns ==
    ASSUME TurnInv, TakeBack
    PROVE  TurnInv'
<1> DEFINE all == steering \o followUps
<1>1. /\ gone' = gone \cup MessagesIn(all) /\ steering' = <<>> /\ followUps' = <<>>
      /\ UNCHANGED <<records, parked, sent, tail, loop, actors, stops>>
  BY DEF TakeBack
<1>2. steering \in Seq(Messages) /\ followUps \in Seq(Messages) /\ gone \subseteq Messages
  BY DEF TurnInv, QueuesOK
<1>3. all \in Seq(Messages)
  BY <1>2, OccConcat
<1>4. <<>> \in Seq(Messages)
  OBVIOUS
<1>5. ASSUME NEW m \in AllMessages
      PROVE  Occurrences(m, steering') + Occurrences(m, followUps') + Here(m, gone')
               = Occurrences(m, steering) + Occurrences(m, followUps) + Here(m, gone)
  <2>1. Occurrences(m, all) = Occurrences(m, steering) + Occurrences(m, followUps)
    BY <1>2, OccConcat
  <2> HIDE DEF all
  <2>2. Occurrences(m, all) + Here(m, gone) <= 1
    BY <2>1, TallyNow
  <2>3. Here(m, gone') = Occurrences(m, all) + Here(m, gone)
    BY <1>1, <1>3, <2>2, SaidTally
  <2>4. Occurrences(m, steering') = 0 /\ Occurrences(m, followUps') = 0
    BY <1>1, OccEmpty
  <2>5. QED
    BY <2>1, <2>3, <2>4, TallyNow
<1> HIDE DEF all
<1>6. MessagesIn(all) \subseteq Messages
  BY <1>3, LenProperties, ElementOfSeq DEF MessagesIn
<1>7. steering' \in Seq(Messages) /\ followUps' \in Seq(Messages)
  BY <1>1, <1>4
<1>8. gone' \subseteq Messages
  BY <1>1, <1>2, <1>6
<1>9. QED
  BY <1>1, <1>5, <1>7, <1>8, BackTurns

(* The last message of a queue goes back.                                  *)
LEMMA LastBack ==
    ASSUME TurnInv, NEW q \in Seq(Messages), q # <<>>, NEW m \in AllMessages,
           q \in {steering, followUps},
           gone' = gone \cup {q[Len(q)]}
    PROVE  /\ SubSeq(q, 1, Len(q) - 1) \in Seq(Messages)
           /\ gone' \subseteq Messages
           /\ Occurrences(m, SubSeq(q, 1, Len(q) - 1)) + Here(m, gone')
                = Occurrences(m, q) + Here(m, gone)
           /\ Occurrences(m, SubSeq(q, 1, Len(q) - 1)) \in Nat
<1> DEFINE x == q[Len(q)]
           r == SubSeq(q, 1, Len(q) - 1)
<1>1. /\ r \in Seq(Messages) /\ x \in Messages
      /\ Occurrences(m, q) = Occurrences(m, r) + (IF x = m THEN 1 ELSE 0)
  BY OccLast
<1>2. Occurrences(m, r) \in Nat
  BY <1>1, OccType
<1>3. Occurrences(m, q) + Here(m, gone) <= 1
  <2>1. CASE q = steering
    BY <2>1, TallyNow
  <2>2. CASE q = followUps
    BY <2>2, TallyNow
  <2>3. QED
    BY <2>1, <2>2
<1>4. gone' = gone \cup {x} /\ gone \subseteq Messages
  BY DEF TurnInv, QueuesOK
<1> HIDE DEF x, r
<1>5. Occurrences(m, r) + Here(m, gone') = Occurrences(m, q) + Here(m, gone)
  BY <1>1, <1>2, <1>3, <1>4 DEF Here
<1>6. gone' \subseteq Messages
  BY <1>1, <1>4
<1>7. QED
  BY <1>1, <1>2, <1>5, <1>6 DEF r

LEMMA TakeLastBackTurns ==
    ASSUME TurnInv, TakeLastBack
    PROVE  TurnInv'
<1>1. /\ UNCHANGED <<records, parked, sent, tail, loop, actors, stops>>
      /\ \/ /\ steering # <<>> /\ gone' = gone \cup {steering[Len(steering)]}
            /\ steering' = SubSeq(steering, 1, Len(steering) - 1)
            /\ followUps' = followUps
         \/ /\ followUps # <<>> /\ gone' = gone \cup {followUps[Len(followUps)]}
            /\ followUps' = SubSeq(followUps, 1, Len(followUps) - 1)
            /\ steering' = steering
  BY DEF TakeLastBack
<1>2. steering \in Seq(Messages) /\ followUps \in Seq(Messages)
  BY DEF TurnInv, QueuesOK
<1>3. ASSUME NEW m \in AllMessages
      PROVE  /\ steering' \in Seq(Messages) /\ followUps' \in Seq(Messages)
             /\ gone' \subseteq Messages
             /\ Occurrences(m, steering') + Occurrences(m, followUps') + Here(m, gone')
                = Occurrences(m, steering) + Occurrences(m, followUps) + Here(m, gone)
  <2> DEFINE oS == Occurrences(m, steering)
             oF == Occurrences(m, followUps)
             nS == Occurrences(m, steering')
             nF == Occurrences(m, followUps')
             hh == Here(m, gone)
             hg == Here(m, gone')
  <2>1. oS \in Nat /\ oF \in Nat /\ hh \in Nat /\ hg \in Nat
    BY TallyNow DEF Here
  <2>2. CASE /\ steering # <<>> /\ gone' = gone \cup {steering[Len(steering)]}
             /\ steering' = SubSeq(steering, 1, Len(steering) - 1)
             /\ followUps' = followUps
    <3>1. /\ steering' \in Seq(Messages) /\ gone' \subseteq Messages
          /\ nS + hg = oS + hh /\ nS \in Nat
      BY <1>2, <2>2, LastBack
    <3>2. nF = oF
      BY <2>2
    <3>3. nS + nF + hg = oS + oF + hh
      <4> HIDE DEF oS, oF, nS, nF, hh, hg
      <4>1. QED
        BY <2>1, <3>1, <3>2
    <3>4. QED
      BY <1>2, <2>2, <3>1, <3>3
  <2>3. CASE /\ followUps # <<>> /\ gone' = gone \cup {followUps[Len(followUps)]}
             /\ followUps' = SubSeq(followUps, 1, Len(followUps) - 1)
             /\ steering' = steering
    <3>1. /\ followUps' \in Seq(Messages) /\ gone' \subseteq Messages
          /\ nF + hg = oF + hh /\ nF \in Nat
      BY <1>2, <2>3, LastBack
    <3>2. nS = oS
      BY <2>3
    <3>3. nS + nF + hg = oS + oF + hh
      <4> HIDE DEF oS, oF, nS, nF, hh, hg
      <4>1. QED
        BY <2>1, <3>1, <3>2
    <3>4. QED
      BY <1>2, <2>3, <3>1, <3>3
  <2>4. QED
    BY <1>1, <2>2, <2>3
<1>4. /\ steering' \in Seq(Messages) /\ followUps' \in Seq(Messages)
      /\ gone' \subseteq Messages
  <2>1. <<"steer", 1>> \in AllMessages
    BY MessageKinds DEF Kinds
  <2>2. QED
    BY <1>3, <2>1
<1>5. QED
  BY <1>1, <1>3, <1>4, BackTurns

-----------------------------------------------------------------------------
(* Aborts, and the whole.                                                  *)

LEMMA AbortBeginsTurns ==
    ASSUME TurnInv, NEW user \in BOOLEAN, AbortBegins(user)
    PROVE  TurnInv'
<1>1. /\ abort' = "drains" /\ aborts' = aborts + 1
      /\ suppressed' = (suppressed \/ user)
      /\ stale' \subseteq stale \cup Actors
      /\ aborted' = (run # "off")
      /\ UNCHANGED <<steering, followUps, records, parked, sent, gone, tail, run, owner,
                     skip, pending, newSteers, phase, count>>
  BY DEF AbortBegins, queues, talk, Actors
<1>2. QueuesOK' /\ PhasesOK(phase', owner') /\ SetAside(parked', phase')
  BY <1>1 DEF TurnInv, QueuesOK
<1>3. RunOK'
  BY <1>1 DEF TurnInv, RunOK
<1>4. suppressed' \in BOOLEAN
  BY <1>1 DEF TurnInv, RestOK
<1>5. RestOK'
  BY <1>1, <1>4 DEF TurnInv, RestOK
<1>6. Tallied(steering', followUps', records', pending', parked', gone', sent')
  BY <1>1 DEF TurnInv
<1>7. QED
  BY <1>2, <1>3, <1>5, <1>6 DEF TurnInv

LEMMA AbortSettlesTurns ==
    ASSUME TurnInv, AbortSettles
    PROVE  TurnInv'
<1>1. /\ abort' \in {"settling", "run"}
      /\ UNCHANGED <<steering, followUps, records, parked, sent, gone, tail, run, owner,
                     aborted, skip, pending, newSteers, phase, stale, count, aborts,
                     suppressed>>
  BY DEF AbortSettles, queues, talk, loop, actors
<1>2. /\ QueuesOK' /\ PhasesOK(phase', owner') /\ SetAside(parked', phase')
      /\ RunOK' /\ RestOK'
  BY <1>1 DEF TurnInv, QueuesOK, RunOK, RestOK
<1>3. Tallied(steering', followUps', records', pending', parked', gone', sent')
  BY <1>1 DEF TurnInv
<1>4. QED
  BY <1>2, <1>3 DEF TurnInv

LEMMA AbortEndsTurns ==
    ASSUME Enough, TurnInv, AbortEnds
    PROVE  TurnInv'
<1>1. /\ abort' = "no" /\ DrainStranded(0, phase, followUps, parked)
      /\ UNCHANGED <<steering, sent, stale, aborts, suppressed>>
  BY DEF AbortEnds
<1>2. /\ PhasesOK(phase, owner) /\ followUps \in Seq(Messages) /\ SetAside(parked, phase)
      /\ QueuesOK /\ RunOK /\ RestOK
      /\ Tallied(steering, followUps, records, pending, parked, gone, sent)
  BY DEF TurnInv, QueuesOK
<1>3. /\ QueuesOK' /\ RunOK' /\ TailOK' /\ count' \in Nat
      /\ PhasesOK(phase, owner)' /\ SetAside(parked, phase)'
      /\ Tallied(steering, followUps, records, pending, parked, gone, sent)'
  BY <1>1, <1>2, StrandedTurns
<1>4. RestOK'
  BY <1>1, <1>2, <1>3 DEF RestOK, TailOK
<1>5. QED
  BY <1>3, <1>4 DEF TurnInv

LEMMA RemarkTurns ==
    ASSUME TurnInv, Remark
    PROVE  TurnInv'
<1>1. /\ tail' = "other"
      /\ UNCHANGED <<steering, followUps, records, parked, sent, gone, run, owner,
                     aborted, skip, pending, newSteers, phase, stale, count, abort,
                     aborts, suppressed>>
  BY DEF Remark, queues, loop, actors, stops
<1>2. /\ QueuesOK' /\ PhasesOK(phase', owner') /\ SetAside(parked', phase')
      /\ RunOK' /\ RestOK'
  BY <1>1 DEF TurnInv, QueuesOK, RunOK, RestOK
<1>3. Tallied(steering', followUps', records', pending', parked', gone', sent')
  BY <1>1 DEF TurnInv
<1>4. QED
  BY <1>2, <1>3 DEF TurnInv

LEMMA TurnsUnchanged ==
    ASSUME TurnInv, UNCHANGED vars
    PROVE  TurnInv'
<1>1. UNCHANGED <<steering, followUps, records, parked, sent, gone, tail, run, owner,
                  aborted, skip, pending, newSteers, phase, stale, count, abort,
                  aborts, suppressed>>
  BY DEF vars, queues, talk, loop, actors, stops
<1>2. /\ QueuesOK' /\ PhasesOK(phase', owner') /\ SetAside(parked', phase')
      /\ RunOK' /\ RestOK'
  BY <1>1 DEF TurnInv, QueuesOK, RunOK, RestOK
<1>3. Tallied(steering', followUps', records', pending', parked', gone', sent')
  BY <1>1 DEF TurnInv
<1>4. QED
  BY <1>2, <1>3 DEF TurnInv

LEMMA TurnsStep ==
    ASSUME Enough, TurnInv, [Next]_vars
    PROVE  TurnInv'
<1>1. ASSUME NEW t \in Drains, DrainSteps(t) PROVE TurnInv'
  BY <1>1, DrainContinuesTurns, LeaveTurns DEF DrainSteps, DrainGivesUp, DrainEnds
<1>2. ASSUME NEW p \in Prompts, AskPrompt(p) \/ PromptSteps(p) PROVE TurnInv'
  <2>1. CASE PromptGivesUp(p) \/ PromptEnds(p)
    <3>1. phase[p] # "run" /\ EndInFlight(p, followUps, parked)
      BY <2>1 DEF PromptGivesUp, PromptEnds
    <3>2. QED
      BY <3>1, LeaveTurns
  <2>2. QED
    BY <1>2, <2>1, AskPromptTurns, BeginPromptTurns, PromptAgentTurns DEF PromptSteps
<1>3. QED
  BY <1>1, <1>2, LoopTurns, WakeEndsTurns, MessageTurns, TakeBackTurns, TakeLastBackTurns,
     RemarkTurns, AbortBeginsTurns, AbortSettlesTurns, AbortEndsTurns, TurnsUnchanged
  DEF Next, AbortSteps

LEMMA TurnsBegin == Init => TurnInv
<1> SUFFICES ASSUME Init PROVE TurnInv
  OBVIOUS
<1>1. <<>> \in Seq(Messages)
  OBVIOUS
<1>2. /\ steering = <<>> /\ followUps = <<>> /\ records = <<>> /\ pending = <<>>
      /\ parked = [w \in Wakes |-> <<>>] /\ sent = [k \in Kinds |-> 0] /\ gone = {}
      /\ phase = [a \in Actors |-> "off"] /\ owner = None /\ run = "off"
  BY DEF Init
<1>3. QueuesOK
  <2>1. \A k \in Kinds : sent[k] = 0 /\ MaxMessages[k] \in Nat
    BY <1>2, TurnsAssumption
  <2>2. /\ steering \in Seq(Messages) /\ followUps \in Seq(Messages)
        /\ records \in Seq(Messages) /\ pending \in Seq(Messages)
    BY <1>1, <1>2
  <2>3. QED
    BY <1>2, <2>1, <2>2 DEF QueuesOK
<1>4. RunOK /\ RestOK
  BY DEF Init, RunOK, RestOK
<1>5. PhasesOK(phase, owner)
  <2>1. Busy(Drains, phase) = {} /\ Busy(Wakes, phase) = {}
    BY <1>2 DEF Busy, Actors
  <2>2. QED
    BY <1>2, <2>1, FS_EmptySet, TurnsAssumption DEF PhasesOK, Phases
<1>6. SetAside(parked, phase)
  <2>1. parked \in [Wakes -> Seq(Messages)]
    BY <1>1, <1>2
  <2>2. \A w \in Wakes : parked[w] = <<>>
    BY <1>2
  <2>3. \A w \in Wakes, m \in AllMessages : Occurrences(m, parked[w]) <= 1
    <3>1. \A m : Occurrences(m, <<>>) <= 1
      BY OccEmpty
    <3>2. QED
      BY <2>2, <3>1
  <2>4. QED
    BY <2>1, <2>2, <2>3 DEF SetAside
<1>7. ASSUME NEW m \in AllMessages
      PROVE  Tally(m, steering, followUps, records, pending, parked, gone) = Due(m, sent)
  <2>1. Occurrences(m, <<>>) = 0
    BY OccEmpty
  <2>2. ParkedAt(m, parked) = {}
    BY <1>2 DEF ParkedAt, MessagesIn
  <2>3. Cardinality(ParkedAt(m, parked)) = 0
    BY <2>2, FS_EmptySet
  <2>4. Due(m, sent) = 0 /\ Here(m, gone) = 0
    <3>1. m[1] \in Kinds /\ m[2] \in Nat \ {0}
      BY DEF AllMessages
    <3>2. sent[m[1]] = 0
      BY <1>2, <3>1
    <3>3. QED
      BY <1>2, <3>1, <3>2 DEF Due, Here
  <2>5. QED
    BY <1>2, <2>1, <2>3, <2>4 DEF Tally
<1>8. QED
  BY <1>3, <1>4, <1>5, <1>6, <1>7 DEF TurnInv, Tallied

LEMMA TurnsInvariance ==
    ASSUME Enough
    PROVE  Spec => []TurnInv
<1>1. TurnInv /\ [Next]_vars => TurnInv'
  BY TurnsStep
<1>2. QED
  BY <1>1, TurnsBegin, PTL DEF Spec

(* Type correctness, and its bookkeeping: the phase of an actor says whose *)
(* run it is, and an agent without a run has nothing pending and no abort  *)
(* signal left (Agent.#runLoop's cleanup).                                 *)
THEOREM TurnsTypeOK ==
    ASSUME Enough
    PROVE  Spec => []TypeOK
<1>1. TurnInv => TypeOK
  BY DEF TurnInv, QueuesOK, RunOK, RestOK, PhasesOK, SetAside, TypeOK
<1>2. QED
  BY <1>1, TurnsInvariance, PTL

(* No message is lost or delivered twice: what steer, followUp or          *)
(* deliverIrcMessage has queued is at any time in exactly one queue, with  *)
(* the loop or a wake, in the conversation, or back with the user, for any *)
(* number of prompts, drains, wakes, messages and aborts.                  *)
THEOREM MessagesAreInOnePlace ==
    ASSUME Enough
    PROVE  Spec => []InOnePlace
<1>1. ASSUME TurnInv, NEW k \in Kinds, NEW i \in 1 .. sent[k]
      PROVE  Places(<<k, i>>) = 1
  <2> DEFINE m == <<k, i>>
  <2>1. sent[k] \in Nat
    BY <1>1 DEF TurnInv, QueuesOK
  <2>2. i \in Nat \ {0} /\ i <= sent[k]
    BY <2>1
  <2>3. m \in AllMessages /\ m[1] = k /\ m[2] = i
    BY <2>2, MessageKinds
  <2> HIDE DEF m
  <2>4. Due(m, sent) = 1
    BY <2>2, <2>3 DEF Due
  <2>5. /\ steering \in Seq(Messages) /\ followUps \in Seq(Messages)
        /\ records \in Seq(Messages) /\ pending \in Seq(Messages)
    BY <1>1 DEF TurnInv, QueuesOK
  <2> DEFINE q1 == steering \o followUps
             q2 == q1 \o records
             q3 == q2 \o pending
  <2>6. /\ q1 \in Seq(Messages)
        /\ Occurrences(m, q1) = Occurrences(m, steering) + Occurrences(m, followUps)
    BY <2>5, OccConcat
  <2>7. /\ q2 \in Seq(Messages)
        /\ Occurrences(m, q2) = Occurrences(m, q1) + Occurrences(m, records)
    <3> HIDE DEF q1
    <3>1. QED
      BY <2>5, <2>6, OccConcat
  <2>8. Occurrences(m, q3) = Occurrences(m, q2) + Occurrences(m, pending)
    <3> HIDE DEF q2
    <3>1. QED
      BY <2>5, <2>7, OccConcat
  <2>9. Cardinality(gone \cap {m}) = Here(m, gone)
    <3>1. CASE m \in gone
      <4>1. gone \cap {m} = {m}
        BY <3>1
      <4>2. QED
        BY <3>1, <4>1, FS_Singleton DEF Here
    <3>2. CASE m \notin gone
      <4>1. gone \cap {m} = {}
        BY <3>2
      <4>2. QED
        BY <3>2, <4>1, FS_EmptySet DEF Here
    <3>3. QED
      BY <3>1, <3>2
  <2>10. ParkedPlaces(m) = ParkedAt(m, parked)
    BY DEF ParkedPlaces, ParkedAt
  <2>11. Places(m) = Occurrences(m, q3) + Cardinality(ParkedAt(m, parked)) + Here(m, gone)
    BY <2>9, <2>10 DEF Places
  <2> HIDE DEF q1, q2, q3
  <2>12. Places(m) = 1
    <3>1. /\ Occurrences(m, steering) \in Nat /\ Occurrences(m, followUps) \in Nat
          /\ Occurrences(m, records) \in Nat /\ Occurrences(m, pending) \in Nat
          /\ Cardinality(ParkedAt(m, parked)) \in Nat /\ Here(m, gone) \in Nat
          /\ Occurrences(m, steering) + Occurrences(m, followUps)
             + Occurrences(m, records) + Occurrences(m, pending)
             + Cardinality(ParkedAt(m, parked)) + Here(m, gone) = 1
      BY <1>1, <2>3, <2>4, TallyNow
    <3>2. QED
      BY <2>6, <2>7, <2>8, <2>11, <3>1
  <2>13. QED
    BY <2>12 DEF m
<1>2. TurnInv => InOnePlace
  BY <1>1 DEF InOnePlace
<1>3. QED
  BY <1>2, TurnsInvariance, PTL

-----------------------------------------------------------------------------
(* Nobody is stranded.                                                     *)

(* The count may lag behind those who are under way, since an abort resets *)
(* it, but never exceeds them: the last to leave finds it at zero.         *)
Tended(ph, c) == IsFiniteSet(UnderWay(ph)) /\ c <= Cardinality(UnderWay(ph))

Working == {"setup", "busy", "run", "after"}

LEMMA Joins ==
    ASSUME NEW ph \in [Actors -> Phases], NEW c \in Nat, Tended(ph, c),
           NEW a \in Actors, ph[a] \notin Working, NEW x \in Working
    PROVE  Tended([ph EXCEPT ![a] = x], c + 1) /\ UnderWay([ph EXCEPT ![a] = x]) # {}
<1> DEFINE U == UnderWay(ph)
           next == [ph EXCEPT ![a] = x]
<1>1. UnderWay(next) = U \cup {a} /\ a \notin U
  BY DEF UnderWay, Working
<1>2. IsFiniteSet(U) /\ Cardinality(U) \in Nat /\ c <= Cardinality(U)
  BY FS_CardinalityType DEF Tended
<1> HIDE DEF U, next
<1>3. IsFiniteSet(U \cup {a}) /\ Cardinality(U \cup {a}) = Cardinality(U) + 1
  BY <1>1, <1>2, FS_AddElement
<1>4. Tended(next, c + 1) /\ UnderWay(next) # {}
  BY <1>1, <1>2, <1>3 DEF Tended
<1>5. QED
  BY <1>4 DEF next

LEMMA Works ==
    ASSUME NEW ph \in [Actors -> Phases], NEW c \in Nat, Tended(ph, c),
           NEW a \in Actors, ph[a] \in Working, NEW x \in Working
    PROVE  Tended([ph EXCEPT ![a] = x], c) /\ UnderWay([ph EXCEPT ![a] = x]) # {}
<1>1. UnderWay([ph EXCEPT ![a] = x]) = UnderWay(ph) /\ a \in UnderWay(ph)
  BY DEF UnderWay, Working
<1>2. QED
  BY <1>1 DEF Tended

LEMMA Quits ==
    ASSUME NEW ph \in [Actors -> Phases], NEW c \in Nat, Tended(ph, c),
           NEW a \in Actors, ph[a] \in Working, NEW x \in Phases \ Working
    PROVE  LET left == IF c = 0 THEN 0 ELSE c - 1
               next == [ph EXCEPT ![a] = x]
           IN  Tended(next, left) /\ (left > 0 => UnderWay(next) # {})
<1> DEFINE U == UnderWay(ph)
           left == IF c = 0 THEN 0 ELSE c - 1
           next == [ph EXCEPT ![a] = x]
<1>1. UnderWay(next) = U \ {a} /\ a \in U
  BY DEF UnderWay, Working
<1>2. IsFiniteSet(U) /\ Cardinality(U) \in Nat /\ c <= Cardinality(U)
  BY FS_CardinalityType DEF Tended
<1> HIDE DEF U, next
<1>3. IsFiniteSet(U \ {a}) /\ Cardinality(U \ {a}) = Cardinality(U) - 1
  BY <1>1, <1>2, FS_RemoveElement
<1>4. Cardinality(U \ {a}) \in Nat
  BY <1>3, FS_CardinalityType
<1>5. U \ {a} = {} => Cardinality(U \ {a}) = 0
  BY FS_EmptySet
<1>6. Tended(next, left) /\ (left > 0 => UnderWay(next) # {})
  BY <1>1, <1>2, <1>3, <1>4, <1>5 DEF Tended
<1>7. QED
  BY <1>6 DEF next

(* Whoever has the run is under way, and so is someone when c is positive. *)
LEMMA StreamingIsWork ==
    ASSUME NEW ph, PhasesOK(ph, owner), RunOK, NEW c \in Nat, Tended(ph, c), Streaming(c)
    PROVE  UnderWay(ph) # {}
<1>1. CASE run # "off"
  <2>1. owner \in Actors /\ ph[owner] = "run"
    BY <1>1 DEF RunOK, PhasesOK
  <2>2. QED
    BY <2>1 DEF UnderWay
<1>2. CASE c > 0
  <2>1. UnderWay(ph) = {} => Cardinality(UnderWay(ph)) = 0
    BY FS_EmptySet
  <2>2. QED
    BY <1>2, <2>1 DEF Tended
<1>3. QED
  BY <1>1, <1>2 DEF Streaming

LEMMA DrainIsWork ==
    ASSUME Enough, NEW ph, NEW o, PhasesOK(ph, o), NEW c \in Nat, Tended(ph, c),
           ScheduleDrain(c, ph)
    PROVE  Tended(phase', count') /\ UnderWay(phase') # {}
<1> DEFINE t == FreeOf(Drains, ph)
<1>1. t \in Drains /\ ph[t] = "off" /\ t \in Actors
  BY FreeExists DEF Enough, PhasesOK, Actors
<1>2. phase' = [ph EXCEPT ![t] = "setup"] /\ count' = c + 1
  BY DEF ScheduleDrain
<1> HIDE DEF t
<1>3. ph \in [Actors -> Phases] /\ ph[t] \notin Working /\ "setup" \in Working
  BY <1>1 DEF PhasesOK, Working
<1>4. QED
  BY <1>1, <1>2, <1>3, Joins

LEMMA WakeIsWork ==
    ASSUME Enough, NEW ph, NEW o, PhasesOK(ph, o), NEW c \in Nat, Tended(ph, c),
           NEW later, NEW held, NEW messages, WakeForIrc(c, ph, later, held, messages)
    PROVE  Tended(phase', count') /\ UnderWay(phase') # {}
<1> DEFINE w == FreeOf(Wakes, ph)
<1>1. w \in Wakes /\ ph[w] = "off" /\ w \in Actors
  BY FreeExists DEF Enough, PhasesOK, Actors
<1>2. phase' = [ph EXCEPT ![w] = "run"] /\ count' = c + 1
  BY DEF WakeForIrc
<1> HIDE DEF w
<1>3. ph \in [Actors -> Phases] /\ ph[w] \notin Working /\ "run" \in Working
  BY <1>1 DEF PhasesOK, Working
<1>4. QED
  BY <1>1, <1>2, <1>3, Joins

(* When nobody is counted, a drain of stranded messages leaves none: they  *)
(* are resumed or woken for, or a run is under way.                        *)
LEMMA StrandedAreTended ==
    ASSUME Enough, NEW ph, PhasesOK(ph, owner), RunOK, Tended(ph, 0),
           NEW later, NEW held, DrainStranded(0, ph, later, held), steering' = steering
    PROVE  /\ Tended(phase', count')
           /\ UnderWay(phase') = {} => steering' = <<>> /\ records' = <<>>
<1>1. CASE ScheduleDrain(0, ph)
  BY <1>1, DrainIsWork
<1>2. CASE WakeForIrc(0, ph, later, held, records)
  BY <1>2, WakeIsWork
<1>3. CASE /\ ~(CanAuto(0) /\ (steering # <<>> \/ later # <<>>))
           /\ ~(~Streaming(0) /\ records # <<>>)
           /\ count' = 0 /\ phase' = ph /\ UNCHANGED records
  <2>1. Streaming(0) => UnderWay(ph) # {}
    BY StreamingIsWork
  <2>2. ~Streaming(0) => steering = <<>> /\ records = <<>>
    BY <1>3 DEF CanAuto
  <2>3. QED
    BY <1>3, <2>1, <2>2
<1>4. QED
  BY <1>1, <1>2, <1>3 DEF DrainStranded

HeardInv == Tended(phase, count) /\ NoneIsStranded

(* Who leaves looks after the queues if he is the last who is counted, and *)
(* otherwise another is under way.                                         *)
LEMMA FlightHeard ==
    ASSUME Enough, TurnInv, HeardInv, NEW a \in Actors,
           phase[a] \in Working \ {"run"}, NEW later, NEW held, EndInFlight(a, later, held)
    PROVE  HeardInv'
<1> DEFINE c  == IF count = 0 THEN 0 ELSE count - 1
           x  == IF a \in Prompts THEN "done" ELSE "off"
           ph == [phase EXCEPT ![a] = x]
<1>1. phase \in [Actors -> Phases] /\ count \in Nat /\ x \in Phases \ Working
  BY DEF TurnInv, PhasesOK, RestOK, Phases, Working
<1>2. c \in Nat
  BY <1>1
<1>3. /\ IF c = 0 /\ abort = "no"
         THEN DrainStranded(c, ph, later, held)
         ELSE count' = c /\ phase' = ph /\ UNCHANGED records
      /\ steering' = steering /\ abort' = abort
  BY DEF EndInFlight, stops
<1> HIDE DEF x
<1>4. Tended(ph, c) /\ (c > 0 => UnderWay(ph) # {})
  BY <1>1, Quits DEF HeardInv
<1>5. PhasesOK(ph, owner) /\ RunOK
  BY <1>1, PhaseMoves DEF TurnInv, Working
<1> HIDE DEF c, ph
<1>6. CASE c = 0 /\ abort = "no"
  BY <1>3, <1>4, <1>5, <1>6, StrandedAreTended DEF HeardInv, NoneIsStranded
<1>7. CASE ~(c = 0 /\ abort = "no")
  BY <1>2, <1>3, <1>4, <1>7 DEF HeardInv, NoneIsStranded
<1>8. QED
  BY <1>6, <1>7

(* Steps of a run, which has an owner.                                     *)
LEMMA LoopHeard ==
    ASSUME TurnInv, HeardInv, LoopSteps
    PROVE  HeardInv'
<1>1. /\ run # "off" /\ owner \in Actors /\ phase[owner] = "run" /\ count \in Nat
      /\ phase \in [Actors -> Phases]
  <2>1. run # "off"
    BY DEF LoopSteps, InitialPoll, Inject, Boundary, LastPoll, RunEnds, Answer, CallFails
  <2>2. QED
    BY <2>1 DEF TurnInv, RunOK, PhasesOK, RestOK
<1>2. CASE RunEnds
  <2>1. phase' = [phase EXCEPT ![owner] = "after"] /\ count' = count
    BY <1>2 DEF RunEnds
  <2>2. Tended(phase', count') /\ UnderWay(phase') # {}
    BY <1>1, <2>1, Works DEF HeardInv, Working
  <2>3. QED
    BY <2>2 DEF HeardInv, NoneIsStranded
<1>3. CASE ~RunEnds
  <2>1. phase' = phase /\ count' = count
    BY <1>3 DEF LoopSteps, InitialPoll, Inject, Boundary, LastPoll, Answer, CallFails, actors
  <2>2. owner \in UnderWay(phase)
    BY <1>1 DEF UnderWay
  <2>3. QED
    BY <2>1, <2>2 DEF HeardInv, NoneIsStranded, Tended
<1>4. QED
  BY <1>2, <1>3

(* Actors that go on, begin or leave.                                      *)
LEMMA ActorHeard ==
    ASSUME Enough, TurnInv, HeardInv,
           \/ \E t \in Drains : DrainSteps(t)
           \/ \E w \in Wakes : WakeEnds(w)
           \/ \E p \in Prompts : AskPrompt(p) \/ PromptSteps(p)
    PROVE  HeardInv'
<1>1. phase \in [Actors -> Phases] /\ count \in Nat
  BY DEF TurnInv, PhasesOK, RestOK
<1>2. Drains \subseteq Actors /\ Wakes \subseteq Actors /\ Prompts \subseteq Actors
  BY DEF Actors
<1>3. ASSUME NEW a \in Actors, phase[a] \in Working, NEW x \in Working,
             phase' = [phase EXCEPT ![a] = x], count' = count
      PROVE  HeardInv'
  BY <1>1, <1>3, Works DEF HeardInv, NoneIsStranded
<1>4. ASSUME NEW t \in Drains, DrainSteps(t) PROVE HeardInv'
  <2>1. CASE DrainContinues(t)
    <3>1. phase[t] \in Working /\ "run" \in Working
          /\ phase' = [phase EXCEPT ![t] = "run"] /\ count' = count
      BY <2>1 DEF DrainContinues, Working
    <3>2. QED
      BY <1>2, <1>3, <3>1
  <2>2. CASE DrainGivesUp(t) \/ DrainEnds(t)
    <3>1. phase[t] \in Working \ {"run"} /\ EndInFlight(t, followUps, parked)
      BY <2>2 DEF DrainGivesUp, DrainEnds, Working
    <3>2. QED
      BY <1>2, <3>1, FlightHeard
  <2>3. QED
    BY <1>4, <2>1, <2>2 DEF DrainSteps
<1>5. ASSUME NEW w \in Wakes, WakeEnds(w) PROVE HeardInv'
  <2>1. /\ phase[w] \in Working \ {"run"}
        /\ EndInFlight(w, parked[w] \o followUps, [parked EXCEPT ![w] = <<>>])
    BY <1>5 DEF WakeEnds, Working
  <2>2. QED
    BY <1>2, <2>1, FlightHeard
<1>6. ASSUME NEW p \in Prompts, AskPrompt(p) PROVE HeardInv'
  <2>1. /\ phase' = [phase EXCEPT ![p] = "asked"] /\ phase[p] = "off"
        /\ UNCHANGED <<steering, records, count, abort>>
    BY <1>6 DEF AskPrompt, queues
  <2>2. UnderWay(phase') = UnderWay(phase)
    BY <1>1, <1>2, <2>1 DEF UnderWay
  <2>3. QED
    BY <2>1, <2>2 DEF HeardInv, NoneIsStranded, Tended
<1>7. ASSUME NEW p \in Prompts, PromptSteps(p) PROVE HeardInv'
  <2>1. CASE BeginPrompt(p)
    <3>1. /\ phase' = [phase EXCEPT ![p] = "setup"] /\ phase[p] \notin Working
          /\ count' = count + 1 /\ "setup" \in Working
      BY <2>1 DEF BeginPrompt, Working
    <3>2. Tended(phase', count') /\ UnderWay(phase') # {}
      BY <1>1, <1>2, <3>1, Joins DEF HeardInv
    <3>3. QED
      BY <3>2 DEF HeardInv, NoneIsStranded
  <2>2. CASE PromptAgent(p)
    <3>1. /\ phase[p] \in Working /\ count' = count
          /\ \E x \in Working : phase' = [phase EXCEPT ![p] = x]
      BY <2>2 DEF PromptAgent, Working
    <3>2. QED
      BY <1>2, <1>3, <3>1
  <2>3. CASE PromptGivesUp(p) \/ PromptEnds(p)
    <3>1. phase[p] \in Working \ {"run"} /\ EndInFlight(p, followUps, parked)
      BY <2>3 DEF PromptGivesUp, PromptEnds, Working
    <3>2. QED
      BY <1>2, <3>1, FlightHeard
  <2>4. QED
    BY <1>7, <2>1, <2>2, <2>3 DEF PromptSteps
<1>8. QED
  BY <1>4, <1>5, <1>6, <1>7

(* Messages that come in find somebody under way or start him.             *)
LEMMA MessageHeard ==
    ASSUME Enough, TurnInv, HeardInv, Steer \/ SteerOfParent \/ FollowUp \/ Irc
    PROVE  HeardInv'
<1>1. PhasesOK(phase, owner) /\ RunOK /\ count \in Nat /\ Tended(phase, count)
  BY DEF TurnInv, RestOK, HeardInv
<1>2. ASSUME UNCHANGED <<phase, count>>, Streaming(count) PROVE HeardInv'
  BY <1>1, <1>2, StreamingIsWork DEF HeardInv, NoneIsStranded
<1>3. ASSUME ScheduleDrain(count, phase) PROVE HeardInv'
  BY <1>1, <1>3, DrainIsWork DEF HeardInv, NoneIsStranded
<1>4. CASE Steer
  BY <1>2, <1>3, <1>4 DEF Steer
<1>5. CASE SteerOfParent
  BY <1>2, <1>5 DEF SteerOfParent, actors
<1>6. CASE FollowUp
  <2>1. CASE UNCHANGED <<phase, count>>
    BY <1>6, <2>1 DEF FollowUp, HeardInv, NoneIsStranded, Tended
  <2>2. QED
    BY <1>3, <1>6, <2>1 DEF FollowUp
<1>7. CASE Irc
  <2>1. ASSUME WakeForIrc(count, phase, followUps, parked, <<NextMessage("irc")>>)
        PROVE  HeardInv'
    BY <1>1, <2>1, WakeIsWork DEF HeardInv, NoneIsStranded
  <2>2. QED
    BY <1>2, <1>7, <2>1 DEF Irc
<1>8. QED
  BY <1>4, <1>5, <1>6, <1>7

(* The user takes messages back, remarks something or aborts.              *)
LEMMA UserHeard ==
    ASSUME Enough, TurnInv, HeardInv,
           TakeBack \/ TakeLastBack \/ Remark \/ (\E user \in BOOLEAN : AbortBegins(user))
              \/ AbortSteps
    PROVE  HeardInv'
<1>1. CASE TakeBack \/ TakeLastBack \/ Remark
  <2>1. UNCHANGED <<phase, count, abort, records>>
    BY <1>1 DEF TakeBack, TakeLastBack, Remark, queues, actors, stops
  <2>2. steering = <<>> => steering' = <<>>
    BY <1>1 DEF TakeBack, TakeLastBack, Remark, queues
  <2>3. QED
    BY <2>1, <2>2 DEF HeardInv, NoneIsStranded, Tended
<1>2. CASE (\E user \in BOOLEAN : AbortBegins(user)) \/ AbortSettles
  <2>1. UNCHANGED <<phase, count>> /\ abort' # "no"
    BY <1>2 DEF AbortBegins, AbortSettles, actors
  <2>2. QED
    BY <2>1 DEF HeardInv, NoneIsStranded, Tended
<1>3. CASE AbortEnds
  <2>1. /\ abort' = "no" /\ DrainStranded(0, phase, followUps, parked)
        /\ steering' = steering
    BY <1>3 DEF AbortEnds
  <2>2. PhasesOK(phase, owner) /\ RunOK /\ Tended(phase, 0)
    <3>1. IsFiniteSet(UnderWay(phase)) => Cardinality(UnderWay(phase)) \in Nat
      BY FS_CardinalityType
    <3>2. QED
      BY <3>1 DEF TurnInv, HeardInv, Tended
  <2>3. QED
    BY <2>1, <2>2, StrandedAreTended DEF HeardInv, NoneIsStranded
<1>4. QED
  BY <1>1, <1>2, <1>3 DEF AbortSteps

(* A message that no run polls is never left alone: when the last of those *)
(* who are under way has left and no abort is, #steeringQueue and the IRC  *)
(* records are empty (#endInFlight, #drainStrandedQueuedMessages), for any *)
(* number of prompts, drains, wakes, messages and aborts.  That whoever is *)
(* under way gets to it is EveryoneIsHeard, which is liveness.             *)
THEOREM NoMessageIsStranded ==
    ASSUME Enough
    PROVE  Spec => []NoneIsStranded
<1>1. Init => HeardInv
  <2>1. SUFFICES ASSUME Init PROVE HeardInv
    OBVIOUS
  <2>2. UnderWay(phase) = {} /\ count = 0
    BY <2>1 DEF Init, UnderWay
  <2>3. Tended(phase, count)
    BY <2>2, FS_EmptySet DEF Tended
  <2>4. QED
    BY <2>1, <2>3 DEF Init, HeardInv, NoneIsStranded
<1>2. TurnInv /\ HeardInv /\ [Next]_vars => HeardInv'
  <2>1. SUFFICES ASSUME TurnInv, HeardInv, [Next]_vars PROVE HeardInv'
    OBVIOUS
  <2>2. CASE UNCHANGED vars
    BY <2>1, <2>2 DEF vars, queues, actors, stops, HeardInv, NoneIsStranded, Tended
  <2>3. QED
    BY <2>1, <2>2, LoopHeard, ActorHeard, MessageHeard, UserHeard DEF Next
<1>3. HeardInv => NoneIsStranded
  BY DEF HeardInv
<1>4. QED
  BY <1>1, <1>2, <1>3, TurnsInvariance, PTL DEF Spec

=============================================================================

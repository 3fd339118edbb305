----------------------- MODULE AgentLifecycle_proofs ------------------------
(***************************************************************************)
(* The bookkeeping of registry, manager and sessions holds for any number  *)
(* of agents and sessions and under every race.                            *)
(***************************************************************************)
EXTENDS AgentLifecycle, TLAPS

-----------------------------------------------------------------------------
(* What the registry's operations and a disposal's beginning preserve      *)

(* A status or timer that is set stays of its type.                        *)
LEMMA SetStatus_Type ==
    ASSUME Types, NEW a \in Agents, NEW st \in Statuses, SetStatus(a, st)
    PROVE  status' \in [Agents -> Statuses] /\ timer' \in [Agents -> BOOLEAN]
<1>1. TimerAfter(a, st) \in BOOLEAN
  BY ConstantsAssumption DEF Types, TimerAfter
<1>2. QED  BY <1>1 DEF Types, SetStatus

(* No operation that forgets a session shows another one instead.          *)
LEMMA Unregister_Type ==
    ASSUME Types, NEW a \in Agents, Unregister(a)
    PROVE  /\ status' \in [Agents -> Statuses]
           /\ ref' \in [Agents -> Slots \cup {None}]
           /\ adopted' \in [Agents -> {"no", "plain", "reviver"}]
           /\ timer' \in [Agents -> BOOLEAN]
           /\ \A b \in Agents : ref'[b] # None => ref'[b] = ref[b]
  BY DEF Types, Unregister, Statuses

(* The same for the detachment of a session.                               *)
LEMMA DetachSession_Type ==
    ASSUME Types, NEW a \in Agents, DetachSession(a)
    PROVE  /\ ref' \in [Agents -> Slots \cup {None}]
           /\ \A b \in Agents : ref'[b] # None => ref'[b] = ref[b]
  BY DEF Types, DetachSession

(* The session of an agent begins to close, and belongs to the agent.      *)
LEMMA BeginDispose_Slots ==
    ASSUME TypeOK, NEW a \in Agents, NEW w \in Waits, BeginDispose(ref[a], w)
    PROVE  /\ life' \in [Slots -> {"none", "open", "closing"}]
           /\ waits' \in [Slots -> SUBSET Waits]
           /\ \A s \in Slots : waits'[s] # {} => life'[s] = "closing"
           /\ \A s \in Slots : owner[s] = None => life'[s] = "none"
           /\ \A s \in Slots : life'[s] = "none" => life[s] = "none"
           /\ \A s \in Slots : flow[s] \in {"factory", "opening", "building"} => life'[s] = "none"
<1> USE ConstantsAssumption DEF TypeOK, Types
<1>1. CASE ref[a] \in Slots
  <2>1. life' = [life EXCEPT ![ref[a]] = "closing"]
        /\ waits' = [waits EXCEPT ![ref[a]] = @ \cup {w}]
    BY DEF BeginDispose
  <2>2. owner[ref[a]] # None  BY <1>1 DEF SlotsOK
  <2>3. flow[ref[a]] \notin {"factory", "opening", "building"}  BY <1>1 DEF SlotsOK
  <2>4. QED  BY <1>1, <2>1, <2>2, <2>3 DEF SlotsOK
<1>2. CASE ref[a] = None
  <2>1. life' = life /\ waits' = waits  BY <1>2 DEF BeginDispose
  <2>2. QED  BY <2>1 DEF SlotsOK
<1>3. QED  BY <1>1, <1>2

-----------------------------------------------------------------------------

(* Every session of a first run belongs to the agent the registry shows.   *)
LEMMA Init_TypeOK == Init => TypeOK
<1> SUFFICES ASSUME NEW first \in [Agents -> Slots],
                    \A a, b \in Agents : first[a] = first[b] => a = b,
                    /\ status  = [a \in Agents |-> "running"]
                    /\ ref     = first
                    /\ adopted = [a \in Agents |-> "no"]
                    /\ timer   = [a \in Agents |-> FALSE]
                    /\ up      = TRUE
                    /\ run     = [a \in Agents |-> "running"]
                    /\ owner   = [s \in Slots |-> IF \E a \in Agents : first[a] = s
                                                  THEN CHOOSE a \in Agents : first[a] = s
                                                  ELSE None]
                    /\ flow    = [s \in Slots |-> "none"]
                    /\ cold    = {}
                    /\ life    = [s \in Slots |-> IF owner[s] = None THEN "none" ELSE "open"]
                    /\ listening = {s \in Slots : owner[s] # None}
                    /\ turn    = [s \in Slots |-> IF owner[s] = None THEN "none" ELSE "running"]
                    /\ waits   = [s \in Slots |-> {}]
             PROVE  TypeOK
  BY DEF Init
<1>1. owner \in [Slots -> Agents \cup {None}]
  OBVIOUS
<1>2. \A a \in Agents : owner[first[a]] = a
  OBVIOUS
<1>3. Types
  BY <1>1 DEF Types, Statuses, Flows, Waits
<1>4. SlotsOK
  BY <1>2 DEF SlotsOK
<1>5. QED  BY <1>3, <1>4 DEF TypeOK

(* Finalization, parking, kills, rescans and the start of a revive.        *)
LEMMA AgentStep_TypeOK ==
    ASSUME TypeOK, NEW a \in Agents, AgentStep(a)
    PROVE  TypeOK'
<1> USE ConstantsAssumption DEF TypeOK
<1>1. ASSUME NEW reviver \in BOOLEAN, FinalizeKeep(a, reviver) PROVE TypeOK'
  BY <1>1 DEF FinalizeKeep, Types, SlotsOK, Statuses, slotVars
<1>2. CASE FinalizeAborted(a)
  <2>1. SetStatus(a, "aborted") /\ BeginDispose(ref[a], "finalAborted")
    BY <1>2 DEF FinalizeAborted
  <2>2. Types'
    BY <1>2, <2>1, SetStatus_Type, BeginDispose_Slots DEF FinalizeAborted, Types, Statuses, Waits
  <2>3. SlotsOK'
    BY <1>2, <2>1, BeginDispose_Slots DEF FinalizeAborted, Types, SlotsOK, Waits
  <2>4. QED  BY <2>2, <2>3
<1>3. CASE FinalizeOneShot(a)
  <2>1. BeginDispose(ref[a], "finalOneShot")  BY <1>3 DEF FinalizeOneShot
  <2>2. Types'
    BY <1>3, <2>1, BeginDispose_Slots DEF FinalizeOneShot, registryVars, Types, Waits
  <2>3. SlotsOK'
    BY <1>3, <2>1, BeginDispose_Slots DEF FinalizeOneShot, registryVars, Types, SlotsOK, Waits
  <2>4. QED  BY <2>2, <2>3
<1>4. CASE FinalizeIsolated(a)
  <2>1. SetStatus(a, "parked") /\ BeginDispose(ref[a], "finalIsolated")
    BY <1>4 DEF FinalizeIsolated
  <2>2. Types'
    BY <1>4, <2>1, SetStatus_Type, BeginDispose_Slots DEF FinalizeIsolated, Types, Statuses, Waits
  <2>3. SlotsOK'
    BY <1>4, <2>1, BeginDispose_Slots DEF FinalizeIsolated, Types, SlotsOK, Waits
  <2>4. QED  BY <2>2, <2>3
<1>5. CASE ParkOnTtl(a)
  <2>1. CASE adopted[a] # "no" /\ ref[a] # None
    <3>1. BeginDispose(ref[a], "park")  BY <1>5, <2>1 DEF ParkOnTtl
    <3>2. Types'
      BY <1>5, <3>1, BeginDispose_Slots DEF ParkOnTtl, Types, Waits
    <3>3. SlotsOK'
      BY <1>5, <3>1, BeginDispose_Slots DEF ParkOnTtl, Types, SlotsOK, Waits
    <3>4. QED  BY <3>2, <3>3
  <2>2. CASE ~(adopted[a] # "no" /\ ref[a] # None)
    BY <1>5, <2>2 DEF ParkOnTtl, Types, SlotsOK
  <2>3. QED  BY <2>1, <2>2
<1>6. CASE Release(a)
  <2>1. CASE ref[a] = None
    <3>1. Unregister(a)  BY <1>6, <2>1 DEF Release
    <3>2. QED  BY <1>6, <2>1, <3>1, Unregister_Type DEF Release, Types, SlotsOK
  <2>2. CASE ref[a] # None
    <3>1. BeginDispose(ref[a], "release")  BY <1>6, <2>2 DEF Release
    <3>2. /\ life' \in [Slots -> {"none", "open", "closing"}]
          /\ waits' \in [Slots -> SUBSET Waits]
          /\ \A s \in Slots : waits'[s] # {} => life'[s] = "closing"
          /\ \A s \in Slots : owner[s] = None => life'[s] = "none"
          /\ \A s \in Slots : life'[s] = "none" => life[s] = "none"
          /\ \A s \in Slots : flow[s] \in {"factory", "opening", "building"} => life'[s] = "none"
      <4>1. "release" \in Waits  BY DEF Waits
      <4>2. QED  BY <3>1, <4>1, BeginDispose_Slots
    <3>3. /\ adopted' = [adopted EXCEPT ![a] = "no"] /\ timer' = [timer EXCEPT ![a] = FALSE]
          /\ UNCHANGED <<status, ref, up, run, owner, flow, cold, listening, turn>>
      BY <1>6, <2>2 DEF Release
    <3>4. Types'  BY <3>2, <3>3 DEF Types
    <3>5. SlotsOK'  BY <3>2, <3>3 DEF Types, SlotsOK
    <3>6. QED  BY <3>4, <3>5
  <2>3. QED  BY <2>1, <2>2
<1>7. CASE Rescan(a)
  BY <1>7 DEF Rescan, Types, SlotsOK, Statuses, slotVars
<1>8. ASSUME NEW s \in Slots, EnsureLive(a, s) PROVE TypeOK'
  <2>1. /\ FreeSlot(s) /\ UNCHANGED <<registryVars, up, run, life, listening, turn, waits>>
        /\ \E phase \in {"opening", "factory"}, isCold \in BOOLEAN : StartFlow(s, a, phase, isCold)
    BY <1>8 DEF EnsureLive
  <2>2. Types'  BY <2>1 DEF StartFlow, Types, Flows, registryVars
  <2>3. SlotsOK'  BY <2>1 DEF StartFlow, FreeSlot, Types, SlotsOK, registryVars
  <2>4. QED  BY <2>2, <2>3
<1>9. QED
  BY <1>1, <1>2, <1>3, <1>4, <1>5, <1>6, <1>7, <1>8 DEF AgentStep

(* Turns, the end of a disposal and the phases of a revive.                *)
LEMMA SlotStep_TypeOK ==
    ASSUME TypeOK, NEW s \in Slots, SlotStep(s)
    PROVE  TypeOK'
<1> USE ConstantsAssumption DEF TypeOK
<1> DEFINE a == owner[s]
<1>1. life[s] # "none" \/ flow[s] # "none" => a \in Agents
  BY DEF Types, SlotsOK
<1>2. CASE FinalizeTimesOut(s)
  <2>1. a \in Agents  BY <1>1, <1>2 DEF FinalizeTimesOut
  <2>2. PICK w \in waits[s] :
           /\ waits' = [waits EXCEPT ![s] = @ \ {w}]
           /\ \/ Unregister(a)
              \/ DetachSession(a) /\ UNCHANGED <<status, adopted, timer>>
              \/ UNCHANGED registryVars
    BY <1>2 DEF FinalizeTimesOut
  <2>3. /\ status' \in [Agents -> Statuses] /\ ref' \in [Agents -> Slots \cup {None}]
        /\ adopted' \in [Agents -> {"no", "plain", "reviver"}] /\ timer' \in [Agents -> BOOLEAN]
        /\ \A b \in Agents : ref'[b] # None => ref'[b] = ref[b]
    BY <2>1, <2>2, Unregister_Type, DetachSession_Type DEF Types, registryVars
  <2>4. UNCHANGED <<up, run, owner, flow, cold, life, listening, turn>>
    BY <1>2 DEF FinalizeTimesOut
  <2>5. QED  BY <2>2, <2>3, <2>4 DEF Types, SlotsOK
<1>3. CASE DisposeSettles(s)
  <2>1. a \in Agents  BY <1>1, <1>3 DEF DisposeSettles
  <2>2. \/ Unregister(a)
        \/ DetachSession(a) /\ SetStatus(a, "parked") /\ UNCHANGED adopted
        \/ DetachSession(a) /\ UNCHANGED <<status, timer, adopted>>
        \/ UNCHANGED registryVars
    BY <1>3 DEF DisposeSettles, registryVars
  <2>3. /\ status' \in [Agents -> Statuses] /\ ref' \in [Agents -> Slots \cup {None}]
        /\ adopted' \in [Agents -> {"no", "plain", "reviver"}] /\ timer' \in [Agents -> BOOLEAN]
        /\ \A b \in Agents : ref'[b] # None => ref'[b] = ref[b]
    <3>1. "parked" \in Statuses  BY DEF Statuses
    <3>2. QED
      BY <2>1, <2>2, <3>1, Unregister_Type, DetachSession_Type, SetStatus_Type DEF Types, registryVars
  <2>4. /\ life'  = [life  EXCEPT ![s] = "none"]
        /\ waits' = [waits EXCEPT ![s] = {}]
        /\ turn'  = [turn  EXCEPT ![s] = "none"]
        /\ listening' = listening \ {s}
        /\ UNCHANGED <<up, run, owner, flow, cold>>
    BY <1>3 DEF DisposeSettles
  <2>5. QED  BY <2>3, <2>4 DEF Types, SlotsOK
<1>4. CASE Wake(s)
  BY <1>4 DEF Wake, Types, SlotsOK, registryVars
<1>5. CASE AgentStart(s) \/ AgentEnd(s)
  <2>1. a \in Agents  BY <1>1, <1>5 DEF AgentStart, AgentEnd, SlotsOK
  <2>2. SetStatus(a, "running") \/ SetStatus(a, "idle") \/ UNCHANGED <<status, timer>>
    BY <1>5 DEF AgentStart, AgentEnd
  <2>3. status' \in [Agents -> Statuses] /\ timer' \in [Agents -> BOOLEAN]
    <3>1. "running" \in Statuses /\ "idle" \in Statuses  BY DEF Statuses
    <3>2. QED  BY <2>1, <2>2, <3>1, SetStatus_Type DEF Types
  <2>4. QED  BY <1>5, <2>3 DEF AgentStart, AgentEnd, Types, SlotsOK
<1>6. CASE FactoryAdopts(s)
  BY <1>1, <1>6 DEF FactoryAdopts, Types, SlotsOK, Flows
<1>7. CASE ReviveFailsEarly(s)
  BY <1>1, <1>7 DEF ReviveFailsEarly, EndFlow, Types, SlotsOK, Flows
<1>8. CASE ReviveRegisters(s)
  BY <1>1, <1>8 DEF ReviveRegisters, Types, SlotsOK, Flows, Statuses
<1>9. CASE ReviveFailsLate(s)
  <2>1. a \in Agents  BY <1>1, <1>9 DEF ReviveFailsLate
  <2>2. /\ status' \in [Agents -> Statuses] /\ ref' \in [Agents -> Slots \cup {None}]
        /\ adopted' \in [Agents -> {"no", "plain", "reviver"}] /\ timer' \in [Agents -> BOOLEAN]
        /\ \A b \in Agents : ref'[b] # None => ref'[b] = ref[b]
    BY <1>9, <2>1, Unregister_Type DEF ReviveFailsLate, Types
  <2>3. EndFlow(s) /\ UNCHANGED <<life, up, run, listening, turn, waits>>
    BY <1>9 DEF ReviveFailsLate
  <2>4. QED  BY <2>2, <2>3 DEF EndFlow, Types, SlotsOK, Flows
<1>10. CASE AttachCold(s)
  <2>1. a \in Agents  BY <1>1, <1>10 DEF AttachCold
  <2>2. ref' \in [Agents -> Slots \cup {None}] /\ \A b \in Agents : ref'[b] = ref[b] \/ (b = a /\ ref'[b] = s)
    BY <1>10, <2>1 DEF AttachCold, AttachSession, Types
  <2>3. Types'  BY <1>10, <2>2 DEF AttachCold, Types, Flows
  <2>4. SlotsOK'
    <3>1. \A b \in Agents : ref'[b] # None => owner'[ref'[b]] = b
      BY <1>10, <2>1, <2>2 DEF AttachCold, SlotsOK
    <3>2. \A x \in Slots : owner'[x] = None => life'[x] = "none" /\ flow'[x] = "none"
      BY <1>10, <2>1 DEF AttachCold, Types, SlotsOK
    <3>3. \A x \in Slots : flow'[x] \in {"factory", "opening", "building"} =>
                life'[x] = "none" /\ \A b \in Agents : ref'[b] # x
      BY <1>10, <2>2 DEF AttachCold, Types, SlotsOK
    <3>4. /\ \A x \in Slots : waits'[x] # {} => life'[x] = "closing"
          /\ \A x \in cold' : flow'[x] # "none"
          /\ \A x \in listening' : life'[x] # "none"
          /\ \A x \in Slots : turn'[x] # "none" => life'[x] # "none"
      BY <1>10 DEF AttachCold, Types, SlotsOK
    <3>5. QED  BY <3>1, <3>2, <3>3, <3>4 DEF SlotsOK
  <2>5. QED  BY <2>3, <2>4
<1>11. CASE SetupFails(s)
  BY <1>1, <1>11 DEF SetupFails, EndFlow, Types, SlotsOK, Flows
<1>12. CASE ReviveReturns(s)
  <2>1. a \in Agents  BY <1>1, <1>12 DEF ReviveReturns
  <2>2. AttachSession(a, s) /\ SetStatus(a, "idle") /\ EndFlow(s)
    BY <1>12 DEF ReviveReturns
  <2>3. status' \in [Agents -> Statuses] /\ timer' \in [Agents -> BOOLEAN]
    <3>1. "idle" \in Statuses  BY DEF Statuses
    <3>2. QED  BY <2>1, <2>2, <3>1, SetStatus_Type
  <2>4. /\ (life' = [life EXCEPT ![s] = "open"] /\ flow[s] = "building") \/ life' = life
        /\ listening' = IF life'[s] = "none" THEN listening ELSE listening \cup {s}
        /\ UNCHANGED <<adopted, up, run, turn, waits>>
    BY <1>12 DEF ReviveReturns
  <2>5. ref' \in [Agents -> Slots \cup {None}] /\ \A b \in Agents : ref'[b] = ref[b] \/ (b = a /\ ref'[b] = s)
    BY <2>1, <2>2 DEF AttachSession, Types
  <2>6. flow' = [flow EXCEPT ![s] = "none"] /\ cold' = cold \ {s} /\ owner' = owner
    BY <2>2 DEF EndFlow
  <2>7. life' \in [Slots -> {"none", "open", "closing"}] /\ listening' \subseteq Slots
    BY <2>4 DEF Types
  <2>8. Types'  BY <2>3, <2>4, <2>5, <2>6, <2>7 DEF Types, Flows
  <2>9. SlotsOK'
    <3>1. \A b \in Agents : ref'[b] # None => owner'[ref'[b]] = b
      BY <2>1, <2>5, <2>6 DEF SlotsOK
    <3>2. \A x \in Slots : owner'[x] = None => life'[x] = "none" /\ flow'[x] = "none"
      BY <2>1, <2>4, <2>6 DEF Types, SlotsOK
    <3>3. \A x \in Slots : flow'[x] \in {"factory", "opening", "building"} =>
                life'[x] = "none" /\ \A b \in Agents : ref'[b] # x
      BY <2>4, <2>5, <2>6 DEF Types, SlotsOK
    <3>4. /\ \A x \in Slots : waits'[x] # {} => life'[x] = "closing"
          /\ \A x \in cold' : flow'[x] # "none"
          /\ \A x \in listening' : life'[x] # "none"
          /\ \A x \in Slots : turn'[x] # "none" => life'[x] # "none"
      BY <2>4, <2>6 DEF Types, SlotsOK
    <3>5. QED  BY <3>1, <3>2, <3>3, <3>4 DEF SlotsOK
  <2>10. QED  BY <2>8, <2>9
<1>13. QED
  BY <1>2, <1>3, <1>4, <1>5, <1>6, <1>7, <1>8, <1>9, <1>10, <1>11, <1>12 DEF SlotStep

(* The manager's disposal closes the sessions of adopted agents only.      *)
LEMMA Dispose_TypeOK ==
    ASSUME TypeOK, Dispose
    PROVE  TypeOK'
<1>1. Types'
  BY DEF TypeOK, Types, Dispose, Statuses, Waits
<1>2. SlotsOK'
  BY ConstantsAssumption DEF TypeOK, Types, SlotsOK, Dispose
<1>3. QED  BY <1>1, <1>2 DEF TypeOK

(* Every step keeps types and bookkeeping.                                 *)
LEMMA Next_TypeOK == TypeOK /\ [Next]_vars => TypeOK'
<1>1. ASSUME TypeOK, Next PROVE TypeOK'
  BY <1>1, AgentStep_TypeOK, SlotStep_TypeOK, Dispose_TypeOK DEF Next
<1>2. ASSUME TypeOK, UNCHANGED vars PROVE TypeOK'
  BY <1>2 DEF TypeOK, Types, SlotsOK, vars
<1>3. QED  BY <1>1, <1>2

(* Whatever races the environment is allowed, registry and manager keep    *)
(* their types, every session the registry shows belongs to the agent it   *)
(* is shown for, and only sessions that exist are waited for, listened to  *)
(* or in a turn.                                                           *)
THEOREM LifecycleTypeOK == Spec => []TypeOK
  BY Init_TypeOK, Next_TypeOK, PTL DEF Spec

=============================================================================

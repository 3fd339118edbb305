------------------------ MODULE AgentSessions_proofs ------------------------
(***************************************************************************)
(* Registry, manager and sessions agree for any number of agents and       *)
(* sessions, as long as no agent is killed in the middle of its revive and *)
(* no finalized session, but an aborted one, takes longer to close than    *)
(* the executor waits.                                                     *)
(***************************************************************************)
EXTENDS AgentLifecycle_proofs

SafeRaces == {"killInRevive", "slowDispose"} \cap Races = {}

(* The registry shows exactly the sessions that are open or closing.       *)
LiveAreShown ==
    /\ \A s \in Slots : life[s] # "none" => owner[s] # None /\ ref[owner[s]] = s
    /\ NoDeadSessions

(* An agent has at most one revive in flight.                              *)
OneRevive ==
    \A s, t \in Slots :
        owner[s] = owner[t] /\ flow[s] # "none" /\ flow[t] # "none" => s = t

(* What holds of the agent of a revive in flight, phase by phase.          *)
FlowPhases ==
    \A s \in Slots :
        /\ flow[s] # "none" => run[owner[s]] \in {"done", "isolated"}
        /\ s \in cold => ~timer[owner[s]]
        /\ flow[s] \in {"factory", "opening"} =>
              status[owner[s]] = "parked" /\ ref[owner[s]] = None
        /\ flow[s] = "factory" => adopted[owner[s]] = "no"
        /\ flow[s] \in {"opening", "building", "attached"} => adopted[owner[s]] = "reviver"
        /\ flow[s] = "building" => status[owner[s]] = "running" /\ ref[owner[s]] = None
        /\ flow[s] = "attached" =>
              /\ status[owner[s]] = "running" /\ ref[owner[s]] = s
              /\ life[s] = "open" /\ s \in cold /\ s \notin listening

(* Nothing is left of an agent that is not registered.                     *)
ForgottenAreGone ==
    \A a \in Agents : ~Registered(a) => ref[a] = None /\ adopted[a] = "no"

(* Only adopted agents are timed; without a reviver there is no transcript.*)
AdoptionsOK ==
    \A a \in Agents :
        /\ adopted[a] = "no" => ~timer[a]
        /\ adopted[a] = "plain" => run[a] = "noFile"

(* During its first run an agent is on its open session, and not adopted.  *)
FirstRuns ==
    \A a \in Agents :
        run[a] = "running" =>
            /\ adopted[a] = "no" /\ status[a] \in {"running", "idle"}
            /\ ref[a] # None /\ life[ref[a]] = "open"

(* A parked agent has a session only while its isolated run is closed.     *)
StatusesOK ==
    \A a \in Agents :
        /\ status[a] = "parked" /\ ref[a] # None => "finalIsolated" \in waits[ref[a]]
        /\ status[a] = "idle" => ref[a] # None

SessionInv ==
    /\ TypeOK /\ LiveAreShown /\ OneRevive /\ FlowPhases
    /\ ForgottenAreGone /\ AdoptionsOK /\ FirstRuns /\ StatusesOK
-----------------------------------------------------------------------------
(* Every step keeps the invariant                                          *)

(* A finished first run is adopted: no revive can be in flight for it.     *)
LEMMA FinalizeKeep_Inv ==
    ASSUME SessionInv, TypeOK', NEW a \in Agents, NEW reviver \in BOOLEAN, FinalizeKeep(a, reviver)
    PROVE  SessionInv'
<1> USE ConstantsAssumption DEF SessionInv, TypeOK, Types
<1>1. LiveAreShown' /\ OneRevive' /\ ForgottenAreGone' /\ AdoptionsOK' /\ FirstRuns'
  BY DEF FinalizeKeep, slotVars, LiveAreShown, NoDeadSessions, OneRevive, ForgottenAreGone,
         AdoptionsOK, FirstRuns, Registered
<1>2. FlowPhases'
  BY DEF FinalizeKeep, RunEnded, slotVars, SlotsOK, FlowPhases
<1>3. StatusesOK'
  BY DEF FinalizeKeep, RunEnded, slotVars, FirstRuns, StatusesOK
<1>4. QED  BY <1>1, <1>2, <1>3

(* An aborted run's session, which is open, begins to close.               *)
LEMMA FinalizeAborted_Inv ==
    ASSUME SessionInv, TypeOK', NEW a \in Agents, FinalizeAborted(a)
    PROVE  SessionInv'
<1> USE ConstantsAssumption DEF SessionInv, TypeOK, Types
<1>1. LiveAreShown' /\ OneRevive' /\ ForgottenAreGone' /\ AdoptionsOK' /\ StatusesOK'
  BY DEF FinalizeAborted, SetStatus, TimerAfter, BeginDispose, LiveAreShown, NoDeadSessions,
         OneRevive, ForgottenAreGone, AdoptionsOK, StatusesOK, Registered
<1>2. FlowPhases'
  BY DEF FinalizeAborted, SetStatus, BeginDispose, SlotsOK, FlowPhases
<1>3. FirstRuns'
  BY DEF FinalizeAborted, SetStatus, BeginDispose, SlotsOK, FirstRuns
<1>4. QED  BY <1>1, <1>2, <1>3

(* So does that of a run that is not kept.                                 *)
LEMMA FinalizeOneShot_Inv ==
    ASSUME SessionInv, TypeOK', NEW a \in Agents, FinalizeOneShot(a)
    PROVE  SessionInv'
<1> USE ConstantsAssumption DEF SessionInv, TypeOK, Types
<1>1. LiveAreShown' /\ OneRevive' /\ ForgottenAreGone' /\ AdoptionsOK' /\ StatusesOK'
  BY DEF FinalizeOneShot, RunEnded, BeginDispose, registryVars, LiveAreShown, NoDeadSessions,
         OneRevive, ForgottenAreGone, AdoptionsOK, StatusesOK, Registered
<1>2. FlowPhases'
  BY DEF FinalizeOneShot, RunEnded, BeginDispose, registryVars, SlotsOK, FlowPhases
<1>3. FirstRuns'
  BY DEF FinalizeOneShot, BeginDispose, registryVars, SlotsOK, FirstRuns
<1>4. QED  BY <1>1, <1>2, <1>3

(* An isolated run is parked with its session still shown, and says so in  *)
(* the waits of that session.                                              *)
LEMMA FinalizeIsolated_Inv ==
    ASSUME SessionInv, TypeOK', NEW a \in Agents, FinalizeIsolated(a)
    PROVE  SessionInv'
<1> USE ConstantsAssumption DEF SessionInv, TypeOK, Types
<1>1. LiveAreShown' /\ OneRevive' /\ ForgottenAreGone' /\ AdoptionsOK' /\ StatusesOK'
  BY DEF FinalizeIsolated, RunEnded, SetStatus, TimerAfter, BeginDispose, LiveAreShown,
         NoDeadSessions, OneRevive, ForgottenAreGone, AdoptionsOK, StatusesOK, Registered
<1>2. FlowPhases'
  BY DEF FinalizeIsolated, RunEnded, SetStatus, BeginDispose, SlotsOK, FlowPhases
<1>3. FirstRuns'
  BY DEF FinalizeIsolated, SetStatus, BeginDispose, SlotsOK, FirstRuns
<1>4. QED  BY <1>1, <1>2, <1>3

(* Only an adopted agent is timed, and none whose cold revive is in        *)
(* flight.                                                                 *)
LEMMA ParkOnTtl_Inv ==
    ASSUME SessionInv, TypeOK', NEW a \in Agents, ParkOnTtl(a)
    PROVE  SessionInv'
<1> USE ConstantsAssumption DEF SessionInv, TypeOK, Types
<1>1. LiveAreShown' /\ OneRevive' /\ ForgottenAreGone' /\ AdoptionsOK' /\ StatusesOK'
  BY DEF ParkOnTtl, BeginDispose, LiveAreShown, NoDeadSessions, OneRevive, ForgottenAreGone,
         AdoptionsOK, StatusesOK, Registered
<1>2. FlowPhases'
  BY DEF ParkOnTtl, BeginDispose, SlotsOK, FlowPhases
<1>3. FirstRuns'
  BY DEF ParkOnTtl, BeginDispose, SlotsOK, FirstRuns
<1>4. QED  BY <1>1, <1>2, <1>3

(* A killed agent has no revive in flight, so nothing will attach a        *)
(* session to it later.                                                    *)
LEMMA Release_Inv ==
    ASSUME SafeRaces, SessionInv, TypeOK', NEW a \in Agents, Release(a)
    PROVE  SessionInv'
<1> USE ConstantsAssumption DEF SessionInv, TypeOK, Types
<1>1. LiveAreShown' /\ OneRevive' /\ ForgottenAreGone' /\ AdoptionsOK' /\ StatusesOK'
  BY DEF Release, Unregister, BeginDispose, LiveAreShown, NoDeadSessions, OneRevive,
         ForgottenAreGone, AdoptionsOK, StatusesOK, Registered
<1>2. FlowPhases'
  BY DEF Release, Reviving, Unregister, BeginDispose, SlotsOK, FlowPhases, SafeRaces
<1>3. FirstRuns'
  BY DEF Release, Unregister, BeginDispose, SlotsOK, FirstRuns
<1>4. QED  BY <1>1, <1>2, <1>3

(* A rescanned agent had been forgotten, sessions and adoption included.   *)
LEMMA Rescan_Inv ==
    ASSUME SessionInv, TypeOK', NEW a \in Agents, Rescan(a)
    PROVE  SessionInv'
<1> USE ConstantsAssumption DEF SessionInv, TypeOK, Types
<1>1. LiveAreShown' /\ OneRevive' /\ ForgottenAreGone' /\ AdoptionsOK'
  BY DEF Rescan, slotVars, LiveAreShown, NoDeadSessions, OneRevive, ForgottenAreGone,
         AdoptionsOK, Registered
<1>2. FlowPhases'
  BY DEF Rescan, slotVars, FlowPhases, ForgottenAreGone
<1>3. FirstRuns'
  BY DEF Rescan, slotVars, ForgottenAreGone, FirstRuns
<1>4. StatusesOK'
  BY DEF Rescan, slotVars, ForgottenAreGone, StatusesOK
<1>5. QED  BY <1>1, <1>2, <1>3, <1>4

(* A revive starts for a parked agent without a session, when none is in   *)
(* flight.                                                                 *)
LEMMA EnsureLive_Inv ==
    ASSUME SessionInv, TypeOK', NEW a \in Agents, NEW s \in Slots, EnsureLive(a, s)
    PROVE  SessionInv'
<1> USE ConstantsAssumption DEF SessionInv, TypeOK, Types
<1>1. /\ LiveAreShown' /\ OneRevive' /\ ForgottenAreGone' /\ AdoptionsOK'
      /\ FirstRuns' /\ StatusesOK'
  BY DEF EnsureLive, Reviving, FreeSlot, StartFlow, registryVars, LiveAreShown, NoDeadSessions,
         OneRevive, ForgottenAreGone, AdoptionsOK, FirstRuns, StatusesOK, Registered
<1>2. FlowPhases'
  BY DEF EnsureLive, FreeSlot, StartFlow, registryVars, SlotsOK, FlowPhases, AdoptionsOK,
         FirstRuns
<1>3. QED  BY <1>1, <1>2

(* A session that has closed is no longer shown: its agent is              *)
(* unregistered, or parked by whoever waits for the disposal.              *)
LEMMA DisposeSettles_Inv ==
    ASSUME SessionInv, TypeOK', NEW s \in Slots, DisposeSettles(s)
    PROVE  SessionInv'
<1> USE ConstantsAssumption DEF SessionInv, TypeOK, Types
<1>1. OneRevive' /\ ForgottenAreGone' /\ AdoptionsOK'
  BY DEF DisposeSettles, Unregister, DetachSession, SetStatus, TimerAfter, OneRevive,
         ForgottenAreGone, AdoptionsOK, Registered
<1>2. LiveAreShown'
  BY DEF DisposeSettles, Parking, Unregister, DetachSession, SlotsOK, LiveAreShown,
         NoDeadSessions, StatusesOK
<1>3. FlowPhases'
  BY DEF DisposeSettles, Unregister, DetachSession, SetStatus, TimerAfter, SlotsOK,
         LiveAreShown, FlowPhases
<1>4. FirstRuns'
  BY DEF DisposeSettles, Unregister, DetachSession, SetStatus, LiveAreShown, FirstRuns
<1>5. StatusesOK'
  BY DEF DisposeSettles, Parking, Unregister, DetachSession, SetStatus, SlotsOK, LiveAreShown,
         ForgottenAreGone, StatusesOK
<1>6. QED  BY <1>1, <1>2, <1>3, <1>4, <1>5

(* A message only starts a turn.                                           *)
LEMMA Wake_Inv ==
    ASSUME SessionInv, TypeOK', NEW s \in Slots, Wake(s)
    PROVE  SessionInv'
<1> USE ConstantsAssumption DEF SessionInv, TypeOK, Types
<1>1. /\ LiveAreShown' /\ OneRevive' /\ FlowPhases' /\ ForgottenAreGone'
      /\ AdoptionsOK' /\ FirstRuns' /\ StatusesOK'
  BY DEF Wake, registryVars, LiveAreShown, NoDeadSessions, OneRevive, FlowPhases,
         ForgottenAreGone, AdoptionsOK, FirstRuns, StatusesOK, Registered
<1>2. QED  BY <1>1

(* A turn of which the registry hears is one of a session it shows and no  *)
(* revive is setting up.                                                   *)
LEMMA AgentStart_Inv ==
    ASSUME SessionInv, TypeOK', NEW s \in Slots, AgentStart(s)
    PROVE  SessionInv'
<1> USE ConstantsAssumption DEF SessionInv, TypeOK, Types
<1>1. /\ LiveAreShown' /\ OneRevive' /\ ForgottenAreGone' /\ AdoptionsOK'
      /\ FirstRuns' /\ StatusesOK'
  BY DEF AgentStart, SetStatus, TimerAfter, LiveAreShown, NoDeadSessions, OneRevive,
         ForgottenAreGone, AdoptionsOK, FirstRuns, StatusesOK, Registered
<1>2. FlowPhases'
  BY DEF AgentStart, SetStatus, TimerAfter, SlotsOK, LiveAreShown, FlowPhases
<1>3. QED  BY <1>1, <1>2

(* The same at the end of a turn.                                          *)
LEMMA AgentEnd_Inv ==
    ASSUME SessionInv, TypeOK', NEW s \in Slots, AgentEnd(s)
    PROVE  SessionInv'
<1> USE ConstantsAssumption DEF SessionInv, TypeOK, Types
<1>1. LiveAreShown' /\ OneRevive' /\ ForgottenAreGone' /\ AdoptionsOK' /\ FirstRuns'
  BY DEF AgentEnd, SetStatus, TimerAfter, LiveAreShown, NoDeadSessions, OneRevive,
         ForgottenAreGone, AdoptionsOK, FirstRuns, Registered
<1>2. FlowPhases'
  <2>1. \A t \in Slots : s \in listening /\ owner[t] = owner[s] => flow[t] = "none"
    BY DEF SlotsOK, LiveAreShown, FlowPhases, AgentEnd, Flows
  <2>2. \A b \in Agents : b # owner[s] \/ s \notin listening =>
           status'[b] = status[b] /\ timer'[b] = timer[b]
    BY DEF AgentEnd, SetStatus
  <2>3. UNCHANGED <<ref, adopted, run, owner, flow, cold, life, listening>>
    BY DEF AgentEnd
  <2>4. QED  BY <2>1, <2>2, <2>3 DEF FlowPhases, SlotsOK
<1>3. StatusesOK'
  BY DEF AgentEnd, SetStatus, SlotsOK, LiveAreShown, StatusesOK
<1>4. QED  BY <1>1, <1>2, <1>3

(* The agent of a cold revive is adopted, without a timer.                 *)
LEMMA FactoryAdopts_Inv ==
    ASSUME SessionInv, TypeOK', NEW s \in Slots, FactoryAdopts(s)
    PROVE  SessionInv'
<1> USE ConstantsAssumption DEF SessionInv, TypeOK, Types
<1>1. LiveAreShown' /\ OneRevive' /\ AdoptionsOK' /\ StatusesOK'
  BY DEF FactoryAdopts, LiveAreShown, NoDeadSessions, OneRevive, AdoptionsOK, StatusesOK
<1>2. FlowPhases'
  BY DEF FactoryAdopts, OneRevive, FlowPhases
<1>3. ForgottenAreGone'
  BY DEF FactoryAdopts, FlowPhases, ForgottenAreGone, Registered
<1>4. FirstRuns'
  BY DEF FactoryAdopts, FlowPhases, FirstRuns
<1>5. QED  BY <1>1, <1>2, <1>3, <1>4

(* A revive that fails before it registers leaves a parked agent.          *)
LEMMA ReviveFailsEarly_Inv ==
    ASSUME SessionInv, TypeOK', NEW s \in Slots, ReviveFailsEarly(s)
    PROVE  SessionInv'
<1> USE ConstantsAssumption DEF SessionInv, TypeOK, Types
<1>1. LiveAreShown' /\ OneRevive' /\ ForgottenAreGone' /\ FirstRuns' /\ StatusesOK'
  BY DEF ReviveFailsEarly, EndFlow, LiveAreShown, NoDeadSessions, OneRevive, ForgottenAreGone,
         FirstRuns, StatusesOK, Registered
<1>2. FlowPhases'
  BY DEF ReviveFailsEarly, EndFlow, OneRevive, FlowPhases
<1>3. AdoptionsOK'
  BY DEF ReviveFailsEarly, FlowPhases, AdoptionsOK
<1>4. QED  BY <1>1, <1>2, <1>3

(* The agent that is registered anew was parked, so no session of it is    *)
(* lost.                                                                   *)
LEMMA ReviveRegisters_Inv ==
    ASSUME SessionInv, TypeOK', NEW s \in Slots, ReviveRegisters(s)
    PROVE  SessionInv'
<1> USE ConstantsAssumption DEF SessionInv, TypeOK, Types
<1>1. OneRevive' /\ ForgottenAreGone' /\ AdoptionsOK' /\ StatusesOK'
  BY DEF ReviveRegisters, OneRevive, ForgottenAreGone, AdoptionsOK, StatusesOK, Registered
<1>2. LiveAreShown'
  BY DEF ReviveRegisters, LiveAreShown, NoDeadSessions, FlowPhases
<1>3. FlowPhases'
  BY DEF ReviveRegisters, OneRevive, FlowPhases
<1>4. FirstRuns'
  BY DEF ReviveRegisters, FlowPhases, FirstRuns
<1>5. QED  BY <1>1, <1>2, <1>3, <1>4

(* A revive that fails after it registered the agent forgets it; there is  *)
(* no session yet.                                                         *)
LEMMA ReviveFailsLate_Inv ==
    ASSUME SessionInv, TypeOK', NEW s \in Slots, ReviveFailsLate(s)
    PROVE  SessionInv'
<1> USE ConstantsAssumption DEF SessionInv, TypeOK, Types
<1>1. OneRevive' /\ ForgottenAreGone' /\ StatusesOK'
  BY DEF ReviveFailsLate, Unregister, EndFlow, OneRevive, ForgottenAreGone, StatusesOK,
         Registered
<1>2. LiveAreShown'
  BY DEF ReviveFailsLate, Unregister, EndFlow, LiveAreShown, NoDeadSessions, FlowPhases
<1>3. FlowPhases'
  BY DEF ReviveFailsLate, Unregister, EndFlow, SlotsOK, OneRevive, FlowPhases
<1>4. AdoptionsOK'
  BY DEF ReviveFailsLate, Unregister, FlowPhases, AdoptionsOK
<1>5. FirstRuns'
  BY DEF ReviveFailsLate, Unregister, FlowPhases, FirstRuns
<1>6. QED  BY <1>1, <1>2, <1>3, <1>4, <1>5

(* The session of a cold revive is shown as soon as it is open.            *)
LEMMA AttachCold_Inv ==
    ASSUME SessionInv, TypeOK', NEW s \in Slots, AttachCold(s)
    PROVE  SessionInv'
<1> USE ConstantsAssumption DEF SessionInv, TypeOK, Types
<1>1. OneRevive' /\ ForgottenAreGone' /\ AdoptionsOK' /\ FirstRuns'
  BY DEF AttachCold, AttachSession, OneRevive, ForgottenAreGone, AdoptionsOK, FirstRuns,
         Registered
<1>2. LiveAreShown'
  BY DEF AttachCold, AttachSession, SlotsOK, LiveAreShown, NoDeadSessions, FlowPhases,
         ForgottenAreGone
<1>3. FlowPhases'
  BY DEF AttachCold, AttachSession, SlotsOK, OneRevive, FlowPhases, ForgottenAreGone
<1>4. StatusesOK'
  BY DEF AttachCold, AttachSession, FlowPhases, StatusesOK
<1>5. QED  BY <1>1, <1>2, <1>3, <1>4

(* A cold revive that fails later leaves its session open, and shown.      *)
LEMMA SetupFails_Inv ==
    ASSUME SessionInv, TypeOK', NEW s \in Slots, SetupFails(s)
    PROVE  SessionInv'
<1> USE ConstantsAssumption DEF SessionInv, TypeOK, Types
<1>1. /\ LiveAreShown' /\ OneRevive' /\ FlowPhases' /\ ForgottenAreGone'
      /\ FirstRuns' /\ StatusesOK'
  BY DEF SetupFails, EndFlow, LiveAreShown, NoDeadSessions, OneRevive, FlowPhases,
         ForgottenAreGone, FirstRuns, StatusesOK, Registered
<1>2. AdoptionsOK'
  BY DEF SetupFails, FlowPhases, AdoptionsOK
<1>3. QED  BY <1>1, <1>2

(* The revived session is open and shown, and the agent is idle.           *)
LEMMA ReviveReturns_Inv ==
    ASSUME SessionInv, TypeOK', NEW s \in Slots, ReviveReturns(s)
    PROVE  SessionInv'
<1> USE ConstantsAssumption DEF SessionInv, TypeOK, Types
<1>1. OneRevive' /\ ForgottenAreGone' /\ AdoptionsOK' /\ StatusesOK'
  BY DEF ReviveReturns, AttachSession, SetStatus, TimerAfter, EndFlow, OneRevive,
         ForgottenAreGone, AdoptionsOK, StatusesOK, Registered
<1>2. LiveAreShown'
  BY DEF ReviveReturns, AttachSession, SlotsOK, LiveAreShown, NoDeadSessions, FlowPhases,
         ForgottenAreGone
<1>3. FlowPhases'
  BY DEF ReviveReturns, AttachSession, SetStatus, EndFlow, SlotsOK, OneRevive, FlowPhases
<1>4. FirstRuns'
  BY DEF ReviveReturns, AttachSession, SetStatus, FlowPhases, FirstRuns
<1>5. QED  BY <1>1, <1>2, <1>3, <1>4

(* The manager releases every adopted agent; none has a revive in flight.  *)
LEMMA Dispose_Inv ==
    ASSUME SafeRaces, SessionInv, TypeOK', Dispose
    PROVE  SessionInv'
<1> USE ConstantsAssumption DEF SessionInv, TypeOK, Types
<1>1. LiveAreShown' /\ OneRevive' /\ ForgottenAreGone' /\ AdoptionsOK' /\ StatusesOK'
  BY DEF Dispose, LiveAreShown, NoDeadSessions, OneRevive, ForgottenAreGone, AdoptionsOK,
         StatusesOK, Registered
<1>2. FlowPhases'
  BY DEF Dispose, Reviving, SlotsOK, FlowPhases, SafeRaces
<1>3. FirstRuns'
  BY DEF Dispose, SlotsOK, FirstRuns
<1>4. QED  BY <1>1, <1>2, <1>3

-----------------------------------------------------------------------------
(* Without slow disposals the executor gives up on aborted runs only, and  *)
(* leaves the registry as it is.                                           *)
LEMMA OnlyAbortedTimeOut ==
    ASSUME SafeRaces, NEW s \in Slots, FinalizeTimesOut(s)
    PROVE  /\ waits' = [waits EXCEPT ![s] = @ \ {"finalAborted"}]
           /\ UNCHANGED <<status, ref, adopted, timer, up, run, owner, flow, cold, life,
                          listening, turn>>
<1>1. PICK w \in {"finalAborted", "finalOneShot", "finalIsolated"} :
         /\ w # "finalAborted" => "slowDispose" \in Races
         /\ waits' = [waits EXCEPT ![s] = @ \ {w}]
         /\ w = "finalAborted" => UNCHANGED registryVars
  BY DEF FinalizeTimesOut
<1>2. w = "finalAborted"  BY <1>1 DEF SafeRaces
<1>3. QED  BY <1>1, <1>2 DEF FinalizeTimesOut, registryVars

LEMMA FinalizeTimesOut_Inv ==
    ASSUME SafeRaces, SessionInv, TypeOK', NEW s \in Slots, FinalizeTimesOut(s)
    PROVE  SessionInv'
<1> USE ConstantsAssumption, OnlyAbortedTimeOut DEF SessionInv, TypeOK, Types
<1>1. LiveAreShown' /\ OneRevive' /\ ForgottenAreGone' /\ AdoptionsOK' /\ FirstRuns'
  BY DEF LiveAreShown, NoDeadSessions, OneRevive, ForgottenAreGone, AdoptionsOK, FirstRuns,
         Registered
<1>2. FlowPhases'  BY DEF FlowPhases
<1>3. StatusesOK'  BY DEF StatusesOK
<1>4. QED  BY <1>1, <1>2, <1>3

(* At first every agent is in its first run, on an open session.           *)
LEMMA Init_SessionInv == Init => SessionInv
<1> SUFFICES ASSUME Init PROVE SessionInv
  OBVIOUS
<1>1. TypeOK  BY Init_TypeOK
<1>2. /\ \A a \in Agents : ref[a] \in Slots /\ status[a] = "running" /\ adopted[a] = "no"
                           /\ ~timer[a] /\ run[a] = "running"
      /\ \A s \in Slots : /\ flow[s] = "none"
                          /\ owner[s] # None => ref[owner[s]] = s
                          /\ life[s] = IF owner[s] = None THEN "none" ELSE "open"
      /\ cold = {}
  BY ConstantsAssumption DEF Init
<1>3. \A a \in Agents : owner[ref[a]] = a  BY <1>1, <1>2, ConstantsAssumption DEF TypeOK, SlotsOK
<1>4. LiveAreShown /\ FirstRuns
  BY <1>1, <1>2, <1>3, ConstantsAssumption
     DEF LiveAreShown, NoDeadSessions, FirstRuns, TypeOK, Types
<1>5. OneRevive /\ FlowPhases  BY <1>2 DEF OneRevive, FlowPhases
<1>6. ForgottenAreGone /\ AdoptionsOK /\ StatusesOK
  BY <1>2 DEF ForgottenAreGone, AdoptionsOK, StatusesOK, Registered
<1>7. QED  BY <1>1, <1>4, <1>5, <1>6 DEF SessionInv

(* Every step keeps registry, manager and sessions in agreement.           *)
LEMMA Next_SessionInv ==
    ASSUME SafeRaces, SessionInv, [Next]_vars
    PROVE  SessionInv'
<1>1. TypeOK'  BY Next_TypeOK DEF SessionInv
<1>2. ASSUME NEW a \in Agents, AgentStep(a) PROVE SessionInv'
  BY <1>1, <1>2, FinalizeKeep_Inv, FinalizeAborted_Inv, FinalizeOneShot_Inv, FinalizeIsolated_Inv,
     ParkOnTtl_Inv, Release_Inv, Rescan_Inv, EnsureLive_Inv DEF AgentStep
<1>3. ASSUME NEW s \in Slots, SlotStep(s) PROVE SessionInv'
  BY <1>1, <1>3, FinalizeTimesOut_Inv, DisposeSettles_Inv, Wake_Inv, AgentStart_Inv, AgentEnd_Inv,
     FactoryAdopts_Inv, ReviveFailsEarly_Inv, ReviveRegisters_Inv, ReviveFailsLate_Inv,
     AttachCold_Inv, SetupFails_Inv, ReviveReturns_Inv DEF SlotStep
<1>4. CASE Dispose  BY <1>1, <1>4, Dispose_Inv
<1>5. CASE UNCHANGED vars
  BY <1>1, <1>5 DEF vars, SessionInv, LiveAreShown, NoDeadSessions, OneRevive, FlowPhases,
     ForgottenAreGone, AdoptionsOK, FirstRuns, StatusesOK, Registered
<1>6. QED  BY <1>2, <1>3, <1>4, <1>5 DEF Next

(* So they agree for ever.                                                 *)
LEMMA SessionInvHolds ==
    ASSUME SafeRaces
    PROVE  Spec => []SessionInv
  BY Init_SessionInv, Next_SessionInv, PTL DEF Spec

-----------------------------------------------------------------------------

(* One writer per transcript: parks, kills, first runs and both kinds of   *)
(* revive never make two sessions of one agent, open, closing or being     *)
(* built (ensureLive and park of registry/agent-lifecycle.ts).             *)
THEOREM AgentsHaveOneWriter ==
    ASSUME SafeRaces
    PROVE  Spec => []OneWriter
<1>1. SessionInv => OneWriter
  BY ConstantsAssumption
     DEF SessionInv, TypeOK, Types, SlotsOK, LiveAreShown, OneRevive, FlowPhases, OneWriter
<1>2. QED  BY <1>1, SessionInvHolds, PTL

(* Whoever opens a session has it shown by the registry when its revive is *)
(* over, so that it can be messaged, parked and killed (#revive, release). *)
THEOREM NoSessionIsOrphaned ==
    ASSUME SafeRaces
    PROVE  Spec => []NoOrphans
<1>1. SessionInv => NoOrphans  BY DEF SessionInv, LiveAreShown, NoOrphans
<1>2. QED  BY <1>1, SessionInvHolds, PTL

(* The registry never hands out a disposed session (park, the dispose      *)
(* wrapper of createAgentSession and the executor's finalization).         *)
THEOREM ShownSessionsLive ==
    ASSUME SafeRaces
    PROVE  Spec => []NoDeadSessions
<1>1. SessionInv => NoDeadSessions  BY DEF SessionInv, LiveAreShown
<1>2. QED  BY <1>1, SessionInvHolds, PTL

(* The manager forgets whom the registry forgot (#onRegistryEvent).        *)
THEOREM AdoptionsAreOfRegistered ==
    ASSUME SafeRaces
    PROVE  Spec => []AdoptedAreRegistered
<1>1. SessionInv => AdoptedAreRegistered  BY DEF SessionInv, ForgottenAreGone, AdoptedAreRegistered
<1>2. QED  BY <1>1, SessionInvHolds, PTL

(* An idle agent can be woken at once, and a parked one holds no session   *)
(* but that of an isolated run which is being closed (setStatus against    *)
(* attachSession and detachSession).                                       *)
THEOREM StatusesMatch ==
    ASSUME SafeRaces
    PROVE  Spec => []StatusMatchesSession
<1>1. SessionInv => StatusMatchesSession
  BY DEF SessionInv, TypeOK, Types, SlotsOK, StatusesOK, StatusMatchesSession
<1>2. QED  BY <1>1, SessionInvHolds, PTL

-----------------------------------------------------------------------------
(* When the timers agree with the turns                                    *)

(* No message reaches a session that a cold revive is still setting up.    *)
QuietRaces == SafeRaces /\ "earlyDelivery" \notin Races

(* While a session is in a turn, or its agent is registered as running, no *)
(* timer of that agent is armed, but one left over from before a revive.   *)
BusyUntimed == \A s \in Slots : up /\ turn[s] = "running" => ~timer[owner[s]]

RunningUntimed ==
    \A a \in Agents : up /\ status[a] = "running" /\ ~Reviving(a) => ~timer[a]

(* A session that is set up has no turn, and one whose turns the registry  *)
(* does not hear of belongs to an agent that is not adopted.               *)
QuietSetup == \A s \in Slots : flow[s] = "attached" => turn[s] = "none"

Unheard ==
    \A s \in Slots :
        life[s] # "none" /\ flow[s] = "none" /\ s \notin listening => adopted[owner[s]] = "no"

FirstHeard == \A a \in Agents : run[a] = "running" => ref[a] \in listening

(* A session that is closed because its run is not kept is not parked.     *)
OneShotsClose ==
    \A s \in Slots : "finalOneShot" \in waits[s] =>
        "park" \notin waits[s] /\ adopted[owner[s]] = "no"

TimerInv ==
    /\ IdleAgentsAreTimed /\ BusyUntimed /\ RunningUntimed
    /\ QuietSetup /\ Unheard /\ FirstHeard /\ OneShotsClose

(* A kept agent is timed from now on, and its session was listened to; its *)
(* run ended between turns.                                                *)
LEMMA FinalizeKeep_TimerInv ==
    ASSUME SessionInv, TimerInv, SessionInv',
           NEW a \in Agents, NEW reviver \in BOOLEAN, FinalizeKeep(a, reviver)
    PROVE  TimerInv'
<1> USE ConstantsAssumption DEF SessionInv, TimerInv, TypeOK, Types
<1>1. IdleAgentsAreTimed' /\ RunningUntimed' /\ QuietSetup' /\ FirstHeard'
  BY DEF FinalizeKeep, slotVars, Reviving, IdleAgentsAreTimed, RunningUntimed, QuietSetup,
         FirstHeard
<1>2. BusyUntimed'
  BY DEF FinalizeKeep, RunEnded, slotVars, SlotsOK, LiveAreShown, BusyUntimed
<1>3. Unheard'
  BY DEF FinalizeKeep, RunEnded, slotVars, LiveAreShown, Unheard, FirstHeard
<1>4. OneShotsClose'
  BY DEF FinalizeKeep, RunEnded, slotVars, SlotsOK, LiveAreShown, FirstRuns, OneShotsClose
<1>5. QED  BY <1>1, <1>2, <1>3, <1>4

(* An aborted run is not idle.                                             *)
LEMMA FinalizeAborted_TimerInv ==
    ASSUME SessionInv, TimerInv, SessionInv',
           NEW a \in Agents, FinalizeAborted(a)
    PROVE  TimerInv'
<1> USE ConstantsAssumption DEF SessionInv, TimerInv, TypeOK, Types
<1>1. /\ IdleAgentsAreTimed' /\ BusyUntimed' /\ RunningUntimed'
      /\ QuietSetup' /\ FirstHeard' /\ OneShotsClose'
  BY DEF FinalizeAborted, SetStatus, TimerAfter, BeginDispose, Reviving, IdleAgentsAreTimed,
         BusyUntimed, RunningUntimed, QuietSetup, FirstHeard, OneShotsClose
<1>2. Unheard'
  BY DEF FinalizeAborted, LiveAreShown, NoDeadSessions, Unheard
<1>3. QED  BY <1>1, <1>2

(* A run that is not kept was not adopted, so nobody parks it.             *)
LEMMA FinalizeOneShot_TimerInv ==
    ASSUME SessionInv, TimerInv, SessionInv',
           NEW a \in Agents, FinalizeOneShot(a)
    PROVE  TimerInv'
<1> USE ConstantsAssumption DEF SessionInv, TimerInv, TypeOK, Types
<1>1. IdleAgentsAreTimed' /\ BusyUntimed' /\ RunningUntimed' /\ QuietSetup' /\ FirstHeard'
  BY DEF FinalizeOneShot, BeginDispose, registryVars, Reviving, IdleAgentsAreTimed, BusyUntimed,
         RunningUntimed, QuietSetup, FirstHeard
<1>2. Unheard'
  BY DEF FinalizeOneShot, registryVars, LiveAreShown, NoDeadSessions, Unheard
<1>3. OneShotsClose'
  BY DEF FinalizeOneShot, RunEnded, BeginDispose, registryVars, SlotsOK, FirstRuns,
         OneShotsClose
<1>4. QED  BY <1>1, <1>2, <1>3

(* An isolated run is not idle.                                            *)
LEMMA FinalizeIsolated_TimerInv ==
    ASSUME SessionInv, TimerInv, SessionInv',
           NEW a \in Agents, FinalizeIsolated(a)
    PROVE  TimerInv'
<1> USE ConstantsAssumption DEF SessionInv, TimerInv, TypeOK, Types
<1>1. /\ IdleAgentsAreTimed' /\ BusyUntimed' /\ RunningUntimed'
      /\ QuietSetup' /\ FirstHeard' /\ OneShotsClose'
  BY DEF FinalizeIsolated, SetStatus, TimerAfter, BeginDispose, Reviving, IdleAgentsAreTimed,
         BusyUntimed, RunningUntimed, QuietSetup, FirstHeard, OneShotsClose
<1>2. Unheard'
  BY DEF FinalizeIsolated, LiveAreShown, NoDeadSessions, Unheard
<1>3. QED  BY <1>1, <1>2

(* The timer that fires is disarmed, and the session closes instead.       *)
LEMMA ParkOnTtl_TimerInv ==
    ASSUME SessionInv, TimerInv, SessionInv',
           NEW a \in Agents, ParkOnTtl(a)
    PROVE  TimerInv'
<1> USE ConstantsAssumption DEF SessionInv, TimerInv, TypeOK, Types
<1>1. BusyUntimed' /\ RunningUntimed' /\ QuietSetup' /\ FirstHeard'
  BY DEF ParkOnTtl, Reviving, BusyUntimed, RunningUntimed, QuietSetup, FirstHeard
<1>2. IdleAgentsAreTimed'
  BY DEF ParkOnTtl, BeginDispose, StatusesOK, IdleAgentsAreTimed
<1>3. Unheard'
  BY DEF ParkOnTtl, LiveAreShown, NoDeadSessions, Unheard
<1>4. OneShotsClose'
  BY DEF ParkOnTtl, BeginDispose, SlotsOK, OneShotsClose
<1>5. QED  BY <1>1, <1>2, <1>3, <1>4

(* A killed agent is no longer adopted.                                    *)
LEMMA Release_TimerInv ==
    ASSUME SessionInv, TimerInv, SessionInv',
           NEW a \in Agents, Release(a)
    PROVE  TimerInv'
<1> USE ConstantsAssumption DEF SessionInv, TimerInv, TypeOK, Types
<1>1. IdleAgentsAreTimed' /\ RunningUntimed' /\ QuietSetup' /\ FirstHeard'
  BY DEF Release, Reviving, Unregister, BeginDispose, IdleAgentsAreTimed, RunningUntimed,
         QuietSetup, FirstHeard
<1>2. BusyUntimed'
  BY DEF Release, Unregister, SlotsOK, BusyUntimed
<1>3. Unheard'
  BY DEF Release, Unregister, BeginDispose, SlotsOK, Unheard
<1>4. OneShotsClose'
  BY DEF Release, Unregister, BeginDispose, SlotsOK, OneShotsClose
<1>5. QED  BY <1>1, <1>2, <1>3, <1>4

(* A rescanned agent is not adopted and not idle.                          *)
LEMMA Rescan_TimerInv ==
    ASSUME SessionInv, TimerInv, SessionInv',
           NEW a \in Agents, Rescan(a)
    PROVE  TimerInv'
<1> USE ConstantsAssumption DEF SessionInv, TimerInv, TypeOK, Types
<1>1. /\ IdleAgentsAreTimed' /\ BusyUntimed' /\ RunningUntimed' /\ QuietSetup'
      /\ Unheard' /\ FirstHeard' /\ OneShotsClose'
  BY DEF Rescan, slotVars, Reviving, IdleAgentsAreTimed, BusyUntimed, RunningUntimed,
         QuietSetup, Unheard, FirstHeard, OneShotsClose
<1>2. QED  BY <1>1

(* A parked agent is not idle.                                             *)
LEMMA EnsureLive_TimerInv ==
    ASSUME SessionInv, TimerInv, SessionInv',
           NEW a \in Agents, NEW s \in Slots, EnsureLive(a, s)
    PROVE  TimerInv'
<1> USE ConstantsAssumption DEF SessionInv, TimerInv, TypeOK, Types
<1>1. IdleAgentsAreTimed' /\ RunningUntimed' /\ QuietSetup' /\ Unheard' /\ FirstHeard'
  BY DEF EnsureLive, Reviving, FreeSlot, StartFlow, registryVars, IdleAgentsAreTimed,
         RunningUntimed, QuietSetup, Unheard, FirstHeard
<1>2. BusyUntimed'
  BY DEF EnsureLive, StartFlow, registryVars, SlotsOK, BusyUntimed
<1>3. OneShotsClose'
  BY DEF EnsureLive, StartFlow, registryVars, SlotsOK, OneShotsClose
<1>4. QED  BY <1>1, <1>2, <1>3

(* The agent of a closed session is parked, or gone with its timer.        *)
LEMMA DisposeSettles_TimerInv ==
    ASSUME SessionInv, TimerInv, SessionInv',
           NEW s \in Slots, DisposeSettles(s)
    PROVE  TimerInv'
<1> USE ConstantsAssumption DEF SessionInv, TimerInv, TypeOK, Types
<1>1. RunningUntimed' /\ QuietSetup'
  BY DEF DisposeSettles, Unregister, SetStatus, Reviving, RunningUntimed, QuietSetup
<1>2. IdleAgentsAreTimed'
  BY DEF DisposeSettles, Parking, Unregister, SetStatus, SlotsOK, LiveAreShown,
         ForgottenAreGone, IdleAgentsAreTimed
<1>3. BusyUntimed'
  BY DEF DisposeSettles, Unregister, SetStatus, TimerAfter, SlotsOK, BusyUntimed
<1>4. Unheard'
  BY DEF DisposeSettles, Unregister, SlotsOK, Unheard
<1>5. FirstHeard'
  BY DEF DisposeSettles, Unregister, DetachSession, FirstRuns, FirstHeard
<1>6. OneShotsClose'
  BY DEF DisposeSettles, Unregister, SlotsOK, OneShotsClose
<1>7. QED  BY <1>1, <1>2, <1>3, <1>4, <1>5, <1>6

(* A cold revive that still sets its tools gets no message.                *)
LEMMA Wake_TimerInv ==
    ASSUME QuietRaces, SessionInv, TimerInv, SessionInv',
           NEW s \in Slots, Wake(s)
    PROVE  TimerInv'
<1> USE ConstantsAssumption DEF SessionInv, TimerInv, TypeOK, Types
<1>1. /\ IdleAgentsAreTimed' /\ BusyUntimed' /\ RunningUntimed'
      /\ Unheard' /\ FirstHeard' /\ OneShotsClose'
  BY DEF Wake, registryVars, Reviving, IdleAgentsAreTimed, BusyUntimed, RunningUntimed, Unheard,
         FirstHeard, OneShotsClose
<1>2. QuietSetup'
  BY DEF Wake, QuietSetup, QuietRaces
<1>3. QED  BY <1>1, <1>2

(* The start of a turn disarms the timer of an adopted agent; the session  *)
(* is listened to, or not adopted.                                         *)
LEMMA AgentStart_TimerInv ==
    ASSUME SessionInv, TimerInv, SessionInv',
           NEW s \in Slots, AgentStart(s)
    PROVE  TimerInv'
<1> USE ConstantsAssumption DEF SessionInv, TimerInv, TypeOK, Types
<1>1. IdleAgentsAreTimed' /\ QuietSetup' /\ Unheard' /\ FirstHeard' /\ OneShotsClose'
  BY DEF AgentStart, SetStatus, IdleAgentsAreTimed, QuietSetup, Unheard, FirstHeard,
         OneShotsClose
<1>2. BusyUntimed'
  <2>1. ref[owner[s]] = s /\ owner[s] \in Agents /\ (s \in listening \/ adopted[owner[s]] = "no")
    BY DEF AgentStart, SlotsOK, LiveAreShown, FlowPhases, QuietSetup, Unheard, Flows
  <2>2. s \in listening => Registered(owner[s]) /\ ~Reviving(owner[s])
    BY <2>1 DEF ForgottenAreGone, FlowPhases, SlotsOK, LiveAreShown, Reviving, Flows
  <2>3. up => ~timer'[owner[s]]
    <3>1. CASE s \in listening /\ status[owner[s]] # "running"
      BY <2>1, <2>2, <3>1 DEF AgentStart, SetStatus, TimerAfter, AdoptionsOK
    <3>2. CASE s \in listening /\ status[owner[s]] = "running"
      BY <2>1, <2>2, <3>2 DEF AgentStart, SetStatus, RunningUntimed
    <3>3. CASE s \notin listening
      BY <2>1, <3>3 DEF AgentStart, AdoptionsOK
    <3>4. QED  BY <3>1, <3>2, <3>3
  <2>4. \A t \in Slots : t # s => turn'[t] = turn[t]
    BY DEF AgentStart
  <2>5. \A b \in Agents : b # owner[s] => timer'[b] = timer[b]
    BY DEF AgentStart, SetStatus
  <2>6. \A t \in Slots : t # s /\ turn[t] = "running" => owner[t] \in Agents /\ owner[t] # owner[s]
    BY <2>1 DEF SlotsOK, LiveAreShown
  <2>7. up' = up /\ owner' = owner  BY DEF AgentStart
  <2>8. QED  BY <2>3, <2>4, <2>5, <2>6, <2>7 DEF BusyUntimed
<1>3. RunningUntimed'
  BY DEF AgentStart, SetStatus, TimerAfter, Reviving, AdoptionsOK, RunningUntimed
<1>4. QED  BY <1>1, <1>2, <1>3

(* The end of a turn arms it.                                              *)
LEMMA AgentEnd_TimerInv ==
    ASSUME SessionInv, TimerInv, SessionInv',
           NEW s \in Slots, AgentEnd(s)
    PROVE  TimerInv'
<1> USE ConstantsAssumption DEF SessionInv, TimerInv, TypeOK, Types
<1>1. /\ IdleAgentsAreTimed' /\ RunningUntimed' /\ QuietSetup'
      /\ Unheard' /\ FirstHeard' /\ OneShotsClose'
  BY DEF AgentEnd, SetStatus, TimerAfter, Reviving, IdleAgentsAreTimed, RunningUntimed,
         QuietSetup, Unheard, FirstHeard, OneShotsClose
<1>2. BusyUntimed'
  BY DEF AgentEnd, SetStatus, SlotsOK, LiveAreShown, BusyUntimed
<1>3. QED  BY <1>1, <1>2

(* The agent that is adopted is parked.                                    *)
LEMMA FactoryAdopts_TimerInv ==
    ASSUME SessionInv, TimerInv, SessionInv',
           NEW s \in Slots, FactoryAdopts(s)
    PROVE  TimerInv'
<1> USE ConstantsAssumption DEF SessionInv, TimerInv, TypeOK, Types
<1>1. BusyUntimed' /\ RunningUntimed' /\ QuietSetup' /\ FirstHeard'
  BY DEF FactoryAdopts, Reviving, BusyUntimed, RunningUntimed, QuietSetup, FirstHeard
<1>2. IdleAgentsAreTimed'
  BY DEF FactoryAdopts, FlowPhases, IdleAgentsAreTimed
<1>3. Unheard'
  BY DEF FactoryAdopts, LiveAreShown, FlowPhases, Unheard
<1>4. OneShotsClose'
  BY DEF FactoryAdopts, SlotsOK, LiveAreShown, FlowPhases, OneShotsClose
<1>5. QED  BY <1>1, <1>2, <1>3, <1>4

(* A cold adoption that is dropped had no timer.                           *)
LEMMA ReviveFailsEarly_TimerInv ==
    ASSUME SessionInv, TimerInv, SessionInv',
           NEW s \in Slots, ReviveFailsEarly(s)
    PROVE  TimerInv'
<1> USE ConstantsAssumption DEF SessionInv, TimerInv, TypeOK, Types
<1>1. IdleAgentsAreTimed' /\ BusyUntimed' /\ QuietSetup' /\ FirstHeard' /\ OneShotsClose'
  BY DEF ReviveFailsEarly, EndFlow, IdleAgentsAreTimed, BusyUntimed, QuietSetup, FirstHeard,
         OneShotsClose
<1>2. RunningUntimed'
  BY DEF ReviveFailsEarly, EndFlow, Reviving, FlowPhases, RunningUntimed
<1>3. Unheard'
  BY DEF ReviveFailsEarly, EndFlow, SlotsOK, Unheard
<1>4. QED  BY <1>1, <1>2, <1>3

(* An agent in its revive may be running with a timer armed earlier.       *)
LEMMA ReviveRegisters_TimerInv ==
    ASSUME SessionInv, TimerInv, SessionInv',
           NEW s \in Slots, ReviveRegisters(s)
    PROVE  TimerInv'
<1> USE ConstantsAssumption DEF SessionInv, TimerInv, TypeOK, Types
<1>1. /\ IdleAgentsAreTimed' /\ BusyUntimed' /\ RunningUntimed'
      /\ QuietSetup' /\ Unheard' /\ OneShotsClose'
  BY DEF ReviveRegisters, Reviving, IdleAgentsAreTimed, BusyUntimed, RunningUntimed, QuietSetup,
         Unheard, OneShotsClose
<1>2. FirstHeard'
  BY DEF ReviveRegisters, SlotsOK, LiveAreShown, FirstHeard
<1>3. QED  BY <1>1, <1>2

(* The agent is forgotten, and its timer with it.                          *)
LEMMA ReviveFailsLate_TimerInv ==
    ASSUME SessionInv, TimerInv, SessionInv',
           NEW s \in Slots, ReviveFailsLate(s)
    PROVE  TimerInv'
<1> USE ConstantsAssumption DEF SessionInv, TimerInv, TypeOK, Types
<1>1. IdleAgentsAreTimed' /\ QuietSetup'
  BY DEF ReviveFailsLate, Unregister, EndFlow, IdleAgentsAreTimed, QuietSetup
<1>2. BusyUntimed'
  BY DEF ReviveFailsLate, Unregister, EndFlow, SlotsOK, BusyUntimed
<1>3. RunningUntimed'
  BY DEF ReviveFailsLate, Parking, Unregister, EndFlow, Reviving, SlotsOK, LiveAreShown,
         FlowPhases, RunningUntimed
<1>4. Unheard'
  BY DEF ReviveFailsLate, Unregister, EndFlow, SlotsOK, Unheard
<1>5. FirstHeard'
  BY DEF ReviveFailsLate, Unregister, SlotsOK, LiveAreShown, FirstHeard
<1>6. OneShotsClose'
  BY DEF ReviveFailsLate, Unregister, EndFlow, SlotsOK, OneShotsClose
<1>7. QED  BY <1>1, <1>2, <1>3, <1>4, <1>5, <1>6

(* The new session has no turn yet.                                        *)
LEMMA AttachCold_TimerInv ==
    ASSUME SessionInv, TimerInv, SessionInv',
           NEW s \in Slots, AttachCold(s)
    PROVE  TimerInv'
<1> USE ConstantsAssumption DEF SessionInv, TimerInv, TypeOK, Types
<1>1. BusyUntimed' /\ RunningUntimed' /\ Unheard' /\ OneShotsClose'
  BY DEF AttachCold, Reviving, BusyUntimed, RunningUntimed, Unheard, OneShotsClose
<1>2. IdleAgentsAreTimed'
  BY DEF AttachCold, SlotsOK, LiveAreShown, IdleAgentsAreTimed
<1>3. QuietSetup'
  BY DEF AttachCold, SlotsOK, QuietSetup
<1>4. FirstHeard'
  BY DEF AttachCold, SlotsOK, LiveAreShown, FirstHeard
<1>5. QED  BY <1>1, <1>2, <1>3, <1>4

(* The session stays without a listener, and its agent without adoption.   *)
LEMMA SetupFails_TimerInv ==
    ASSUME SessionInv, TimerInv, SessionInv',
           NEW s \in Slots, SetupFails(s)
    PROVE  TimerInv'
<1> USE ConstantsAssumption DEF SessionInv, TimerInv, TypeOK, Types
<1>1. /\ IdleAgentsAreTimed' /\ BusyUntimed' /\ QuietSetup'
      /\ Unheard' /\ FirstHeard' /\ OneShotsClose'
  BY DEF SetupFails, EndFlow, IdleAgentsAreTimed, BusyUntimed, QuietSetup, Unheard, FirstHeard,
         OneShotsClose
<1>2. RunningUntimed'
  BY DEF SetupFails, EndFlow, Reviving, FlowPhases, RunningUntimed
<1>3. QED  BY <1>1, <1>2

(* The agent goes from running to idle, which arms its timer; its session  *)
(* is new and has no turn.                                                 *)
LEMMA ReviveReturns_TimerInv ==
    ASSUME SessionInv, TimerInv, SessionInv',
           NEW s \in Slots, ReviveReturns(s)
    PROVE  TimerInv'
<1> USE ConstantsAssumption DEF SessionInv, TimerInv, TypeOK, Types
<1>1. QuietSetup' /\ Unheard' /\ OneShotsClose'
  BY DEF ReviveReturns, EndFlow, QuietSetup, Unheard, OneShotsClose
<1>2. IdleAgentsAreTimed'
  BY DEF ReviveReturns, SetStatus, TimerAfter, EndFlow, SlotsOK, LiveAreShown,
         IdleAgentsAreTimed
<1>3. BusyUntimed'
  BY DEF ReviveReturns, AttachSession, SetStatus, SlotsOK, LiveAreShown, BusyUntimed, QuietSetup
<1>4. RunningUntimed'
  BY DEF ReviveReturns, AttachSession, SetStatus, EndFlow, Reviving, LiveAreShown, FlowPhases,
         RunningUntimed
<1>5. FirstHeard'
  BY DEF ReviveReturns, EndFlow, SlotsOK, LiveAreShown, FirstHeard
<1>6. QED  BY <1>1, <1>2, <1>3, <1>4, <1>5

(* Nobody is adopted any more.                                             *)
LEMMA Dispose_TimerInv ==
    ASSUME SessionInv, TimerInv, SessionInv',
           Dispose
    PROVE  TimerInv'
<1> USE ConstantsAssumption DEF SessionInv, TimerInv, TypeOK, Types
<1>1. IdleAgentsAreTimed' /\ BusyUntimed' /\ RunningUntimed' /\ QuietSetup' /\ FirstHeard'
  BY DEF Dispose, IdleAgentsAreTimed, BusyUntimed, RunningUntimed, QuietSetup, FirstHeard
<1>2. Unheard'
  BY DEF Dispose, SlotsOK, Unheard
<1>3. OneShotsClose'
  BY DEF Dispose, SlotsOK, OneShotsClose
<1>4. QED  BY <1>1, <1>2, <1>3

(* At first no timer is armed and every session is listened to.            *)
LEMMA Init_TimerInv == Init => TimerInv
<1> SUFFICES ASSUME Init PROVE TimerInv
  OBVIOUS
<1>1. TypeOK  BY Init_TypeOK
<1>2. /\ \A a \in Agents : ref[a] \in Slots /\ run[a] = "running" /\ ~timer[a]
      /\ \A s \in Slots : /\ flow[s] = "none" /\ waits[s] = {}
                          /\ owner[s] # None => s \in listening
                          /\ life[s] # "none" => owner[s] # None
                          /\ turn[s] # "none" => owner[s] # None
  BY ConstantsAssumption DEF Init
<1>3. \A a \in Agents : owner[ref[a]] = a  BY <1>1, <1>2, ConstantsAssumption DEF TypeOK, SlotsOK
<1>4. IdleAgentsAreTimed /\ BusyUntimed /\ RunningUntimed
  BY <1>1, <1>2 DEF IdleAgentsAreTimed, BusyUntimed, RunningUntimed, TypeOK, Types
<1>5. QuietSetup /\ Unheard /\ FirstHeard /\ OneShotsClose
  BY <1>2, <1>3, ConstantsAssumption DEF QuietSetup, Unheard, FirstHeard, OneShotsClose
<1>6. QED  BY <1>4, <1>5 DEF TimerInv

(* A disposal nobody waits for any more is none of a park.                 *)
LEMMA FinalizeTimesOut_TimerInv ==
    ASSUME SafeRaces, SessionInv, TimerInv, NEW s \in Slots, FinalizeTimesOut(s)
    PROVE  TimerInv'
<1> USE OnlyAbortedTimeOut DEF SessionInv, TimerInv, TypeOK, Types
<1>1. IdleAgentsAreTimed'  BY DEF IdleAgentsAreTimed
<1>2. BusyUntimed' /\ RunningUntimed' /\ QuietSetup' /\ Unheard' /\ FirstHeard' /\ OneShotsClose'
  BY DEF Reviving, BusyUntimed, RunningUntimed, QuietSetup, Unheard, FirstHeard, OneShotsClose
<1>3. QED  BY <1>1, <1>2

(* Every step keeps timers and turns in agreement.                         *)
LEMMA Next_TimerInv ==
    ASSUME QuietRaces, SessionInv, TimerInv, SessionInv', [Next]_vars
    PROVE  TimerInv'
<1>1. SafeRaces  BY DEF QuietRaces
<1>2. ASSUME NEW a \in Agents, AgentStep(a) PROVE TimerInv'
  BY <1>2, FinalizeKeep_TimerInv, FinalizeAborted_TimerInv, FinalizeOneShot_TimerInv,
     FinalizeIsolated_TimerInv, ParkOnTtl_TimerInv, Release_TimerInv, Rescan_TimerInv,
     EnsureLive_TimerInv DEF AgentStep
<1>3. ASSUME NEW s \in Slots, SlotStep(s) PROVE TimerInv'
  BY <1>1, <1>3, FinalizeTimesOut_TimerInv, DisposeSettles_TimerInv, Wake_TimerInv, AgentStart_TimerInv,
     AgentEnd_TimerInv, FactoryAdopts_TimerInv, ReviveFailsEarly_TimerInv,
     ReviveRegisters_TimerInv, ReviveFailsLate_TimerInv, AttachCold_TimerInv,
     SetupFails_TimerInv, ReviveReturns_TimerInv DEF SlotStep
<1>4. CASE Dispose  BY <1>4, Dispose_TimerInv
<1>5. CASE UNCHANGED vars
  BY <1>5 DEF vars, TimerInv, IdleAgentsAreTimed, BusyUntimed, RunningUntimed, Reviving,
     QuietSetup, Unheard, FirstHeard, OneShotsClose
<1>6. QED  BY <1>2, <1>3, <1>4, <1>5 DEF Next

(* So they agree for ever.                                                 *)
LEMMA TimerInvHolds ==
    ASSUME QuietRaces
    PROVE  Spec => [](SessionInv /\ TimerInv)
<1>1. SafeRaces  BY DEF QuietRaces
<1>2. Spec => []SessionInv  BY <1>1, SessionInvHolds
<1>3. SessionInv /\ SessionInv' /\ TimerInv /\ [Next]_vars => TimerInv'  BY Next_TimerInv
<1>4. QED  BY <1>2, <1>3, Init_TimerInv, PTL DEF Spec

-----------------------------------------------------------------------------

(* An adopted idle agent has its timer armed or its session closing, so    *)
(* that no idle session is kept for ever (#onRegistryEvent, park).         *)
THEOREM IdleAgentsHaveTimers ==
    ASSUME QuietRaces
    PROVE  Spec => []IdleAgentsAreTimed
<1>1. TimerInv => IdleAgentsAreTimed  BY DEF TimerInv
<1>2. QED  BY <1>1, TimerInvHolds, PTL

(* The manager's timer never disposes a session in the middle of a turn,   *)
(* which is false with earlyDelivery (park, installRegistryStatusSync).    *)
THEOREM TurnsAreNotParked ==
    ASSUME QuietRaces
    PROVE  Spec => NeverParksMidTurn
<1> DEFINE Quiet(s) == up /\ "park" \in waits'[s] /\ "park" \notin waits[s] => turn[s] # "running"
<1>1. ASSUME SessionInv, TimerInv, Next, NEW s \in Slots
      PROVE  Quiet(s)
  <2>1. ASSUME NEW a \in Agents, ParkOnTtl(a) PROVE Quiet(s)
    BY <1>1, <2>1, ConstantsAssumption
       DEF ParkOnTtl, BeginDispose, SessionInv, TimerInv, BusyUntimed, TypeOK, Types, SlotsOK
  <2>2. ASSUME NEW a \in Agents, AgentStep(a), ~ParkOnTtl(a) PROVE Quiet(s)
    <3>1. \/ waits' = waits
          \/ \E who \in {"finalAborted", "finalOneShot", "finalIsolated", "release"} :
                waits' = [waits EXCEPT ![ref[a]] = @ \cup {who}]
      BY <2>2 DEF AgentStep, FinalizeKeep, FinalizeAborted, FinalizeOneShot, FinalizeIsolated,
         BeginDispose, Release, Rescan, EnsureLive, slotVars
    <3>2. QED  BY <1>1, <3>1 DEF SessionInv, TypeOK, Types
  <2>3. ASSUME NEW t \in Slots, SlotStep(t) PROVE Quiet(s)
    <3>1. \/ waits' = waits
          \/ waits' = [waits EXCEPT ![t] = {}]
          \/ \E who \in Waits : waits' = [waits EXCEPT ![t] = @ \ {who}]
      BY <2>3 DEF SlotStep, FinalizeTimesOut, DisposeSettles, Wake, AgentStart, AgentEnd,
         FactoryAdopts, ReviveFailsEarly, ReviveRegisters, ReviveFailsLate, AttachCold,
         SetupFails, ReviveReturns, Waits
    <3>2. QED  BY <1>1, <3>1 DEF SessionInv, TypeOK, Types
  <2>4. CASE Dispose  BY <1>1, <2>4 DEF Dispose, SessionInv, TypeOK, Types
  <2>5. QED  BY <1>1, <2>1, <2>2, <2>3, <2>4 DEF Next
<1>2. ASSUME SessionInv, TimerInv, [Next]_vars
      PROVE  [\A s \in Slots : Quiet(s)]_vars
  BY <1>1, <1>2
<1>3. QED  BY <1>2, TimerInvHolds, PTL DEF Spec, NeverParksMidTurn

(* A disposal that a park awaits, and no kill, ends with the agent still   *)
(* registered (isParking, the dispose wrapper of createAgentSession).      *)
THEOREM ParksKeepAgents ==
    ASSUME QuietRaces
    PROVE  Spec => ParkKeepsTheAgent
<1> DEFINE Kept(s) == "park" \in waits[s] /\ "release" \notin waits[s] => Registered(owner[s])'
<1>1. ASSUME SessionInv, TimerInv, SessionInv', Next, NEW s \in Slots,
             "park" \in waits[s], "release" \notin waits[s]
      PROVE  Registered(owner[s])'
  <2> USE <1>1, ConstantsAssumption DEF SessionInv, TypeOK, Types, Registered
  <2>1. life[s] = "closing" /\ owner[s] \in Agents /\ ref[owner[s]] = s
    BY <1>1 DEF SlotsOK, LiveAreShown
  <2>2. Registered(owner[s])  BY <2>1 DEF ForgottenAreGone
  <2>3. ASSUME NEW a \in Agents, AgentStep(a) PROVE Registered(owner[s])'
    <3>1. UNCHANGED owner \/ \E t \in Slots : EnsureLive(a, t)
      BY <2>3 DEF AgentStep, FinalizeKeep, FinalizeAborted, FinalizeOneShot, FinalizeIsolated,
         ParkOnTtl, Release, Rescan, slotVars
    <3>2. owner'[s] = owner[s]
      BY <2>1, <3>1 DEF EnsureLive, FreeSlot, StartFlow
    <3>3. status'[owner[s]] # "none"
      <4>1. \/ status' = status
            \/ \E st \in {"idle", "parked"} : status' = [status EXCEPT ![a] = st]
            \/ \E st \in {"aborted", "parked"} : SetStatus(a, st)
            \/ ref[a] = None /\ Unregister(a)
        BY <2>3 DEF AgentStep, FinalizeKeep, FinalizeAborted, FinalizeOneShot, FinalizeIsolated,
           ParkOnTtl, Release, Rescan, EnsureLive, registryVars
      <4>2. CASE \E st \in {"aborted", "parked"} : SetStatus(a, st)
        BY <2>1, <2>2, <4>2 DEF SetStatus
      <4>3. CASE ref[a] = None /\ Unregister(a)
        BY <2>1, <2>2, <4>3 DEF Unregister
      <4>4. QED  BY <2>1, <2>2, <4>1, <4>2, <4>3
    <3>4. QED  BY <3>2, <3>3
  <2>4. ASSUME DisposeSettles(s) PROVE Registered(owner[s])'
    <3>1. Parking(owner[s]) /\ "finalOneShot" \notin waits[s]
      BY <1>1 DEF Parking, TimerInv, OneShotsClose
    <3>2. SetStatus(owner[s], "parked") /\ owner' = owner
      BY <1>1, <2>4, <3>1 DEF DisposeSettles
    <3>3. QED  BY <2>1, <2>2, <3>2 DEF SetStatus
  <2>5. ASSUME NEW t \in Slots, SlotStep(t), t # s \/ ~DisposeSettles(s) PROVE Registered(owner[s])'
    <3>1. owner' = owner
      BY <2>5 DEF SlotStep, FinalizeTimesOut, DisposeSettles, Wake, AgentStart, AgentEnd,
         FactoryAdopts, ReviveFailsEarly, ReviveRegisters, ReviveFailsLate, AttachCold,
         SetupFails, ReviveReturns, EndFlow
    <3>2. CASE FinalizeTimesOut(t)
      BY <2>1, <2>2, <3>1, <3>2, OnlyAbortedTimeOut DEF QuietRaces
    <3>3. CASE DisposeSettles(t)
      <4>1. owner[t] # owner[s]
        <5>1. life[t] = "closing"  BY <3>3 DEF DisposeSettles
        <5>2. t # s  BY Zenon, <2>5, <3>3
        <5>3. ref[owner[t]] = t  BY <5>1 DEF LiveAreShown
        <5>4. QED  BY <2>1, <5>2, <5>3
      <4>2. QED  BY <2>1, <2>2, <3>1, <3>3, <4>1 DEF DisposeSettles, Unregister, SetStatus
    <3>4. CASE ReviveFailsLate(t)
      <4>1. owner[t] # owner[s]  BY <2>1, <3>4 DEF ReviveFailsLate, FlowPhases
      <4>2. QED  BY <2>1, <2>2, <3>1, <3>4, <4>1 DEF ReviveFailsLate, Unregister
    <3>5. CASE ~FinalizeTimesOut(t) /\ ~DisposeSettles(t) /\ ~ReviveFailsLate(t)
      BY <2>1, <2>2, <2>5, <3>1, <3>5 DEF SlotStep, Wake, AgentStart, AgentEnd, SetStatus,
         FactoryAdopts, ReviveFailsEarly, ReviveRegisters, AttachCold, SetupFails, ReviveReturns,
         registryVars
    <3>6. QED  BY <3>2, <3>3, <3>4, <3>5
  <2>6. CASE Dispose  BY <2>1, <2>2, <2>6 DEF Dispose
  <2>7. QED  BY <1>1, <2>3, <2>4, <2>5, <2>6 DEF Next
<1>2. ASSUME SessionInv, TimerInv, SessionInv', [Next]_vars
      PROVE  [\A s \in Slots : Kept(s)]_vars
  BY <1>1, <1>2
<1>3. QED  BY <1>2, TimerInvHolds, PTL DEF Spec, ParkKeepsTheAgent

=============================================================================

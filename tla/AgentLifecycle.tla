--------------------------- MODULE AgentLifecycle ---------------------------
(***************************************************************************)
(* The agent registry and the lifecycle manager that parks and revives     *)
(* subagents: registry/agent-registry.ts, registry/agent-lifecycle.ts, and *)
(* the callers that decide what they are given (task/executor.ts,          *)
(* sdk.ts, task/persisted-revive.ts, modes/components/agent-hub.ts).       *)
(*                                                                         *)
(* The code is single-threaded and asynchronous, so an action is what runs *)
(* between two awaits.  The awaits that really leave the event loop are a  *)
(* session's disposal and the phases of a revive; the continuations of one *)
(* settled disposal run in the same microtask checkpoint and are therefore *)
(* one action (DisposeSettles).                                            *)
(*                                                                         *)
(* A session object is a slot.  A slot is allocated by the revive that     *)
(* builds the session (or holds the session of the first run) and is free  *)
(* again when the session is disposed, the revive has returned and the     *)
(* registry holds no reference to it.                                      *)
(***************************************************************************)
EXTENDS FiniteSets

CONSTANTS
    Agents,       \* registry ids of subagents (the main agent is never adopted)
    Slots,        \* session objects that may exist at one time: a bound
    None,         \* no slot, no agent
    TtlEnabled,   \* task.agentIdleTtlMs > 0
    Outcomes,     \* the ways a first run may be finalized
    Races         \* the interleavings the environment is allowed, see below

AllOutcomes == {"keep", "keepNoReviver", "aborted", "oneShot", "isolated"}

(* "killInRevive"   an operator kills an agent whose revive is in flight     *)
(* "earlyDelivery"  a message reaches a session a cold revive is still       *)
(*                  setting up                                               *)
(* "wakeAtDispose"  a session is parked or finalized between a wake and its  *)
(*                  agent_start                                              *)
(* "lateFailure"    createAgentSession fails after it registered the agent,  *)
(*                  or a cold revive fails while it sets up the session      *)
(* "isolatedRevive" an isolated run's worktree still exists when a message   *)
(*                  for its parked agent reaches the persisted reviver       *)
(* "slowDispose"    a finalized one-shot or isolated session takes more than *)
(*                  the five seconds the executor waits for its disposal     *)
AllRaces == {"killInRevive", "earlyDelivery", "wakeAtDispose", "lateFailure",
             "isolatedRevive", "slowDispose"}

ASSUME ConstantsAssumption ==
    /\ TtlEnabled \in BOOLEAN
    /\ Outcomes \subseteq AllOutcomes
    /\ Races \subseteq AllRaces
    /\ None \notin Agents
    /\ None \notin Slots

VARIABLES
    status,    \* AgentRef.status by id, "none" when the id is not registered
    ref,       \* AgentRef.session
    adopted,   \* the manager's #adopted entry: "no", "plain" or "reviver"
    timer,     \* the adopted entry's idle timer is armed
    up,        \* the manager is subscribed and the process is not exiting
    run,       \* the first run: "running", "done", or how else it ended:
               \* "isolated", or "noFile" for a session never persisted
    owner,     \* the agent a slot belongs to, or last belonged to
    flow,      \* where the revive that builds the slot's session is
    cold,      \* slots built by the persisted reviver
    life,      \* the session object: "none", "open" or "closing"
    listening, \* sessions whose turn events set the registry status
    turn,      \* the session's turn: "none", "waking" or "running"
    waits      \* who awaits the session's disposal

vars == <<status, ref, adopted, timer, up, run, owner, flow, cold, life,
          listening, turn, waits>>

registryVars == <<status, ref, adopted, timer>>
slotVars     == <<owner, flow, cold, life, listening, turn, waits>>

Statuses == {"none", "running", "idle", "parked", "aborted"}
Flows    == {"none", "factory", "opening", "building", "attached"}
Waits    == {"park", "release", "finalAborted", "finalOneShot", "finalIsolated"}

Types ==
    /\ status \in [Agents -> Statuses]
    /\ ref \in [Agents -> Slots \cup {None}]
    /\ adopted \in [Agents -> {"no", "plain", "reviver"}]
    /\ timer \in [Agents -> BOOLEAN]
    /\ up \in BOOLEAN
    /\ run \in [Agents -> {"running", "done", "isolated", "noFile"}]
    /\ owner \in [Slots -> Agents \cup {None}]
    /\ flow \in [Slots -> Flows]
    /\ cold \subseteq Slots
    /\ life \in [Slots -> {"none", "open", "closing"}]
    /\ listening \subseteq Slots
    /\ turn \in [Slots -> {"none", "waking", "running"}]
    /\ waits \in [Slots -> SUBSET Waits]

(* The bookkeeping of the slots themselves.                                *)
SlotsOK ==
    /\ \A s \in Slots : waits[s] # {} => life[s] = "closing"
    /\ \A s \in Slots : owner[s] = None => life[s] = "none" /\ flow[s] = "none"
    /\ \A a \in Agents : ref[a] # None => owner[ref[a]] = a
    /\ \A s \in Slots : flow[s] \in {"factory", "opening", "building"} =>
          life[s] = "none" /\ \A a \in Agents : ref[a] # s
    /\ \A s \in cold : flow[s] # "none"
    /\ \A s \in listening : life[s] # "none"
    /\ \A s \in Slots : turn[s] # "none" => life[s] # "none"

TypeOK == Types /\ SlotsOK

-----------------------------------------------------------------------------
(* The registry                                                            *)

Registered(a) == status[a] # "none"

(* Variant: only the factory phase of a revive is seen, so a second call   *)
(* starts a second revive.                                                 *)
RevivingInFactory(a) == \E s \in Slots : owner[s] = a /\ flow[s] = "factory"

Reviving(a) == \E s \in Slots : owner[s] = a /\ flow[s] # "none"

(* Variant: nobody can tell a park from a teardown.                        *)
ParkingUnknown(a) == FALSE

Parking(a) == \E s \in Slots : owner[s] = a /\ "park" \in waits[s]

(* Variants: the timer is only armed, or only disarmed, by the events.     *)
TimerOnlyArmed(a, st) ==
    IF up /\ adopted[a] # "no" /\ st = "idle" THEN TtlEnabled ELSE timer[a]

TimerOnlyDisarmed(a, st) ==
    IF up /\ adopted[a] # "no" /\ st = "running" THEN FALSE ELSE timer[a]

(* #onRegistryEvent for a status change: entering "running" disarms the    *)
(* idle timer, entering "idle" arms it, other statuses leave it alone.     *)
TimerAfter(a, st) ==
    IF up /\ adopted[a] # "no" /\ st \in {"running", "idle"}
    THEN st = "idle" /\ TtlEnabled
    ELSE timer[a]

(* setStatus: no event for an unknown agent or an unchanged status.        *)
SetStatus(a, st) ==
    IF Registered(a) /\ status[a] # st
    THEN /\ status' = [status EXCEPT ![a] = st]
         /\ timer'  = [timer  EXCEPT ![a] = TimerAfter(a, st)]
    ELSE UNCHANGED <<status, timer>>

(* Variant: the manager ignores the "removed" event.                       *)
UnregisterKeepingAdoption(a) ==
    /\ status'  = [status  EXCEPT ![a] = "none"]
    /\ ref'     = [ref     EXCEPT ![a] = None]
    /\ UNCHANGED <<adopted, timer>>

(* unregister, with the manager's handling of the "removed" event.         *)
Unregister(a) ==
    /\ status'  = [status  EXCEPT ![a] = "none"]
    /\ ref'     = [ref     EXCEPT ![a] = None]
    /\ adopted' = [adopted EXCEPT ![a] = "no"]
    /\ timer'   = [timer   EXCEPT ![a] = FALSE]

(* attachSession and detachSession, and a variant of each that forgets.    *)
AttachNothing(a, s) == UNCHANGED ref

AttachSession(a, s) ==
    ref' = IF Registered(a) THEN [ref EXCEPT ![a] = s] ELSE ref

DetachNothing(a) == UNCHANGED ref

DetachSession(a) == ref' = [ref EXCEPT ![a] = None]

-----------------------------------------------------------------------------
(* Session disposal                                                        *)

(* Variant: the session does not refuse work once its disposal began.      *)
BeginDisposeUnmarked(s, who) ==
    /\ UNCHANGED life
    /\ waits' = [waits EXCEPT ![s] = @ \cup {who}]

(* session.dispose() joins the one disposal of the session.                *)
BeginDispose(s, who) ==
    /\ life'  = [life  EXCEPT ![s] = "closing"]
    /\ waits' = [waits EXCEPT ![s] = @ \cup {who}]

(* The disposal settles and every continuation runs: first the dispose     *)
(* wrapper of createAgentSession, which unregisters the agent unless it is *)
(* parked or being parked, then whoever awaited it.                        *)
DisposeSettles(s) ==
    LET a == owner[s]
        gone == \/ waits[s] \cap {"release", "finalOneShot"} # {}
                \/ status[a] # "parked" /\ ~Parking(a)
    IN  /\ life[s] = "closing"
        /\ \/ /\ gone
              /\ Unregister(a)
           \/ /\ ~gone
              /\ "park" \in waits[s]
              /\ DetachSession(a)
              /\ SetStatus(a, "parked")
              /\ UNCHANGED adopted
           \/ /\ ~gone
              /\ "park" \notin waits[s]
              /\ IF "finalIsolated" \in waits[s] THEN DetachSession(a)
                                                  ELSE UNCHANGED ref
              /\ UNCHANGED <<status, timer, adopted>>
        /\ life'  = [life  EXCEPT ![s] = "none"]
        /\ waits' = [waits EXCEPT ![s] = {}]
        /\ turn'  = [turn  EXCEPT ![s] = "none"]
        /\ listening' = listening \ {s}
        /\ UNCHANGED <<up, run, owner, flow, cold>>

-----------------------------------------------------------------------------
(* The first run of a subagent and its finalization (task/executor.ts)     *)

(* A run that was not aborted ends between turns.                          *)
RunEnded(a) ==
    /\ run[a] = "running" /\ turn[ref[a]] # "running"
    /\ turn[ref[a]] = "waking" => "wakeAtDispose" \in Races

FinalizeKeep(a, reviver) ==
    /\ RunEnded(a)
    /\ (IF reviver THEN "keep" ELSE "keepNoReviver") \in Outcomes
    /\ run' = [run EXCEPT ![a] = IF reviver THEN "done" ELSE "noFile"]
    /\ status'  = [status  EXCEPT ![a] = "idle"]
    /\ adopted' = [adopted EXCEPT ![a] = IF reviver THEN "reviver" ELSE "plain"]
    /\ timer'   = [timer   EXCEPT ![a] = TtlEnabled]
    /\ UNCHANGED <<ref, up, slotVars>>

(* A hard abort marks the agent before its session is disposed.            *)
FinalizeAborted(a) ==
    /\ run[a] = "running" /\ "aborted" \in Outcomes
    /\ run' = [run EXCEPT ![a] = "done"]
    /\ SetStatus(a, "aborted")
    /\ BeginDispose(ref[a], "finalAborted")
    /\ UNCHANGED <<ref, adopted, up, owner, flow, cold, listening, turn>>

FinalizeOneShot(a) ==
    /\ RunEnded(a) /\ "oneShot" \in Outcomes
    /\ run' = [run EXCEPT ![a] = "done"]
    /\ BeginDispose(ref[a], "finalOneShot")
    /\ UNCHANGED <<registryVars, up, owner, flow, cold, listening, turn>>

(* An isolated run is parked without adoption, before its disposal.        *)
FinalizeIsolated(a) ==
    /\ RunEnded(a) /\ "isolated" \in Outcomes
    /\ run' = [run EXCEPT ![a] = "isolated"]
    /\ SetStatus(a, "parked")
    /\ BeginDispose(ref[a], "finalIsolated")
    /\ UNCHANGED <<ref, adopted, up, owner, flow, cold, listening, turn>>

(* The executor stops awaiting the disposal after five seconds.            *)
FinalizeTimesOut(s) ==
    LET a == owner[s]
    IN  /\ life[s] = "closing"
        /\ \E w \in waits[s] \cap {"finalAborted", "finalOneShot", "finalIsolated"} :
              /\ w # "finalAborted" => "slowDispose" \in Races
              /\ waits' = [waits EXCEPT ![s] = @ \ {w}]
              /\ \/ w = "finalOneShot" /\ Unregister(a)
                 \/ /\ w = "finalIsolated"
                    /\ DetachSession(a)
                    /\ UNCHANGED <<status, adopted, timer>>
                 \/ w = "finalAborted" /\ UNCHANGED registryVars
        /\ UNCHANGED <<up, run, owner, flow, cold, life, listening, turn>>

-----------------------------------------------------------------------------
(* Turns                                                                   *)

(* A message or a prompt reaches an idle session and starts a turn; a      *)
(* disposing session refuses it.                                           *)
Wake(s) ==
    /\ up /\ life[s] = "open" /\ turn[s] = "none"
    /\ owner[s] # None /\ ref[owner[s]] = s
    /\ flow[s] = "attached" => "earlyDelivery" \in Races
    /\ turn' = [turn EXCEPT ![s] = "waking"]
    /\ UNCHANGED <<registryVars, up, run, owner, flow, cold, life, listening, waits>>

(* agent_start and agent_end reach the status listener of the session.     *)
AgentStart(s) ==
    /\ turn[s] = "waking"
    /\ turn' = [turn EXCEPT ![s] = "running"]
    /\ IF s \in listening THEN SetStatus(owner[s], "running")
                          ELSE UNCHANGED <<status, timer>>
    /\ UNCHANGED <<ref, adopted, up, run, owner, flow, cold, life, listening, waits>>

AgentEnd(s) ==
    /\ turn[s] = "running"
    /\ turn' = [turn EXCEPT ![s] = "none"]
    /\ IF s \in listening THEN SetStatus(owner[s], "idle")
                          ELSE UNCHANGED <<status, timer>>
    /\ UNCHANGED <<ref, adopted, up, run, owner, flow, cold, life, listening, waits>>

-----------------------------------------------------------------------------
(* Parking                                                                 *)

(* The idle timer fires and park runs up to its await: a no-op unless the  *)
(* agent is adopted and has a session.                                     *)
ParkOnTtl(a) ==
    /\ timer[a]
    /\ (ref[a] # None /\ turn[ref[a]] = "waking") => "wakeAtDispose" \in Races
    /\ timer' = [timer EXCEPT ![a] = FALSE]
    /\ IF adopted[a] # "no" /\ ref[a] # None
       THEN BeginDispose(ref[a], "park")
       ELSE UNCHANGED <<life, waits>>
    /\ UNCHANGED <<status, ref, adopted, up, run, owner, flow, cold, listening, turn>>

-----------------------------------------------------------------------------
(* Reviving                                                                *)

FreeSlot(s) ==
    life[s] = "none" /\ flow[s] = "none" /\ \A a \in Agents : ref[a] # s

StartFlow(s, a, phase, isCold) ==
    /\ owner' = [owner EXCEPT ![s] = a]
    /\ flow'  = [flow  EXCEPT ![s] = phase]
    /\ cold'  = IF isCold THEN cold \cup {s} ELSE cold

(* ensureLive on an agent without a session starts one revive; callers     *)
(* that find a session or a revive in flight change nothing.               *)
EnsureLive(a, s) ==
    /\ up /\ status[a] = "parked" /\ ref[a] = None
    /\ run[a] # "noFile"
    /\ ~Reviving(a)
    /\ FreeSlot(s)
    /\ IF adopted[a] = "reviver"
       THEN StartFlow(s, a, "opening", FALSE)
       ELSE /\ run[a] = "isolated" => "isolatedRevive" \in Races
            /\ StartFlow(s, a, "factory", TRUE)
    /\ UNCHANGED <<registryVars, up, run, life, listening, turn, waits>>

EndFlow(s) ==
    /\ flow'  = [flow EXCEPT ![s] = "none"]
    /\ cold'  = cold \ {s}
    /\ UNCHANGED owner

(* The persisted factory produced a reviver: the agent is adopted and the  *)
(* reviver starts.                                                         *)
FactoryAdopts(s) ==
    /\ flow[s] = "factory"
    /\ adopted' = [adopted EXCEPT ![owner[s]] = "reviver"]
    /\ flow' = [flow EXCEPT ![s] = "opening"]
    /\ UNCHANGED <<status, ref, timer, up, run, owner, cold, life, listening, turn, waits>>

(* The factory declines, or the transcript cannot be opened: the revive    *)
(* fails before anything was registered, and a cold adoption is dropped.   *)
ReviveFailsEarly(s) ==
    /\ flow[s] \in {"factory", "opening"}
    /\ adopted' = IF flow[s] = "opening" /\ s \in cold
                  THEN [adopted EXCEPT ![owner[s]] = "no"] ELSE adopted
    /\ UNCHANGED life
    /\ EndFlow(s)
    /\ UNCHANGED <<status, ref, timer, up, run, listening, turn, waits>>

(* Variant: the agent is registered idle.                                  *)
ReviveRegistersIdle(s) ==
    /\ flow[s] = "opening"
    /\ flow'   = [flow   EXCEPT ![s] = "building"]
    /\ status' = [status EXCEPT ![owner[s]] = "idle"]
    /\ ref'    = [ref    EXCEPT ![owner[s]] = None]
    /\ UNCHANGED <<adopted, timer, up, run, owner, cold, life, listening, turn, waits>>

(* createAgentSession registers the agent anew, running and sessionless.   *)
ReviveRegisters(s) ==
    /\ flow[s] = "opening"
    /\ flow'   = [flow   EXCEPT ![s] = "building"]
    /\ status' = [status EXCEPT ![owner[s]] = "running"]
    /\ ref'    = [ref    EXCEPT ![owner[s]] = None]
    /\ UNCHANGED <<adopted, timer, up, run, owner, cold, life, listening, turn, waits>>

(* createAgentSession throws after registering: it unregisters the agent.  *)
ReviveFailsLate(s) ==
    LET a == owner[s]
    IN  /\ flow[s] = "building" /\ "lateFailure" \in Races
        /\ IF status[a] # "parked" /\ ~Parking(a)
           THEN Unregister(a)
           ELSE /\ adopted' = IF s \in cold THEN [adopted EXCEPT ![a] = "no"] ELSE adopted
                /\ UNCHANGED <<status, ref, timer>>
        /\ UNCHANGED life
        /\ EndFlow(s)
        /\ UNCHANGED <<up, run, listening, turn, waits>>

(* A cold revive: the session is attached, its tools are still to be set.  *)
AttachCold(s) ==
    /\ flow[s] = "building" /\ s \in cold
    /\ flow' = [flow EXCEPT ![s] = "attached"]
    /\ life' = [life EXCEPT ![s] = "open"]
    /\ AttachSession(owner[s], s)
    /\ UNCHANGED <<status, adopted, timer, up, run, owner, cold, listening, turn, waits>>

(* Setting the tools fails: the adoption is dropped, the session stays.    *)
SetupFails(s) ==
    /\ flow[s] = "attached" /\ "lateFailure" \in Races
    /\ adopted' = [adopted EXCEPT ![owner[s]] = "no"]
    /\ UNCHANGED life
    /\ EndFlow(s)
    /\ UNCHANGED <<status, ref, timer, up, run, listening, turn, waits>>

(* The reviver returns: the session is attached, its turn events drive the *)
(* registry from now on, and the agent is idle, which re-arms the timer.   *)
ReviveReturns(s) ==
    LET a == owner[s]
    IN  /\ \/ flow[s] = "building" /\ s \notin cold /\ life' = [life EXCEPT ![s] = "open"]
           \/ flow[s] = "attached" /\ UNCHANGED life
        /\ AttachSession(a, s)
        /\ SetStatus(a, "idle")
        /\ listening' = IF life'[s] = "none" THEN listening ELSE listening \cup {s}
        /\ EndFlow(s)
        /\ UNCHANGED <<adopted, up, run, turn, waits>>

-----------------------------------------------------------------------------
(* Removal, rescan and teardown                                            *)

(* release: the adoption and its timer go first, then the session is       *)
(* disposed, or the agent is unregistered at once when it has none.        *)
Release(a) ==
    /\ up /\ Registered(a) /\ run[a] # "running"
    /\ Reviving(a) => "killInRevive" \in Races
    /\ IF ref[a] = None
       THEN Unregister(a) /\ UNCHANGED <<life, waits>>
       ELSE /\ adopted' = [adopted EXCEPT ![a] = "no"]
            /\ timer'   = [timer   EXCEPT ![a] = FALSE]
            /\ BeginDispose(ref[a], "release")
            /\ UNCHANGED <<status, ref>>
    /\ UNCHANGED <<up, run, owner, flow, cold, listening, turn>>

(* The hub registers every transcript on disk that has no agent.           *)
Rescan(a) ==
    /\ up /\ ~Registered(a) /\ run[a] # "noFile"
    /\ status' = [status EXCEPT ![a] = "parked"]
    /\ UNCHANGED <<ref, adopted, timer, up, run, slotVars>>

(* dispose: unsubscribe, then release every adopted agent.                 *)
Dispose ==
    LET live == {a \in Agents : adopted[a] # "no" /\ ref[a] # None}
        dead == {a \in Agents : adopted[a] # "no" /\ ref[a] = None}
        closing == {ref[a] : a \in live}
    IN  /\ up /\ up' = FALSE
        /\ (\E a \in dead \cup live : Reviving(a)) => "killInRevive" \in Races
        /\ adopted' = [a \in Agents |-> "no"]
        /\ timer'   = [a \in Agents |-> timer[a] /\ adopted[a] = "no"]
        /\ status'  = [a \in Agents |-> IF a \in dead THEN "none" ELSE status[a]]
        /\ life'    = [s \in Slots |-> IF s \in closing THEN "closing" ELSE life[s]]
        /\ waits'   = [s \in Slots |-> IF s \in closing THEN waits[s] \cup {"release"}
                                                         ELSE waits[s]]
        /\ UNCHANGED <<ref, run, owner, flow, cold, listening, turn>>

-----------------------------------------------------------------------------

(* Every agent starts in its first run, on a session of its own.           *)
Init ==
    \E first \in [Agents -> Slots] :
        /\ \A a, b \in Agents : first[a] = first[b] => a = b
        /\ status  = [a \in Agents |-> "running"]
        /\ ref     = first
        /\ adopted = [a \in Agents |-> "no"]
        /\ timer   = [a \in Agents |-> FALSE]
        /\ up      = TRUE
        /\ run     = [a \in Agents |-> "running"]
        /\ owner   = [s \in Slots |-> IF \E a \in Agents : first[a] = s
                                      THEN CHOOSE a \in Agents : first[a] = s
                                      ELSE None]
        /\ flow    = [s \in Slots |-> "none"]
        /\ cold    = {}
        /\ life    = [s \in Slots |-> IF owner[s] = None THEN "none" ELSE "open"]
        /\ listening = {s \in Slots : owner[s] # None}
        /\ turn    = [s \in Slots |-> IF owner[s] = None THEN "none" ELSE "running"]
        /\ waits   = [s \in Slots |-> {}]

AgentStep(a) ==
    \/ FinalizeKeep(a, TRUE) \/ FinalizeKeep(a, FALSE)
    \/ FinalizeAborted(a) \/ FinalizeOneShot(a) \/ FinalizeIsolated(a)
    \/ ParkOnTtl(a) \/ Release(a) \/ Rescan(a)
    \/ \E s \in Slots : EnsureLive(a, s)

SlotStep(s) ==
    \/ FinalizeTimesOut(s) \/ DisposeSettles(s)
    \/ Wake(s) \/ AgentStart(s) \/ AgentEnd(s)
    \/ FactoryAdopts(s) \/ ReviveFailsEarly(s) \/ ReviveRegisters(s)
    \/ ReviveFailsLate(s) \/ AttachCold(s) \/ SetupFails(s) \/ ReviveReturns(s)

Next ==
    \/ \E a \in Agents : AgentStep(a)
    \/ \E s \in Slots : SlotStep(s)
    \/ Dispose

Spec == Init /\ [][Next]_vars

(* Timers fire, listeners hear the turns and disposals settle; nothing     *)
(* obliges anyone to message, kill or revive an agent.                     *)
Fairness ==
    /\ \A a \in Agents : WF_vars(ParkOnTtl(a))
    /\ \A s \in Slots : WF_vars(AgentStart(s)) /\ WF_vars(DisposeSettles(s))

FairSpec == Spec /\ Fairness

-----------------------------------------------------------------------------
(* Properties                                                              *)

(* The manager never keeps an entry for an agent the registry forgot: the  *)
(* removed event and release drop it, so no timer can park a stranger.     *)
AdoptedAreRegistered ==
    \A a \in Agents : adopted[a] # "no" => Registered(a)

(* An adopted idle agent always has a way to be parked: its timer is armed *)
(* or its session is being disposed.  No idle session is kept for ever.    *)
IdleAgentsAreTimed ==
    TtlEnabled /\ up =>
        \A a \in Agents :
            adopted[a] # "no" /\ status[a] = "idle" /\ run[a] # "running"
                => timer[a] \/ (ref[a] # None /\ life[ref[a]] = "closing")

(* The registry never hands out a session that has been disposed.          *)
NoDeadSessions ==
    \A a \in Agents : ref[a] # None => life[ref[a]] # "none"

(* One writer per transcript: an agent has at most one session that is     *)
(* being built, open or not yet closed.                                    *)
OneWriter ==
    \A s, t \in Slots :
        owner[s] = owner[t]
            /\ (life[s] # "none" \/ flow[s] \in {"building", "attached"})
            /\ (life[t] # "none" \/ flow[t] \in {"building", "attached"}) => s = t

(* An open session that no revive is still building is the one its agent's *)
(* registry entry points at, so it can be messaged, parked and killed.     *)
NoOrphans ==
    \A s \in Slots :
        life[s] = "open" /\ flow[s] = "none" => ref[owner[s]] = s

(* An idle agent has a session, and a parked one has none, except while an *)
(* isolated run that was parked early is still being disposed.             *)
StatusMatchesSession ==
    \A a \in Agents :
        /\ status[a] = "idle" => ref[a] # None
        /\ status[a] = "parked" /\ ref[a] # None => life[ref[a]] = "closing"

(* The manager's own timer never disposes a session in the middle of a     *)
(* turn.                                                                   *)
NeverParksMidTurn ==
    [][\A s \in Slots : up /\ "park" \in waits'[s] /\ "park" \notin waits[s]
                            => turn[s] # "running"]_vars

(* An adopted agent does not stay idle for ever: it is woken, parked or    *)
(* killed.                                                                 *)
IdleIsTemporary ==
    \A a \in Agents :
        (up /\ adopted[a] # "no" /\ status[a] = "idle" /\ run[a] # "running")
            ~> ~(up /\ adopted[a] # "no" /\ status[a] = "idle")

(* A park that nobody turned into a kill keeps the agent addressable: the  *)
(* disposal it awaits ends with the agent parked, not forgotten.           *)
ParkKeepsTheAgent ==
    [][\A s \in Slots :
          "park" \in waits[s] /\ "release" \notin waits[s] =>
              Registered(owner[s])']_vars

=============================================================================

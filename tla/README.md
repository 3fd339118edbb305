# jeopi: specifications, model checks and proofs

jeopi is a coding agent: a terminal program (and a set of services around it) in
which a model works through a session's turns, spawns subagents, starts
background jobs, and shares its configuration with other processes of the same
user. Nearly all of it is single-threaded TypeScript, so what goes wrong in it
goes wrong *between awaits*: a fact is read, an await passes, and the fact is
used. This directory holds TLA+ models of the parts where that matters most, the
TLC runs that check them on small instances, and TLAPS proofs of what holds for
every instance.

Paths below are relative to `src/packages/coding-agent/src/` unless they start
with `src/`.

## 1. Inventory

### 1.1 Components that are modelled

| component | source | state it keeps | operations |
|---|---|---|---|
| agent registry | `registry/agent-registry.ts` | one `AgentRef` per id: status, session, session file | register, setStatus, attach/detachSession, unregister; events to listeners |
| lifecycle manager | `registry/agent-lifecycle.ts` | `#adopted` with an idle timer each, `#reviving`, `#parking` | adopt, park (idle timeout), ensureLive (warm and cold), release, dispose |
| persisted revival | `task/persisted-revive.ts` | none: produces a reviver from a transcript | resolve, create the session, set tools, install the status listener |
| task executor (finalization) | `task/executor.ts` | the first run of a subagent | keep alive, abort, one-shot, park isolated; status listener |
| job manager | `async/job-manager.ts` | jobs by id, pending deliveries, the delivery loop, suppression and watch sets, eviction timers | register, cancel, settle, acknowledge, resume, watch, deliver, drain, evict, dispose |
| yield queue | `session/yield-queue.ts` | entries, `#idleFlushPending` | enqueue, flush (at a step boundary or when idle), clear |
| tools that wait for jobs | `tools/bash.ts`, `tools/job.ts`, `tools/subagent.ts` | the waits of a tool call | foreground wait, poll, await |
| concurrency limits | `task/parallel.ts`, `task/index.ts`, `task/provider-concurrency.ts` | ceiling, count and waiters of a semaphore | acquire, abort of a wait, release, resize |
| file lock | `config/file-lock.ts` | a directory and an info file on disk | acquire with retries, staleness judgement, reaping, release |
| settings | `config/settings.ts` | `#global`, `#modified`, a save timer; the config file | set, debounced save, flush, merge under the lock |
| agent loop | `src/packages/agent/src/agent.ts`, `agent-loop.ts` | steering and follow-up queues, the run's signal, pending messages | prompt, continue, steer, follow up, poll, abort |
| agent session (its turns) | `session/agent-session.ts` | the count of prompts in flight, generation of aborts, IRC records, drains and wakes under way | prompt, queue a message, drain, wake, take back, abort |
| robomp event queue | `src/python/robomp/src/queue.py`, `db.py`, `worker.py`, `server.py`, `manual_triage.py` | rows in sqlite; in memory the keys, slots, tasks, threads and cancel hooks | record, claim, run, retry, bounce, cancel, replay, triage, stop, crash, start |

How they interact. The executor registers a subagent and runs its first turn on
a session; finalization hands the agent to the manager, disposes its session, or
parks it. The session's dispose wrapper (`sdk.ts`) unregisters the agent
*unless* registry or manager say it is parked: a callback that consults two
tables after an await. Turn events reach the registry through a listener the
executor or the reviver installs; the registry's own events arm and disarm the
manager's idle timers. Background jobs end in `onJobComplete` (`sdk.ts`), which
formats the result (an await), looks at the suppression tables again and feeds
the session's yield queue; the queue is drained at a turn's step boundaries
(`src/packages/agent/src/agent-loop.ts`) or by an idle flush that prompts the
session. Tools that return a result themselves suppress its delivery. Subagents
and LLM requests take a slot of a semaphore whose ceiling is a setting. Settings
are written by a timer or a flush, merged into what the file holds at that time,
under a lock directory that every process of the user contends for. A message
for a session waits in one of the agent's queues or among the session's IRC
records; a run of the loop polls them at its boundaries, and the session starts
a run of its own, a drain or a wake, for what no run has polled. The robomp
service, in Python, shares nothing with these but the agents it starts: webhooks
leave rows in a table, one dispatcher claims them, a task and a thread run one
agent per row, and what a crash leaves behind is put right at the next start.

What is hard in each, and the properties that make it correct:

* **agents** - a session outlives the registry's view of it during every
  dispose and every revive. Correct means: one writer per transcript
  (`OneWriter`), no session that is open and unreachable (`NoOrphans`), none that
  is reachable and closed (`NoDeadSessions`), status and session agree
  (`StatusMatchesSession`), a park never forgets the agent (`ParkKeepsTheAgent`)
  and never hits a running turn (`NeverParksMidTurn`), the manager's entries are
  of registered agents (`AdoptedAreRegistered`), and no idle agent is kept for
  ever (`IdleAgentsAreTimed`, `IdleIsTemporary`).
* **jobs** - the same result can reach the conversation over two roads.
  Correct means: never injected twice (`InjectedAtMostOnce`), not injected after
  a tool returned it (`NotInjectedAfterReturn`, until the manager is disposed and
  forgets), never for a cancelled job (`CancelledIsSilent`), never lost, and in the
  end delivered (`DeliveredAutomatically`). The code breaks the last two where the
  subagent tool awaits a job (section 4), so what it keeps is stated around that:
  a result is lost to nothing but an await that has announced the end of its job
  (`LostOnlyToAwaits`), and it arrives unless it was so announced
  (`ResultsArrive`, and for that `PendingHasLoop` and `QueueIsAttended`). A running
  job stays listed (`RunningAreTracked`), and all of it implements the delivery
  `ResultDelivery` describes (`ResultSpec`).
* **slots** - the ceiling moves while slots are held, waiters abort at any time.
  Correct means: slots are counted (`SlotAccounting`), none is idle while
  someone waits (`NoIdleSlot`), the queue holds the waiters, once each
  (`QueueIsWaiters`), in order (`FirstComeFirstServed`), no waiter is forgotten
  (`EveryWaitEnds`), and all of it implements the pool its clients imagine
  (`PoolSpec`).
* **lock and settings** - processes crash anywhere, and locks of the dead are
  reaped by whoever finds them. Correct means: a live owner keeps its lock
  (`OwnerKeepsLock`), critical sections exclude (`MutualExclusion`), no change is
  dropped (`NothingDropped`) or overwritten by another process (`OnlyOwnPaths`),
  and a flush persists (`FlushPersists`).
* **turns** - a message may come after the last poll of a run, during an abort,
  or while a prompt is being set up, and drains, wakes and prompts compete for
  the agent. Correct means: a message is in one place, never lost or doubled
  (`InOnePlace`), the model answers steers one by one (`OneSteerPerAnswer`),
  while a message waits somebody is under way who will look for it
  (`NoneIsStranded`), and everybody is heard in the end (`EveryoneIsHeard`).
* **events** - the table outlives the process, agents outlive it too, and cancels
  meet an event anywhere. Correct means: what is marked running is in one pair of
  hands (`RunningIsHandled`), an issue has one task (`OneTaskPerIssue`), no agent
  is shared or left behind (`AgentsAreOwned`), a cancelled event does not complete
  (`CancelHonoured`), and every event is dealt with (`EverySettles`).

### 1.2 Components that are not modelled yet

In the order of the plan (section 2.2): the IRC bus between agents
(`irc/bus.ts`), the critic gate (`task/critic-gate.ts`), the per-path write chain
(`tools/path-write-lock.ts`), the messenger gateway's session pool
(`messenger/`), the tool-choice queue (`session/tool-choice-queue.ts`), goals
(`goals/runtime.ts`), the advisor (`advisor/runtime.ts`), collaboration
(`collab/`, `src/packages/collab-relay`), the MCP manager (`mcp/manager.ts`), the auth
broker's refresher (`src/packages/ai`), the swarm pipeline
(`src/packages/swarm-extension`), and the session transcript
(`session/session-manager.ts`). The agent session, the executor and the agent
loop are modelled in part; section 6 says what is missing.

Left out for good: protocol clients whose behaviour lies in external processes
(language servers, debuggers, the RPC client), text algorithms and search
(hashline, natives, mnemopi's ranking), rendering (tui, web client), generated
tables and wire formats (catalogue, providers), statistics and deployment.

## 2. The project

### 2.1 Modules

| module | what it is |
|---|---|
| `AgentLifecycle` | registry, manager, session disposal, first runs, turns, both revive paths |
| `AsyncJobs` | job manager, yield queue, the session's turn as far as it drains the queue, the waiting tools |
| `ResultDelivery` | the abstract specification `AsyncJobs` implements |
| `Semaphore` | the counting semaphore and its two uses |
| `SlotPool` | the abstract specification `Semaphore` implements |
| `FileLock` | the lock directory, one step per file system call, crashes included |
| `SettingsStore` | extends `FileLock`: settings in memory and on disk, `#saveNow` under the lock |
| `SessionTurns` | the agent's queues and loop, and the session's prompts, drains, wakes and aborts |
| `EventQueue` | the bot's table of events, its worker pool, threads and agents, crashes included |
| `MC...` | values of constants for TLC |
| `..._proofs` | the theorems, one module per component; the agents have two: `AgentLifecycle_proofs` (types) and `AgentSessions_proofs` (safety) |

`SettingsStore` composes with `FileLock` by calling its operations: a save's
`Acquires` step *is* a step of `acquireLock`. That it uses the lock in no other
way is a theorem (`StoreImplementsLock`). `SessionTurns` and `AsyncJobs` meet in
the session's turn but are not composed: each models the turn as far as its own
queues depend on it, since results enter the conversation over the yield queue
and messages over the agent's queues, and neither reads the other's.

**Jobs, state and code.** `state`, `settled`, `id` and `table` are the jobs and the
manager's map; `deliveries`, `inFlight` and `loop` its list, the callbacks that run
and the promise of the delivery loop; `suppressed` and `watched` its two sets of
ids; `waiting`, `watches` and `returned` what the tools do; `queue`, `flush`, `turn`
and `injected` the session's side. `announced` is a history variable: the jobs
whose end an await has told the model. The await of the subagent tool shows the
model one line per job, with its id and status; the text of the result is only in
the details of the call, which the user interface renders. So `WatchEnd` adds
what the job tool reports to `returned`, and what an await reports to `announced`.
A bash job tells the wait in the foreground of its end before it settles, unless
it fails before its command runs, when the artifact for its output cannot be
allocated (`tools/bash.ts:539`); such a job is `Untold`, and its wait can still be
given up by its threshold or an abort after the job has failed. A delivery that starts leaves its place in the
list (`StartDelivery`), and an acknowledgement filters the list (`Keep`, a
recursive function, so that it can be proved about). `ResultDelivery` keeps of
this one `stage` per job, the jobs whose result is under `way` (in the list, in its
callback, in the queue, or with a tool that waits for a job that is done), what
tools have `returned`, what awaits have `announced` and what was `delivered`.

**Turns, state and code.** One `run` stands for the agent's run and for where its
loop is: `start` (before the first poll), `turn` (messages are injected), `call`
(the model works), `work` and `stop` (the turn ended with or without tool calls),
`yield` (the last poll), `ending` (`agent_end` is on its way). `phase` says of every
prompt, drain and wake which await it is in. `count` is `#promptInFlightCount`,
`stale` the actors whose generation an abort has overtaken. The drains and wakes
of an instance are enough for every behaviour: `FreeOf` would stop TLC if a
behaviour needed one more.

**Events, state and code.** `row`, `received`, `attempts` and `delayed` are columns
of the table and survive `Crash`, as does `agent`, the processes under a slot's
uid; the rest is the memory of one process, which `Crash` and `Exit` forget.
A claim is two steps (`StartClaim`, then `CommitClaim` or `ClaimNothing`) because
it runs in a thread; a worker's thread advances by itself, past the
cancellation of the task that awaits it. `asked` remembers in which life of the
process a cancel was accepted.

**The device `Races`.** Some interleavings the code allows break a promise that
it keeps otherwise. If they were simply part of the model, one such
interleaving would end every run and nothing could be said about the rest. So
the guards of a few actions read `... => "name" \in Races`: with the name in
`Races` the action is what the code does, without it the environment does not
choose that moment. Each name is described where it is declared. A promise is
then checked with the races under which the code keeps it, and a run of its own
shows a race under which it does not (section 4). The table in section 3 says
which races each run has. That the types hold under every race is proved for the
agents and the jobs (`LifecycleTypeOK`, `JobsTypeOK`). One name is no such moment:
`overlap` of the jobs, an await that shares its job with another call, breaks
nothing. It only keeps the run `Jobs` small, and no theorem excludes it.

**Variants.** A definition whose comment starts with "Variant:" is not used by a
specification. It is the definition below it with a plausible mistake, and
`PROJECT.json` names the property that notices the mistake.

### 2.2 Plan

Done, in this order: `AgentLifecycle`, `AsyncJobs`, `Semaphore` over `SlotPool`,
`FileLock`, `SettingsStore`; the safety properties of the agents; those of the
semaphore and its refinement; the lock and the store over it; `SessionTurns` and
`EventQueue` with their theorems; the safety properties of the jobs, and
`ResultDelivery` with the proof that they implement it.

Left, by what is most worth knowing:

1. `IrcBus`: delivery to running, idle and parked agents, waits with timeouts,
   mailboxes; composed with the manager's `EnsureLive`. Abstract specification: a
   message is delivered, waited for or stored, exactly one of them.
2. `CriticGate`: verdicts, strikes, a plan hash that changes while a critic
   runs; safety: no write passes on a verdict for another plan.
3. `SessionPool`: worker sessions behind chat channels, eviction against
   messages in flight.
4. `PathWriteLock` and `mapWithConcurrencyLimit`: small, with refinement to a
   per-path mutex and to a bounded map.
5. `ToolChoiceQueue`, `Goals`, `Advisor`, `McpManager`: one module each, around
   directives, budgets and reconnects that are cancelled half-way.
6. `SessionLog`: the transcript's append and branch, with a crash between them.
7. `Waves` (swarm).

Theorems still wanted: that the turns implement an abstract conversation, in
which a message is queued and later said or taken back, as `ResultDelivery` is
for results; and those of the modules above. Every safety and action property
that a run checks is a theorem now.

## 3. What each run checks

All runs use two TLC workers; the largest, `SessionTurns`, takes about a minute
and a half. Deadlock is checked in `Semaphore`; elsewhere the system may really
stop (no agent left to revive, the manager disposed, every process crashed,
every message said, every event dealt with).

| run | instance | races or faults | checks |
|---|---|---|---|
| `Lifecycle` | 2 agents, 3 sessions | late failures, an isolated agent revived, a park between a wake and its start | types, the bookkeeping of session slots, nine lifecycle properties |
| `Jobs` | 2 jobs, 2 ids, a poll, an await, 2 running | late completions, aborts of turns and of idle flushes | the job properties, the refinement of `ResultDelivery`, arrival when the user keeps prompting |
| `Semaphore` | 4 clients, ceilings none, 1, 2 | - | the semaphore's properties and the refinement of `SlotPool` |
| `Settings` | 2 processes, 3 saves, 2 paths, 2 changes | none, crashes and failing I/O included | lock and store properties |
| `SessionTurns` | 1 prompt, 3 drains, 2 wakes; 2 steers, a follow-up, an IRC record, an abort | failing calls, setups that fail, aborts anywhere | types, `InOnePlace`, `OneSteerPerAnswer`, `EveryoneIsHeard` |
| `EventQueue` | 2 deliveries of one issue, 1 slot, 1 retry, 2 processes, 1 replay | crashes and graceful stops anywhere | types, the four safety properties, `EverySettles` |
| `LifecycleEarlyDelivery` | 1 agent, 3 sessions | `earlyDelivery` | violates `NeverParksMidTurn` |
| `JobsAwaited` | 1 job, a poll, an await | none; the user keeps prompting | violates `DeliveredAutomatically` |
| `JobsStranded` | 1 job, a poll, no await | `lateCompletion` | violates `DeliveredAutomatically` |
| `SettingsDropped` | as Settings | `overlap` | violates `NothingDropped` |
| `FileLockLateReap` | 3 processes | `lateReap` | violates `MutualExclusion` |
| `SessionTurnsFresh` | 1 steer, a conversation without messages | - | violates `EveryoneIsHeard` |

### Bounds, and why they are enough

* **Agents and sessions.** An agent's state depends on no other agent except in
  `Dispose`, which releases all at once, and through the pool of slots, which is
  a modelling bound. Two agents show `Dispose` every combination of phases;
  three slots allow two sessions of one agent (what `OneWriter` forbids) beside
  one of the other, or a third of the same agent.
* **Jobs and ids.** Every table of the manager is keyed by id and every race is
  between one job and a later user of its id, or between two deliveries: two
  jobs, with the choice of one id or two. One call of each waiting tool, which
  do not share a job unless `overlap` is among the races; with it the state space is
  three times as large, and the theorems have no such bound.
* **`injected`** counts to 2, which is already wrong.
* **Semaphore.** Four clients under a ceiling of at most two: two waiters
  behind a full semaphore, so that order and a raise by two both matter. The
  ceiling may change at any time, without bound.
* **Settings.** `MaxSets = 2`: two changes, to one path or two, in one process
  or two, are a lost update; a third adds no new kind of conflict. Process one
  may have two saves under way, since nothing in `#saveNow` prevents it (the
  timer fires again while a save waits for the lock).
* **Turns.** Two steers are what one-at-a-time is about, and what lets one come
  while another is being resumed; a follow-up and a record beside them fill every
  queue; a second abort would begin in the state the first leaves, which a
  prompt or drain cannot tell from any other. Each kind of message is numbered
  in the order of arrival, so that none is taken for another.
* **Events.** Two deliveries of one issue compete for its key, the slot and the
  dispatcher; deliveries of different issues only for slots, which one issue
  already does while its first task cleans up. One retry has a first and a last
  attempt. Two processes: what a crash leaves is read by the next, and a third
  reads no more. One replay revives a row that was dealt with.
* **Files.** `aged` stands for the ten seconds of `staleMs`; it can be reached
  from any state in which nobody alive refreshes it. Retries are unbounded
  rather than fifty.

### Fairness, and why the code justifies it

* *Agents*: timers fire (`ParkOnTtl`), the listener hears a turn's start
  (`AgentStart`), a disposal settles (`DisposeSettles`: it is bounded work). No
  fairness for turns to end, for messages, kills or revives. That is enough for
  `IdleIsTemporary`.
* *Jobs*: the loop's steps and the flush are timers and microtasks. A callback
  is strongly fair: it may fail, is retried with a delay, and does not fail for
  ever. A foreground wait ends by its threshold, a poll or await by its window
  (`ForegroundBackgrounds`, `WatchEnd`). The tool calls of one message are finitely
  many, so that there is always a later moment at which no tool holds the turn
  (`[]<>~ToolsWait`): without this a model could start one await after the other
  inside a single step for ever. Step boundaries are strongly fair, as they follow
  when the tools of a step have ended. `AttendedSpec` adds that a user prompts an
  idle session again: `ResultsArrive` needs that under the races of `Jobs`, and
  fails without it when a result comes late (`JobsStranded`).
* *Semaphore*: a holder gives its slot back, since spawned runs end and streams
  are closed in a `finally`.
* *Turns*: every await of the loop and of the session returns (`LoopSteps`,
  `DrainSteps`, `WakeEnds`, `PromptSteps`, `AbortSteps`, weakly fair), and calls of
  the model do not fail for ever (`Answer`, strongly fair). Nothing is assumed of
  the user, of other agents, or of how often the model calls tools:
  `EveryoneIsHeard` holds although a turn may call tools for ever, as each of its
  boundaries polls.
* *Events*: the dispatcher polls, tasks and threads make progress (an agent that
  hangs meets its hard timeout), a backoff ends, a stop has its timeouts, and the
  supervisor starts a process again while the instance has lives left.
* *Lock and settings*: safety only. Nothing obliges a contender to win.

## 4. What the violation runs show

* **`LifecycleEarlyDelivery`.** A cold revive attaches the session to the
  registry (`sdk.ts`) before the reviver has set its tools and installed the
  listener that reports turns (`task/persisted-revive.ts`). A message that wakes
  it in between starts a turn of which the registry learns nothing: the manager
  then sets the agent idle, arms the timer, and disposes the session in its turn.
* **`JobsStranded`.** The queue is polled for the last time before the session
  leaves "streaming"; what is enqueued in between schedules no flush.
* **`JobsAwaited`.** While an await watches a job, `#enqueueDelivery` skips the
  delivery of its result (`async/job-manager.ts:590-593`). The job settles, the
  await ends, and `unwatchJobs` (309-318) removes the mark without putting the
  delivery back, unlike `resumeDeliveries`. What the await tells the model is
  `- id [status]` (`tools/subagent.ts:380-384`). So no tool returns the result and
  nothing injects it, although the session prompts on;
  `prompts/tools/subagent.md:1` says that "Results deliver themselves automatically
  the moment a subagent finishes". A model that inspects the subagent afterwards
  sees a preview.
* **`SettingsDropped`.** A save merges the paths it took *before* it waited for
  the lock; a path set during the wait is replaced in memory by the file's
  value, and the next save writes that value.
* **`FileLockLateReap`.** Judging a lock stale and removing it are two steps; a
  contender may remove the lock that another one has acquired in between.
* **`SessionTurnsFresh`.** A steer to an idle session is drained by
  `agent.continue()`, which throws when the conversation has no messages; the
  drain ends, finds the steer still queued, and schedules the next drain, for ever.

Seen while modelling, without a run of its own:

* A kill during a revive finds no session to dispose, and unregisters the agent.
  The revive's session opens, belongs to nobody and is never closed
  (`killInRevive`).
* `flush` awaits `#savePromise`, which is never assigned, so it does not wait for
  a save the timer has started (`flushInSave`).
* An executor stops waiting for a disposal after five seconds; after a one-shot or
  isolated run the agent can be revived while the old session still closes, which
  makes two writers (`slowDispose`).
* An isolated run is parked so that it is not revived; while its worktree
  exists a message revives it (`isolatedRevive`).
* A failure of `createAgentSession` after it registered the agent, or of the
  tools' setup, drops the agent or its adoption, not the transcript: a rescan
  finds it again.
* An idle flush that an abort cancels leaves `#idleFlushPending` set, so no
  later entry schedules a flush (`abortedFlush`).
* Watches are a set, not a count: of two waits for one job the first to end
  unwatches it for both. A job that then ends is delivered although a call still
  waits for it, which loses and doubles nothing: the job tool acknowledges it, and
  the await only announces it.
* A bash job that fails before its command runs tells its foreground wait nothing.
  When the wait's threshold passes after the job tool has returned the failure,
  `resumeDeliveries` lifts the acknowledgement and delivers it a second time
  (`polledWait`). When the call is aborted instead, nothing delivers the failure
  (`lateAbort`).
* Esc and Alt+Up take back every queued message of role "user"
  (`isUserQueuedMessage`, `session/agent-session.ts:1484`), a parent's steer to its
  subagent included, which has that role (14373, attribution "agent"); the comment
  at 1476-1483 says of agent-authored messages that they "must never be dumped into
  the editor". `TakeBack` follows the code.
* The retention of an id may end while its result is on its way, or while the
  cancelled run is still settling (`evictPending`, `slowAbort`).
* A delivery that is in flight when the manager's disposal gives up still
  injects (`lateCallback`).
* `dispose` of the manager forgets the suppressions, while entries may still be
  in the yield queue. Three jobs show what follows. While the session drains,
  the callback of the first schedules an idle flush, which starts a turn; in
  that turn the job tool returns the second job, whose result is in the queue
  and is suppressed; the turn ends, and the callback of the third schedules
  another flush; the manager is disposed before it runs, and the flush injects
  the second job's result although a tool has returned it. `NotInjectedAfterReturn`
  therefore speaks of the time before. The proof found this history, which two
  jobs do not have.
* A failed save puts its paths back without a timer: they wait for the next
  `set` or `flush`, and `flush` itself does not report the failure.
* A process that dies while it writes the config file may leave it empty, and
  an empty file reads as one without settings: `OnlyOwnPaths` names this case.
* `#promptWithMessage` takes the messages for the next turn before its later looks
  at the generation: an abort late in the setup loses them.
* An abort resets the count of prompts in flight while an overtaken prompt is
  still in its setup; its late end is then counted against a newer prompt.
* `prompt()` looks at `isStreaming` and awaits before it counts itself, so that two
  prompts can pass; the second waits for the first as busy, and its retry does not
  look at the generation.
* After a call that failed with placeholder tool results, a drain retries the
  call without polling a queued follow-up for as long as calls fail.
* Follow-ups that arrive during a wake come before those the wake has set aside
  if another wake's end drains first.
* A cancel that arrives between a worker's look at `_cancelled` and the storing
  of its hook does not reach the agent; the event still does not complete.
* A cancelled event whose task a graceful stop interrupts stays running in the
  table and is run again by the next process.
* Any exception in a claim ends the dispatcher of the pool; a claim that is put
  back because its issue is busy uses up one of the row's attempts.

## 5. What is proved

All proofs are checked by TLAPS; no step is left open.

| module | theorem | statement | assumption |
|---|---|---|---|
| `AgentLifecycle_proofs` | `LifecycleTypeOK` | `Spec => []TypeOK` | - (every race) |
| `AgentSessions_proofs` | `AgentsHaveOneWriter`, `NoSessionIsOrphaned`, `ShownSessionsLive`, `AdoptionsAreOfRegistered`, `StatusesMatch` | `[]OneWriter`, `[]NoOrphans`, `[]NoDeadSessions`, `[]AdoptedAreRegistered`, `[]StatusMatchesSession` | `SafeRaces`: neither `killInRevive` nor `slowDispose` |
| `AgentSessions_proofs` | `IdleAgentsHaveTimers`, `TurnsAreNotParked`, `ParksKeepAgents` | `[]IdleAgentsAreTimed`, `NeverParksMidTurn`, `ParkKeepsTheAgent` | `QuietRaces`: nor `earlyDelivery` |
| `Semaphore_proofs` | `SemaphoreTypeOK`, `SlotsAreCounted`, `WaitersAreQueued`, `NoSlotIsIdle` | `[]TypeOK`, `[]SlotAccounting`, `[]QueueIsWaiters`, `[]NoIdleSlot` | - |
| `Semaphore_proofs` | `WaitersAreServedInOrder` | `FirstComeFirstServed` | - |
| `Semaphore_proofs` | `SemaphoreImplementsPool` | `Spec => PoolSpec` | - |
| `FileLock_proofs` | `LockIsKept`, `LockExcludes` | `LockSpec => []OwnerKeepsLock`, `[]MutualExclusion` | `LockRaces = {}` |
| `SettingsStore_proofs` | `StoreImplementsLock` | `Spec => LockSpec` | - |
| `AsyncJobs_proofs` | `JobsTypeOK`, `PendingResultsHaveLoop`, `CancelledJobsAreSilent` | `Spec => []TypeOK`, `[]PendingHasLoop`, `[]CancelledIsSilent` | - (every race) |
| `AsyncJobs_proofs` | `RunningJobsAreTracked`, `ResultsAreInjectedOnce` | `[]RunningAreTracked`, `[]InjectedAtMostOnce` | no `slowAbort` |
| `AsyncJobs_proofs` | `ResultsAreLostOnlyToAwaits` | `[]LostOnlyToAwaits` | none of `slowAbort`, `evictPending`, `lateAbort` |
| `AsyncJobs_proofs` | `ReturnedAreNotInjected` | `NotInjectedAfterReturn` | none of `slowAbort`, `evictPending`, `polledWait` |
| `AsyncJobs_proofs` | `JobsImplementDelivery` | `Spec => ResultSpec` | none of `slowAbort`, `evictPending`, `polledWait`, `lateAbort` |
| `AsyncJobs_proofs` | `QueuedResultsHaveTurn` | `[]QueueIsAttended` | none of `lateCompletion`, `abort`, `abortedFlush` |
| `SessionTurns_proofs` | `SteersAreAnsweredSingly` | `Spec => []OneSteerPerAnswer` | `"steer" \in OneAtATime` |
| `SessionTurns_proofs` | `TurnsTypeOK`, `MessagesAreInOnePlace`, `NoMessageIsStranded` | `[]TypeOK`, `[]InOnePlace`, `[]NoneIsStranded` | `Enough`: `Drains` and `Wakes` are infinite |
| `EventQueue_proofs` | `QueueTypeOK`, `RunningRowsAreHandled`, `IssuesHaveOneTask`, `AgentsHaveOneOwner`, `CancelsAreHonoured` | `[]TypeOK`, `[]RunningIsHandled`, `[]OneTaskPerIssue`, `[]AgentsAreOwned`, `[]CancelHonoured` | - (every fault) |
| `SettingsStore_proofs` | `StoreExcludes`, `StoreTypeOK`, `StoreWritesOwnPaths` | `[](OwnerKeepsLock /\ MutualExclusion)`, `[]TypeOK`, `OnlyOwnPaths` | `LockRaces = {}` |
| `SettingsStore_proofs` | `StoreDropsNothing`, `FlushesPersist` | `[]NothingDropped`, `[]FlushPersists` | `LockRaces = {}`, `Races = {}` |

The assumptions on constants are those the modules state (`ConstantsAssumption`,
`SemaphoreAssumption`: finitely many clients, `FileLockAssumption`,
`SettingsAssumption`, `JobsAssumption`, `TurnsAssumption`, `QueueAssumption`), and
TLC evaluates them in every run. A race in the last column is a moment the code
allows and the theorem excludes, because the property is false with it, or, for
the refinement, because one of its parts is; every other race is in the theorem.
`PendingHasLoop`, `CancelledIsSilent`, `QueueIsAttended` and `NoneIsStranded` are
stated by theorems only. No run lists them: the first three are what
`ResultsArrive` and `ResultSpec` rest on in `Jobs`, the last is the safety
part of `EveryoneIsHeard` in `SessionTurns`.

* **Agents, types.** `TypeOK` is inductive as it stands, because it is not only a list
  of types: its second part, `SlotsOK`, ties the tables to each other. A
  session with somebody waiting for its disposal is closing; the registry shows
  an agent only its own sessions; a slot whose revive has not opened it yet has
  no session and no reference. Without the last part, `AttachCold` could reopen
  a session that is being disposed. The proof follows the disjuncts of `Next`,
  with lemmas for the registry's operations and for the beginning of a disposal.
* **Agents, sessions.** `SessionInv` adds to `TypeOK` what the code relies on
  without saying so: a live session is the one the registry shows for its agent
  (`LiveAreShown`), an agent has at most one revive in flight (`OneRevive`, what
  `#reviving` is for), and for each phase of a revive what holds of its agent's
  status, reference and adoption (`FlowPhases`). `OneWriter` needs all three: a revive may open a session only
  because its agent is still parked without one. The assumption `SafeRaces` is
  used at the two kills (`Release`, `Dispose`), which must not meet a revive
  (section 4 says what happens when they do), and to exclude the
  executor's timeout at the end of a one-shot or isolated run, after which the agent
  can be revived while its session still closes.
* **Agents, timers.** `TimerInv` says that an armed timer excludes a turn
  (`BusyUntimed`) and a status "running" (`RunningUntimed`), and why the registry
  hears of every turn that matters: an adopted agent's session has its listener
  (`Unheard`), but for one that a cold revive is setting up, which has no turn
  yet (`QuietSetup`). The last is where `earlyDelivery` would break the proof, and
  it breaks the property (`LifecycleEarlyDelivery`). The two action properties
  follow step by step: only `ParkOnTtl` begins a park, for an agent with a timer.
* **Semaphore.** The inductive invariant `SemInv` is the conjunction of the
  four properties. None is inductive alone: a release hands its slot to the head
  of the queue, which frees no slot only if the head is a waiter
  (`QueueIsWaiters`), and the count is right only if the head is not a holder.
  The work is in one lemma that admits the first *n* waiters, whatever *n*, on
  which the proofs of acquire, release and refresh rest. The order of service
  follows from it: who is admitted is a prefix of the queue, a refresh that leaves
  a waiter behind has no slot left for the client that comes with it, which joins
  behind, and a waiter that is taken out lets others only move up. The refinement maps
  the pool's holders to the clients that hold a slot: every step is a pool step,
  as at most one holder leaves and admissions stay under the ceiling in force.
* **Lock.** A judgement of staleness is remembered (`judged`), and a contender
  that is about to reap was right about the directory's maker: it was dead, and
  the dead do not come back. `LockInv` says so, next to `OwnerKeepsLock`.
  `LockRaces = {}` excludes `lateReap`, with which the theorem is false
  (`FileLockLateReap`), and `slowHolder`, a live process that sits on the lock
  for more than `staleMs`, which the code accepts to reap.
* **Store.** A save is in its critical stage exactly when it is in the lock's
  critical section. Two live saves therefore exclude each other, and what a save
  has read (`current`) is what the file holds when it writes. This is `StoreInv`;
  `OnlyOwnPaths` is an action property that follows from it.
* **Store, promises.** A process has one unfinished save at most
  (`OneUnfinished`). What is owed to the user is in memory, and waits in
  `modified` or is in the care of that save (`OwedIsKept`); a save that has not
  merged carries all that is owed, and one that writes has merged it unless it
  has changed again (`SavesCarryOwed`). So a merge, which replaces the memory by
  the file but for the save's paths, loses nothing. A flush that waits has the
  only save, and nothing has changed since it was called (`FlushesAreAlone`). The
  assumption `Races = {}` excludes the interleavings with which they are false: `overlap`
  (`SettingsDropped`) and `flushInSave`, a flush that finds the modified paths
  taken by a save under way and returns.
* **Jobs, what holds under every race.** `DeliveryInv` says beside the types that the
  table and the ids agree, that results on their way belong to jobs that finished,
  which are never cancelled, and that the loop awaits a callback that runs. The
  list of deliveries is filtered and shortened in the middle; what those
  operations keep is proved by induction over its prefixes (a least
  counterexample, with the well-foundedness of the naturals).
* **Jobs, copies.** A running job stays in the table because timers of retention belong
  to ids whose job has settled, and a job that reuses the id clears the timer
  (`TrackInv`). With `slowAbort` a cancelled run outlasts its own timer, and its end
  then arms the timer against a later job of its id, which is why the theorems
  exclude it. A result is
  then in one of the list, the callbacks and the queue, in that place once, and in
  none when it has been injected (`NoCopies`). A wait in the foreground that is given
  up may put the result on the list a second time; that it is the first time is
  `WaitInv`: what bash waits for has not begun its way.
* **Jobs, returns.** What is on its way still has its id in the table, and the id
  of a returned result that is on its way is suppressed (`ReturnInv`). The loop, the
  callback and the queue look at the suppression, each before the next step.
  `evictPending` takes the mark away too early, `polledWait` lifts it after the job
  tool has set it.
* **Jobs, losses.** A result is dropped only for a mark, and a mark is in
  somebody's care: a suppressed id is of a job that bash waits for or a tool has
  returned, a watched id of a job that some call watches (`LossInv`). So whoever
  made the code drop the result waits for it, returns it, or, if it is an await,
  announces its end and lets it drop, even if several calls watch one job.
  `evictPending` and `lateAbort` are the moments at which a mark outlives its owner.
  In `FlushInv` the entry that finds the queue empty schedules the flush, unless
  there is a turn, and a turn ends with the queue polled.
* **Jobs, delivery.** The refinement collects these: a result begins its way in the
  step that ends its job (`NothingIsResent`), leaves it for the conversation, a tool
  or an await (`LossInv`), for the conversation once (`NoCopies`) and not after a
  tool (`ReturnInv`). `LostOnlyToAwaits`, `PendingHasLoop` and `QueueIsAttended`
  together are the safety part of `ResultsArrive`.
* **Turns.** `newSteers` counts the steers given to the model since its last
  answer. A poll adds at most one, but so does the start of a drain, and the two
  can be of one turn: `Unanswered` says that a run which started with a steer skips
  its first poll, and that a pending steer counts with those that were given.
* **Turns, messages.** `TurnInv` tallies every message: its occurrences in the four
  sequences, the wakes that have set it aside, and the conversation make one if
  it has been queued and none if not (`Tallied`). The rest of the invariant says
  why a step cannot hide or copy one: only a turn has pending messages, so that no
  run ends with any (`RunOK`); only a wake that is under way has set messages aside,
  and not one of them twice (`SetAside`), so that none is overwritten by the next;
  the phase of an actor says whose run it is (`PhasesOK`). The assumption `Enough`
  is where the model is a bound and the code is not: a session can always schedule
  another drain, and as only finitely many are under way, one of infinitely many
  is free.
* **Turns, stranded messages.** `HeardInv` counts who is under way: an abort sets
  `#promptInFlightCount` back while overtaken prompts still leave, so that the count
  may be too low, but it is never too high. Who leaves therefore leaves somebody
  behind, or finds the count at zero and drains; a drain that does nothing has seen
  empty queues or a run, and a run has an owner who is under way. That holds for
  every way to leave, and again when the abort that held drains back ends.
* **Events.** The invariant has layers, each proved from those before it. `Base`
  has the types, and that tasks hold their slots alone and a process that is down
  has no memory. `KeysAreHeld` ties `inflight` to the tasks and gives
  `OneTaskPerIssue`. `Handled` needs it: a claimed row whose key is in flight is put
  back, so that what is launched has no task yet. `AgentsHaveTasks` says that,
  while the pool is up, threads and agents are those of tasks: it holds again
  after a crash because a start reaps every slot first.
  `CancelsAreKept` follows a cancel: until the row has failed, the delivery stays
  in `_cancelled`, where the end of its task finds it.

Only model-checked, not proved: the five properties under fairness
(`IdleIsTemporary`, `ResultsArrive`, `EveryWaitEnds`, `EveryoneIsHeard`,
`EverySettles`). Fairness is stated with `ENABLED`, which the prover's backends do
not treat; for the jobs and the turns the safety parts named above are proved.

## 6. What the models leave out

* *Data*: messages, transcripts, results, prompts, the contents of a setting.
  A setting's value is the number of the `set` call that gave it.
* *Agents*: activity text, listing, the display listener, the main agent (never
  adopted). A turn is started by a message or prompt; what it does is not
  modelled. `DisposeSettles` is one action because the continuations of one
  settled promise run in one microtask checkpoint, in the order in which they
  were attached: the wrapper first, then whoever awaited it.
* *Jobs*: progress texts, listings, kinds of entries (one is modelled), the
  delays of retries (a delay is the time before a step is taken). The `inspect`
  action of the subagent tool (`tools/subagent.ts:271-303`) shows the model up to
  280, 2000 or 12000 characters of a result without acknowledging its delivery, so
  that it may be injected afterwards; it changes no state and counts here as
  reading, not as returning.
* *Semaphore*: `mapWithConcurrencyLimit`.
* *Turns*: automatic retries of a failed call, compaction, advisor cards,
  deadlines of a run, soft tool requirements, two aborts at once, asides of the
  yield queue (they are in `AsyncJobs`), and what a prompt's setup does. Tools are
  part of the answer that calls them.
* *Events*: issues, pull requests and what an agent does for them; the outcome of
  a turn is a choice. Rate limits are the choice to record an event as skipped.
  The model is that of a pool with slots, the service run as root. Without root
  (`queue.py:49-54`, 280-282) an `asyncio.Semaphore` takes their place: agents share
  the service's own uid, nothing is reaped at a start, and an agent that outlives a
  crash is not found. `AgentsAreOwned` says nothing of that mode.
* *Lock*: errors of the file system other than "exists" and "not found"; clocks
  (age is a flag). A pid that is reused by another process keeps a lock alive
  that is dead, which only delays.
* *Settings*: overrides, project settings, migrations, hooks and clones.

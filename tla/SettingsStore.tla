--------------------------- MODULE SettingsStore ---------------------------
(***************************************************************************)
(* The settings of several processes over one config file:                 *)
(* config/settings.ts, saved under the lock of FileLock.  A process        *)
(* changes settings in memory, and a debounced timer or a flush writes the *)
(* changed paths, and only those, into what the file holds by then.        *)
(*                                                                         *)
(* A client of the lock is one run of #saveNow.  A path's value is the     *)
(* number of the set call that gave it, 0 for the value it had before.     *)
(***************************************************************************)
EXTENDS FileLock, Naturals

CONSTANTS
    Paths,     \* settings paths
    MaxSets,   \* a bound on the calls of set
    Races      \* the interleavings the environment is allowed

(* "overlap"      a setting changes while a save of other settings waits    *)
(*                for the lock or reads the file, or a save starts before   *)
(*                the process's last one has written                        *)
(* "flushInSave"  flush is called while a save is under way                 *)
AllRaces == {"overlap", "flushInSave"}

ASSUME SettingsAssumption == MaxSets \in Nat /\ Races \subseteq AllRaces

VARIABLES
    file,      \* the values in config.yml
    broken,    \* config.yml is half written and no longer holds them
    global,    \* #global of each process
    modified,  \* #modified
    timer,     \* processes with a save timer
    stage,     \* where each run of #saveNow is
    paths,     \* its modifiedPaths
    current,   \* what it read, later what it writes
    sets,      \* calls of set so far
    owed,      \* by process and path: the set no write has brought to disk yet
    flushing,  \* the save a flush of the process waits for
    flushed    \* processes that set nothing since a successful flush

fileVars  == <<file, broken>>
procVars  == <<global, modified, timer, sets, owed, flushing, flushed>>
saveVars  == <<stage, paths, current>>
storeVars == <<fileVars, procVars, saveVars>>
vars      == <<lockVars, storeVars>>

Values   == [Paths -> 0..MaxSets]
Versions == 0..MaxSets

TypeOK ==
    /\ LockTypeOK
    /\ file \in Values
    /\ broken \in BOOLEAN
    /\ global \in [Procs -> Values]
    /\ modified \in [Procs -> SUBSET Paths]
    /\ timer \subseteq Procs
    /\ stage \in [Clients -> {"idle", "saving", "read", "writing", "done", "failed"}]
    /\ paths \in [Clients -> SUBSET Paths]
    /\ current \in [Clients -> Values]
    /\ sets \in Versions
    /\ owed \in [Procs -> Values]
    /\ flushing \in [Procs -> Clients \cup {None}]
    /\ flushed \subseteq Procs
    /\ \A c \in Clients : stage[c] = "idle" => at[c] = "out"

-----------------------------------------------------------------------------

Saves(p) == {c \in Clients : ProcOf[c] = p /\ stage[c] # "idle"}

(* Saves that have yet to replace #global by what they read.               *)
Unapplied(p) == {c \in Saves(p) : stage[c] \in {"saving", "read"}}

(* Settings.set: change the value in memory and queue a save.              *)
Set(p, k) ==
    /\ p \in alive /\ sets < MaxSets
    /\ (\E c \in Unapplied(p) : k \notin paths[c]) => "overlap" \in Races
    /\ sets' = sets + 1
    /\ global'   = [global   EXCEPT ![p][k] = sets']
    /\ owed'     = [owed     EXCEPT ![p][k] = sets']
    /\ modified' = [modified EXCEPT ![p] = @ \cup {k}]
    /\ timer'    = timer \cup {p}
    /\ flushing' = [flushing EXCEPT ![p] = None]
    /\ flushed'  = flushed \ {p}
    /\ UNCHANGED <<lockVars, fileVars, saveVars>>

(* #saveNow takes the modified paths and asks for the lock.                *)
Take(p, c) ==
    /\ paths'    = [paths    EXCEPT ![c] = modified[p]]
    /\ modified' = [modified EXCEPT ![p] = {}]

StartSave(p, c) ==
    /\ stage[c] = "idle" /\ ProcOf[c] = p
    /\ modified[p] # {}
    /\ (\E d \in Saves(p) : stage[d] # "done") => "overlap" \in Races
    /\ Call(c)
    /\ stage' = [stage EXCEPT ![c] = "saving"]
    /\ Take(p, c)
    /\ timer' = timer \ {p}
    /\ UNCHANGED <<fileVars, global, current, sets, owed, flushed>>

(* The save timer fires.                                                   *)
TimerSaves(p, c) ==
    /\ p \in timer
    /\ StartSave(p, c)
    /\ UNCHANGED flushing

(* flush: the timer is dropped; it saves what is modified, and returns at  *)
(* once when nothing is.                                                   *)
FlushSaves(p, c) ==
    /\ Saves(p) # {} => "flushInSave" \in Races
    /\ StartSave(p, c)
    /\ flushing' = [flushing EXCEPT ![p] = c]

FlushReturns(p) ==
    /\ p \in alive /\ modified[p] = {}
    /\ Saves(p) # {} => "flushInSave" \in Races
    /\ flushed' = flushed \cup {p}
    /\ timer' = timer \ {p}
    /\ UNCHANGED <<lockVars, fileVars, saveVars, global, modified, sets, owed, flushing>>

-----------------------------------------------------------------------------
(* One save, under the lock                                                *)

Acquires(c) ==
    /\ stage[c] = "saving"
    /\ Attempt(c)
    /\ UNCHANGED storeVars

Unset == [k \in Paths |-> 0]

(* #loadYamlForWrite.  A file cut off by a crash or an error is empty, and *)
(* reads as one without settings, or cannot be parsed, is moved aside and  *)
(* the save fails.  So it does when reading or renaming fails.             *)
Read(c) ==
    /\ stage[c] = "saving" /\ at[c] = "critical" /\ Alive(c)
    /\ \/ /\ file' = IF broken THEN Unset ELSE file
          /\ broken' = FALSE
          /\ current' = [current EXCEPT ![c] = file']
          /\ stage' = [stage EXCEPT ![c] = "read"]
       \/ /\ broken
          /\ file' = Unset /\ broken' = FALSE
          /\ stage' = [stage EXCEPT ![c] = "failed"]
          /\ UNCHANGED current
       \/ /\ stage' = [stage EXCEPT ![c] = "failed"]
          /\ UNCHANGED <<fileVars, current>>
    /\ UNCHANGED <<lockVars, procVars, paths>>

(* Variant: everything the process has in memory is written.               *)
MergedAll(p, c) == global[p]

(* The modified paths over what the file holds.                            *)
Merged(p, c) ==
    [k \in Paths |-> IF k \in paths[c] THEN global[p][k] ELSE current[c][k]]

(* The merge becomes #global, and the file is opened for writing.          *)
Apply(c) ==
    LET p == ProcOf[c]
    IN  /\ stage[c] = "read" /\ Alive(c)
        /\ stage'   = [stage   EXCEPT ![c] = "writing"]
        /\ current' = [current EXCEPT ![c] = Merged(p, c)]
        /\ global'  = [global  EXCEPT ![p] = Merged(p, c)]
        /\ broken'  = TRUE
        /\ UNCHANGED <<lockVars, file, modified, timer, sets, owed, flushing, flushed, paths>>

Paid(p, c) ==
    [k \in Paths |-> IF k \in paths[c] /\ owed[p][k] = current[c][k] THEN 0 ELSE owed[p][k]]

Finish(c) ==
    /\ stage[c] = "writing" /\ Alive(c)
    /\ stage' = [stage EXCEPT ![c] = "done"]
    /\ file' = current[c]
    /\ broken' = FALSE
    /\ owed' = [owed EXCEPT ![ProcOf[c]] = Paid(ProcOf[c], c)]
    /\ UNCHANGED <<lockVars, global, modified, timer, sets, flushing, flushed, paths, current>>

(* The write fails, before or after it has touched the file.               *)
WriteFails(c) ==
    /\ stage[c] = "writing" /\ Alive(c)
    /\ stage' = [stage EXCEPT ![c] = "failed"]
    /\ broken' \in {broken, FALSE}
    /\ UNCHANGED <<lockVars, file, procVars, paths, current>>

(* Variant: the paths of a failed save are dropped.                        *)
RequeueNothing(c) == {}

(* A failed save puts its paths back, without a timer of its own.          *)
Requeued(c) == IF stage[c] = "done" THEN {} ELSE paths[c]

EndSave(c) ==
    LET p == ProcOf[c]
    IN  /\ stage' = [stage EXCEPT ![c] = "idle"]
        /\ paths' = [paths EXCEPT ![c] = {}]
        /\ modified' = [modified EXCEPT ![p] = @ \cup Requeued(c)]
        /\ flushing' = [flushing EXCEPT ![p] = IF @ = c THEN None ELSE @]
        /\ flushed'  = IF flushing[p] = c /\ stage[c] = "done" THEN flushed \cup {p} ELSE flushed
        /\ UNCHANGED <<fileVars, global, timer, sets, owed, current>>

LockFails(c) == stage[c] = "saving" /\ GiveUp(c) /\ EndSave(c)

(* Variant: nobody waits for the release.                                  *)
ReleasesUnawaited(c) ==
    /\ stage[c] \in {"done", "failed"}
    /\ CheckToken(c)
    /\ EndSave(c)

Releases(c) ==
    /\ stage[c] \in {"done", "failed"}
    /\ CheckToken(c) \/ Remove(c)
    /\ IF at'[c] = "out" THEN EndSave(c) ELSE UNCHANGED storeVars

-----------------------------------------------------------------------------

Init ==
    /\ LockInit
    /\ file = Unset /\ broken = FALSE
    /\ global = [p \in Procs |-> file]
    /\ modified = [p \in Procs |-> {}]
    /\ timer = {}
    /\ stage = [c \in Clients |-> "idle"]
    /\ paths = [c \in Clients |-> {}]
    /\ current = [c \in Clients |-> file]
    /\ sets = 0
    /\ owed = global
    /\ flushing = [p \in Procs |-> None]
    /\ flushed = {}

SaveStep(c) ==
    \/ Acquires(c) \/ LockFails(c) \/ Read(c) \/ Apply(c)
    \/ Finish(c) \/ WriteFails(c) \/ Releases(c)

ProcStep(p) ==
    \/ \E k \in Paths : Set(p, k)
    \/ \E c \in Clients : TimerSaves(p, c) \/ FlushSaves(p, c)
    \/ FlushReturns(p)
    \/ Crash(p) /\ UNCHANGED storeVars

Next ==
    \/ \E p \in Procs : ProcStep(p)
    \/ \E c \in Clients : SaveStep(c)
    \/ Age /\ UNCHANGED storeVars

Spec == Init /\ [][Next]_vars

-----------------------------------------------------------------------------
(* Properties                                                              *)

(* A change is never silently dropped: until a write brings it to disk, it *)
(* is in memory and a save under way or a later one will write it.         *)
NothingDropped ==
    \A p \in alive, k \in Paths :
        owed[p][k] # 0 =>
            /\ global[p][k] = owed[p][k]
            /\ k \in modified[p] \cup UNION {paths[c] : c \in Saves(p)}

(* No lost updates: a write changes the file at the paths it was asked to  *)
(* change, and leaves what other processes saved in the meantime; only a   *)
(* half written file is lost whole.                                        *)
OnlyOwnPaths ==
    [][\A k \in Paths :
          file'[k] # file[k] =>
              \E c \in Clients :
                  \/ stage[c] = "writing" /\ stage'[c] = "done" /\ k \in paths[c]
                  \/ stage[c] = "saving" /\ stage'[c] # "saving" /\ broken]_vars

(* After a flush that did not fail, every change made before it is on disk.*)
FlushPersists ==
    \A p \in flushed \cap alive, k \in Paths : owed[p][k] = 0

=============================================================================

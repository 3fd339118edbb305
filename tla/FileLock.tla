------------------------------ MODULE FileLock ------------------------------
(***************************************************************************)
(* The lock directory that serializes read-modify-write cycles on a file   *)
(* between processes: config/file-lock.ts.                                 *)
(*                                                                         *)
(* A client is one call of withFileLock; the clients of a process share    *)
(* its pid and die together.  Every call into the file system is a step.   *)
(* The lock's token is unique per acquisition and a client holds at most   *)
(* one, so the client stands for it.                                       *)
(***************************************************************************)
EXTENDS FiniteSets

CONSTANTS
    Clients,   \* calls of withFileLock
    Procs,     \* processes
    ProcOf,    \* the process of each client
    None,      \* no client
    LockRaces  \* the interleavings the environment is allowed

(* "lateReap"    a lock is removed that has changed hands since it was       *)
(*               judged stale                                               *)
(* "slowHolder"  a live client keeps the lock longer than staleMs           *)
AllLockRaces == {"lateReap", "slowHolder"}

ASSUME FileLockAssumption ==
    /\ ProcOf \in [Clients -> Procs]
    /\ None \notin Clients
    /\ LockRaces \subseteq AllLockRaces

VARIABLES
    maker,  \* the client that made the present lock directory, or None
    info,   \* the client whose token its info file holds, or None
    aged,   \* the directory and its info file are older than staleMs
    alive,  \* the processes that have not crashed
    at,     \* where each client is in withFileLock
    judged  \* the maker of the directory a client has judged stale

dirVars  == <<maker, info, aged>>
lockVars == <<dirVars, alive, at, judged>>

Places == {"out", "trying", "created", "critical", "releasing",
           "checking", "statting", "reaping", "waiting"}

LockTypeOK ==
    /\ maker \in Clients \cup {None}
    /\ info \in Clients \cup {None}
    /\ aged \in BOOLEAN
    /\ alive \subseteq Procs
    /\ at \in [Clients -> Places]
    /\ judged \in [Clients -> Clients \cup {None}]

Alive(c) == ProcOf[c] \in alive

GoTo(c, place) == at' = [at EXCEPT ![c] = place]

-----------------------------------------------------------------------------
(* Acquiring                                                               *)

Call(c) ==
    /\ at[c] = "out" /\ Alive(c)
    /\ GoTo(c, "trying")
    /\ UNCHANGED <<dirVars, alive, judged>>

MakeDir(c) == maker' = c /\ info' = None /\ aged' = FALSE

RemoveDir == maker' = None /\ info' = None /\ aged' = FALSE

(* Variant: an existing directory is taken for one's own.                  *)
MkdirExisting(c) ==
    /\ at[c] = "trying" /\ Alive(c)
    /\ MakeDir(c) /\ GoTo(c, "created")
    /\ UNCHANGED <<alive, judged>>

(* tryAcquireLock up to the mkdir, which one client wins.                  *)
Mkdir(c) ==
    /\ at[c] = "trying" /\ Alive(c)
    /\ \/ maker = None /\ MakeDir(c) /\ GoTo(c, "created")
       \/ maker # None /\ GoTo(c, "checking") /\ UNCHANGED dirVars
    /\ UNCHANGED <<alive, judged>>

(* writeLockInfo.  Bun.write makes a directory that is gone again.         *)
WriteInfo(c) ==
    /\ at[c] = "created" /\ Alive(c)
    /\ maker' = IF maker = None THEN c ELSE maker
    /\ info' = c
    /\ aged' = FALSE
    /\ GoTo(c, "critical")
    /\ UNCHANGED <<alive, judged>>

(* The caller remembers which lock it judged stale.                        *)
Judge(c, stale, otherwise) ==
    /\ GoTo(c, IF stale THEN "reaping" ELSE otherwise)
    /\ judged' = [judged EXCEPT ![c] = IF stale THEN maker ELSE None]
    /\ UNCHANGED <<dirVars, alive>>

(* Variant: a directory without an info file is stale.                     *)
StaleBare == info = None \/ ~Alive(info) \/ aged

(* A lock is stale when its process is dead or its timestamp old.          *)
StaleInfo == info # None /\ (~Alive(info) \/ aged)

(* isLockStale reads the info file.  Without one, the directory may be one *)
(* its maker is about to fill.                                             *)
ReadInfo(c) ==
    /\ at[c] = "checking" /\ Alive(c)
    /\ Judge(c, maker # None /\ StaleInfo,
             IF maker # None /\ info = None THEN "statting" ELSE "waiting")

(* The age of the directory decides.                                       *)
StatDir(c) ==
    /\ at[c] = "statting" /\ Alive(c)
    /\ Judge(c, maker # None /\ aged, "waiting")

(* The stale lock is removed, without a token, and the loop goes on.       *)
Reap(c) ==
    /\ at[c] = "reaping" /\ Alive(c)
    /\ maker \in {None, judged[c]} \/ "lateReap" \in LockRaces
    /\ RemoveDir
    /\ GoTo(c, "trying")
    /\ UNCHANGED <<alive, judged>>

(* Bun.sleep, and the next attempt.                                        *)
Retry(c) ==
    /\ at[c] = "waiting" /\ Alive(c)
    /\ GoTo(c, "trying")
    /\ UNCHANGED <<dirVars, alive, judged>>

(* The attempts are used up and the call fails.                            *)
GiveUp(c) ==
    /\ at[c] \in {"waiting", "trying"} /\ Alive(c)
    /\ GoTo(c, "out")
    /\ UNCHANGED <<dirVars, alive, judged>>

-----------------------------------------------------------------------------
(* Releasing                                                               *)

(* releaseLock reads the info file: another owner's lock is left alone.    *)
CheckToken(c) ==
    /\ at[c] = "critical" /\ Alive(c)
    /\ GoTo(c, IF info = c THEN "releasing" ELSE "out")
    /\ UNCHANGED <<dirVars, alive, judged>>

Remove(c) ==
    /\ at[c] = "releasing" /\ Alive(c)
    /\ RemoveDir
    /\ GoTo(c, "out")
    /\ UNCHANGED <<alive, judged>>

-----------------------------------------------------------------------------
(* The environment                                                         *)

(* A process dies, wherever its clients are.                               *)
Crash(p) ==
    /\ p \in alive
    /\ alive' = alive \ {p}
    /\ UNCHANGED <<dirVars, at, judged>>

(* staleMs pass.                                                           *)
Age ==
    /\ maker # None /\ ~aged
    /\ Alive(maker) => "slowHolder" \in LockRaces
    /\ aged' = TRUE
    /\ UNCHANGED <<maker, info, alive, at, judged>>

-----------------------------------------------------------------------------

LockInit ==
    /\ maker = None /\ info = None /\ aged = FALSE
    /\ alive = Procs
    /\ at = [c \in Clients |-> "out"]
    /\ judged = [c \in Clients |-> None]

(* What acquireLock does between its call and the critical section.        *)
Attempt(c) ==
    \/ Mkdir(c) \/ WriteInfo(c) \/ ReadInfo(c) \/ StatDir(c) \/ Reap(c) \/ Retry(c)

LockNext ==
    \/ \E c \in Clients :
          Call(c) \/ Attempt(c) \/ GiveUp(c) \/ CheckToken(c) \/ Remove(c)
    \/ \E p \in Procs : Crash(p)
    \/ Age

LockSpec == LockInit /\ [][LockNext]_lockVars

-----------------------------------------------------------------------------
(* Properties                                                              *)

(* The lock belongs to the client from its mkdir to the end of its release.*)
Owns(c) == Alive(c) /\ at[c] \in {"created", "critical", "releasing"}

(* As long as a live client owns the lock, the directory on disk is the one*)
(* it made, and is not removed under it: neither by another's release, nor *)
(* by one who takes the directory for stale, with or without an info file. *)
OwnerKeepsLock ==
    \A c \in Clients :
        Owns(c) => maker = c /\ info = IF at[c] = "created" THEN None ELSE c

(* Two live clients are never in the critical section.                     *)
MutualExclusion ==
    \A c, d \in Clients :
        Alive(c) /\ Alive(d) /\ at[c] = "critical" /\ at[d] = "critical" => c = d

=============================================================================

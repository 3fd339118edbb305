-------------------------- MODULE FileLock_proofs --------------------------
(***************************************************************************)
(* The file lock excludes for any number of clients and processes, and     *)
(* whatever they crash with, as long as no lock outlives staleMs with its  *)
(* holder alive and no judgement of staleness is acted on late.            *)
(***************************************************************************)
EXTENDS FileLock, TLAPS

(* The info file is the one of the client that made the directory.         *)
InfoIsMakers == info # None => info = maker

(* Only a dead client's lock grows old, and only it is judged stale.       *)
AgedAreDead == aged => maker # None /\ ~Alive(maker)
JudgedAreDead ==
    \A c \in Clients : at[c] = "reaping" => judged[c] # None /\ ~Alive(judged[c])

LockInv ==
    LockTypeOK /\ OwnerKeepsLock /\ InfoIsMakers /\ AgedAreDead /\ JudgedAreDead

-----------------------------------------------------------------------------

(* The invariant holds at first, when nobody has called withFileLock.      *)
LEMMA LockInit_Inv == LockInit => LockInv
  BY FileLockAssumption
     DEF LockInit, LockInv, LockTypeOK, Places, OwnerKeepsLock, Owns,
         InfoIsMakers, AgedAreDead, JudgedAreDead

(* Steps of acquireLock preserve the invariant: a directory is made when   *)
(* there is none, and removed only when its owner is dead.                 *)
LEMMA Acquiring_Inv ==
    ASSUME LockRaces = {}, LockInv, NEW c \in Clients,
           Call(c) \/ Attempt(c) \/ GiveUp(c)
    PROVE  LockInv'
<1> USE FileLockAssumption DEF LockInv, LockTypeOK, Places, GoTo
<1>1. CASE Call(c)
  BY <1>1 DEF Call, dirVars, OwnerKeepsLock, Owns, Alive, InfoIsMakers, AgedAreDead, JudgedAreDead
<1>2. CASE Mkdir(c)
  <2> USE <1>2 DEF Mkdir, MakeDir, dirVars, Alive
  <2>1. LockTypeOK'  BY DEF LockTypeOK
  <2>2. OwnerKeepsLock'  BY DEF OwnerKeepsLock, Owns
  <2>3. InfoIsMakers' /\ AgedAreDead'  BY DEF InfoIsMakers, AgedAreDead
  <2>4. JudgedAreDead'  BY DEF JudgedAreDead
  <2>5. QED  BY <2>1, <2>2, <2>3, <2>4
<1>3. CASE WriteInfo(c)
  BY <1>3 DEF WriteInfo, OwnerKeepsLock, Owns, Alive, InfoIsMakers, AgedAreDead, JudgedAreDead
<1>4. CASE ReadInfo(c)
  BY <1>4 DEF ReadInfo, Judge, StaleInfo, dirVars, OwnerKeepsLock, Owns, Alive, InfoIsMakers, AgedAreDead, JudgedAreDead
<1>5. CASE StatDir(c)
  BY <1>5 DEF StatDir, Judge, dirVars, OwnerKeepsLock, Owns, Alive, InfoIsMakers, AgedAreDead, JudgedAreDead
<1>6. CASE Reap(c)
  BY <1>6 DEF Reap, RemoveDir, OwnerKeepsLock, Owns, Alive, InfoIsMakers, AgedAreDead, JudgedAreDead
<1>7. CASE Retry(c)
  BY <1>7 DEF Retry, dirVars, OwnerKeepsLock, Owns, Alive, InfoIsMakers, AgedAreDead, JudgedAreDead
<1>8. CASE GiveUp(c)
  BY <1>8 DEF GiveUp, dirVars, OwnerKeepsLock, Owns, Alive, InfoIsMakers, AgedAreDead, JudgedAreDead
<1>9. QED
  BY <1>1, <1>2, <1>3, <1>4, <1>5, <1>6, <1>7, <1>8 DEF Attempt

(* So do the steps of releaseLock, which removes the client's own lock,    *)
(* the crash of a process and the passing of time.                         *)
LEMMA Releasing_Inv ==
    ASSUME LockInv, NEW c \in Clients, CheckToken(c) \/ Remove(c)
    PROVE  LockInv'
<1> USE FileLockAssumption DEF LockInv, LockTypeOK, Places, GoTo
<1>1. CASE CheckToken(c)
  BY <1>1 DEF CheckToken, dirVars, OwnerKeepsLock, Owns, Alive, InfoIsMakers, AgedAreDead, JudgedAreDead
<1>2. CASE Remove(c)
  BY <1>2 DEF Remove, RemoveDir, OwnerKeepsLock, Owns, Alive, InfoIsMakers, AgedAreDead, JudgedAreDead
<1>3. QED  BY <1>1, <1>2

(* A crash leaves the directory, and an owner fewer.                       *)
LEMMA Crash_Inv ==
    ASSUME LockInv, NEW p \in Procs, Crash(p)
    PROVE  LockInv'
  BY FileLockAssumption
     DEF LockInv, LockTypeOK, Places, Crash, dirVars, OwnerKeepsLock, Owns, Alive,
         InfoIsMakers, AgedAreDead, JudgedAreDead

(* Only the lock of a dead process grows old.                              *)
LEMMA Age_Inv ==
    ASSUME LockRaces = {}, LockInv, Age
    PROVE  LockInv'
  BY FileLockAssumption
     DEF LockInv, LockTypeOK, Places, Age, OwnerKeepsLock, Owns, Alive,
         InfoIsMakers, AgedAreDead, JudgedAreDead

(* Every step of the lock, or of whoever leaves it alone, preserves it.    *)
LEMMA LockNext_Inv ==
    ASSUME LockRaces = {}, LockInv, [LockNext]_lockVars
    PROVE  LockInv'
<1>1. CASE LockNext
  BY <1>1, Acquiring_Inv, Releasing_Inv, Crash_Inv, Age_Inv DEF LockNext
<1>2. CASE UNCHANGED lockVars
  BY <1>2 DEF LockInv, LockTypeOK, lockVars, dirVars, OwnerKeepsLock, Owns, Alive,
              InfoIsMakers, AgedAreDead, JudgedAreDead
<1>3. QED  BY <1>1, <1>2

-----------------------------------------------------------------------------

(* As long as a live client owns the lock, from its mkdir to the end of    *)
(* its release, the directory on disk is its own: nobody who crashed,      *)
(* judged or released in between has taken it away (acquireLock and        *)
(* releaseLock of config/file-lock.ts).                                    *)
THEOREM LockIsKept ==
    ASSUME LockRaces = {}
    PROVE  LockSpec => []OwnerKeepsLock
<1>1. LockInit => LockInv  BY LockInit_Inv
<1>2. LockInv /\ [LockNext]_lockVars => LockInv'  BY LockNext_Inv
<1>3. LockInv => OwnerKeepsLock  BY DEF LockInv
<1>4. QED  BY <1>1, <1>2, <1>3, PTL DEF LockSpec

(* The directory has one maker, so one client is in the critical section.  *)
LEMMA OwnerExcludes == OwnerKeepsLock => MutualExclusion
  BY DEF OwnerKeepsLock, MutualExclusion, Owns

(* Two live clients never run their critical sections together             *)
(* (withFileLock).                                                         *)
THEOREM LockExcludes ==
    ASSUME LockRaces = {}
    PROVE  LockSpec => []MutualExclusion
  BY LockIsKept, OwnerExcludes, PTL

=============================================================================

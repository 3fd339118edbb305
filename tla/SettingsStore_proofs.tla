----------------------- MODULE SettingsStore_proofs ------------------------
(***************************************************************************)
(* Processes that save their settings to one file never overwrite each     *)
(* other's: a save uses the lock as FileLock specifies, is alone between   *)
(* reading the file and writing it, and changes its own paths only.        *)
(***************************************************************************)
EXTENDS SettingsStore, FileLock_proofs

(* A save reads and writes the file in its critical section.               *)
SavesInCritical ==
    \A c \in Clients : stage[c] \in {"read", "writing"} => at[c] = "critical"

(* What a live save is about to write agrees with the file at every path   *)
(* it has not been asked to change.                                        *)
SavesAreFresh ==
    \A c \in Clients :
        Alive(c) /\ stage[c] \in {"read", "writing"} =>
            \A k \in Paths \ paths[c] : current[c][k] = file[k]

StoreInv == TypeOK /\ LockInv /\ SavesInCritical /\ SavesAreFresh

-----------------------------------------------------------------------------
(* The saves use the lock as it is specified                               *)

(* A change in memory does not touch the lock.                             *)
LEMMA Set_Lock ==
    ASSUME NEW p \in Procs, NEW k \in Paths, Set(p, k)
    PROVE  UNCHANGED lockVars
  BY DEF Set

(* A process calls withFileLock when it starts a save.                     *)
LEMMA ProcStep_Lock ==
    ASSUME NEW p \in Procs, ProcStep(p)
    PROVE  [LockNext]_lockVars
<1>1. CASE \E k \in Paths : Set(p, k)
  BY <1>1, Set_Lock
<1>2. ASSUME NEW c \in Clients, TimerSaves(p, c) \/ FlushSaves(p, c)
      PROVE  LockNext
  BY <1>2 DEF TimerSaves, FlushSaves, StartSave, LockNext
<1>3. CASE FlushReturns(p)
  BY <1>3 DEF FlushReturns
<1>4. CASE Crash(p) /\ UNCHANGED storeVars
  BY <1>4 DEF LockNext
<1>5. QED  BY <1>1, <1>2, <1>3, <1>4 DEF ProcStep

(* A save takes, loses the patience for and releases the lock.             *)
LEMMA SaveStep_Lock ==
    ASSUME NEW c \in Clients, SaveStep(c)
    PROVE  [LockNext]_lockVars
<1>1. CASE Acquires(c)  BY <1>1 DEF Acquires, LockNext
<1>2. CASE LockFails(c)  BY <1>2 DEF LockFails, LockNext
<1>3. CASE Read(c) \/ Apply(c) \/ Finish(c) \/ WriteFails(c)
  BY <1>3 DEF Read, Apply, Finish, WriteFails
<1>4. CASE Releases(c)  BY <1>4 DEF Releases, LockNext
<1>5. QED  BY <1>1, <1>2, <1>3, <1>4 DEF SaveStep

(* Every step of the store is one of the lock, or leaves it alone.         *)
LEMMA Next_Lock == [Next]_vars => [LockNext]_lockVars
<1>1. ASSUME Next PROVE [LockNext]_lockVars
  BY <1>1, ProcStep_Lock, SaveStep_Lock DEF Next, LockNext
<1>2. CASE UNCHANGED vars  BY <1>2 DEF vars
<1>3. QED  BY <1>1, <1>2

(* The processes and their saves implement the lock's specification: a     *)
(* save calls withFileLock, and touches the lock in no other way.          *)
THEOREM StoreImplementsLock == Spec => LockSpec
<1>1. Init => LockInit  BY DEF Init
<1>2. QED  BY <1>1, Next_Lock, PTL DEF Spec, LockSpec

(* So the saves of all processes exclude each other.                       *)
THEOREM StoreExcludes ==
    ASSUME LockRaces = {}
    PROVE  Spec => [](OwnerKeepsLock /\ MutualExclusion)
  BY StoreImplementsLock, LockIsKept, LockExcludes, PTL

-----------------------------------------------------------------------------
(* The invariant of the store                                              *)

(* At first no save is under way.                                          *)
LEMMA Init_StoreInv == Init => StoreInv
<1> SUFFICES ASSUME Init PROVE StoreInv
  OBVIOUS
<1>1. LockInv  BY LockInit_Inv DEF Init
<1>2. file \in Values /\ sets \in Versions
  BY SettingsAssumption DEF Init, Unset, Values, Versions
<1>3. TypeOK
  BY <1>1, <1>2 DEF Init, LockInit, LockInv, TypeOK
<1>4. SavesInCritical /\ SavesAreFresh
  BY DEF Init, SavesInCritical, SavesAreFresh
<1>5. QED  BY <1>1, <1>3, <1>4 DEF StoreInv

(* Steps of a process touch neither the file nor a save that is past its   *)
(* start.                                                                  *)
LEMMA Set_Inv ==
    ASSUME StoreInv, LockInv', NEW p \in Procs, NEW k \in Paths, Set(p, k)
    PROVE  StoreInv'
<1> USE SettingsAssumption DEF StoreInv, TypeOK
<1>1. sets' \in Versions  BY DEF Set, Versions
<1>2. global' \in [Procs -> Values] /\ owed' \in [Procs -> Values]
  BY <1>1 DEF Set, Values, Versions
<1>3. TypeOK'
  BY <1>1, <1>2 DEF Set, LockInv, fileVars, saveVars, lockVars
<1>4. SavesInCritical' /\ SavesAreFresh'
  BY DEF Set, SavesInCritical, SavesAreFresh, Alive, fileVars, saveVars, lockVars
<1>5. QED  BY <1>3, <1>4

(* A save starts outside the lock.                                         *)
LEMMA StartSave_Inv ==
    ASSUME StoreInv, LockInv', NEW p \in Procs, NEW c \in Clients,
           TimerSaves(p, c) \/ FlushSaves(p, c)
    PROVE  StoreInv'
<1> USE DEF StoreInv, TypeOK
<1>1. StartSave(p, c) /\ flushing' \in [Procs -> Clients \cup {None}]
  BY DEF TimerSaves, FlushSaves
<1>2. TypeOK'
  BY <1>1 DEF StartSave, Take, Call, GoTo, LockInv, LockTypeOK, fileVars
<1>3. SavesInCritical' /\ SavesAreFresh'
  BY <1>1 DEF StartSave, Take, Call, GoTo, LockTypeOK, SavesInCritical, SavesAreFresh, Alive, fileVars
<1>4. QED  BY <1>2, <1>3

(* A flush without anything to save changes no save.                       *)
LEMMA FlushReturns_Inv ==
    ASSUME StoreInv, LockInv', NEW p \in Procs, FlushReturns(p)
    PROVE  StoreInv'
  BY DEF StoreInv, TypeOK, LockInv, FlushReturns, SavesInCritical, SavesAreFresh, Alive,
         fileVars, saveVars, lockVars

(* A crash or the passing of time leaves the store alone.                  *)
LEMMA Environment_Inv ==
    ASSUME StoreInv, LockInv', UNCHANGED storeVars, alive' \subseteq alive, at' = at
    PROVE  StoreInv'
  BY DEF StoreInv, TypeOK, LockInv, SavesInCritical, SavesAreFresh, Alive,
         storeVars, fileVars, procVars, saveVars

(* Taking the lock changes nothing but the lock.                           *)
LEMMA Acquires_Inv ==
    ASSUME StoreInv, LockInv', NEW c \in Clients, Acquires(c)
    PROVE  StoreInv'
<1> USE DEF StoreInv, TypeOK
<1>1. /\ stage[c] = "saving" /\ UNCHANGED storeVars /\ alive' = alive
      /\ \E place \in Places : at' = [at EXCEPT ![c] = place]
  BY DEF Acquires, Attempt, Mkdir, WriteInfo, ReadInfo, StatDir, Judge, Reap, Retry, GoTo, Places
<1>2. TypeOK'
  BY <1>1 DEF LockInv, LockTypeOK, storeVars, fileVars, procVars, saveVars
<1>3. SavesInCritical' /\ SavesAreFresh'
  BY <1>1 DEF LockTypeOK, SavesInCritical, SavesAreFresh, Alive, storeVars, fileVars, saveVars
<1>4. QED  BY <1>2, <1>3

(* A save that reads is alone in the critical section, so that no other is *)
(* about to write over what an unreadable file is replaced by.             *)
LEMMA Read_Inv ==
    ASSUME StoreInv, LockInv', NEW c \in Clients, Read(c)
    PROVE  StoreInv'
<1> USE DEF StoreInv, TypeOK
<1>1. file' \in Values  BY SettingsAssumption DEF Read, Unset, Values, fileVars
<1>2. TypeOK'
  BY <1>1 DEF Read, LockInv, procVars, lockVars, fileVars
<1>3. SavesInCritical'
  BY DEF Read, SavesInCritical, lockVars
<1>4. SavesAreFresh'
  <2> SUFFICES ASSUME NEW d \in Clients, Alive(d)', stage'[d] \in {"read", "writing"},
                      NEW k \in Paths, k \notin paths'[d]
               PROVE  current'[d][k] = file'[k]
    BY DEF SavesAreFresh
  <2>1. CASE d = c
    BY <2>1 DEF Read
  <2>2. CASE d # c
    <3>1. Alive(d) /\ at[d] = "critical" /\ stage[d] \in {"read", "writing"}
      BY <2>2 DEF Read, SavesInCritical, Alive, lockVars
    <3>2. at[c] = "critical" /\ Alive(c)  BY DEF Read
    <3>3. FALSE
      BY <2>2, <3>1, <3>2, OwnerExcludes DEF LockInv, MutualExclusion
    <3>4. QED  BY <3>3
  <2>3. QED  BY <2>1, <2>2
<1>5. QED  BY <1>2, <1>3, <1>4

(* A merge gives every path a value.                                       *)
LEMMA Merged_Type ==
    ASSUME StoreInv, NEW c \in Clients
    PROVE  Merged(ProcOf[c], c) \in Values
  BY FileLockAssumption DEF StoreInv, TypeOK, Merged, Values

(* The merge is what the file holds but for the save's own paths.          *)
LEMMA Apply_Inv ==
    ASSUME StoreInv, LockInv', NEW c \in Clients, Apply(c)
    PROVE  StoreInv'
<1> USE FileLockAssumption DEF StoreInv, TypeOK
<1>1. Merged(ProcOf[c], c) \in Values  BY Merged_Type
<1>2. TypeOK'
  BY <1>1 DEF Apply, LockInv, lockVars
<1>3. SavesInCritical'
  BY DEF Apply, SavesInCritical, lockVars
<1>4. SavesAreFresh'
  BY DEF Apply, Merged, SavesAreFresh, Alive, lockVars
<1>5. QED  BY <1>2, <1>3, <1>4

(* A save that writes is alone: no other has read what it replaces.        *)
LEMMA Finish_Inv ==
    ASSUME StoreInv, LockInv', NEW c \in Clients, Finish(c)
    PROVE  StoreInv'
<1> USE FileLockAssumption DEF StoreInv, TypeOK
<1>1. Paid(ProcOf[c], c) \in Values
  BY SettingsAssumption DEF Paid, Values
<1>2. TypeOK'
  BY <1>1 DEF Finish, LockInv, lockVars
<1>3. SavesInCritical'
  BY DEF Finish, SavesInCritical, lockVars
<1>4. SavesAreFresh'
  <2> SUFFICES ASSUME NEW d \in Clients, Alive(d)', stage'[d] \in {"read", "writing"}
               PROVE  FALSE
    BY DEF SavesAreFresh
  <2>1. d # c /\ Alive(d) /\ at[d] = "critical"
    BY DEF Finish, SavesInCritical, Alive, lockVars
  <2>2. Alive(c) /\ at[c] = "critical"
    BY DEF Finish, SavesInCritical
  <2>3. QED  BY <2>1, <2>2, OwnerExcludes DEF LockInv, MutualExclusion
<1>5. QED  BY <1>2, <1>3, <1>4

(* A write that fails leaves what the other saves rely on.                 *)
LEMMA WriteFails_Inv ==
    ASSUME StoreInv, LockInv', NEW c \in Clients, WriteFails(c)
    PROVE  StoreInv'
<1> USE DEF StoreInv, TypeOK
<1>1. TypeOK'
  BY DEF WriteFails, LockInv, procVars, lockVars
<1>2. SavesInCritical' /\ SavesAreFresh'
  BY DEF WriteFails, SavesInCritical, SavesAreFresh, Alive, lockVars
<1>3. QED  BY <1>1, <1>2

(* A save ends outside the lock.                                           *)
LEMMA EndSave_Inv ==
    ASSUME StoreInv, LockInv', NEW c \in Clients, EndSave(c),
           alive' = alive, at' = [at EXCEPT ![c] = "out"]
    PROVE  StoreInv'
<1> USE FileLockAssumption DEF StoreInv, TypeOK
<1>1. Requeued(c) \subseteq Paths  BY DEF Requeued
<1>2. TypeOK'
  BY ZenonT(60), <1>1 DEF EndSave, LockInv, LockTypeOK, fileVars
<1>3. SavesInCritical' /\ SavesAreFresh'
  BY DEF EndSave, LockTypeOK, SavesInCritical, SavesAreFresh, Alive, fileVars
<1>4. QED  BY <1>2, <1>3

(* A save that gives up was not past its start.                            *)
LEMMA LockFails_Inv ==
    ASSUME StoreInv, LockInv', NEW c \in Clients, LockFails(c)
    PROVE  StoreInv'
  BY EndSave_Inv DEF LockFails, GiveUp, GoTo

(* A save releases the lock before it ends.                                *)
LEMMA Releases_Inv ==
    ASSUME StoreInv, LockInv', NEW c \in Clients, Releases(c)
    PROVE  StoreInv'
<1> USE DEF StoreInv, TypeOK
<1>1. /\ stage[c] \in {"done", "failed"} /\ alive' = alive
      /\ \E place \in Places : at' = [at EXCEPT ![c] = place]
  BY DEF Releases, CheckToken, Remove, GoTo, Places
<1>2. CASE at'[c] = "out"
  <2>1. at' = [at EXCEPT ![c] = "out"]  BY <1>1, <1>2 DEF LockTypeOK
  <2>2. QED  BY <1>1, <1>2, <2>1, EndSave_Inv DEF Releases
<1>3. CASE at'[c] # "out"
  <2>1. UNCHANGED storeVars  BY <1>3 DEF Releases
  <2>2. TypeOK'
    BY <1>1, <2>1 DEF LockInv, LockTypeOK, storeVars, fileVars, procVars, saveVars
  <2>3. SavesInCritical' /\ SavesAreFresh'
    BY <1>1, <2>1 DEF LockTypeOK, SavesInCritical, SavesAreFresh, Alive, storeVars, fileVars, saveVars
  <2>4. QED  BY <2>2, <2>3
<1>4. QED  BY <1>2, <1>3

(* Every step preserves the invariant.                                     *)
LEMMA Next_StoreInv ==
    ASSUME LockRaces = {}, StoreInv, [Next]_vars
    PROVE  StoreInv'
<1>1. LockInv'  BY Next_Lock, LockNext_Inv DEF StoreInv
<1>2. ASSUME NEW p \in Procs, ProcStep(p) PROVE StoreInv'
  <2>1. CASE Crash(p) /\ UNCHANGED storeVars
    BY <1>1, <2>1, Environment_Inv DEF Crash
  <2>2. QED
    BY <1>1, <1>2, <2>1, Set_Inv, StartSave_Inv, FlushReturns_Inv DEF ProcStep
<1>3. ASSUME NEW c \in Clients, SaveStep(c) PROVE StoreInv'
  BY <1>1, <1>3, Acquires_Inv, LockFails_Inv, Read_Inv, Apply_Inv, Finish_Inv,
     WriteFails_Inv, Releases_Inv DEF SaveStep
<1>4. CASE Age /\ UNCHANGED storeVars
  BY <1>1, <1>4, Environment_Inv DEF Age
<1>5. CASE UNCHANGED vars
  BY <1>1, <1>5, Environment_Inv DEF vars, lockVars
<1>6. QED  BY <1>2, <1>3, <1>4, <1>5 DEF Next

(* Types, and the link between a save's stage and its place in the lock,   *)
(* hold whatever the processes do.                                         *)
THEOREM StoreTypeOK ==
    ASSUME LockRaces = {}
    PROVE  Spec => []TypeOK
<1>1. StoreInv => TypeOK  BY DEF StoreInv
<1>2. QED  BY <1>1, Init_StoreInv, Next_StoreInv, PTL DEF Spec

-----------------------------------------------------------------------------

(* A step that changes the file at a path is the write of a save that was  *)
(* asked to change it, or finds the file cut off.                          *)
LEMMA Next_OwnPaths ==
    ASSUME StoreInv, Next, NEW k \in Paths, file'[k] # file[k]
    PROVE  \E c \in Clients :
               \/ stage[c] = "writing" /\ stage'[c] = "done" /\ k \in paths[c]
               \/ stage[c] = "saving" /\ stage'[c] # "saving" /\ broken
<1> USE DEF StoreInv, TypeOK
<1>1. PICK c \in Clients : Read(c) \/ Finish(c)
  <2>1. ASSUME NEW p \in Procs, ProcStep(p) PROVE FALSE
    BY <2>1 DEF ProcStep, Set, TimerSaves, FlushSaves, StartSave, FlushReturns, storeVars, fileVars
  <2>2. ASSUME NEW c \in Clients, SaveStep(c) PROVE Read(c) \/ Finish(c)
    BY <2>2 DEF SaveStep, Acquires, LockFails, Releases, Apply, WriteFails, EndSave, storeVars, fileVars
  <2>3. QED  BY <2>1, <2>2 DEF Next, storeVars, fileVars
<1>2. CASE Read(c)
  BY <1>2 DEF Read, fileVars
<1>3. CASE Finish(c)
  <2>1. k \in paths[c]  BY <1>3 DEF Finish, SavesAreFresh
  <2>2. QED  BY <1>3, <2>1 DEF Finish
<1>4. QED  BY <1>1, <1>2, <1>3

(* No lost updates: whatever processes save at the same time, the writes   *)
(* of #saveNow change a file at their own paths only.                      *)
THEOREM StoreWritesOwnPaths ==
    ASSUME LockRaces = {}
    PROVE  Spec => OnlyOwnPaths
<1> DEFINE Own ==
      \A k \in Paths :
          file'[k] # file[k] =>
              \E c \in Clients :
                  \/ stage[c] = "writing" /\ stage'[c] = "done" /\ k \in paths[c]
                  \/ stage[c] = "saving" /\ stage'[c] # "saving" /\ broken
<1>1. StoreInv /\ [Next]_vars => [Own]_vars  BY Next_OwnPaths
<1>2. QED  BY <1>1, Init_StoreInv, Next_StoreInv, PTL DEF Spec, OnlyOwnPaths

-----------------------------------------------------------------------------
(* What is changed is saved                                                *)

(* Saves of a process that may still fail.                                 *)
Unfinished(p) == {c \in Saves(p) : stage[c] # "done"}

(* A process has one unfinished save at most.                              *)
OneUnfinished ==
    \A p \in Procs : \A c, d \in Unfinished(p) : c = d

(* What is owed is in memory, and with a save that is to write it or to    *)
(* put it back.                                                            *)
OwedIsKept ==
    \A p \in Procs, k \in Paths :
        owed[p][k] # 0 =>
            /\ global[p][k] = owed[p][k]
            /\ k \in modified[p] \/ \E c \in Unfinished(p) : k \in paths[c]

(* A save that has not merged yet keeps what is owed, and one that writes  *)
(* has merged it, unless it was changed again.                             *)
SavesCarryOwed ==
    \A c \in Clients, k \in Paths :
        owed[ProcOf[c]][k] # 0 =>
            /\ stage[c] \in {"saving", "read"} => k \in paths[c]
            /\ stage[c] = "writing" /\ k \in paths[c] =>
                  current[c][k] = owed[ProcOf[c]][k] \/ k \in modified[ProcOf[c]]

(* A flush that waits has the only save, and nothing has changed since.    *)
FlushesAreAlone ==
    \A p \in Procs :
        /\ flushing[p] # None => modified[p] = {} /\ Saves(p) = {flushing[p]}
        /\ p \in flushed => \A k \in Paths : owed[p][k] = 0

(* Together with StoreInv, inductive when saves and changes do not overlap.*)
Promises == OneUnfinished /\ OwedIsKept /\ SavesCarryOwed /\ FlushesAreAlone

(* Nothing is owed at the start.                                           *)
LEMMA Init_Promises == Init => Promises
  BY FileLockAssumption
     DEF Init, Promises, OneUnfinished, OwedIsKept, SavesCarryOwed, FlushesAreAlone,
         Unfinished, Saves, Unset

(* set: the change is owed, is in memory and waits in modified.            *)
LEMMA Set_Promises ==
    ASSUME Races = {}, StoreInv, Promises, NEW p \in Procs, NEW k \in Paths, Set(p, k)
    PROVE  Promises'
<1> USE FileLockAssumption, SettingsAssumption DEF StoreInv, TypeOK, Promises
<1>1. /\ p \in alive
      /\ \A c \in Clients : ProcOf[c] = p /\ stage[c] \in {"saving", "read"} => k \in paths[c]
      /\ global' = [global EXCEPT ![p][k] = sets']
      /\ owed' = [owed EXCEPT ![p][k] = sets']
      /\ modified' = [modified EXCEPT ![p] = @ \cup {k}]
      /\ flushing' = [flushing EXCEPT ![p] = None]
      /\ flushed' = flushed \ {p}
      /\ UNCHANGED <<stage, paths, current>>
  BY DEF Set, Unapplied, Saves, saveVars
<1>2. /\ global \in [Procs -> [Paths -> Versions]] /\ owed \in [Procs -> [Paths -> Versions]]
  BY DEF Values, Versions
<1>3. \A q \in Procs : Unfinished(q)' = Unfinished(q) /\ Saves(q)' = Saves(q)
  BY <1>1 DEF Unfinished, Saves
<1>4. OneUnfinished'
  BY <1>3 DEF OneUnfinished
<1>5. \A q \in Procs, j \in Paths :
         /\ owed'[q][j] = IF q = p /\ j = k THEN sets' ELSE owed[q][j]
         /\ global'[q][j] = IF q = p /\ j = k THEN sets' ELSE global[q][j]
  BY <1>1, <1>2
<1>6. \A q \in Procs : modified'[q] = IF q = p THEN modified[q] \cup {k} ELSE modified[q]
  BY <1>1
<1>7. OwedIsKept'
  <2> SUFFICES ASSUME NEW q \in Procs, NEW j \in Paths, owed'[q][j] # 0
               PROVE  /\ global'[q][j] = owed'[q][j]
                      /\ j \in modified'[q] \/ \E c \in Unfinished(q)' : j \in paths'[c]
    BY DEF OwedIsKept
  <2>1. CASE q = p /\ j = k
    BY <1>5, <1>6, <2>1
  <2>2. CASE ~(q = p /\ j = k)
    BY <1>1, <1>3, <1>5, <1>6, <2>2 DEF OwedIsKept
  <2>3. QED
    BY <2>1, <2>2
<1>8. SavesCarryOwed'
  <2> SUFFICES ASSUME NEW c \in Clients, NEW j \in Paths, owed'[ProcOf[c]][j] # 0
               PROVE  /\ stage'[c] \in {"saving", "read"} => j \in paths'[c]
                      /\ stage'[c] = "writing" /\ j \in paths'[c] =>
                            current'[c][j] = owed'[ProcOf[c]][j] \/ j \in modified'[ProcOf[c]]
    BY DEF SavesCarryOwed
  <2>1. CASE ProcOf[c] = p /\ j = k
    BY <1>1, <1>6, <2>1
  <2>2. CASE ~(ProcOf[c] = p /\ j = k)
    BY <1>1, <1>5, <1>6, <2>2 DEF SavesCarryOwed
  <2>3. QED
    BY <2>1, <2>2
<1>9. FlushesAreAlone'
  <2> SUFFICES ASSUME NEW q \in Procs
               PROVE  /\ flushing'[q] # None => modified'[q] = {} /\ Saves(q)' = {flushing'[q]}
                      /\ q \in flushed' => \A j \in Paths : owed'[q][j] = 0
    BY DEF FlushesAreAlone
  <2>1. CASE q = p
    BY <1>1, <2>1
  <2>2. CASE q # p
    BY <1>1, <1>3, <1>5, <1>6, <2>2 DEF FlushesAreAlone
  <2>3. QED
    BY <2>1, <2>2
<1>10. QED
  BY <1>4, <1>7, <1>8, <1>9

(* #saveNow takes all that waits; no other save is unfinished.             *)
LEMMA StartSave_Promises ==
    ASSUME Races = {}, StoreInv, Promises, NEW p \in Procs, NEW c \in Clients,
           TimerSaves(p, c) \/ FlushSaves(p, c)
    PROVE  Promises'
<1> USE FileLockAssumption DEF StoreInv, TypeOK, Promises
<1>1. /\ stage[c] = "idle" /\ ProcOf[c] = p /\ modified[p] # {}
      /\ \A d \in Saves(p) : stage[d] = "done"
      /\ stage' = [stage EXCEPT ![c] = "saving"]
      /\ paths' = [paths EXCEPT ![c] = modified[p]]
      /\ modified' = [modified EXCEPT ![p] = {}]
      /\ UNCHANGED <<global, current, owed, flushed>>
      /\ \/ flushing' = flushing
         \/ flushing' = [flushing EXCEPT ![p] = c] /\ Saves(p) = {}
  BY DEF TimerSaves, FlushSaves, StartSave, Take
<1>2. /\ \A q \in Procs \ {p} : Unfinished(q)' = Unfinished(q) /\ Saves(q)' = Saves(q)
      /\ Unfinished(p) = {} /\ Unfinished(p)' = {c}
      /\ Saves(p)' = Saves(p) \cup {c}
  BY <1>1 DEF Unfinished, Saves
<1>3. OneUnfinished'
  BY <1>2 DEF OneUnfinished
<1>4. \A k \in Paths : owed[p][k] # 0 => k \in modified[p]
  BY <1>2 DEF OwedIsKept
<1>5. OwedIsKept'
  <2> SUFFICES ASSUME NEW q \in Procs, NEW j \in Paths, owed'[q][j] # 0
               PROVE  /\ global'[q][j] = owed'[q][j]
                      /\ j \in modified'[q] \/ \E d \in Unfinished(q)' : j \in paths'[d]
    BY DEF OwedIsKept
  <2>1. CASE q = p
    BY <1>1, <1>2, <1>4, <2>1 DEF OwedIsKept
  <2>2. CASE q # p
    <3>1. \A d \in Unfinished(q) : paths'[d] = paths[d]
      BY <1>1, <2>2 DEF Unfinished, Saves
    <3>2. QED
      BY <1>1, <1>2, <2>2, <3>1 DEF OwedIsKept
  <2>3. QED
    BY <2>1, <2>2
<1>6. SavesCarryOwed'
  <2> SUFFICES ASSUME NEW d \in Clients, NEW j \in Paths, owed'[ProcOf[d]][j] # 0
               PROVE  /\ stage'[d] \in {"saving", "read"} => j \in paths'[d]
                      /\ stage'[d] = "writing" /\ j \in paths'[d] =>
                            current'[d][j] = owed'[ProcOf[d]][j] \/ j \in modified'[ProcOf[d]]
    BY DEF SavesCarryOwed
  <2>1. CASE d = c
    BY <1>1, <1>4, <2>1
  <2>2. CASE d # c /\ ProcOf[d] = p
    <3>1. stage'[d] \in {"idle", "done"}
      BY <1>1, <2>2 DEF Saves
    <3>2. QED
      BY <3>1
  <2>3. CASE d # c /\ ProcOf[d] # p
    BY <1>1, <2>3 DEF SavesCarryOwed
  <2>4. QED
    BY <2>1, <2>2, <2>3
<1>7. FlushesAreAlone'
  <2> SUFFICES ASSUME NEW q \in Procs
               PROVE  /\ flushing'[q] # None => modified'[q] = {} /\ Saves(q)' = {flushing'[q]}
                      /\ q \in flushed' => \A j \in Paths : owed'[q][j] = 0
    BY DEF FlushesAreAlone
  <2>1. CASE q = p
    <3>1. flushing[p] = None
      BY <1>1 DEF FlushesAreAlone
    <3>2. CASE flushing' = flushing
      BY <1>1, <2>1, <3>1, <3>2 DEF FlushesAreAlone
    <3>3. CASE flushing' = [flushing EXCEPT ![p] = c] /\ Saves(p) = {}
      BY <1>1, <1>2, <2>1, <3>3 DEF FlushesAreAlone
    <3>4. QED
      BY <1>1, <3>2, <3>3
  <2>2. CASE q # p
    BY <1>1, <1>2, <2>2 DEF FlushesAreAlone
  <2>3. QED
    BY <2>1, <2>2
<1>8. QED
  BY <1>3, <1>5, <1>6, <1>7

(* flush returns at once when nothing waits: then nothing is owed.         *)
LEMMA FlushReturns_Promises ==
    ASSUME Races = {}, StoreInv, Promises, NEW p \in Procs, FlushReturns(p)
    PROVE  Promises'
<1> USE DEF StoreInv, TypeOK, Promises
<1>1. /\ modified[p] = {} /\ Saves(p) = {} /\ flushed' = flushed \cup {p}
      /\ UNCHANGED <<stage, paths, current, global, modified, owed, flushing>>
  BY DEF FlushReturns, saveVars
<1>2. \A q \in Procs : Unfinished(q)' = Unfinished(q) /\ Saves(q)' = Saves(q)
  BY <1>1 DEF Unfinished, Saves
<1>3. \A k \in Paths : owed[p][k] = 0
  BY <1>1 DEF OwedIsKept, Unfinished
<1>4. OneUnfinished' /\ OwedIsKept'
  BY <1>1, <1>2 DEF OneUnfinished, OwedIsKept
<1>5. SavesCarryOwed'
  BY <1>1 DEF SavesCarryOwed
<1>6. FlushesAreAlone'
  BY <1>1, <1>2, <1>3 DEF FlushesAreAlone
<1>7. QED
  BY <1>4, <1>5, <1>6

(* A step of the lock or of the file does not touch the promises.          *)
LEMMA Same_Promises ==
    ASSUME Promises, UNCHANGED <<stage, paths, current, global, modified, owed, flushing, flushed>>
    PROVE  Promises'
<1>1. \A q \in Procs : Unfinished(q)' = Unfinished(q) /\ Saves(q)' = Saves(q)
  BY DEF Unfinished, Saves
<1>2. QED
  BY <1>1 DEF Promises, OneUnfinished, OwedIsKept, SavesCarryOwed, FlushesAreAlone

(* A save that reads, or that fails to read or write, stays unfinished.    *)
LEMMA Unfinished_Promises ==
    ASSUME StoreInv, Promises, NEW c \in Clients, stage[c] \notin {"idle", "done"},
           \/ stage[c] = "saving" /\ stage' = [stage EXCEPT ![c] = "read"]
           \/ stage' = [stage EXCEPT ![c] = "failed"],
           \A d \in Clients \ {c} : current'[d] = current[d],
           UNCHANGED <<procVars, paths>>
    PROVE  Promises'
<1> USE DEF StoreInv, TypeOK, Promises, procVars
<1>1. \A q \in Procs : Unfinished(q)' = Unfinished(q) /\ Saves(q)' = Saves(q)
  BY DEF Unfinished, Saves
<1>2. OneUnfinished' /\ OwedIsKept' /\ FlushesAreAlone'
  BY <1>1 DEF OneUnfinished, OwedIsKept, FlushesAreAlone
<1>3. SavesCarryOwed'
  <2> SUFFICES ASSUME NEW d \in Clients, NEW j \in Paths, owed'[ProcOf[d]][j] # 0
               PROVE  /\ stage'[d] \in {"saving", "read"} => j \in paths'[d]
                      /\ stage'[d] = "writing" /\ j \in paths'[d] =>
                            current'[d][j] = owed'[ProcOf[d]][j] \/ j \in modified'[ProcOf[d]]
    BY DEF SavesCarryOwed
  <2>1. CASE d = c
    BY <2>1 DEF SavesCarryOwed
  <2>2. CASE d # c
    BY <2>2 DEF SavesCarryOwed
  <2>3. QED
    BY <2>1, <2>2
<1>4. QED
  BY <1>2, <1>3

(* The merge writes memory over the file at the paths of the save.         *)
LEMMA Apply_Promises ==
    ASSUME StoreInv, Promises, NEW c \in Clients, Apply(c)
    PROVE  Promises'
<1> USE FileLockAssumption DEF StoreInv, TypeOK, Promises
<1> DEFINE p == ProcOf[c]
<1>1. /\ stage[c] = "read" /\ stage' = [stage EXCEPT ![c] = "writing"]
      /\ current' = [current EXCEPT ![c] = Merged(p, c)]
      /\ global' = [global EXCEPT ![p] = Merged(p, c)]
      /\ UNCHANGED <<paths, modified, owed, flushing, flushed>>
  BY DEF Apply
<1>2. p \in Procs
  OBVIOUS
<1>3. \A q \in Procs : Unfinished(q)' = Unfinished(q) /\ Saves(q)' = Saves(q)
  BY <1>1 DEF Unfinished, Saves
<1>4. OneUnfinished' /\ FlushesAreAlone'
  BY <1>1, <1>3 DEF OneUnfinished, FlushesAreAlone
<1>5. \A k \in Paths : owed[p][k] # 0 =>
         /\ k \in paths[c]
         /\ Merged(p, c)[k] = owed[p][k]
  BY <1>1 DEF SavesCarryOwed, OwedIsKept, Merged
<1>6. OwedIsKept'
  BY <1>1, <1>2, <1>3, <1>5 DEF OwedIsKept
<1>7. SavesCarryOwed'
  <2> SUFFICES ASSUME NEW d \in Clients, NEW j \in Paths, owed'[ProcOf[d]][j] # 0
               PROVE  /\ stage'[d] \in {"saving", "read"} => j \in paths'[d]
                      /\ stage'[d] = "writing" /\ j \in paths'[d] =>
                            current'[d][j] = owed'[ProcOf[d]][j] \/ j \in modified'[ProcOf[d]]
    BY DEF SavesCarryOwed
  <2>1. CASE d = c
    BY <1>1, <1>5, <2>1
  <2>2. CASE d # c
    BY <1>1, <2>2 DEF SavesCarryOwed
  <2>3. QED
    BY <2>1, <2>2
<1>8. QED
  BY <1>4, <1>6, <1>7

(* The write pays what the save merged, and no more is in its care.        *)
LEMMA Finish_Promises ==
    ASSUME StoreInv, Promises, NEW c \in Clients, Finish(c)
    PROVE  Promises'
<1> USE FileLockAssumption DEF StoreInv, TypeOK, Promises
<1> DEFINE p == ProcOf[c]
<1>1. /\ stage[c] = "writing" /\ stage' = [stage EXCEPT ![c] = "done"]
      /\ owed' = [owed EXCEPT ![p] = Paid(p, c)]
      /\ UNCHANGED <<paths, current, global, modified, flushing, flushed>>
  BY DEF Finish
<1>2. p \in Procs
  OBVIOUS
<1>3. /\ \A q \in Procs \ {p} : Unfinished(q)' = Unfinished(q)
      /\ Unfinished(p) = {c} /\ Unfinished(p)' = {}
      /\ \A q \in Procs : Saves(q)' = Saves(q)
  <2>1. c \in Unfinished(p)
    BY <1>1 DEF Unfinished, Saves
  <2>2. Unfinished(p) = {c}
    BY <1>2, <2>1 DEF OneUnfinished
  <2>3. /\ \A q \in Procs : Saves(q)' = Saves(q)
        /\ \A q \in Procs \ {p} : Unfinished(q)' = Unfinished(q)
        /\ Unfinished(p)' = Unfinished(p) \ {c}
    BY <1>1 DEF Unfinished, Saves
  <2>4. QED
    BY <2>2, <2>3
<1>4. OneUnfinished'
  BY <1>3 DEF OneUnfinished
<1>5. /\ \A q \in Procs \ {p} : owed'[q] = owed[q]
      /\ \A k \in Paths : owed'[p][k] # 0 =>
            /\ owed'[p][k] = owed[p][k]
            /\ ~(k \in paths[c] /\ owed[p][k] = current[c][k])
  BY <1>1, <1>2 DEF Paid
<1>6. OwedIsKept'
  <2> SUFFICES ASSUME NEW q \in Procs, NEW j \in Paths, owed'[q][j] # 0
               PROVE  /\ global'[q][j] = owed'[q][j]
                      /\ j \in modified'[q] \/ \E d \in Unfinished(q)' : j \in paths'[d]
    BY DEF OwedIsKept
  <2>1. CASE q = p
    <3>1. owed[p][j] # 0 /\ global[p][j] = owed[p][j]
      BY <1>2, <1>5, <2>1 DEF OwedIsKept
    <3>2. j \in modified[p] \/ j \in paths[c]
      BY <1>2, <1>3, <3>1 DEF OwedIsKept
    <3>3. j \in paths[c] => j \in modified[p]
      BY <1>1, <1>5, <2>1, <3>1 DEF SavesCarryOwed
    <3>4. QED
      BY <1>1, <1>5, <2>1, <3>1, <3>2, <3>3
  <2>2. CASE q # p
    BY <1>1, <1>3, <1>5, <2>2 DEF OwedIsKept
  <2>3. QED
    BY <2>1, <2>2
<1>7. SavesCarryOwed'
  <2> SUFFICES ASSUME NEW d \in Clients, NEW j \in Paths, owed'[ProcOf[d]][j] # 0
               PROVE  /\ stage'[d] \in {"saving", "read"} => j \in paths'[d]
                      /\ stage'[d] = "writing" /\ j \in paths'[d] =>
                            current'[d][j] = owed'[ProcOf[d]][j] \/ j \in modified'[ProcOf[d]]
    BY DEF SavesCarryOwed
  <2>1. CASE d = c
    BY <1>1, <2>1
  <2>2. CASE d # c
    <3>1. owed[ProcOf[d]][j] = owed'[ProcOf[d]][j]
      BY <1>5
    <3>2. QED
      BY <1>1, <2>2, <3>1 DEF SavesCarryOwed
  <2>3. QED
    BY <2>1, <2>2
<1>8. FlushesAreAlone'
  <2>1. \A q \in Procs, k \in Paths : owed[q][k] = 0 => owed'[q][k] = 0
    BY <1>2, <1>5
  <2>2. QED
    BY <1>1, <1>3, <2>1 DEF FlushesAreAlone
<1>9. QED
  BY <1>4, <1>6, <1>7, <1>8

(* #saveNow ends: after a failure its paths wait in modified again.        *)
LEMMA EndSave_Promises ==
    ASSUME StoreInv, Promises, NEW c \in Clients, EndSave(c), stage[c] # "idle"
    PROVE  Promises'
<1> USE FileLockAssumption DEF StoreInv, TypeOK, Promises
<1> DEFINE p == ProcOf[c]
<1>1. /\ stage' = [stage EXCEPT ![c] = "idle"]
      /\ paths' = [paths EXCEPT ![c] = {}]
      /\ modified' = [modified EXCEPT ![p] = modified[p] \cup Requeued(c)]
      /\ flushing' = [flushing EXCEPT ![p] = IF flushing[p] = c THEN None ELSE flushing[p]]
      /\ flushed' = IF flushing[p] = c /\ stage[c] = "done" THEN flushed \cup {p} ELSE flushed
      /\ UNCHANGED <<global, owed, current>>
  BY DEF EndSave
<1>2. p \in Procs /\ c \in Saves(p)
  BY DEF Saves
<1>3. /\ \A q \in Procs \ {p} : Unfinished(q)' = Unfinished(q) /\ Saves(q)' = Saves(q)
      /\ Unfinished(p)' = Unfinished(p) \ {c} /\ Saves(p)' = Saves(p) \ {c}
      /\ \A q \in Procs : Unfinished(q)' \subseteq Unfinished(q)
  BY <1>1 DEF Unfinished, Saves
<1>4. OneUnfinished'
  BY <1>3 DEF OneUnfinished
<1>5. \A q \in Procs : modified[q] \subseteq modified'[q]
  BY <1>1, <1>2
<1>6. OwedIsKept'
  <2> SUFFICES ASSUME NEW q \in Procs, NEW j \in Paths, owed'[q][j] # 0
               PROVE  /\ global'[q][j] = owed'[q][j]
                      /\ j \in modified'[q] \/ \E d \in Unfinished(q)' : j \in paths'[d]
    BY DEF OwedIsKept
  <2>1. /\ global'[q][j] = owed'[q][j]
        /\ j \in modified[q] \/ \E d \in Unfinished(q) : j \in paths[d]
    BY <1>1 DEF OwedIsKept
  <2>2. CASE j \in modified[q]
    BY <1>5, <2>1, <2>2
  <2>3. ASSUME NEW d \in Unfinished(q), j \in paths[d]
        PROVE  j \in modified'[q] \/ \E e \in Unfinished(q)' : j \in paths'[e]
    <3>1. CASE d = c
      <4>1. q = p /\ stage[c] # "done"
        BY <2>3, <3>1 DEF Unfinished, Saves
      <4>2. Requeued(c) = paths[c]
        BY <4>1 DEF Requeued
      <4>3. QED
        BY <1>1, <1>2, <2>3, <3>1, <4>1, <4>2
    <3>2. CASE d # c
      <4>1. d \in Unfinished(q)'
        BY <1>3, <3>2
      <4>2. paths'[d] = paths[d]
        BY <1>1, <3>2 DEF Unfinished, Saves
      <4>3. QED
        BY <2>3, <4>1, <4>2
    <3>3. QED
      BY <3>1, <3>2
  <2>4. QED
    BY <2>1, <2>2, <2>3
<1>7. SavesCarryOwed'
  <2> SUFFICES ASSUME NEW d \in Clients, NEW j \in Paths, owed'[ProcOf[d]][j] # 0
               PROVE  /\ stage'[d] \in {"saving", "read"} => j \in paths'[d]
                      /\ stage'[d] = "writing" /\ j \in paths'[d] =>
                            current'[d][j] = owed'[ProcOf[d]][j] \/ j \in modified'[ProcOf[d]]
    BY DEF SavesCarryOwed
  <2>1. CASE d = c
    BY <1>1, <2>1
  <2>2. CASE d # c
    BY <1>1, <1>5, <2>2 DEF SavesCarryOwed
  <2>3. QED
    BY <2>1, <2>2
<1>8. FlushesAreAlone'
  <2> SUFFICES ASSUME NEW q \in Procs
               PROVE  /\ flushing'[q] # None => modified'[q] = {} /\ Saves(q)' = {flushing'[q]}
                      /\ q \in flushed' => \A j \in Paths : owed'[q][j] = 0
    BY DEF FlushesAreAlone
  <2>1. CASE q = p
    <3>1. flushing[p] # None => flushing[p] = c
      BY <1>2 DEF FlushesAreAlone
    <3>2. flushing'[p] = None
      BY <1>1, <1>2, <3>1
    <3>3. CASE flushing[p] = c /\ stage[c] = "done"
      <4>1. modified[p] = {} /\ Saves(p) = {c}
        BY <1>2, <3>3 DEF FlushesAreAlone
      <4>2. Unfinished(p) = {}
        BY <3>3, <4>1 DEF Unfinished
      <4>3. \A j \in Paths : owed[p][j] = 0
        BY <1>2, <4>1, <4>2 DEF OwedIsKept
      <4>4. QED
        BY <1>1, <2>1, <3>2, <4>3
    <3>4. CASE ~(flushing[p] = c /\ stage[c] = "done")
      BY <1>1, <2>1, <3>2, <3>4 DEF FlushesAreAlone
    <3>5. QED
      BY <3>3, <3>4
  <2>2. CASE q # p
    BY <1>1, <1>3, <2>2 DEF FlushesAreAlone
  <2>3. QED
    BY <2>1, <2>2
<1>9. QED
  BY <1>4, <1>6, <1>7, <1>8

(* Every step keeps the promises when nothing overlaps a save.             *)
LEMMA Next_Promises ==
    ASSUME Races = {}, StoreInv, Promises, [Next]_vars
    PROVE  Promises'
<1>1. ASSUME UNCHANGED storeVars PROVE Promises'
  BY <1>1, Same_Promises DEF storeVars, procVars, saveVars
<1>2. ASSUME NEW p \in Procs, ProcStep(p) PROVE Promises'
  BY <1>1, <1>2, Set_Promises, StartSave_Promises, FlushReturns_Promises DEF ProcStep
<1>3. ASSUME NEW c \in Clients, SaveStep(c) PROVE Promises'
  <2>1. CASE Acquires(c)
    BY <1>1, <2>1 DEF Acquires
  <2>2. CASE LockFails(c)
    BY <2>2, EndSave_Promises DEF LockFails
  <2>3. CASE Read(c)
    <3>1. /\ stage[c] = "saving" /\ UNCHANGED <<procVars, paths>>
          /\ \/ stage' = [stage EXCEPT ![c] = "read"]
             \/ stage' = [stage EXCEPT ![c] = "failed"]
          /\ \A d \in Clients \ {c} : current'[d] = current[d]
      BY <2>3 DEF Read, StoreInv, TypeOK
    <3>2. QED
      BY <3>1, Unfinished_Promises
  <2>4. CASE Apply(c)
    BY <2>4, Apply_Promises
  <2>5. CASE Finish(c)
    BY <2>5, Finish_Promises
  <2>6. CASE WriteFails(c)
    BY <2>6, Unfinished_Promises DEF WriteFails
  <2>7. CASE Releases(c)
    BY <1>1, <2>7, EndSave_Promises DEF Releases
  <2>8. QED
    BY <1>3, <2>1, <2>2, <2>3, <2>4, <2>5, <2>6, <2>7 DEF SaveStep
<1>4. QED
  BY <1>1, <1>2, <1>3 DEF Next, vars

(* A setting that was changed is dropped by no failure of a lock, a read   *)
(* or a write: #saveNow puts the paths of a failed save back, and what a   *)
(* save has merged is what memory holds, until the file has it. A change   *)
(* of another path while a save has yet to merge would break this, as the  *)
(* merge replaces #global by what was read but for the save's own paths.   *)
THEOREM StoreDropsNothing ==
    ASSUME LockRaces = {}, Races = {}
    PROVE  Spec => []NothingDropped
<1>1. StoreInv /\ Promises => NothingDropped
  BY DEF StoreInv, TypeOK, LockTypeOK, Promises, OwedIsKept, NothingDropped, Unfinished
<1>2. StoreInv /\ Promises /\ [Next]_vars => (StoreInv /\ Promises)'
  BY Next_StoreInv, Next_Promises
<1>3. QED
  BY <1>1, <1>2, Init_StoreInv, Init_Promises, PTL DEF Spec

(* When flush returns after its save, or with nothing to save, the file    *)
(* has been written with every change made before it was called.           *)
THEOREM FlushesPersist ==
    ASSUME LockRaces = {}, Races = {}
    PROVE  Spec => []FlushPersists
<1>1. StoreInv /\ Promises => FlushPersists
  BY DEF StoreInv, TypeOK, LockTypeOK, Promises, FlushesAreAlone, FlushPersists
<1>2. QED
  BY <1>1, Next_StoreInv, Next_Promises, Init_StoreInv, Init_Promises, PTL DEF Spec

=============================================================================

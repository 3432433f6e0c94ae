------------------------ MODULE PendingImportProofs ------------------------
(***************************************************************************)
(* For any databases, helpers and numbers of deaths and failures: the      *)
(* types, that the lock lets one process inside, that rows made in the     *)
(* home stay where they are, that an import is whole or pending, and that  *)
(* neither its copy nor the home of before is ever lost.                   *)
(***************************************************************************)
EXTENDS PendingImport, FiniteSetTheorems, WellFoundedInduction, TLAPS

Activators == Helpers \cup {App}

(* Who holds the lock is who is inside.                                    *)
LockInv == \A p \in Procs : pc[p] \in Inside <=> lock = p

(* Once the home was found empty, and until the process leaves, it is.     *)
EmptyInv ==
    \A p \in Procs : pc[p] \in Replacing \cup {"prepare"}
        => \A k \in Kinds : Db(k) # "user"

(* So the backup never gets a row of the user, and has none to restore.    *)
BackupInv == \A k \in Kinds : backup[k]["db"] # "user"

IInv == TypeOK /\ LockInv /\ EmptyInv /\ BackupInv

(* The initial state satisfies every part of the invariant.                *)
LEMMA InitInv == Init => IInv
<1> SUFFICES ASSUME Init PROVE IInv
    OBVIOUS
<1> USE DEF Init
<1>1. TypeOK
    BY DEF TypeOK, NoFiles, Files, Database, Contents, Places
<1>2. LockInv
    BY ProcsAssumption DEF LockInv, Inside
<1>3. EmptyInv /\ BackupInv
    BY DEF EmptyInv, BackupInv, NoFiles, Files, Parts, Db
<1> QED BY <1>1, <1>2, <1>3 DEF IInv

(* Replacing one file of a home gives a home; each of its files has a      *)
(* content.                                                                *)
LEMMA PutFile ==
    ASSUME NEW F \in [Kinds -> Database], NEW k \in Kinds, NEW c \in Parts,
           NEW v \in Contents
    PROVE  [F EXCEPT ![k][c] = v] \in [Kinds -> Database]
    BY DEF Database

LEMMA FileContent ==
    ASSUME NEW F \in [Kinds -> Database], NEW k \in Kinds, NEW c \in Parts
    PROVE  F[k][c] \in Contents
    BY DEF Database

(* Every step keeps the types.                                             *)
LEMMA TypeStep == TypeOK /\ [Next]_vars => TypeOK'
<1> SUFFICES ASSUME TypeOK, [Next]_vars PROVE TypeOK'
    OBVIOUS
<1> USE DEF TypeOK, Goto, Refuse, Forget, Procs, Places, Inside,
            disk, procs, window, history
<1> Fault => faults' \in Nat
    BY DEF Fault
<1>1. ASSUME NEW p \in Activators, Activate(p) PROVE TypeOK'
  <2> p \in Procs
      BY DEF Activators
  <2>1. CASE TakeLock(p) BY <2>1 DEF TakeLock
  <2>2. CASE GiveUp(p) BY <2>2 DEF GiveUp
  <2>3. CASE Check(p) BY ZenonT(60), <2>3 DEF Check
  <2>4. CASE MakeBackupHome(p) BY <2>4 DEF MakeBackupHome
  <2>5. ASSUME NEW k \in Kinds, NEW c \in Parts, MoveOut(p, k, c) PROVE TypeOK'
    <3>1. target' \in [Kinds -> Database] /\ backup' \in [Kinds -> Database]
      <4>1. target[k][c] \in Contents /\ "none" \in Contents
          BY FileContent DEF Contents
      <4>2. /\ [backup EXCEPT ![k][c] = target[k][c]] \in [Kinds -> Database]
            /\ [target EXCEPT ![k][c] = "none"] \in [Kinds -> Database]
          BY <4>1, PutFile
      <4> QED BY <2>5, <4>2 DEF MoveOut
    <3> QED BY <2>5, <3>1 DEF MoveOut
  <2>6. ASSUME NEW k \in Kinds, NEW c \in Parts, PutBack(p, k, c) PROVE TypeOK'
    <3>1. target' \in [Kinds -> Database] /\ backup' \in [Kinds -> Database]
      <4>1. backup[k][c] \in Contents /\ "none" \in Contents
          BY FileContent DEF Contents
      <4>2. /\ [target EXCEPT ![k][c] = backup[k][c]] \in [Kinds -> Database]
            /\ [backup EXCEPT ![k][c] = "none"] \in [Kinds -> Database]
          BY <4>1, PutFile
      <4> QED BY <2>6, <4>2 DEF PutBack
    <3> QED BY <2>6, <3>1 DEF PutBack
  <2>7. ASSUME NEW k \in Kinds, MoveIn(p, k) PROVE TypeOK'
    <3>1. target' \in [Kinds -> Database]
      <4>1. [target EXCEPT ![k]["db"] = "imported"] \in [Kinds -> Database]
          BY PutFile DEF Contents, Parts
      <4> QED BY <2>7, <4>1 DEF MoveIn
    <3> QED BY <2>7, <3>1 DEF MoveIn
  <2>8. ASSUME NEW k \in Kinds, PutBackStaged(p, k) PROVE TypeOK'
    <3>1. target' \in [Kinds -> Database]
      <4>1. [target EXCEPT ![k]["db"] = "none"] \in [Kinds -> Database]
          BY PutFile DEF Contents, Parts
      <4> QED BY <2>8, <4>1 DEF PutBackStaged
    <3> QED BY <2>8, <3>1 DEF PutBackStaged
  <2>9. CASE AllMoved(p) BY <2>9 DEF AllMoved
  <2>10. CASE RemoveManifest(p) BY <2>10 DEF RemoveManifest
  <2>11. CASE RemoveStaging(p) BY <2>11 DEF RemoveStaging
  <2>12. CASE ReadBackup(p)
    <3>1. BackupFiles \in SUBSET (Kinds \X Parts)
        BY DEF BackupFiles
    <3> QED BY ZenonT(60), <2>12, <3>1 DEF ReadBackup
  <2>13. CASE RolledBack(p) BY <2>13 DEF RolledBack
  <2>14. CASE Release(p) BY <2>14 DEF Release
  <2> QED BY <1>1, <2>1, <2>2, <2>3, <2>4, <2>5, <2>6, <2>7, <2>8, <2>9,
             <2>10, <2>11, <2>12, <2>13, <2>14 DEF Activate
<1>2. ASSUME NEW h \in Helpers, Respawn(h) PROVE TypeOK'
    BY <1>2 DEF Respawn, StartApp
<1>3. CASE AppRuns
  <2>1. CASE AppStarts BY <2>1 DEF AppStarts, StartApp
  <2>2. CASE HasPending BY <2>2 DEF HasPending
  <2>3. CASE AppOpens
    <3>1. target' \in [Kinds -> Database]
        BY <2>3 DEF AppOpens, Opened, Files, Database, Contents, Parts
    <3> QED BY <2>3, <3>1 DEF AppOpens
  <2>4. CASE AppExits
    <3>1. target' \in [Kinds -> Database]
        BY <2>4 DEF AppExits, Database, Contents, Parts
    <3> QED BY <2>4, <3>1 DEF AppExits
  <2>5. ASSUME NEW k \in Kinds, UserWrites(k) PROVE TypeOK'
      BY <2>5, PutFile DEF UserWrites, Contents, Parts
  <2>6. CASE PlanImport BY <2>6 DEF PlanImport
  <2>7. CASE Schedule BY <2>7 DEF Schedule
  <2>8. CASE ResetImport BY <2>8 DEF ResetImport
  <2>9. ASSUME NEW copied \in SUBSET Kinds, StageImport(copied) PROVE TypeOK'
      BY <2>9 DEF StageImport
  <2>10. ASSUME NEW h \in Helpers, RestartForImport(h) PROVE TypeOK'
      BY <2>10 DEF RestartForImport
  <2> QED BY <1>3, <2>1, <2>2, <2>3, <2>4, <2>5, <2>6, <2>7, <2>8, <2>9, <2>10
          DEF AppRuns
<1>4. CASE CliRuns
  <2>1. ASSUME NEW ready \in SUBSET Kinds, CliStarts(ready) PROVE TypeOK'
      BY <2>1 DEF CliStarts
  <2>2. ASSUME NEW k \in Kinds, CliCopies(k) PROVE TypeOK'
    <3>1. [target EXCEPT ![k]["db"] = "user"] \in [Kinds -> Database]
        BY PutFile DEF Contents, Parts
    <3> QED BY <2>2, <3>1 DEF CliCopies
  <2>3. CASE CliEnds BY <2>3 DEF CliEnds
  <2> QED BY <1>4, <2>1, <2>2, <2>3 DEF CliRuns
<1>5. ASSUME NEW p \in Procs, Die(p) PROVE TypeOK'
    BY <1>5 DEF Die
<1>6. CASE UNCHANGED vars
    BY <1>6 DEF vars
<1> QED BY <1>1, <1>2, <1>3, <1>4, <1>5, <1>6 DEF Next, Activators

(* A process comes inside only when the lock is free, and takes it; it     *)
(* gives the lock up when it leaves.                                       *)
LEMMA LockStep == TypeOK /\ LockInv /\ [Next]_vars => LockInv'
<1> SUFFICES ASSUME TypeOK, LockInv, [Next]_vars PROVE LockInv'
    OBVIOUS
<1> USE ProcsAssumption DEF LockInv, Goto, Refuse, Inside, Procs, disk, procs, vars
<1> pc \in [Procs -> Places] /\ lock \in Procs \cup {Nobody}
    BY DEF TypeOK
<1>1. ASSUME NEW p \in Activators, Activate(p) PROVE LockInv'
  <2> p \in Procs
      BY DEF Activators
  <2>1. CASE TakeLock(p) BY <2>1 DEF TakeLock
  <2>2. CASE GiveUp(p) BY <2>2 DEF GiveUp
  <2>3. CASE Check(p) BY <2>3 DEF Check
  <2>4. CASE MakeBackupHome(p) BY <2>4 DEF MakeBackupHome
  <2>5. ASSUME NEW k \in Kinds, NEW c \in Parts, MoveOut(p, k, c) PROVE LockInv'
      BY <2>5 DEF MoveOut
  <2>6. ASSUME NEW k \in Kinds, NEW c \in Parts, PutBack(p, k, c) PROVE LockInv'
      BY <2>6 DEF PutBack
  <2>7. ASSUME NEW k \in Kinds, MoveIn(p, k) PROVE LockInv'
      BY <2>7 DEF MoveIn
  <2>8. ASSUME NEW k \in Kinds, PutBackStaged(p, k) PROVE LockInv'
      BY <2>8 DEF PutBackStaged
  <2>9. CASE AllMoved(p) BY <2>9 DEF AllMoved
  <2>10. CASE RemoveManifest(p) BY <2>10 DEF RemoveManifest
  <2>11. CASE RemoveStaging(p) BY <2>11 DEF RemoveStaging
  <2>12. CASE ReadBackup(p) BY <2>12 DEF ReadBackup
  <2>13. CASE RolledBack(p) BY <2>13 DEF RolledBack
  <2>14. CASE Release(p) BY <2>14 DEF Release
  <2> QED BY <1>1, <2>1, <2>2, <2>3, <2>4, <2>5, <2>6, <2>7, <2>8, <2>9,
             <2>10, <2>11, <2>12, <2>13, <2>14 DEF Activate
<1>2. ASSUME NEW h \in Helpers, Respawn(h) PROVE LockInv'
    BY <1>2 DEF Respawn, StartApp
<1>3. CASE AppRuns
  <2>1. CASE AppStarts BY <2>1 DEF AppStarts, StartApp
  <2>2. CASE HasPending BY <2>2 DEF HasPending
  <2>3. CASE AppOpens BY <2>3 DEF AppOpens
  <2>4. CASE AppExits BY <2>4 DEF AppExits
  <2>5. ASSUME NEW k \in Kinds, UserWrites(k) PROVE LockInv'
      BY <2>5 DEF UserWrites
  <2>6. CASE PlanImport BY <2>6 DEF PlanImport
  <2>7. CASE Schedule BY <2>7 DEF Schedule
  <2>8. CASE ResetImport BY <2>8 DEF ResetImport
  <2>9. ASSUME NEW copied \in SUBSET Kinds, StageImport(copied) PROVE LockInv'
      BY <2>9 DEF StageImport
  <2>10. ASSUME NEW h \in Helpers, RestartForImport(h) PROVE LockInv'
      BY <2>10 DEF RestartForImport
  <2> QED BY <1>3, <2>1, <2>2, <2>3, <2>4, <2>5, <2>6, <2>7, <2>8, <2>9, <2>10
          DEF AppRuns
<1>4. CASE CliRuns
  <2>1. ASSUME NEW ready \in SUBSET Kinds, CliStarts(ready) PROVE LockInv'
      BY <2>1 DEF CliStarts
  <2>2. ASSUME NEW k \in Kinds, CliCopies(k) PROVE LockInv'
      BY <2>2 DEF CliCopies
  <2>3. CASE CliEnds BY <2>3 DEF CliEnds
  <2> QED BY <1>4, <2>1, <2>2, <2>3 DEF CliRuns
<1>5. ASSUME NEW p \in Procs, Die(p) PROVE LockInv'
    BY <1>5 DEF Die
<1>6. CASE UNCHANGED vars
    BY <1>6
<1> QED BY <1>1, <1>2, <1>3, <1>4, <1>5, <1>6 DEF Next, Activators

RowsStay == \A k \in Kinds : Db(k) = "user" => Db(k)' = "user"

(* No step moves rows of the user, into the backup or elsewhere, and no    *)
(* step makes rows while a process replaces databases.                     *)
LEMMA RowsStep == IInv /\ [Next]_vars => EmptyInv' /\ BackupInv' /\ RowsStay
<1> SUFFICES ASSUME TypeOK, LockInv, EmptyInv, BackupInv, [Next]_vars
             PROVE  EmptyInv' /\ BackupInv' /\ RowsStay
    BY DEF IInv
<1> /\ pc \in [Procs -> Places]
    /\ target \in [Kinds -> Database]
    /\ backup \in [Kinds -> Database]
    BY DEF TypeOK
<1> DEFINE Keeps == EmptyInv' /\ BackupInv' /\ RowsStay
           At(q) == pc[q] \in Replacing \cup {"prepare"}
<1>1. ASSUME UNCHANGED <<target, backup>>,
             \A q \in Procs : At(q)' => At(q) \/ TargetIsEmpty
      PROVE  Keeps
    BY <1>1 DEF EmptyInv, BackupInv, RowsStay, TargetIsEmpty, HoldsRows, Db
<1>2. ASSUME \A k \in Kinds : (Db(k) = "user") <=> (Db(k)' = "user"),
             UNCHANGED backup, \A q \in Procs : At(q)' => At(q)
      PROVE  Keeps
    BY <1>2 DEF EmptyInv, BackupInv, RowsStay
<1> HIDE DEF Keeps
<1>3. ASSUME NEW p \in Activators, Activate(p) PROVE Keeps
  <2> p \in Procs
      BY DEF Activators, Procs
  <2> USE DEF Goto, Refuse, Replacing
  <2>1. CASE TakeLock(p) BY <2>1, <1>1 DEF TakeLock, disk
  <2>2. CASE GiveUp(p) BY <2>2, <1>1 DEF GiveUp, disk
  <2>3. CASE Check(p) BY <2>3, <1>1 DEF Check, Activatable, disk
  <2>4. CASE MakeBackupHome(p) BY <2>4, <1>1 DEF MakeBackupHome
  <2>5. ASSUME NEW k \in Kinds, NEW c \in Parts, MoveOut(p, k, c) PROVE Keeps
    <3>1. \A j \in Kinds : Db(j) # "user"
        BY <2>5 DEF MoveOut, EmptyInv
    <3>2. \A j \in Kinds : Db(j)' # "user" /\ backup'[j]["db"] # "user"
        BY <2>5, <3>1 DEF MoveOut, BackupInv, Db, Database, Parts
    <3> QED BY <3>1, <3>2 DEF Keeps, EmptyInv, BackupInv, RowsStay
  <2>6. ASSUME NEW k \in Kinds, NEW c \in Parts, PutBack(p, k, c) PROVE Keeps
    <3>1. \A j \in Kinds : Db(j) # "user"
        BY <2>6 DEF PutBack, EmptyInv
    <3>2. \A j \in Kinds : Db(j)' # "user" /\ backup'[j]["db"] # "user"
        BY <2>6, <3>1 DEF PutBack, BackupInv, Db, Database, Parts
    <3> QED BY <3>1, <3>2 DEF Keeps, EmptyInv, BackupInv, RowsStay
  <2>7. ASSUME NEW k \in Kinds, MoveIn(p, k) PROVE Keeps
    <3>1. \A j \in Kinds : Db(j) # "user"
        BY <2>7 DEF MoveIn, EmptyInv
    <3>2. \A j \in Kinds : Db(j)' # "user" /\ backup'[j]["db"] # "user"
        BY <2>7, <3>1 DEF MoveIn, BackupInv, Db, Database, Parts
    <3> QED BY <3>1, <3>2 DEF Keeps, EmptyInv, BackupInv, RowsStay
  <2>8. ASSUME NEW k \in Kinds, PutBackStaged(p, k) PROVE Keeps
    <3>1. \A j \in Kinds : Db(j) # "user"
        BY <2>8 DEF PutBackStaged, EmptyInv
    <3>2. \A j \in Kinds : Db(j)' # "user" /\ backup'[j]["db"] # "user"
        BY <2>8, <3>1 DEF PutBackStaged, BackupInv, Db, Database, Parts
    <3> QED BY <3>1, <3>2 DEF Keeps, EmptyInv, BackupInv, RowsStay
  <2>9. CASE AllMoved(p) BY <2>9, <1>1 DEF AllMoved, disk
  <2>10. CASE RemoveManifest(p) BY <2>10, <1>1 DEF RemoveManifest
  <2>11. CASE RemoveStaging(p) BY <2>11, <1>1 DEF RemoveStaging
  <2>12. CASE ReadBackup(p) BY <2>12, <1>1 DEF ReadBackup, disk
  <2>13. CASE RolledBack(p) BY <2>13, <1>1 DEF RolledBack, disk
  <2>14. CASE Release(p) BY <2>14, <1>1 DEF Release, disk
  <2> QED BY <1>3, <2>1, <2>2, <2>3, <2>4, <2>5, <2>6, <2>7, <2>8, <2>9,
             <2>10, <2>11, <2>12, <2>13, <2>14 DEF Activate
<1>4. ASSUME NEW h \in Helpers, Respawn(h) PROVE Keeps
    BY <1>4, <1>1 DEF Respawn, StartApp, Replacing, Goto, Procs, disk
<1>5. ASSUME AppRuns PROVE Keeps
  <2> USE DEF Goto, Replacing, Procs
  <2>1. CASE AppStarts BY <2>1, <1>1 DEF AppStarts, StartApp, disk
  <2>2. CASE HasPending BY <2>2, <1>1 DEF HasPending, disk
  <2>3. CASE AppOpens
    <3>1. \A k \in Kinds : (Db(k) = "user") <=> (Db(k)' = "user")
        BY <2>3 DEF AppOpens, Opened, Files, Parts, Db
    <3> QED BY <2>3, <3>1, <1>2 DEF AppOpens
  <2>4. CASE AppExits
    <3>1. \A k \in Kinds : Db(k)' = Db(k)
        BY <2>4 DEF AppExits, Database, Parts, Db
    <3> QED BY <2>4, <3>1, <1>2 DEF AppExits
  <2>5. ASSUME NEW k \in Kinds, UserWrites(k) PROVE Keeps
    <3>1. \A q \in Procs : ~At(q)'
        BY <2>5, ProcsAssumption DEF UserWrites, LockInv, Inside, procs
    <3>2. UNCHANGED backup /\ \A j \in Kinds : Db(j) = "user" => Db(j)' = "user"
        BY <2>5 DEF UserWrites, Database, Parts, Db
    <3> QED BY <3>1, <3>2 DEF Keeps, EmptyInv, BackupInv, RowsStay
  <2>6. CASE PlanImport BY <2>6, <1>1 DEF PlanImport, procs
  <2>7. CASE Schedule BY <2>7, <1>1 DEF Schedule, procs
  <2>8. CASE ResetImport BY <2>8, <1>1 DEF ResetImport, procs
  <2>9. ASSUME NEW copied \in SUBSET Kinds, StageImport(copied) PROVE Keeps
      BY <2>9, <1>1 DEF StageImport, procs
  <2>10. ASSUME NEW h \in Helpers, RestartForImport(h) PROVE Keeps
      BY <2>10, <1>1 DEF RestartForImport, disk
  <2> QED BY <1>5, <2>1, <2>2, <2>3, <2>4, <2>5, <2>6, <2>7, <2>8, <2>9, <2>10
          DEF AppRuns
<1>6. ASSUME CliRuns PROVE Keeps
  <2> USE DEF Goto, Replacing, Procs
  <2>1. ASSUME NEW ready \in SUBSET Kinds, CliStarts(ready) PROVE Keeps
      BY <2>1, <1>1 DEF CliStarts, disk
  <2>2. ASSUME NEW k \in Kinds, CliCopies(k) PROVE Keeps
    <3>1. \A q \in Procs : ~At(q)'
        BY <2>2, ProcsAssumption DEF CliCopies, LockInv, Inside
    <3>2. UNCHANGED backup /\ \A j \in Kinds : Db(j) = "user" => Db(j)' = "user"
        BY <2>2 DEF CliCopies, Database, Parts, Db
    <3> QED BY <3>1, <3>2 DEF Keeps, EmptyInv, BackupInv, RowsStay
  <2>3. CASE CliEnds BY <2>3, <1>1 DEF CliEnds, disk
  <2> QED BY <1>6, <2>1, <2>2, <2>3 DEF CliRuns
<1>7. ASSUME NEW p \in Procs, Die(p) PROVE Keeps
    BY <1>7, <1>1 DEF Die, Goto, Replacing, disk
<1>8. ASSUME UNCHANGED vars PROVE Keeps
    BY <1>8, <1>1 DEF vars, disk, procs
<1> QED BY <1>3, <1>4, <1>5, <1>6, <1>7, <1>8 DEF Next, Activators, Keeps

(* All parts of the invariant hold together, always.                       *)
LEMMA Invariant == Spec => []IInv
<1>1. Init => IInv
    BY InitInv
<1>2. IInv /\ [Next]_vars => IInv'
    BY TypeStep, LockStep, RowsStep DEF IInv
<1> QED BY <1>1, <1>2, PTL DEF Spec

(* Type correctness.                                                       *)
THEOREM PendingImportTypes == Spec => []TypeOK
<1>1. IInv => TypeOK
    BY DEF IInv
<1> QED BY <1>1, Invariant, PTL

(* However many helpers, and however many processes die or time out, the   *)
(* running desktop, the activations and the imports by command line        *)
(* exclude each other.                                                     *)
THEOREM OneInsideAlways == Spec => []OneInside
<1>1. IInv => OneInside
    BY DEF IInv, LockInv, OneInside
<1> QED BY <1>1, Invariant, PTL

(* For any number of databases, rows made in the home stay in their place  *)
(* whatever is scheduled, activated, rolled back or left half done.        *)
THEOREM UserRowsAlwaysStay == Spec => UserRowsStay
<1>1. IInv /\ [Next]_vars => [RowsStay]_vars
    BY RowsStep
<1>2. [RowsStay]_vars =>
        [\A k \in Kinds : Db(k) = "user" => Db(k)' = "user"]_vars
    BY DEF RowsStay
<1> QED BY <1>1, <1>2, Invariant, PTL DEF Spec, UserRowsStay

-----------------------------------------------------------------------------
(* That nothing is lost and that imports are whole needs to know where the *)
(* one import that can be scheduled stands.                                *)

(* The manifest lists what was scheduled, and until an activation makes    *)
(* the backup every database of the home is there.                         *)
ScheduleInv ==
    manifest # {} =>
        /\ manifest = scheduled
        /\ backupHome \/ \A k \in Kinds : Db(k) # "none"

(* The open desktop: its databases exist, with their logs; what it plans   *)
(* or stages is the first import, into an empty home.                      *)
DesktopInv ==
    /\ pc[App] \notin {"off", "running", "exiting"} => importing = "no"
    /\ pc[App] = "running" =>
        /\ \A k \in Kinds : Db(k) # "none" /\ Log(k) # "none"
        /\ ~restart => manifest = {}
        /\ importing # "no" => manifest = {} /\ \A k \in Kinds : Db(k) # "imported"

(* An activation replaces databases only for a pending import, and only    *)
(* once: its first step makes the backup.  While it moves, a database that *)
(* is gone is in the backup, and those it is done with are imported.       *)
ActivationInv ==
    \A p \in Procs :
        /\ pc[p] = "prepare" => Activatable
        /\ pc[p] \in Replacing => manifest # {} /\ backupHome
        /\ pc[p] = "move" =>
            /\ \A k \in Kinds : Db(k) = "none" => backup[k]["db"] # "none"
            /\ \A k \in todo[p] : Db(k) \in {"none", "seed"}
        /\ pc[p] = "clear" => todo[p] = {}
        /\ pc[p] = "clean" => manifest = {}
        /\ pc[p] = "unmove" => activated[p] = {}
        /\ pc[p] \in {"move", "clear"} => \A k \in manifest \ todo[p] : Db(k) = "imported"

(* The backup never gets an imported file.                                 *)
SavedInv ==
    \A k \in Kinds : /\ backup[k]["db"] \in {"none", "seed"}
                     /\ unrestored \/ backup[k]["wal"] # "imported"

(* A log lies beside the database it belongs to; while databases are being *)
(* replaced, only those moved in are imported, and have no log yet.        *)
LogInv ==
    ~unrestored =>
        /\ \A k \in Kinds : Db(k) # "none" /\ Log(k) # "none"
                              => ((Log(k) = "imported") <=> (Db(k) = "imported"))
        /\ \A p \in Procs : pc[p] \in Replacing =>
              \A k \in Kinds : /\ Log(k) # "imported"
                               /\ Db(k) = "imported" => k \in activated[p]

HomeInv == /\ ScheduleInv /\ DesktopInv /\ ActivationInv /\ SavedInv /\ LogInv
           /\ HomeIsKept /\ CommitIsWhole /\ CopyIsKept

LEMMA TakeLockKeepsHome ==
    ASSUME NEW p \in Activators, IInv, HomeInv, TakeLock(p)
    PROVE  HomeInv'
  <1>1. ScheduleInv'
    BY ProcsAssumption DEF TakeLock, IInv, HomeInv, ScheduleInv, TypeOK,
         LockInv, DesktopInv, ActivationInv, Goto, Procs, Inside, Replacing,
         disk, window, history, Activatable, TargetIsEmpty, HoldsRows, Db,
         Log, Database, Parts
  <1>2. DesktopInv'
    BY ProcsAssumption DEF TakeLock, IInv, HomeInv, DesktopInv, TypeOK,
         LockInv, ScheduleInv, Goto, Procs, Inside, disk, window, history,
         Db, Log, Database, Parts
  <1>3. ActivationInv'
    BY ProcsAssumption DEF TakeLock, IInv, HomeInv, ActivationInv, TypeOK,
         LockInv, ScheduleInv, EmptyInv, Goto, Procs, Inside, Replacing,
         disk, window, history, Activatable, TargetIsEmpty, HoldsRows, Db,
         Database, Parts
  <1>4. SavedInv'
    BY ProcsAssumption DEF TakeLock, IInv, HomeInv, SavedInv, TypeOK,
         LockInv, LogInv, ActivationInv, Goto, Procs, Inside, Replacing,
         disk, window, history, Activatable, TargetIsEmpty, HoldsRows, Db,
         Log, Database, Parts
  <1>5. LogInv'
    BY ProcsAssumption DEF TakeLock, IInv, HomeInv, LogInv, TypeOK, LockInv,
         ScheduleInv, ActivationInv, SavedInv, DesktopInv, Goto, Procs,
         Inside, Replacing, disk, window, history, Activatable,
         TargetIsEmpty, HoldsRows, Db, Log, Database, Parts
  <1>6. HomeIsKept'
    BY ProcsAssumption DEF TakeLock, IInv, HomeInv, HomeIsKept, TypeOK,
         LockInv, ActivationInv, SavedInv, Goto, Procs, Inside, Replacing,
         disk, window, history, Activatable, TargetIsEmpty, HoldsRows, Db,
         Database, Parts
  <1>7. CommitIsWhole'
    BY ProcsAssumption DEF TakeLock, IInv, HomeInv, CommitIsWhole, TypeOK,
         LockInv, ActivationInv, ScheduleInv, Goto, Procs, Inside, Replacing,
         disk, window, history, Activatable, TargetIsEmpty, HoldsRows, Db,
         Database, Parts
  <1>8. CopyIsKept'
    BY ProcsAssumption DEF TakeLock, IInv, HomeInv, CopyIsKept, TypeOK,
         LockInv, ActivationInv, ScheduleInv, DesktopInv, LogInv,
         CommitIsWhole, Goto, Procs, Inside, Replacing, disk, window,
         history, Activatable, TargetIsEmpty, HoldsRows, Db, Log, Database,
         Parts
  <1> QED
    BY <1>1, <1>2, <1>3, <1>4, <1>5, <1>6, <1>7, <1>8 DEF HomeInv

LEMMA GiveUpKeepsHome ==
    ASSUME NEW p \in Activators, IInv, HomeInv, GiveUp(p)
    PROVE  HomeInv'
  <1>1. ScheduleInv'
    BY ProcsAssumption DEF GiveUp, IInv, HomeInv, ScheduleInv, TypeOK,
         LockInv, DesktopInv, ActivationInv, Goto, Procs, Inside, Replacing,
         disk, history, Activatable, TargetIsEmpty, HoldsRows, Db, Log,
         Database, Parts
  <1>2. DesktopInv'
    BY ProcsAssumption DEF GiveUp, IInv, HomeInv, DesktopInv, TypeOK,
         LockInv, ScheduleInv, Goto, Procs, Inside, disk, history, Db, Log,
         Database, Parts
  <1>3. ActivationInv'
    BY ProcsAssumption DEF GiveUp, IInv, HomeInv, ActivationInv, TypeOK,
         LockInv, ScheduleInv, EmptyInv, Goto, Procs, Inside, Replacing,
         disk, history, Activatable, TargetIsEmpty, HoldsRows, Db, Database,
         Parts
  <1>4. SavedInv'
    BY ProcsAssumption DEF GiveUp, IInv, HomeInv, SavedInv, TypeOK, LockInv,
         LogInv, ActivationInv, Goto, Procs, Inside, Replacing, disk,
         history, Activatable, TargetIsEmpty, HoldsRows, Db, Log, Database,
         Parts
  <1>5. LogInv'
    BY ProcsAssumption DEF GiveUp, IInv, HomeInv, LogInv, TypeOK, LockInv,
         ScheduleInv, ActivationInv, SavedInv, DesktopInv, Goto, Procs,
         Inside, Replacing, disk, history, Activatable, TargetIsEmpty,
         HoldsRows, Db, Log, Database, Parts
  <1>6. HomeIsKept'
    BY ProcsAssumption DEF GiveUp, IInv, HomeInv, HomeIsKept, TypeOK,
         LockInv, ActivationInv, SavedInv, Goto, Procs, Inside, Replacing,
         disk, history, Activatable, TargetIsEmpty, HoldsRows, Db, Database,
         Parts
  <1>7. CommitIsWhole'
    BY ProcsAssumption DEF GiveUp, IInv, HomeInv, CommitIsWhole, TypeOK,
         LockInv, ActivationInv, ScheduleInv, Goto, Procs, Inside, Replacing,
         disk, history, Activatable, TargetIsEmpty, HoldsRows, Db, Database,
         Parts
  <1>8. CopyIsKept'
    BY ProcsAssumption DEF GiveUp, IInv, HomeInv, CopyIsKept, TypeOK,
         LockInv, ActivationInv, ScheduleInv, DesktopInv, LogInv,
         CommitIsWhole, Goto, Procs, Inside, Replacing, disk, history,
         Activatable, TargetIsEmpty, HoldsRows, Db, Log, Database, Parts
  <1> QED
    BY <1>1, <1>2, <1>3, <1>4, <1>5, <1>6, <1>7, <1>8 DEF HomeInv

(* The process inside is alone there.                                      *)
LEMMA Alone ==
    ASSUME IInv, NEW p \in Activators, pc[p] \in Inside
    PROVE  /\ p \in Procs /\ \A q \in Procs \ {p} : pc[q] \notin Inside
           /\ pc[p] \in Inside \ {"running", "exiting", "copy"} => pc[App] \notin {"running", "exiting"}
           /\ App \in Procs /\ pc \in [Procs -> Places]
           /\ scheduled \subseteq Kinds /\ manifest \subseteq Kinds /\ staged \subseteq Kinds
           /\ todo[p] \subseteq Kinds /\ activated[p] \subseteq Kinds
    BY DEF Activators, Procs, IInv, LockInv, TypeOK, Inside

LEMMA CheckKeepsHome ==
    ASSUME NEW p \in Activators, IInv, HomeInv, Check(p)
    PROVE  HomeInv'
  <1>1. ScheduleInv'
    BY ProcsAssumption DEF Check, IInv, HomeInv, ScheduleInv, TypeOK,
         LockInv, DesktopInv, ActivationInv, Goto, Refuse, Procs, Inside,
         Replacing, disk, window, Fault, Activatable, TargetIsEmpty,
         HoldsRows, Db, Log, Database, Parts
  <1>2. DesktopInv'
    BY ProcsAssumption DEF Check, IInv, HomeInv, DesktopInv, TypeOK, LockInv,
         ScheduleInv, Goto, Refuse, Procs, Inside, disk, window, Fault,
         Activatable, TargetIsEmpty, HoldsRows, Db, Log, Database, Parts
  <1>3. ActivationInv'
    BY ProcsAssumption DEF Check, IInv, HomeInv, ActivationInv, TypeOK,
         LockInv, ScheduleInv, EmptyInv, Goto, Refuse, Procs, Inside,
         Replacing, disk, window, Fault, Activatable, TargetIsEmpty,
         HoldsRows, Db, Database, Parts
  <1>4. SavedInv'
    BY ProcsAssumption DEF Check, IInv, HomeInv, SavedInv, TypeOK, LockInv,
         LogInv, ActivationInv, Goto, Refuse, Procs, Inside, Replacing, disk,
         window, Fault, Activatable, TargetIsEmpty, HoldsRows, Db, Log,
         Database, Parts
  <1>5. LogInv'
    BY ProcsAssumption DEF Check, IInv, HomeInv, LogInv, TypeOK, LockInv,
         ScheduleInv, ActivationInv, SavedInv, DesktopInv, Goto, Refuse,
         Procs, Inside, Replacing, disk, window, Fault, Activatable,
         TargetIsEmpty, HoldsRows, Db, Log, Database, Parts
  <1>6. HomeIsKept'
    BY ProcsAssumption DEF Check, IInv, HomeInv, HomeIsKept, TypeOK, LockInv,
         ActivationInv, SavedInv, Goto, Refuse, Procs, Inside, Replacing,
         disk, window, Fault, Activatable, TargetIsEmpty, HoldsRows, Db,
         Database, Parts
  <1>7. CommitIsWhole'
    BY ProcsAssumption DEF Check, IInv, HomeInv, CommitIsWhole, TypeOK,
         LockInv, ActivationInv, ScheduleInv, Goto, Refuse, Procs, Inside,
         Replacing, disk, window, Fault, Activatable, TargetIsEmpty,
         HoldsRows, Db, Database, Parts
  <1>8. CopyIsKept'
    BY ProcsAssumption DEF Check, IInv, HomeInv, CopyIsKept, TypeOK, LockInv,
         ActivationInv, ScheduleInv, DesktopInv, LogInv, CommitIsWhole, Goto,
         Refuse, Procs, Inside, Replacing, disk, window, Fault, Activatable,
         TargetIsEmpty, HoldsRows, Db, Log, Database, Parts
  <1> QED
    BY <1>1, <1>2, <1>3, <1>4, <1>5, <1>6, <1>7, <1>8 DEF HomeInv

LEMMA MakeBackupHomeKeepsHome ==
    ASSUME NEW p \in Activators, IInv, HomeInv, MakeBackupHome(p)
    PROVE  HomeInv'
  <1>1. ScheduleInv'
    <2>1. /\ p \in Procs /\ App \in Procs /\ \A q \in Procs \ {p} : pc[q] \notin Inside
          /\ pc[App] \notin {"running", "exiting"} /\ pc \in [Procs -> Places]
          /\ scheduled \subseteq Kinds /\ manifest \subseteq Kinds /\ todo[p] \subseteq Kinds
      BY Alone DEF MakeBackupHome, Inside
    <2> QED
      BY <2>1 DEF MakeBackupHome, ScheduleInv, LockInv, DesktopInv,
           ActivationInv, HomeInv, IInv, Inside, Replacing, Activatable,
           TargetIsEmpty, HoldsRows, Db, Log, Goto, Refuse, window
  <1>2. DesktopInv'
    <2>1. /\ p \in Procs /\ App \in Procs /\ \A q \in Procs \ {p} : pc[q] \notin Inside
          /\ pc[App] \notin {"running", "exiting"} /\ pc \in [Procs -> Places]
          /\ scheduled \subseteq Kinds /\ manifest \subseteq Kinds /\ todo[p] \subseteq Kinds
      BY Alone DEF MakeBackupHome, Inside
    <2> QED
      BY <2>1 DEF MakeBackupHome, DesktopInv, LockInv, ScheduleInv, HomeInv,
           IInv, Inside, Replacing, Activatable, TargetIsEmpty, HoldsRows,
           Db, Log, Goto, Refuse, window
  <1>3. ActivationInv'
    <2>1. /\ p \in Procs /\ App \in Procs /\ \A q \in Procs \ {p} : pc[q] \notin Inside
          /\ pc[App] \notin {"running", "exiting"} /\ pc \in [Procs -> Places]
          /\ scheduled \subseteq Kinds /\ manifest \subseteq Kinds /\ todo[p] \subseteq Kinds
      BY Alone DEF MakeBackupHome, Inside
    <2>2. \A k \in Kinds : Db(k) = "seed"
      <3>1. \A k \in Kinds : Db(k) \in Contents
        BY DEF IInv, TypeOK, Database, Db, Parts
      <3> QED
        BY <3>1, <2>1 DEF MakeBackupHome, HomeInv, ActivationInv,
             ScheduleInv, Activatable, TargetIsEmpty, HoldsRows, Contents
    <2>3. manifest # {}
      BY <2>1 DEF MakeBackupHome, HomeInv, ActivationInv, Activatable
    <2>4. CASE Refuse(p) /\ UNCHANGED <<todo, activated>>
      BY <2>1, <2>4 DEF MakeBackupHome, HomeInv, ActivationInv, Refuse, Goto,
           Inside, Replacing
    <2>5. CASE backupHome' = TRUE /\ Goto(p, "move") /\ todo' = [todo EXCEPT ![p] = manifest]
      <3>1. todo'[p] = manifest /\ pc'[p] = "move" /\ \A q \in Procs \ {p} : pc'[q] = pc[q]
        BY <2>1, <2>5 DEF Goto, IInv, TypeOK
      <3> QED
        BY <2>1, <2>2, <2>3, <2>5, <3>1 DEF MakeBackupHome, ActivationInv,
             Inside, Replacing, Db
    <2> QED
      BY <2>4, <2>5 DEF MakeBackupHome
  <1>4. SavedInv'
    <2>1. /\ p \in Procs /\ App \in Procs /\ \A q \in Procs \ {p} : pc[q] \notin Inside
          /\ pc[App] \notin {"running", "exiting"} /\ pc \in [Procs -> Places]
          /\ scheduled \subseteq Kinds /\ manifest \subseteq Kinds /\ todo[p] \subseteq Kinds
      BY Alone DEF MakeBackupHome, Inside
    <2> QED
      BY <2>1 DEF MakeBackupHome, SavedInv, LockInv, LogInv, ActivationInv,
           HomeInv, IInv, Inside, Replacing, Activatable, TargetIsEmpty,
           HoldsRows, Db, Log, Goto, Refuse, window
  <1>5. LogInv'
    <2>1. /\ p \in Procs /\ App \in Procs /\ \A q \in Procs \ {p} : pc[q] \notin Inside
          /\ pc[App] \notin {"running", "exiting"} /\ pc \in [Procs -> Places]
          /\ scheduled \subseteq Kinds /\ manifest \subseteq Kinds /\ todo[p] \subseteq Kinds
      BY Alone DEF MakeBackupHome, Inside
    <2> QED
      BY <2>1 DEF MakeBackupHome, LogInv, LockInv, ScheduleInv,
           ActivationInv, SavedInv, DesktopInv, HomeInv, IInv, Inside,
           Replacing, Activatable, TargetIsEmpty, HoldsRows, Db, Log, Goto,
           Refuse, window
  <1>6. HomeIsKept'
    <2>1. /\ p \in Procs /\ App \in Procs /\ \A q \in Procs \ {p} : pc[q] \notin Inside
          /\ pc[App] \notin {"running", "exiting"} /\ pc \in [Procs -> Places]
          /\ scheduled \subseteq Kinds /\ manifest \subseteq Kinds /\ todo[p] \subseteq Kinds
      BY Alone DEF MakeBackupHome, Inside
    <2> QED
      BY <2>1 DEF MakeBackupHome, HomeIsKept, LockInv, ActivationInv,
           SavedInv, HomeInv, IInv, Inside, Replacing, Activatable,
           TargetIsEmpty, HoldsRows, Db, Log, Goto, Refuse, window
  <1>7. CommitIsWhole'
    <2>1. /\ p \in Procs /\ App \in Procs /\ \A q \in Procs \ {p} : pc[q] \notin Inside
          /\ pc[App] \notin {"running", "exiting"} /\ pc \in [Procs -> Places]
          /\ scheduled \subseteq Kinds /\ manifest \subseteq Kinds /\ todo[p] \subseteq Kinds
      BY Alone DEF MakeBackupHome, Inside
    <2> QED
      BY <2>1 DEF MakeBackupHome, CommitIsWhole, LockInv, ActivationInv,
           ScheduleInv, HomeInv, IInv, Inside, Replacing, Activatable,
           TargetIsEmpty, HoldsRows, Db, Log, Goto, Refuse, window
  <1>8. CopyIsKept'
    <2>1. /\ p \in Procs /\ App \in Procs /\ \A q \in Procs \ {p} : pc[q] \notin Inside
          /\ pc[App] \notin {"running", "exiting"} /\ pc \in [Procs -> Places]
          /\ scheduled \subseteq Kinds /\ manifest \subseteq Kinds /\ todo[p] \subseteq Kinds
      BY Alone DEF MakeBackupHome, Inside
    <2> QED
      BY <2>1 DEF MakeBackupHome, CopyIsKept, LockInv, ActivationInv,
           ScheduleInv, DesktopInv, LogInv, CommitIsWhole, HomeInv, IInv,
           Inside, Replacing, Activatable, TargetIsEmpty, HoldsRows, Db, Log,
           Goto, Refuse, window
  <1> QED
    BY <1>1, <1>2, <1>3, <1>4, <1>5, <1>6, <1>7, <1>8 DEF HomeInv

(* What the steps that rename files change.                                *)
LEMMA MovedOut ==
    ASSUME IInv, NEW p \in Activators, NEW k \in Kinds, NEW c \in Parts, MoveOut(p, k, c)
    PROVE  /\ pc[p] = "move" /\ k \in todo[p] /\ pc \in [Procs -> Places] /\ target[k][c] # "none"
           /\ UNCHANGED <<backupHome, staged, manifest, todo, activated, importing, restart, scheduled, unrestored>>
           /\ \/ UNCHANGED <<target, backup>> /\ pc' = [pc EXCEPT ![p] = "restore"]
              \/ /\ UNCHANGED pc
                 /\ \A j \in Kinds, d \in Parts : j # k \/ d # c =>
                       target'[j][d] = target[j][d] /\ backup'[j][d] = backup[j][d]
                 /\ target'[k][c] = "none" /\ backup'[k][c] = target[k][c]
  <1>1. pc \in [Procs -> Places] /\ target \in [Kinds -> [Parts -> Contents]] /\ backup \in [Kinds -> [Parts -> Contents]]
    BY DEF IInv, TypeOK, Database
  <1>2. CASE Fault /\ Goto(p, "restore") /\ UNCHANGED <<target, backup>>
    BY <1>1, <1>2 DEF MoveOut, Goto, First, window
  <1>3. CASE /\ backup' = [backup EXCEPT ![k][c] = target[k][c]]
             /\ target' = [target EXCEPT ![k][c] = "none"]
             /\ UNCHANGED <<pc, faults>>
    BY <1>1, <1>3 DEF MoveOut, First, window
  <1> QED
    BY <1>2, <1>3 DEF MoveOut

LEMMA MovedIn ==
    ASSUME IInv, NEW p \in Activators, NEW k \in Kinds, MoveIn(p, k)
    PROVE  /\ pc[p] = "move" /\ k \in todo[p] /\ pc \in [Procs -> Places]
           /\ UNCHANGED <<backup, backupHome, manifest, importing, restart, scheduled, unrestored>>
           /\ Db(k) = "none" /\ Log(k) = "none"
           /\ \/ UNCHANGED <<target, staged, todo, activated>> /\ pc' = [pc EXCEPT ![p] = "restore"]
              \/ /\ UNCHANGED pc
                 /\ staged' = staged \ {k}
                 /\ todo'[p] = todo[p] \ {k} /\ activated'[p] = activated[p] \union {k}
                 /\ \A j \in Kinds \ {k} : target'[j] = target[j]
                 /\ Db(k)' = "imported" /\ Log(k)' = "none"
  <1>1. /\ pc \in [Procs -> Places] /\ target \in [Kinds -> [Parts -> Contents]] /\ p \in Procs
        /\ todo \in [Procs -> SUBSET Kinds] /\ activated \in [Procs -> SUBSET Kinds]
    BY DEF IInv, TypeOK, Database, Activators, Procs
  <1>2. Db(k) = "none" /\ Log(k) = "none"
    BY DEF MoveIn, NoFiles, Files, Parts, Db, Log
  <1>3. CASE Fault /\ Goto(p, "restore") /\ UNCHANGED <<staged, target, todo, activated>>
    BY <1>1, <1>2, <1>3 DEF MoveIn, Goto, First, window
  <1>4. CASE /\ staged' = staged \ {k}
             /\ target' = [target EXCEPT ![k]["db"] = "imported"]
             /\ todo' = [todo EXCEPT ![p] = @ \ {k}]
             /\ activated' = [activated EXCEPT ![p] = @ \cup {k}]
             /\ UNCHANGED <<pc, faults>>
    BY <1>1, <1>2, <1>4 DEF MoveIn, First, window, Db, Log, Parts
  <1> QED
    BY <1>3, <1>4 DEF MoveIn

LEMMA PutStagedBack ==
    ASSUME IInv, NEW p \in Activators, NEW k \in Kinds, PutBackStaged(p, k)
    PROVE  /\ pc[p] = "restore" /\ pc' = pc
           /\ UNCHANGED <<backup, backupHome, manifest, todo, importing, restart, scheduled>>
           /\ activated'[p] = activated[p] \ {k} /\ \A q \in Procs \ {p} : activated'[q] = activated[q]
           /\ \/ UNCHANGED <<target, staged>> /\ unrestored'
              \/ /\ UNCHANGED unrestored /\ staged' = staged \union {k}
                 /\ \A j \in Kinds \ {k} : target'[j] = target[j]
                 /\ Db(k)' = "none" /\ Log(k)' = Log(k)
  <1>1. /\ target \in [Kinds -> [Parts -> Contents]] /\ p \in Procs
        /\ activated \in [Procs -> SUBSET Kinds]
    BY DEF IInv, TypeOK, Database, Activators, Procs
  <1> QED
    BY <1>1 DEF PutBackStaged, window, Db, Log, Parts

LEMMA PutFileBack ==
    ASSUME IInv, NEW p \in Activators, NEW k \in Kinds, NEW c \in Parts, PutBack(p, k, c)
    PROVE  /\ pc[p] = "unmove" /\ pc' = pc
           /\ UNCHANGED <<backupHome, staged, manifest, todo, activated, importing, restart, scheduled, unrestored>>
           /\ \/ UNCHANGED <<target, backup>>
              \/ /\ \A j \in Kinds, d \in Parts : j # k \/ d # c =>
                       target'[j][d] = target[j][d] /\ backup'[j][d] = backup[j][d]
                 /\ target'[k][c] = backup[k][c] /\ backup'[k][c] = "none"
  <1>1. target \in [Kinds -> [Parts -> Contents]] /\ backup \in [Kinds -> [Parts -> Contents]]
    BY DEF IInv, TypeOK, Database
  <1>2. CASE /\ target' = [target EXCEPT ![k][c] = backup[k][c]]
             /\ backup' = [backup EXCEPT ![k][c] = "none"]
    BY <1>1, <1>2 DEF PutBack, window
  <1>3. CASE UNCHANGED <<target, backup>>
    BY <1>3 DEF PutBack, window
  <1> QED
    BY <1>2, <1>3 DEF PutBack

LEMMA MoveOutKeepsHome ==
    ASSUME NEW p \in Activators, NEW k \in Kinds, NEW c \in Parts, IInv, HomeInv, MoveOut(p, k, c)
    PROVE  HomeInv'
  <1>1. ScheduleInv'
    <2>1. /\ p \in Procs /\ App \in Procs /\ \A q \in Procs \ {p} : pc[q] \notin Inside
          /\ pc[App] \notin {"running", "exiting"} /\ pc \in [Procs -> Places]
          /\ scheduled \subseteq Kinds /\ manifest \subseteq Kinds /\ todo[p] \subseteq Kinds
      BY Alone, MovedOut DEF Inside
    <2> QED
      BY <2>1, MovedOut DEF ScheduleInv, LockInv, DesktopInv, ActivationInv,
           HomeInv, IInv, Inside, Replacing, Db, Log, Parts, Activatable
  <1>2. DesktopInv'
    <2>1. /\ p \in Procs /\ App \in Procs /\ \A q \in Procs \ {p} : pc[q] \notin Inside
          /\ pc[App] \notin {"running", "exiting"} /\ pc \in [Procs -> Places]
          /\ scheduled \subseteq Kinds /\ manifest \subseteq Kinds /\ todo[p] \subseteq Kinds
      BY Alone, MovedOut DEF Inside
    <2> QED
      BY <2>1, MovedOut DEF DesktopInv, LockInv, ScheduleInv, HomeInv, IInv,
           Inside, Replacing, Db, Log, Parts, Activatable
  <1>3. ActivationInv'
    <2>1. /\ p \in Procs /\ App \in Procs /\ \A q \in Procs \ {p} : pc[q] \notin Inside
          /\ pc[App] \notin {"running", "exiting"} /\ pc \in [Procs -> Places]
          /\ scheduled \subseteq Kinds /\ manifest \subseteq Kinds /\ todo[p] \subseteq Kinds
      BY Alone, MovedOut DEF Inside
    <2>2. CASE pc' = [pc EXCEPT ![p] = "restore"] /\ UNCHANGED <<target, backup>>
      BY <2>1, <2>2, MovedOut DEF ActivationInv, HomeInv, Inside, Replacing
    <2>3. CASE pc' = pc
      <3>1. \A j \in Kinds : /\ Db(j)' = "none" => backup'[j]["db"] # "none"
                             /\ j # k => Db(j)' = Db(j)
                             /\ Db(k)' \in {"none", Db(k)}
        BY <2>1, <2>3, MovedOut DEF ActivationInv, HomeInv, Db, Parts
      <3> QED
        BY <2>1, <2>3, <3>1, MovedOut DEF ActivationInv, HomeInv, Inside,
             Replacing
    <2> QED
      BY <2>2, <2>3, MovedOut
  <1>4. SavedInv'
    <2>1. /\ p \in Procs /\ App \in Procs /\ \A q \in Procs \ {p} : pc[q] \notin Inside
          /\ pc[App] \notin {"running", "exiting"} /\ pc \in [Procs -> Places]
          /\ scheduled \subseteq Kinds /\ manifest \subseteq Kinds /\ todo[p] \subseteq Kinds
      BY Alone, MovedOut DEF Inside
    <2> QED
      BY <2>1, MovedOut DEF SavedInv, LockInv, LogInv, ActivationInv,
           HomeInv, IInv, Inside, Replacing, Db, Log, Parts, Activatable
  <1>5. LogInv'
    <2>1. /\ p \in Procs /\ App \in Procs /\ \A q \in Procs \ {p} : pc[q] \notin Inside
          /\ pc[App] \notin {"running", "exiting"} /\ pc \in [Procs -> Places]
          /\ scheduled \subseteq Kinds /\ manifest \subseteq Kinds /\ todo[p] \subseteq Kinds
      BY Alone, MovedOut DEF Inside
    <2> QED
      BY <2>1, MovedOut DEF LogInv, LockInv, ScheduleInv, ActivationInv,
           SavedInv, DesktopInv, HomeInv, IInv, Inside, Replacing, Db, Log,
           Parts, Activatable
  <1>6. HomeIsKept'
    <2>1. /\ p \in Procs /\ App \in Procs /\ \A q \in Procs \ {p} : pc[q] \notin Inside
          /\ pc[App] \notin {"running", "exiting"} /\ pc \in [Procs -> Places]
          /\ scheduled \subseteq Kinds /\ manifest \subseteq Kinds /\ todo[p] \subseteq Kinds
      BY Alone, MovedOut DEF Inside
    <2> QED
      BY <2>1, MovedOut DEF HomeIsKept, LockInv, ActivationInv, SavedInv,
           HomeInv, IInv, Inside, Replacing, Db, Log, Parts, Activatable
  <1>7. CommitIsWhole'
    <2>1. /\ p \in Procs /\ App \in Procs /\ \A q \in Procs \ {p} : pc[q] \notin Inside
          /\ pc[App] \notin {"running", "exiting"} /\ pc \in [Procs -> Places]
          /\ scheduled \subseteq Kinds /\ manifest \subseteq Kinds /\ todo[p] \subseteq Kinds
      BY Alone, MovedOut DEF Inside
    <2> QED
      BY <2>1, MovedOut DEF CommitIsWhole, LockInv, ActivationInv,
           ScheduleInv, HomeInv, IInv, Inside, Replacing, Db, Log, Parts,
           Activatable
  <1>8. CopyIsKept'
    <2>1. /\ p \in Procs /\ App \in Procs /\ \A q \in Procs \ {p} : pc[q] \notin Inside
          /\ pc[App] \notin {"running", "exiting"} /\ pc \in [Procs -> Places]
          /\ scheduled \subseteq Kinds /\ manifest \subseteq Kinds /\ todo[p] \subseteq Kinds
      BY Alone, MovedOut DEF Inside
    <2> QED
      BY <2>1, MovedOut DEF CopyIsKept, LockInv, ActivationInv, ScheduleInv,
           DesktopInv, LogInv, CommitIsWhole, HomeInv, IInv, Inside,
           Replacing, Db, Log, Parts, Activatable
  <1> QED
    BY <1>1, <1>2, <1>3, <1>4, <1>5, <1>6, <1>7, <1>8 DEF HomeInv

LEMMA MoveInKeepsHome ==
    ASSUME NEW p \in Activators, NEW k \in Kinds, IInv, HomeInv, MoveIn(p, k)
    PROVE  HomeInv'
  <1>1. ScheduleInv'
    <2>1. /\ p \in Procs /\ App \in Procs /\ \A q \in Procs \ {p} : pc[q] \notin Inside
          /\ pc[App] \notin {"running", "exiting"} /\ pc \in [Procs -> Places]
          /\ scheduled \subseteq Kinds /\ manifest \subseteq Kinds /\ todo[p] \subseteq Kinds
      BY Alone, MovedIn DEF Inside
    <2> QED
      BY <2>1, MovedIn DEF ScheduleInv, LockInv, DesktopInv, ActivationInv,
           HomeInv, IInv, Inside, Replacing, Db, Log, Parts, Activatable
  <1>2. DesktopInv'
    <2>1. /\ p \in Procs /\ App \in Procs /\ \A q \in Procs \ {p} : pc[q] \notin Inside
          /\ pc[App] \notin {"running", "exiting"} /\ pc \in [Procs -> Places]
          /\ scheduled \subseteq Kinds /\ manifest \subseteq Kinds /\ todo[p] \subseteq Kinds
      BY Alone, MovedIn DEF Inside
    <2> QED
      BY <2>1, MovedIn DEF DesktopInv, LockInv, ScheduleInv, HomeInv, IInv,
           Inside, Replacing, Db, Log, Parts, Activatable
  <1>3. ActivationInv'
    <2>1. /\ p \in Procs /\ App \in Procs /\ \A q \in Procs \ {p} : pc[q] \notin Inside
          /\ pc[App] \notin {"running", "exiting"} /\ pc \in [Procs -> Places]
          /\ scheduled \subseteq Kinds /\ manifest \subseteq Kinds /\ todo[p] \subseteq Kinds
      BY Alone, MovedIn DEF Inside
    <2> QED
      BY <2>1, MovedIn DEF ActivationInv, LockInv, ScheduleInv, EmptyInv,
           HomeInv, IInv, Inside, Replacing, Db, Log, Parts, Activatable
  <1>4. SavedInv'
    <2>1. /\ p \in Procs /\ App \in Procs /\ \A q \in Procs \ {p} : pc[q] \notin Inside
          /\ pc[App] \notin {"running", "exiting"} /\ pc \in [Procs -> Places]
          /\ scheduled \subseteq Kinds /\ manifest \subseteq Kinds /\ todo[p] \subseteq Kinds
      BY Alone, MovedIn DEF Inside
    <2> QED
      BY <2>1, MovedIn DEF SavedInv, LockInv, LogInv, ActivationInv, HomeInv,
           IInv, Inside, Replacing, Db, Log, Parts, Activatable
  <1>5. LogInv'
    <2>1. /\ p \in Procs /\ App \in Procs /\ \A q \in Procs \ {p} : pc[q] \notin Inside
          /\ pc[App] \notin {"running", "exiting"} /\ pc \in [Procs -> Places]
          /\ scheduled \subseteq Kinds /\ manifest \subseteq Kinds /\ todo[p] \subseteq Kinds
      BY Alone, MovedIn DEF Inside
    <2> QED
      BY <2>1, MovedIn DEF LogInv, LockInv, ScheduleInv, ActivationInv,
           SavedInv, DesktopInv, HomeInv, IInv, Inside, Replacing, Db, Log,
           Parts, Activatable
  <1>6. HomeIsKept'
    <2>1. /\ p \in Procs /\ App \in Procs /\ \A q \in Procs \ {p} : pc[q] \notin Inside
          /\ pc[App] \notin {"running", "exiting"} /\ pc \in [Procs -> Places]
          /\ scheduled \subseteq Kinds /\ manifest \subseteq Kinds /\ todo[p] \subseteq Kinds
      BY Alone, MovedIn DEF Inside
    <2> QED
      BY <2>1, MovedIn DEF HomeIsKept, LockInv, ActivationInv, SavedInv,
           HomeInv, IInv, Inside, Replacing, Db, Log, Parts, Activatable
  <1>7. CommitIsWhole'
    <2>1. /\ p \in Procs /\ App \in Procs /\ \A q \in Procs \ {p} : pc[q] \notin Inside
          /\ pc[App] \notin {"running", "exiting"} /\ pc \in [Procs -> Places]
          /\ scheduled \subseteq Kinds /\ manifest \subseteq Kinds /\ todo[p] \subseteq Kinds
      BY Alone, MovedIn DEF Inside
    <2> QED
      BY <2>1, MovedIn DEF CommitIsWhole, LockInv, ActivationInv,
           ScheduleInv, HomeInv, IInv, Inside, Replacing, Db, Log, Parts,
           Activatable
  <1>8. CopyIsKept'
    <2>1. /\ p \in Procs /\ App \in Procs /\ \A q \in Procs \ {p} : pc[q] \notin Inside
          /\ pc[App] \notin {"running", "exiting"} /\ pc \in [Procs -> Places]
          /\ scheduled \subseteq Kinds /\ manifest \subseteq Kinds /\ todo[p] \subseteq Kinds
      BY Alone, MovedIn DEF Inside
    <2> QED
      BY <2>1, MovedIn DEF CopyIsKept, LockInv, ActivationInv, ScheduleInv,
           DesktopInv, LogInv, CommitIsWhole, HomeInv, IInv, Inside,
           Replacing, Db, Log, Parts, Activatable
  <1> QED
    BY <1>1, <1>2, <1>3, <1>4, <1>5, <1>6, <1>7, <1>8 DEF HomeInv

LEMMA AllMovedKeepsHome ==
    ASSUME NEW p \in Activators, IInv, HomeInv, AllMoved(p)
    PROVE  HomeInv'
  <1>1. ScheduleInv'
    BY ProcsAssumption DEF AllMoved, IInv, HomeInv, ScheduleInv, TypeOK,
         LockInv, DesktopInv, ActivationInv, Goto, Procs, Inside, Replacing,
         disk, window, history, Activatable, TargetIsEmpty, HoldsRows, Db,
         Log, Database, Parts
  <1>2. DesktopInv'
    BY ProcsAssumption DEF AllMoved, IInv, HomeInv, DesktopInv, TypeOK,
         LockInv, ScheduleInv, Goto, Procs, Inside, disk, window, history,
         Db, Log, Database, Parts
  <1>3. ActivationInv'
    BY ProcsAssumption DEF AllMoved, IInv, HomeInv, ActivationInv, TypeOK,
         LockInv, ScheduleInv, EmptyInv, Goto, Procs, Inside, Replacing,
         disk, window, history, Activatable, TargetIsEmpty, HoldsRows, Db,
         Database, Parts
  <1>4. SavedInv'
    BY ProcsAssumption DEF AllMoved, IInv, HomeInv, SavedInv, TypeOK,
         LockInv, LogInv, ActivationInv, Goto, Procs, Inside, Replacing,
         disk, window, history, Activatable, TargetIsEmpty, HoldsRows, Db,
         Log, Database, Parts
  <1>5. LogInv'
    BY ProcsAssumption DEF AllMoved, IInv, HomeInv, LogInv, TypeOK, LockInv,
         ScheduleInv, ActivationInv, SavedInv, DesktopInv, Goto, Procs,
         Inside, Replacing, disk, window, history, Activatable,
         TargetIsEmpty, HoldsRows, Db, Log, Database, Parts
  <1>6. HomeIsKept'
    BY ProcsAssumption DEF AllMoved, IInv, HomeInv, HomeIsKept, TypeOK,
         LockInv, ActivationInv, SavedInv, Goto, Procs, Inside, Replacing,
         disk, window, history, Activatable, TargetIsEmpty, HoldsRows, Db,
         Database, Parts
  <1>7. CommitIsWhole'
    BY ProcsAssumption DEF AllMoved, IInv, HomeInv, CommitIsWhole, TypeOK,
         LockInv, ActivationInv, ScheduleInv, Goto, Procs, Inside, Replacing,
         disk, window, history, Activatable, TargetIsEmpty, HoldsRows, Db,
         Database, Parts
  <1>8. CopyIsKept'
    BY ProcsAssumption DEF AllMoved, IInv, HomeInv, CopyIsKept, TypeOK,
         LockInv, ActivationInv, ScheduleInv, DesktopInv, LogInv,
         CommitIsWhole, Goto, Procs, Inside, Replacing, disk, window,
         history, Activatable, TargetIsEmpty, HoldsRows, Db, Log, Database,
         Parts
  <1> QED
    BY <1>1, <1>2, <1>3, <1>4, <1>5, <1>6, <1>7, <1>8 DEF HomeInv

LEMMA RemoveManifestKeepsHome ==
    ASSUME NEW p \in Activators, IInv, HomeInv, RemoveManifest(p)
    PROVE  HomeInv'
  <1>1. ScheduleInv'
    <2>1. /\ p \in Procs /\ App \in Procs /\ \A q \in Procs \ {p} : pc[q] \notin Inside
          /\ pc[App] \notin {"running", "exiting"} /\ pc \in [Procs -> Places]
          /\ scheduled \subseteq Kinds /\ manifest \subseteq Kinds /\ todo[p] \subseteq Kinds
      BY Alone DEF RemoveManifest, Inside
    <2> QED
      BY <2>1 DEF RemoveManifest, ScheduleInv, LockInv, DesktopInv,
           ActivationInv, HomeInv, IInv, Inside, Replacing, Activatable,
           TargetIsEmpty, HoldsRows, Db, Log, Goto, Refuse, window
  <1>2. DesktopInv'
    <2>1. /\ p \in Procs /\ App \in Procs /\ \A q \in Procs \ {p} : pc[q] \notin Inside
          /\ pc[App] \notin {"running", "exiting"} /\ pc \in [Procs -> Places]
          /\ scheduled \subseteq Kinds /\ manifest \subseteq Kinds /\ todo[p] \subseteq Kinds
      BY Alone DEF RemoveManifest, Inside
    <2> QED
      BY <2>1 DEF RemoveManifest, DesktopInv, LockInv, ScheduleInv, HomeInv,
           IInv, Inside, Replacing, Activatable, TargetIsEmpty, HoldsRows,
           Db, Log, Goto, Refuse, window
  <1>3. ActivationInv'
    <2>1. /\ p \in Procs /\ App \in Procs /\ \A q \in Procs \ {p} : pc[q] \notin Inside
          /\ pc[App] \notin {"running", "exiting"} /\ pc \in [Procs -> Places]
          /\ scheduled \subseteq Kinds /\ manifest \subseteq Kinds /\ todo[p] \subseteq Kinds
      BY Alone DEF RemoveManifest, Inside
    <2> QED
      BY <2>1 DEF RemoveManifest, ActivationInv, LockInv, ScheduleInv,
           EmptyInv, HomeInv, IInv, Inside, Replacing, Activatable,
           TargetIsEmpty, HoldsRows, Db, Log, Goto, Refuse, window
  <1>4. SavedInv'
    <2>1. /\ p \in Procs /\ App \in Procs /\ \A q \in Procs \ {p} : pc[q] \notin Inside
          /\ pc[App] \notin {"running", "exiting"} /\ pc \in [Procs -> Places]
          /\ scheduled \subseteq Kinds /\ manifest \subseteq Kinds /\ todo[p] \subseteq Kinds
      BY Alone DEF RemoveManifest, Inside
    <2> QED
      BY <2>1 DEF RemoveManifest, SavedInv, LockInv, LogInv, ActivationInv,
           HomeInv, IInv, Inside, Replacing, Activatable, TargetIsEmpty,
           HoldsRows, Db, Log, Goto, Refuse, window
  <1>5. LogInv'
    <2>1. /\ p \in Procs /\ App \in Procs /\ \A q \in Procs \ {p} : pc[q] \notin Inside
          /\ pc[App] \notin {"running", "exiting"} /\ pc \in [Procs -> Places]
          /\ scheduled \subseteq Kinds /\ manifest \subseteq Kinds /\ todo[p] \subseteq Kinds
      BY Alone DEF RemoveManifest, Inside
    <2> QED
      BY <2>1 DEF RemoveManifest, LogInv, LockInv, ScheduleInv,
           ActivationInv, SavedInv, DesktopInv, HomeInv, IInv, Inside,
           Replacing, Activatable, TargetIsEmpty, HoldsRows, Db, Log, Goto,
           Refuse, window
  <1>6. HomeIsKept'
    <2>1. /\ p \in Procs /\ App \in Procs /\ \A q \in Procs \ {p} : pc[q] \notin Inside
          /\ pc[App] \notin {"running", "exiting"} /\ pc \in [Procs -> Places]
          /\ scheduled \subseteq Kinds /\ manifest \subseteq Kinds /\ todo[p] \subseteq Kinds
      BY Alone DEF RemoveManifest, Inside
    <2> QED
      BY <2>1 DEF RemoveManifest, HomeIsKept, LockInv, ActivationInv,
           SavedInv, HomeInv, IInv, Inside, Replacing, Activatable,
           TargetIsEmpty, HoldsRows, Db, Log, Goto, Refuse, window
  <1>7. CommitIsWhole'
    <2>1. /\ p \in Procs /\ App \in Procs /\ \A q \in Procs \ {p} : pc[q] \notin Inside
          /\ pc[App] \notin {"running", "exiting"} /\ pc \in [Procs -> Places]
          /\ scheduled \subseteq Kinds /\ manifest \subseteq Kinds /\ todo[p] \subseteq Kinds
      BY Alone DEF RemoveManifest, Inside
    <2> QED
      BY <2>1 DEF RemoveManifest, CommitIsWhole, LockInv, ActivationInv,
           ScheduleInv, HomeInv, IInv, Inside, Replacing, Activatable,
           TargetIsEmpty, HoldsRows, Db, Log, Goto, Refuse, window
  <1>8. CopyIsKept'
    <2>1. /\ p \in Procs /\ App \in Procs /\ \A q \in Procs \ {p} : pc[q] \notin Inside
          /\ pc[App] \notin {"running", "exiting"} /\ pc \in [Procs -> Places]
          /\ scheduled \subseteq Kinds /\ manifest \subseteq Kinds /\ todo[p] \subseteq Kinds
      BY Alone DEF RemoveManifest, Inside
    <2> QED
      BY <2>1 DEF RemoveManifest, CopyIsKept, LockInv, ActivationInv,
           ScheduleInv, DesktopInv, LogInv, CommitIsWhole, HomeInv, IInv,
           Inside, Replacing, Activatable, TargetIsEmpty, HoldsRows, Db, Log,
           Goto, Refuse, window
  <1> QED
    BY <1>1, <1>2, <1>3, <1>4, <1>5, <1>6, <1>7, <1>8 DEF HomeInv

LEMMA RemoveStagingKeepsHome ==
    ASSUME NEW p \in Activators, IInv, HomeInv, RemoveStaging(p)
    PROVE  HomeInv'
  <1>1. ScheduleInv'
    <2>1. /\ p \in Procs /\ App \in Procs /\ \A q \in Procs \ {p} : pc[q] \notin Inside
          /\ pc[App] \notin {"running", "exiting"} /\ pc \in [Procs -> Places]
          /\ scheduled \subseteq Kinds /\ manifest \subseteq Kinds /\ todo[p] \subseteq Kinds
      BY Alone DEF RemoveStaging, Inside
    <2> QED
      BY <2>1 DEF RemoveStaging, ScheduleInv, LockInv, DesktopInv,
           ActivationInv, HomeInv, IInv, Inside, Replacing, Activatable,
           TargetIsEmpty, HoldsRows, Db, Log, Goto, Refuse, window
  <1>2. DesktopInv'
    <2>1. /\ p \in Procs /\ App \in Procs /\ \A q \in Procs \ {p} : pc[q] \notin Inside
          /\ pc[App] \notin {"running", "exiting"} /\ pc \in [Procs -> Places]
          /\ scheduled \subseteq Kinds /\ manifest \subseteq Kinds /\ todo[p] \subseteq Kinds
      BY Alone DEF RemoveStaging, Inside
    <2> QED
      BY <2>1 DEF RemoveStaging, DesktopInv, LockInv, ScheduleInv, HomeInv,
           IInv, Inside, Replacing, Activatable, TargetIsEmpty, HoldsRows,
           Db, Log, Goto, Refuse, window
  <1>3. ActivationInv'
    <2>1. /\ p \in Procs /\ App \in Procs /\ \A q \in Procs \ {p} : pc[q] \notin Inside
          /\ pc[App] \notin {"running", "exiting"} /\ pc \in [Procs -> Places]
          /\ scheduled \subseteq Kinds /\ manifest \subseteq Kinds /\ todo[p] \subseteq Kinds
      BY Alone DEF RemoveStaging, Inside
    <2> QED
      BY <2>1 DEF RemoveStaging, ActivationInv, LockInv, ScheduleInv,
           EmptyInv, HomeInv, IInv, Inside, Replacing, Activatable,
           TargetIsEmpty, HoldsRows, Db, Log, Goto, Refuse, window
  <1>4. SavedInv'
    <2>1. /\ p \in Procs /\ App \in Procs /\ \A q \in Procs \ {p} : pc[q] \notin Inside
          /\ pc[App] \notin {"running", "exiting"} /\ pc \in [Procs -> Places]
          /\ scheduled \subseteq Kinds /\ manifest \subseteq Kinds /\ todo[p] \subseteq Kinds
      BY Alone DEF RemoveStaging, Inside
    <2> QED
      BY <2>1 DEF RemoveStaging, SavedInv, LockInv, LogInv, ActivationInv,
           HomeInv, IInv, Inside, Replacing, Activatable, TargetIsEmpty,
           HoldsRows, Db, Log, Goto, Refuse, window
  <1>5. LogInv'
    <2>1. /\ p \in Procs /\ App \in Procs /\ \A q \in Procs \ {p} : pc[q] \notin Inside
          /\ pc[App] \notin {"running", "exiting"} /\ pc \in [Procs -> Places]
          /\ scheduled \subseteq Kinds /\ manifest \subseteq Kinds /\ todo[p] \subseteq Kinds
      BY Alone DEF RemoveStaging, Inside
    <2> QED
      BY <2>1 DEF RemoveStaging, LogInv, LockInv, ScheduleInv, ActivationInv,
           SavedInv, DesktopInv, HomeInv, IInv, Inside, Replacing,
           Activatable, TargetIsEmpty, HoldsRows, Db, Log, Goto, Refuse,
           window
  <1>6. HomeIsKept'
    <2>1. /\ p \in Procs /\ App \in Procs /\ \A q \in Procs \ {p} : pc[q] \notin Inside
          /\ pc[App] \notin {"running", "exiting"} /\ pc \in [Procs -> Places]
          /\ scheduled \subseteq Kinds /\ manifest \subseteq Kinds /\ todo[p] \subseteq Kinds
      BY Alone DEF RemoveStaging, Inside
    <2> QED
      BY <2>1 DEF RemoveStaging, HomeIsKept, LockInv, ActivationInv,
           SavedInv, HomeInv, IInv, Inside, Replacing, Activatable,
           TargetIsEmpty, HoldsRows, Db, Log, Goto, Refuse, window
  <1>7. CommitIsWhole'
    <2>1. /\ p \in Procs /\ App \in Procs /\ \A q \in Procs \ {p} : pc[q] \notin Inside
          /\ pc[App] \notin {"running", "exiting"} /\ pc \in [Procs -> Places]
          /\ scheduled \subseteq Kinds /\ manifest \subseteq Kinds /\ todo[p] \subseteq Kinds
      BY Alone DEF RemoveStaging, Inside
    <2> QED
      BY <2>1 DEF RemoveStaging, CommitIsWhole, LockInv, ActivationInv,
           ScheduleInv, HomeInv, IInv, Inside, Replacing, Activatable,
           TargetIsEmpty, HoldsRows, Db, Log, Goto, Refuse, window
  <1>8. CopyIsKept'
    <2>1. /\ p \in Procs /\ App \in Procs /\ \A q \in Procs \ {p} : pc[q] \notin Inside
          /\ pc[App] \notin {"running", "exiting"} /\ pc \in [Procs -> Places]
          /\ scheduled \subseteq Kinds /\ manifest \subseteq Kinds /\ todo[p] \subseteq Kinds
      BY Alone DEF RemoveStaging, Inside
    <2> QED
      BY <2>1 DEF RemoveStaging, CopyIsKept, LockInv, ActivationInv,
           ScheduleInv, DesktopInv, LogInv, CommitIsWhole, HomeInv, IInv,
           Inside, Replacing, Activatable, TargetIsEmpty, HoldsRows, Db, Log,
           Goto, Refuse, window
  <1> QED
    BY <1>1, <1>2, <1>3, <1>4, <1>5, <1>6, <1>7, <1>8 DEF HomeInv

LEMMA PutBackStagedKeepsHome ==
    ASSUME NEW p \in Activators, NEW k \in Kinds, IInv, HomeInv, PutBackStaged(p, k)
    PROVE  HomeInv'
  <1>1. ScheduleInv'
    <2>1. /\ p \in Procs /\ App \in Procs /\ \A q \in Procs \ {p} : pc[q] \notin Inside
          /\ pc[App] \notin {"running", "exiting"} /\ pc \in [Procs -> Places]
          /\ scheduled \subseteq Kinds /\ manifest \subseteq Kinds /\ todo[p] \subseteq Kinds
      BY Alone, PutStagedBack DEF Inside
    <2> QED
      BY <2>1, PutStagedBack DEF ScheduleInv, LockInv, DesktopInv,
           ActivationInv, HomeInv, IInv, Inside, Replacing, Db, Log, Parts,
           Activatable
  <1>2. DesktopInv'
    <2>1. /\ p \in Procs /\ App \in Procs /\ \A q \in Procs \ {p} : pc[q] \notin Inside
          /\ pc[App] \notin {"running", "exiting"} /\ pc \in [Procs -> Places]
          /\ scheduled \subseteq Kinds /\ manifest \subseteq Kinds /\ todo[p] \subseteq Kinds
      BY Alone, PutStagedBack DEF Inside
    <2> QED
      BY <2>1, PutStagedBack DEF DesktopInv, LockInv, ScheduleInv, HomeInv,
           IInv, Inside, Replacing, Db, Log, Parts, Activatable
  <1>3. ActivationInv'
    <2>1. /\ p \in Procs /\ App \in Procs /\ \A q \in Procs \ {p} : pc[q] \notin Inside
          /\ pc[App] \notin {"running", "exiting"} /\ pc \in [Procs -> Places]
          /\ scheduled \subseteq Kinds /\ manifest \subseteq Kinds /\ todo[p] \subseteq Kinds
      BY Alone, PutStagedBack DEF Inside
    <2> QED
      BY <2>1, PutStagedBack DEF ActivationInv, LockInv, ScheduleInv,
           EmptyInv, HomeInv, IInv, Inside, Replacing, Db, Log, Parts,
           Activatable
  <1>4. SavedInv'
    <2>1. /\ p \in Procs /\ App \in Procs /\ \A q \in Procs \ {p} : pc[q] \notin Inside
          /\ pc[App] \notin {"running", "exiting"} /\ pc \in [Procs -> Places]
          /\ scheduled \subseteq Kinds /\ manifest \subseteq Kinds /\ todo[p] \subseteq Kinds
      BY Alone, PutStagedBack DEF Inside
    <2> QED
      BY <2>1, PutStagedBack DEF SavedInv, LockInv, LogInv, ActivationInv,
           HomeInv, IInv, Inside, Replacing, Db, Log, Parts, Activatable
  <1>5. LogInv'
    <2>1. /\ p \in Procs /\ App \in Procs /\ \A q \in Procs \ {p} : pc[q] \notin Inside
          /\ pc[App] \notin {"running", "exiting"} /\ pc \in [Procs -> Places]
          /\ scheduled \subseteq Kinds /\ manifest \subseteq Kinds /\ todo[p] \subseteq Kinds
      BY Alone, PutStagedBack DEF Inside
    <2> QED
      BY <2>1, PutStagedBack DEF LogInv, LockInv, ScheduleInv, ActivationInv,
           SavedInv, DesktopInv, HomeInv, IInv, Inside, Replacing, Db, Log,
           Parts, Activatable
  <1>6. HomeIsKept'
    <2>1. /\ p \in Procs /\ App \in Procs /\ \A q \in Procs \ {p} : pc[q] \notin Inside
          /\ pc[App] \notin {"running", "exiting"} /\ pc \in [Procs -> Places]
          /\ scheduled \subseteq Kinds /\ manifest \subseteq Kinds /\ todo[p] \subseteq Kinds
      BY Alone, PutStagedBack DEF Inside
    <2> QED
      BY <2>1, PutStagedBack DEF HomeIsKept, LockInv, ActivationInv,
           SavedInv, HomeInv, IInv, Inside, Replacing, Db, Log, Parts,
           Activatable
  <1>7. CommitIsWhole'
    <2>1. /\ p \in Procs /\ App \in Procs /\ \A q \in Procs \ {p} : pc[q] \notin Inside
          /\ pc[App] \notin {"running", "exiting"} /\ pc \in [Procs -> Places]
          /\ scheduled \subseteq Kinds /\ manifest \subseteq Kinds /\ todo[p] \subseteq Kinds
      BY Alone, PutStagedBack DEF Inside
    <2> QED
      BY <2>1, PutStagedBack DEF CommitIsWhole, LockInv, ActivationInv,
           ScheduleInv, HomeInv, IInv, Inside, Replacing, Db, Log, Parts,
           Activatable
  <1>8. CopyIsKept'
    <2>1. /\ p \in Procs /\ App \in Procs /\ \A q \in Procs \ {p} : pc[q] \notin Inside
          /\ pc[App] \notin {"running", "exiting"} /\ pc \in [Procs -> Places]
          /\ scheduled \subseteq Kinds /\ manifest \subseteq Kinds /\ todo[p] \subseteq Kinds
      BY Alone, PutStagedBack DEF Inside
    <2> QED
      BY <2>1, PutStagedBack DEF CopyIsKept, LockInv, ActivationInv,
           ScheduleInv, DesktopInv, LogInv, CommitIsWhole, HomeInv, IInv,
           Inside, Replacing, Db, Log, Parts, Activatable
  <1> QED
    BY <1>1, <1>2, <1>3, <1>4, <1>5, <1>6, <1>7, <1>8 DEF HomeInv

LEMMA ReadBackupKeepsHome ==
    ASSUME NEW p \in Activators, IInv, HomeInv, ReadBackup(p)
    PROVE  HomeInv'
  <1>1. ScheduleInv'
    BY ProcsAssumption DEF ReadBackup, IInv, HomeInv, ScheduleInv, TypeOK,
         LockInv, DesktopInv, ActivationInv, Goto, Refuse, Procs, Inside,
         Replacing, disk, window, Fault, Activatable, TargetIsEmpty,
         HoldsRows, Db, Log, Database, Parts
  <1>2. DesktopInv'
    BY ProcsAssumption DEF ReadBackup, IInv, HomeInv, DesktopInv, TypeOK,
         LockInv, ScheduleInv, Goto, Refuse, Procs, Inside, disk, window,
         Fault, Db, Log, Database, Parts
  <1>3. ActivationInv'
    BY ProcsAssumption DEF ReadBackup, IInv, HomeInv, ActivationInv, TypeOK,
         LockInv, ScheduleInv, EmptyInv, Goto, Refuse, Procs, Inside,
         Replacing, disk, window, Fault, Activatable, TargetIsEmpty,
         HoldsRows, Db, Database, Parts
  <1>4. SavedInv'
    BY ProcsAssumption DEF ReadBackup, IInv, HomeInv, SavedInv, TypeOK,
         LockInv, LogInv, ActivationInv, Goto, Refuse, Procs, Inside,
         Replacing, disk, window, Fault, Activatable, TargetIsEmpty,
         HoldsRows, Db, Log, Database, Parts
  <1>5. LogInv'
    BY ProcsAssumption DEF ReadBackup, IInv, HomeInv, LogInv, TypeOK,
         LockInv, ScheduleInv, ActivationInv, SavedInv, DesktopInv, Goto,
         Refuse, Procs, Inside, Replacing, disk, window, Fault, Activatable,
         TargetIsEmpty, HoldsRows, Db, Log, Database, Parts
  <1>6. HomeIsKept'
    BY ProcsAssumption DEF ReadBackup, IInv, HomeInv, HomeIsKept, TypeOK,
         LockInv, ActivationInv, SavedInv, Goto, Refuse, Procs, Inside,
         Replacing, disk, window, Fault, Activatable, TargetIsEmpty,
         HoldsRows, Db, Database, Parts
  <1>7. CommitIsWhole'
    BY ProcsAssumption DEF ReadBackup, IInv, HomeInv, CommitIsWhole, TypeOK,
         LockInv, ActivationInv, ScheduleInv, Goto, Refuse, Procs, Inside,
         Replacing, disk, window, Fault, Activatable, TargetIsEmpty,
         HoldsRows, Db, Database, Parts
  <1>8. CopyIsKept'
    BY ProcsAssumption DEF ReadBackup, IInv, HomeInv, CopyIsKept, TypeOK,
         LockInv, ActivationInv, ScheduleInv, DesktopInv, LogInv,
         CommitIsWhole, Goto, Refuse, Procs, Inside, Replacing, disk, window,
         Fault, Activatable, TargetIsEmpty, HoldsRows, Db, Log, Database,
         Parts
  <1> QED
    BY <1>1, <1>2, <1>3, <1>4, <1>5, <1>6, <1>7, <1>8 DEF HomeInv

LEMMA PutBackKeepsHome ==
    ASSUME NEW p \in Activators, NEW k \in Kinds, NEW c \in Parts, IInv, HomeInv, PutBack(p, k, c)
    PROVE  HomeInv'
  <1>1. ScheduleInv'
    <2>1. /\ p \in Procs /\ App \in Procs /\ \A q \in Procs \ {p} : pc[q] \notin Inside
          /\ pc[App] \notin {"running", "exiting"} /\ pc \in [Procs -> Places]
          /\ scheduled \subseteq Kinds /\ manifest \subseteq Kinds /\ todo[p] \subseteq Kinds
      BY Alone, PutFileBack DEF Inside
    <2> QED
      BY <2>1, PutFileBack DEF ScheduleInv, LockInv, DesktopInv,
           ActivationInv, HomeInv, IInv, Inside, Replacing, Db, Log, Parts,
           Activatable
  <1>2. DesktopInv'
    <2>1. /\ p \in Procs /\ App \in Procs /\ \A q \in Procs \ {p} : pc[q] \notin Inside
          /\ pc[App] \notin {"running", "exiting"} /\ pc \in [Procs -> Places]
          /\ scheduled \subseteq Kinds /\ manifest \subseteq Kinds /\ todo[p] \subseteq Kinds
      BY Alone, PutFileBack DEF Inside
    <2> QED
      BY <2>1, PutFileBack DEF DesktopInv, LockInv, ScheduleInv, HomeInv,
           IInv, Inside, Replacing, Db, Log, Parts, Activatable
  <1>3. ActivationInv'
    <2>1. /\ p \in Procs /\ App \in Procs /\ \A q \in Procs \ {p} : pc[q] \notin Inside
          /\ pc[App] \notin {"running", "exiting"} /\ pc \in [Procs -> Places]
          /\ scheduled \subseteq Kinds /\ manifest \subseteq Kinds /\ todo[p] \subseteq Kinds
      BY Alone, PutFileBack DEF Inside
    <2> QED
      BY <2>1, PutFileBack DEF ActivationInv, LockInv, ScheduleInv, EmptyInv,
           HomeInv, IInv, Inside, Replacing, Db, Log, Parts, Activatable
  <1>4. SavedInv'
    <2>1. /\ p \in Procs /\ App \in Procs /\ \A q \in Procs \ {p} : pc[q] \notin Inside
          /\ pc[App] \notin {"running", "exiting"} /\ pc \in [Procs -> Places]
          /\ scheduled \subseteq Kinds /\ manifest \subseteq Kinds /\ todo[p] \subseteq Kinds
      BY Alone, PutFileBack DEF Inside
    <2> QED
      BY <2>1, PutFileBack DEF SavedInv, LockInv, LogInv, ActivationInv,
           HomeInv, IInv, Inside, Replacing, Db, Log, Parts, Activatable
  <1>5. LogInv'
    <2>1. /\ p \in Procs /\ App \in Procs /\ \A q \in Procs \ {p} : pc[q] \notin Inside
          /\ pc[App] \notin {"running", "exiting"} /\ pc \in [Procs -> Places]
          /\ scheduled \subseteq Kinds /\ manifest \subseteq Kinds /\ todo[p] \subseteq Kinds
      BY Alone, PutFileBack DEF Inside
    <2> QED
      BY <2>1, PutFileBack DEF LogInv, LockInv, ScheduleInv, ActivationInv,
           SavedInv, DesktopInv, HomeInv, IInv, Inside, Replacing, Db, Log,
           Parts, Activatable
  <1>6. HomeIsKept'
    <2>1. /\ p \in Procs /\ App \in Procs /\ \A q \in Procs \ {p} : pc[q] \notin Inside
          /\ pc[App] \notin {"running", "exiting"} /\ pc \in [Procs -> Places]
          /\ scheduled \subseteq Kinds /\ manifest \subseteq Kinds /\ todo[p] \subseteq Kinds
      BY Alone, PutFileBack DEF Inside
    <2> QED
      BY <2>1, PutFileBack DEF HomeIsKept, LockInv, ActivationInv, SavedInv,
           HomeInv, IInv, Inside, Replacing, Db, Log, Parts, Activatable
  <1>7. CommitIsWhole'
    <2>1. /\ p \in Procs /\ App \in Procs /\ \A q \in Procs \ {p} : pc[q] \notin Inside
          /\ pc[App] \notin {"running", "exiting"} /\ pc \in [Procs -> Places]
          /\ scheduled \subseteq Kinds /\ manifest \subseteq Kinds /\ todo[p] \subseteq Kinds
      BY Alone, PutFileBack DEF Inside
    <2> QED
      BY <2>1, PutFileBack DEF CommitIsWhole, LockInv, ActivationInv,
           ScheduleInv, HomeInv, IInv, Inside, Replacing, Db, Log, Parts,
           Activatable
  <1>8. CopyIsKept'
    <2>1. /\ p \in Procs /\ App \in Procs /\ \A q \in Procs \ {p} : pc[q] \notin Inside
          /\ pc[App] \notin {"running", "exiting"} /\ pc \in [Procs -> Places]
          /\ scheduled \subseteq Kinds /\ manifest \subseteq Kinds /\ todo[p] \subseteq Kinds
      BY Alone, PutFileBack DEF Inside
    <2> QED
      BY <2>1, PutFileBack DEF CopyIsKept, LockInv, ActivationInv,
           ScheduleInv, DesktopInv, LogInv, CommitIsWhole, HomeInv, IInv,
           Inside, Replacing, Db, Log, Parts, Activatable
  <1> QED
    BY <1>1, <1>2, <1>3, <1>4, <1>5, <1>6, <1>7, <1>8 DEF HomeInv

LEMMA RolledBackKeepsHome ==
    ASSUME NEW p \in Activators, IInv, HomeInv, RolledBack(p)
    PROVE  HomeInv'
  <1>1. ScheduleInv'
    BY ProcsAssumption DEF RolledBack, IInv, HomeInv, ScheduleInv, TypeOK,
         LockInv, DesktopInv, ActivationInv, Goto, Refuse, Procs, Inside,
         Replacing, disk, window, history, Activatable, TargetIsEmpty,
         HoldsRows, Db, Log, Database, Parts
  <1>2. DesktopInv'
    BY ProcsAssumption DEF RolledBack, IInv, HomeInv, DesktopInv, TypeOK,
         LockInv, ScheduleInv, Goto, Refuse, Procs, Inside, disk, window,
         history, Db, Log, Database, Parts
  <1>3. ActivationInv'
    BY ProcsAssumption DEF RolledBack, IInv, HomeInv, ActivationInv, TypeOK,
         LockInv, ScheduleInv, EmptyInv, Goto, Refuse, Procs, Inside,
         Replacing, disk, window, history, Activatable, TargetIsEmpty,
         HoldsRows, Db, Database, Parts
  <1>4. SavedInv'
    BY ProcsAssumption DEF RolledBack, IInv, HomeInv, SavedInv, TypeOK,
         LockInv, LogInv, ActivationInv, Goto, Refuse, Procs, Inside,
         Replacing, disk, window, history, Activatable, TargetIsEmpty,
         HoldsRows, Db, Log, Database, Parts
  <1>5. LogInv'
    BY ProcsAssumption DEF RolledBack, IInv, HomeInv, LogInv, TypeOK,
         LockInv, ScheduleInv, ActivationInv, SavedInv, DesktopInv, Goto,
         Refuse, Procs, Inside, Replacing, disk, window, history,
         Activatable, TargetIsEmpty, HoldsRows, Db, Log, Database, Parts
  <1>6. HomeIsKept'
    BY ProcsAssumption DEF RolledBack, IInv, HomeInv, HomeIsKept, TypeOK,
         LockInv, ActivationInv, SavedInv, Goto, Refuse, Procs, Inside,
         Replacing, disk, window, history, Activatable, TargetIsEmpty,
         HoldsRows, Db, Database, Parts
  <1>7. CommitIsWhole'
    BY ProcsAssumption DEF RolledBack, IInv, HomeInv, CommitIsWhole, TypeOK,
         LockInv, ActivationInv, ScheduleInv, Goto, Refuse, Procs, Inside,
         Replacing, disk, window, history, Activatable, TargetIsEmpty,
         HoldsRows, Db, Database, Parts
  <1>8. CopyIsKept'
    BY ProcsAssumption DEF RolledBack, IInv, HomeInv, CopyIsKept, TypeOK,
         LockInv, ActivationInv, ScheduleInv, DesktopInv, LogInv,
         CommitIsWhole, Goto, Refuse, Procs, Inside, Replacing, disk, window,
         history, Activatable, TargetIsEmpty, HoldsRows, Db, Log, Database,
         Parts
  <1> QED
    BY <1>1, <1>2, <1>3, <1>4, <1>5, <1>6, <1>7, <1>8 DEF HomeInv

LEMMA ReleaseKeepsHome ==
    ASSUME NEW p \in Activators, IInv, HomeInv, Release(p)
    PROVE  HomeInv'
  <1>1. ScheduleInv'
    BY ProcsAssumption DEF Release, IInv, HomeInv, ScheduleInv, TypeOK,
         LockInv, DesktopInv, ActivationInv, Goto, Forget, Procs, Inside,
         Replacing, disk, history, Activatable, TargetIsEmpty, HoldsRows, Db,
         Log, Database, Parts
  <1>2. DesktopInv'
    BY ProcsAssumption DEF Release, IInv, HomeInv, DesktopInv, TypeOK,
         LockInv, ScheduleInv, Goto, Forget, Procs, Inside, disk, history,
         Db, Log, Database, Parts
  <1>3. ActivationInv'
    BY ProcsAssumption DEF Release, IInv, HomeInv, ActivationInv, TypeOK,
         LockInv, ScheduleInv, EmptyInv, Goto, Forget, Procs, Inside,
         Replacing, disk, history, Activatable, TargetIsEmpty, HoldsRows, Db,
         Database, Parts
  <1>4. SavedInv'
    BY ProcsAssumption DEF Release, IInv, HomeInv, SavedInv, TypeOK, LockInv,
         LogInv, ActivationInv, Goto, Forget, Procs, Inside, Replacing, disk,
         history, Activatable, TargetIsEmpty, HoldsRows, Db, Log, Database,
         Parts
  <1>5. LogInv'
    BY ProcsAssumption DEF Release, IInv, HomeInv, LogInv, TypeOK, LockInv,
         ScheduleInv, ActivationInv, SavedInv, DesktopInv, Goto, Forget,
         Procs, Inside, Replacing, disk, history, Activatable, TargetIsEmpty,
         HoldsRows, Db, Log, Database, Parts
  <1>6. HomeIsKept'
    BY ProcsAssumption DEF Release, IInv, HomeInv, HomeIsKept, TypeOK,
         LockInv, ActivationInv, SavedInv, Goto, Forget, Procs, Inside,
         Replacing, disk, history, Activatable, TargetIsEmpty, HoldsRows, Db,
         Database, Parts
  <1>7. CommitIsWhole'
    BY ProcsAssumption DEF Release, IInv, HomeInv, CommitIsWhole, TypeOK,
         LockInv, ActivationInv, ScheduleInv, Goto, Forget, Procs, Inside,
         Replacing, disk, history, Activatable, TargetIsEmpty, HoldsRows, Db,
         Database, Parts
  <1>8. CopyIsKept'
    BY ProcsAssumption DEF Release, IInv, HomeInv, CopyIsKept, TypeOK,
         LockInv, ActivationInv, ScheduleInv, DesktopInv, LogInv,
         CommitIsWhole, Goto, Forget, Procs, Inside, Replacing, disk,
         history, Activatable, TargetIsEmpty, HoldsRows, Db, Log, Database,
         Parts
  <1> QED
    BY <1>1, <1>2, <1>3, <1>4, <1>5, <1>6, <1>7, <1>8 DEF HomeInv

LEMMA RespawnKeepsHome ==
    ASSUME NEW h \in Helpers, IInv, HomeInv, Respawn(h)
    PROVE  HomeInv'
  <1>1. ScheduleInv'
    BY ProcsAssumption DEF Respawn, IInv, HomeInv, ScheduleInv, TypeOK,
         LockInv, DesktopInv, ActivationInv, Goto, Procs, Inside, Replacing,
         disk, window, history, StartApp, Activatable, TargetIsEmpty,
         HoldsRows, Db, Log, Database, Parts
  <1>2. DesktopInv'
    BY ProcsAssumption DEF Respawn, IInv, HomeInv, DesktopInv, TypeOK,
         LockInv, ScheduleInv, Goto, Procs, Inside, disk, window, history,
         StartApp, Db, Log, Database, Parts
  <1>3. ActivationInv'
    BY ProcsAssumption DEF Respawn, IInv, HomeInv, ActivationInv, TypeOK,
         LockInv, ScheduleInv, EmptyInv, Goto, Procs, Inside, Replacing,
         disk, window, history, StartApp, Activatable, TargetIsEmpty,
         HoldsRows, Db, Database, Parts
  <1>4. SavedInv'
    BY ProcsAssumption DEF Respawn, IInv, HomeInv, SavedInv, TypeOK, LockInv,
         LogInv, ActivationInv, Goto, Procs, Inside, Replacing, disk, window,
         history, StartApp, Activatable, TargetIsEmpty, HoldsRows, Db, Log,
         Database, Parts
  <1>5. LogInv'
    BY ProcsAssumption DEF Respawn, IInv, HomeInv, LogInv, TypeOK, LockInv,
         ScheduleInv, ActivationInv, SavedInv, DesktopInv, Goto, Procs,
         Inside, Replacing, disk, window, history, StartApp, Activatable,
         TargetIsEmpty, HoldsRows, Db, Log, Database, Parts
  <1>6. HomeIsKept'
    BY ProcsAssumption DEF Respawn, IInv, HomeInv, HomeIsKept, TypeOK,
         LockInv, ActivationInv, SavedInv, Goto, Procs, Inside, Replacing,
         disk, window, history, StartApp, Activatable, TargetIsEmpty,
         HoldsRows, Db, Database, Parts
  <1>7. CommitIsWhole'
    BY ProcsAssumption DEF Respawn, IInv, HomeInv, CommitIsWhole, TypeOK,
         LockInv, ActivationInv, ScheduleInv, Goto, Procs, Inside, Replacing,
         disk, window, history, StartApp, Activatable, TargetIsEmpty,
         HoldsRows, Db, Database, Parts
  <1>8. CopyIsKept'
    BY ProcsAssumption DEF Respawn, IInv, HomeInv, CopyIsKept, TypeOK,
         LockInv, ActivationInv, ScheduleInv, DesktopInv, LogInv,
         CommitIsWhole, Goto, Procs, Inside, Replacing, disk, window,
         history, StartApp, Activatable, TargetIsEmpty, HoldsRows, Db, Log,
         Database, Parts
  <1> QED
    BY <1>1, <1>2, <1>3, <1>4, <1>5, <1>6, <1>7, <1>8 DEF HomeInv

LEMMA AppStartsKeepsHome ==
    ASSUME IInv, HomeInv, AppStarts
    PROVE  HomeInv'
  <1>1. ScheduleInv'
    BY ProcsAssumption DEF AppStarts, IInv, HomeInv, ScheduleInv, TypeOK,
         LockInv, DesktopInv, ActivationInv, Goto, Procs, Inside, Replacing,
         disk, history, StartApp, Activatable, TargetIsEmpty, HoldsRows, Db,
         Log, Database, Parts
  <1>2. DesktopInv'
    BY ProcsAssumption DEF AppStarts, IInv, HomeInv, DesktopInv, TypeOK,
         LockInv, ScheduleInv, Goto, Procs, Inside, disk, history, StartApp,
         Db, Log, Database, Parts
  <1>3. ActivationInv'
    BY ProcsAssumption DEF AppStarts, IInv, HomeInv, ActivationInv, TypeOK,
         LockInv, ScheduleInv, EmptyInv, Goto, Procs, Inside, Replacing,
         disk, history, StartApp, Activatable, TargetIsEmpty, HoldsRows, Db,
         Database, Parts
  <1>4. SavedInv'
    BY ProcsAssumption DEF AppStarts, IInv, HomeInv, SavedInv, TypeOK,
         LockInv, LogInv, ActivationInv, Goto, Procs, Inside, Replacing,
         disk, history, StartApp, Activatable, TargetIsEmpty, HoldsRows, Db,
         Log, Database, Parts
  <1>5. LogInv'
    BY ProcsAssumption DEF AppStarts, IInv, HomeInv, LogInv, TypeOK, LockInv,
         ScheduleInv, ActivationInv, SavedInv, DesktopInv, Goto, Procs,
         Inside, Replacing, disk, history, StartApp, Activatable,
         TargetIsEmpty, HoldsRows, Db, Log, Database, Parts
  <1>6. HomeIsKept'
    BY ProcsAssumption DEF AppStarts, IInv, HomeInv, HomeIsKept, TypeOK,
         LockInv, ActivationInv, SavedInv, Goto, Procs, Inside, Replacing,
         disk, history, StartApp, Activatable, TargetIsEmpty, HoldsRows, Db,
         Database, Parts
  <1>7. CommitIsWhole'
    BY ProcsAssumption DEF AppStarts, IInv, HomeInv, CommitIsWhole, TypeOK,
         LockInv, ActivationInv, ScheduleInv, Goto, Procs, Inside, Replacing,
         disk, history, StartApp, Activatable, TargetIsEmpty, HoldsRows, Db,
         Database, Parts
  <1>8. CopyIsKept'
    BY ProcsAssumption DEF AppStarts, IInv, HomeInv, CopyIsKept, TypeOK,
         LockInv, ActivationInv, ScheduleInv, DesktopInv, LogInv,
         CommitIsWhole, Goto, Procs, Inside, Replacing, disk, history,
         StartApp, Activatable, TargetIsEmpty, HoldsRows, Db, Log, Database,
         Parts
  <1> QED
    BY <1>1, <1>2, <1>3, <1>4, <1>5, <1>6, <1>7, <1>8 DEF HomeInv

LEMMA HasPendingKeepsHome ==
    ASSUME IInv, HomeInv, HasPending
    PROVE  HomeInv'
  <1>1. ScheduleInv'
    BY ProcsAssumption DEF HasPending, IInv, HomeInv, ScheduleInv, TypeOK,
         LockInv, DesktopInv, ActivationInv, Goto, Procs, Inside, Replacing,
         disk, window, history, Activatable, TargetIsEmpty, HoldsRows, Db,
         Log, Database, Parts
  <1>2. DesktopInv'
    BY ProcsAssumption DEF HasPending, IInv, HomeInv, DesktopInv, TypeOK,
         LockInv, ScheduleInv, Goto, Procs, Inside, disk, window, history,
         Db, Log, Database, Parts
  <1>3. ActivationInv'
    BY ProcsAssumption DEF HasPending, IInv, HomeInv, ActivationInv, TypeOK,
         LockInv, ScheduleInv, EmptyInv, Goto, Procs, Inside, Replacing,
         disk, window, history, Activatable, TargetIsEmpty, HoldsRows, Db,
         Database, Parts
  <1>4. SavedInv'
    BY ProcsAssumption DEF HasPending, IInv, HomeInv, SavedInv, TypeOK,
         LockInv, LogInv, ActivationInv, Goto, Procs, Inside, Replacing,
         disk, window, history, Activatable, TargetIsEmpty, HoldsRows, Db,
         Log, Database, Parts
  <1>5. LogInv'
    BY ProcsAssumption DEF HasPending, IInv, HomeInv, LogInv, TypeOK,
         LockInv, ScheduleInv, ActivationInv, SavedInv, DesktopInv, Goto,
         Procs, Inside, Replacing, disk, window, history, Activatable,
         TargetIsEmpty, HoldsRows, Db, Log, Database, Parts
  <1>6. HomeIsKept'
    BY ProcsAssumption DEF HasPending, IInv, HomeInv, HomeIsKept, TypeOK,
         LockInv, ActivationInv, SavedInv, Goto, Procs, Inside, Replacing,
         disk, window, history, Activatable, TargetIsEmpty, HoldsRows, Db,
         Database, Parts
  <1>7. CommitIsWhole'
    BY ProcsAssumption DEF HasPending, IInv, HomeInv, CommitIsWhole, TypeOK,
         LockInv, ActivationInv, ScheduleInv, Goto, Procs, Inside, Replacing,
         disk, window, history, Activatable, TargetIsEmpty, HoldsRows, Db,
         Database, Parts
  <1>8. CopyIsKept'
    BY ProcsAssumption DEF HasPending, IInv, HomeInv, CopyIsKept, TypeOK,
         LockInv, ActivationInv, ScheduleInv, DesktopInv, LogInv,
         CommitIsWhole, Goto, Procs, Inside, Replacing, disk, window,
         history, Activatable, TargetIsEmpty, HoldsRows, Db, Log, Database,
         Parts
  <1> QED
    BY <1>1, <1>2, <1>3, <1>4, <1>5, <1>6, <1>7, <1>8 DEF HomeInv

LEMMA AppOpensKeepsHome ==
    ASSUME IInv, HomeInv, AppOpens
    PROVE  HomeInv'
  <1>1. ScheduleInv'
    BY ProcsAssumption DEF AppOpens, IInv, HomeInv, ScheduleInv, TypeOK,
         LockInv, DesktopInv, ActivationInv, Goto, Procs, Inside, Replacing,
         history, Activatable, TargetIsEmpty, HoldsRows, Db, Log, Database,
         Parts, Opened, Files
  <1>2. DesktopInv'
    <2>1. pc[App] = "opening" /\ App \in Procs /\ pc \in [Procs -> Places] /\ importing = "no"
      BY DEF AppOpens, IInv, TypeOK, Procs, HomeInv, DesktopInv
    <2>2. UNCHANGED <<importing, manifest>>
      BY DEF AppOpens
    <2>3. CASE lock = Nobody
      <3>1. /\ pc'[App] = "running" /\ restart' = (manifest # {})
            /\ target' = [k \in Kinds |-> Opened(target[k])]
        BY <2>1, <2>3 DEF AppOpens, Goto
      <3>2. \A k \in Kinds : Db(k)' # "none" /\ Log(k)' # "none"
        BY <3>1 DEF Opened, Files, Parts, Db, Log
      <3> QED
        BY <2>1, <2>2, <3>1, <3>2 DEF DesktopInv
    <2>4. CASE lock # Nobody
      BY <2>1, <2>2, <2>4 DEF AppOpens, Goto, DesktopInv
    <2> QED
      BY <2>3, <2>4
  <1>3. ActivationInv'
    BY ProcsAssumption DEF AppOpens, IInv, HomeInv, ActivationInv, TypeOK,
         LockInv, ScheduleInv, EmptyInv, Goto, Procs, Inside, Replacing,
         history, Activatable, TargetIsEmpty, HoldsRows, Db, Database, Parts,
         Opened, Files
  <1>4. SavedInv'
    BY ProcsAssumption DEF AppOpens, IInv, HomeInv, SavedInv, TypeOK,
         LockInv, LogInv, ActivationInv, Goto, Procs, Inside, Replacing,
         history, Activatable, TargetIsEmpty, HoldsRows, Db, Log, Database,
         Parts, Opened, Files
  <1>5. LogInv'
    BY ProcsAssumption DEF AppOpens, IInv, HomeInv, LogInv, TypeOK, LockInv,
         ScheduleInv, ActivationInv, SavedInv, DesktopInv, Goto, Procs,
         Inside, Replacing, history, Activatable, TargetIsEmpty, HoldsRows,
         Db, Log, Database, Parts, Opened, Files
  <1>6. HomeIsKept'
    BY ProcsAssumption DEF AppOpens, IInv, HomeInv, HomeIsKept, TypeOK,
         LockInv, ActivationInv, SavedInv, Goto, Procs, Inside, Replacing,
         history, Activatable, TargetIsEmpty, HoldsRows, Db, Database, Parts,
         Opened, Files
  <1>7. CommitIsWhole'
    BY ProcsAssumption DEF AppOpens, IInv, HomeInv, CommitIsWhole, TypeOK,
         LockInv, ActivationInv, ScheduleInv, Goto, Procs, Inside, Replacing,
         history, Activatable, TargetIsEmpty, HoldsRows, Db, Database, Parts,
         Opened, Files
  <1>8. CopyIsKept'
    BY ProcsAssumption DEF AppOpens, IInv, HomeInv, CopyIsKept, TypeOK,
         LockInv, ActivationInv, ScheduleInv, DesktopInv, LogInv,
         CommitIsWhole, Goto, Procs, Inside, Replacing, history, Activatable,
         TargetIsEmpty, HoldsRows, Db, Log, Database, Parts, Opened, Files
  <1> QED
    BY <1>1, <1>2, <1>3, <1>4, <1>5, <1>6, <1>7, <1>8 DEF HomeInv

LEMMA UserWritesKeepsHome ==
    ASSUME NEW k \in Kinds, IInv, HomeInv, UserWrites(k)
    PROVE  HomeInv'
  <1>1. ScheduleInv'
    BY ProcsAssumption DEF UserWrites, IInv, HomeInv, ScheduleInv, TypeOK,
         LockInv, DesktopInv, ActivationInv, Procs, Inside, Replacing, procs,
         window, history, Activatable, TargetIsEmpty, HoldsRows, Db, Log,
         Database, Parts
  <1>2. DesktopInv'
    BY ProcsAssumption DEF UserWrites, IInv, HomeInv, DesktopInv, TypeOK,
         LockInv, ScheduleInv, Procs, Inside, procs, window, history, Db,
         Log, Database, Parts
  <1>3. ActivationInv'
    BY ProcsAssumption DEF UserWrites, IInv, HomeInv, ActivationInv, TypeOK,
         LockInv, ScheduleInv, EmptyInv, Procs, Inside, Replacing, procs,
         window, history, Activatable, TargetIsEmpty, HoldsRows, Db,
         Database, Parts
  <1>4. SavedInv'
    BY ProcsAssumption DEF UserWrites, IInv, HomeInv, SavedInv, TypeOK,
         LockInv, LogInv, ActivationInv, Procs, Inside, Replacing, procs,
         window, history, Activatable, TargetIsEmpty, HoldsRows, Db, Log,
         Database, Parts
  <1>5. LogInv'
    BY ProcsAssumption DEF UserWrites, IInv, HomeInv, LogInv, TypeOK,
         LockInv, ScheduleInv, ActivationInv, SavedInv, DesktopInv, Procs,
         Inside, Replacing, procs, window, history, Activatable,
         TargetIsEmpty, HoldsRows, Db, Log, Database, Parts
  <1>6. HomeIsKept'
    BY ProcsAssumption DEF UserWrites, IInv, HomeInv, HomeIsKept, TypeOK,
         LockInv, ActivationInv, SavedInv, Procs, Inside, Replacing, procs,
         window, history, Activatable, TargetIsEmpty, HoldsRows, Db,
         Database, Parts
  <1>7. CommitIsWhole'
    BY ProcsAssumption DEF UserWrites, IInv, HomeInv, CommitIsWhole, TypeOK,
         LockInv, ActivationInv, ScheduleInv, Procs, Inside, Replacing,
         procs, window, history, Activatable, TargetIsEmpty, HoldsRows, Db,
         Database, Parts
  <1>8. CopyIsKept'
    BY ProcsAssumption DEF UserWrites, IInv, HomeInv, CopyIsKept, TypeOK,
         LockInv, ActivationInv, ScheduleInv, DesktopInv, LogInv,
         CommitIsWhole, Procs, Inside, Replacing, procs, window, history,
         Activatable, TargetIsEmpty, HoldsRows, Db, Log, Database, Parts
  <1> QED
    BY <1>1, <1>2, <1>3, <1>4, <1>5, <1>6, <1>7, <1>8 DEF HomeInv

LEMMA PlanImportKeepsHome ==
    ASSUME IInv, HomeInv, PlanImport
    PROVE  HomeInv'
  <1>1. ScheduleInv'
    BY ProcsAssumption DEF PlanImport, IInv, HomeInv, ScheduleInv, TypeOK,
         LockInv, DesktopInv, ActivationInv, Procs, Inside, Replacing, procs,
         history, Activatable, TargetIsEmpty, HoldsRows, Db, Log, Database,
         Parts
  <1>2. DesktopInv'
    BY ProcsAssumption DEF PlanImport, IInv, HomeInv, DesktopInv, TypeOK,
         LockInv, ScheduleInv, Procs, Inside, procs, history, TargetIsEmpty,
         HoldsRows, Db, Log, Database, Parts
  <1>3. ActivationInv'
    BY ProcsAssumption DEF PlanImport, IInv, HomeInv, ActivationInv, TypeOK,
         LockInv, ScheduleInv, EmptyInv, Procs, Inside, Replacing, procs,
         history, Activatable, TargetIsEmpty, HoldsRows, Db, Database, Parts
  <1>4. SavedInv'
    BY ProcsAssumption DEF PlanImport, IInv, HomeInv, SavedInv, TypeOK,
         LockInv, LogInv, ActivationInv, Procs, Inside, Replacing, procs,
         history, Activatable, TargetIsEmpty, HoldsRows, Db, Log, Database,
         Parts
  <1>5. LogInv'
    BY ProcsAssumption DEF PlanImport, IInv, HomeInv, LogInv, TypeOK,
         LockInv, ScheduleInv, ActivationInv, SavedInv, DesktopInv, Procs,
         Inside, Replacing, procs, history, Activatable, TargetIsEmpty,
         HoldsRows, Db, Log, Database, Parts
  <1>6. HomeIsKept'
    BY ProcsAssumption DEF PlanImport, IInv, HomeInv, HomeIsKept, TypeOK,
         LockInv, ActivationInv, SavedInv, Procs, Inside, Replacing, procs,
         history, Activatable, TargetIsEmpty, HoldsRows, Db, Database, Parts
  <1>7. CommitIsWhole'
    BY ProcsAssumption DEF PlanImport, IInv, HomeInv, CommitIsWhole, TypeOK,
         LockInv, ActivationInv, ScheduleInv, Procs, Inside, Replacing,
         procs, history, Activatable, TargetIsEmpty, HoldsRows, Db, Database,
         Parts
  <1>8. CopyIsKept'
    BY ProcsAssumption DEF PlanImport, IInv, HomeInv, CopyIsKept, TypeOK,
         LockInv, ActivationInv, ScheduleInv, DesktopInv, LogInv,
         CommitIsWhole, Procs, Inside, Replacing, procs, history,
         Activatable, TargetIsEmpty, HoldsRows, Db, Log, Database, Parts
  <1> QED
    BY <1>1, <1>2, <1>3, <1>4, <1>5, <1>6, <1>7, <1>8 DEF HomeInv

LEMMA StageImportKeepsHome ==
    ASSUME NEW copied \in SUBSET Kinds, IInv, HomeInv, StageImport(copied)
    PROVE  HomeInv'
  <1>1. ScheduleInv'
    BY ProcsAssumption DEF StageImport, IInv, HomeInv, ScheduleInv, TypeOK,
         LockInv, DesktopInv, ActivationInv, Procs, Inside, Replacing, procs,
         history, Activatable, TargetIsEmpty, HoldsRows, Db, Log, Database,
         Parts
  <1>2. DesktopInv'
    BY ProcsAssumption DEF StageImport, IInv, HomeInv, DesktopInv, TypeOK,
         LockInv, ScheduleInv, Procs, Inside, procs, history, Db, Log,
         Database, Parts
  <1>3. ActivationInv'
    BY ProcsAssumption DEF StageImport, IInv, HomeInv, ActivationInv, TypeOK,
         LockInv, ScheduleInv, EmptyInv, Procs, Inside, Replacing, procs,
         history, Activatable, TargetIsEmpty, HoldsRows, Db, Database, Parts
  <1>4. SavedInv'
    BY ProcsAssumption DEF StageImport, IInv, HomeInv, SavedInv, TypeOK,
         LockInv, LogInv, ActivationInv, Procs, Inside, Replacing, procs,
         history, Activatable, TargetIsEmpty, HoldsRows, Db, Log, Database,
         Parts
  <1>5. LogInv'
    BY ProcsAssumption DEF StageImport, IInv, HomeInv, LogInv, TypeOK,
         LockInv, ScheduleInv, ActivationInv, SavedInv, DesktopInv, Procs,
         Inside, Replacing, procs, history, Activatable, TargetIsEmpty,
         HoldsRows, Db, Log, Database, Parts
  <1>6. HomeIsKept'
    BY ProcsAssumption DEF StageImport, IInv, HomeInv, HomeIsKept, TypeOK,
         LockInv, ActivationInv, SavedInv, Procs, Inside, Replacing, procs,
         history, Activatable, TargetIsEmpty, HoldsRows, Db, Database, Parts
  <1>7. CommitIsWhole'
    BY ProcsAssumption DEF StageImport, IInv, HomeInv, CommitIsWhole, TypeOK,
         LockInv, ActivationInv, ScheduleInv, Procs, Inside, Replacing,
         procs, history, Activatable, TargetIsEmpty, HoldsRows, Db, Database,
         Parts
  <1>8. CopyIsKept'
    BY ProcsAssumption DEF StageImport, IInv, HomeInv, CopyIsKept, TypeOK,
         LockInv, ActivationInv, ScheduleInv, DesktopInv, LogInv,
         CommitIsWhole, Procs, Inside, Replacing, procs, history,
         Activatable, TargetIsEmpty, HoldsRows, Db, Log, Database, Parts
  <1> QED
    BY <1>1, <1>2, <1>3, <1>4, <1>5, <1>6, <1>7, <1>8 DEF HomeInv

LEMMA ScheduleKeepsHome ==
    ASSUME IInv, HomeInv, Schedule
    PROVE  HomeInv'
  <1>1. ScheduleInv'
    BY ProcsAssumption DEF Schedule, IInv, HomeInv, ScheduleInv, TypeOK,
         LockInv, DesktopInv, ActivationInv, Procs, Inside, Replacing, procs,
         Fault, Activatable, TargetIsEmpty, HoldsRows, Db, Log, Database,
         Parts
  <1>2. DesktopInv'
    BY ProcsAssumption DEF Schedule, IInv, HomeInv, DesktopInv, TypeOK,
         LockInv, ScheduleInv, Procs, Inside, procs, Fault, Db, Log,
         Database, Parts
  <1>3. ActivationInv'
    BY ProcsAssumption DEF Schedule, IInv, HomeInv, ActivationInv, TypeOK,
         LockInv, ScheduleInv, EmptyInv, Procs, Inside, Replacing, procs,
         Fault, Activatable, TargetIsEmpty, HoldsRows, Db, Database, Parts
  <1>4. SavedInv'
    BY ProcsAssumption DEF Schedule, IInv, HomeInv, SavedInv, TypeOK,
         LockInv, LogInv, ActivationInv, Procs, Inside, Replacing, procs,
         Fault, Activatable, TargetIsEmpty, HoldsRows, Db, Log, Database,
         Parts
  <1>5. LogInv'
    BY ProcsAssumption DEF Schedule, IInv, HomeInv, LogInv, TypeOK, LockInv,
         ScheduleInv, ActivationInv, SavedInv, DesktopInv, Procs, Inside,
         Replacing, procs, Fault, Activatable, TargetIsEmpty, HoldsRows, Db,
         Log, Database, Parts
  <1>6. HomeIsKept'
    BY ProcsAssumption DEF Schedule, IInv, HomeInv, HomeIsKept, TypeOK,
         LockInv, ActivationInv, SavedInv, Procs, Inside, Replacing, procs,
         Fault, Activatable, TargetIsEmpty, HoldsRows, Db, Database, Parts
  <1>7. CommitIsWhole'
    BY ProcsAssumption DEF Schedule, IInv, HomeInv, CommitIsWhole, TypeOK,
         LockInv, ActivationInv, ScheduleInv, Procs, Inside, Replacing,
         procs, Fault, Activatable, TargetIsEmpty, HoldsRows, Db, Database,
         Parts
  <1>8. CopyIsKept'
    BY ProcsAssumption DEF Schedule, IInv, HomeInv, CopyIsKept, TypeOK,
         LockInv, ActivationInv, ScheduleInv, DesktopInv, LogInv,
         CommitIsWhole, Procs, Inside, Replacing, procs, Fault, Activatable,
         TargetIsEmpty, HoldsRows, Db, Log, Database, Parts
  <1> QED
    BY <1>1, <1>2, <1>3, <1>4, <1>5, <1>6, <1>7, <1>8 DEF HomeInv

LEMMA ResetImportKeepsHome ==
    ASSUME IInv, HomeInv, ResetImport
    PROVE  HomeInv'
  <1>1. ScheduleInv'
    BY ProcsAssumption DEF ResetImport, IInv, HomeInv, ScheduleInv, TypeOK,
         LockInv, DesktopInv, ActivationInv, Procs, Inside, Replacing, procs,
         history, Activatable, TargetIsEmpty, HoldsRows, Db, Log, Database,
         Parts
  <1>2. DesktopInv'
    BY ProcsAssumption DEF ResetImport, IInv, HomeInv, DesktopInv, TypeOK,
         LockInv, ScheduleInv, Procs, Inside, procs, history, Db, Log,
         Database, Parts
  <1>3. ActivationInv'
    BY ProcsAssumption DEF ResetImport, IInv, HomeInv, ActivationInv, TypeOK,
         LockInv, ScheduleInv, EmptyInv, Procs, Inside, Replacing, procs,
         history, Activatable, TargetIsEmpty, HoldsRows, Db, Database, Parts
  <1>4. SavedInv'
    BY ProcsAssumption DEF ResetImport, IInv, HomeInv, SavedInv, TypeOK,
         LockInv, LogInv, ActivationInv, Procs, Inside, Replacing, procs,
         history, Activatable, TargetIsEmpty, HoldsRows, Db, Log, Database,
         Parts
  <1>5. LogInv'
    BY ProcsAssumption DEF ResetImport, IInv, HomeInv, LogInv, TypeOK,
         LockInv, ScheduleInv, ActivationInv, SavedInv, DesktopInv, Procs,
         Inside, Replacing, procs, history, Activatable, TargetIsEmpty,
         HoldsRows, Db, Log, Database, Parts
  <1>6. HomeIsKept'
    BY ProcsAssumption DEF ResetImport, IInv, HomeInv, HomeIsKept, TypeOK,
         LockInv, ActivationInv, SavedInv, Procs, Inside, Replacing, procs,
         history, Activatable, TargetIsEmpty, HoldsRows, Db, Database, Parts
  <1>7. CommitIsWhole'
    BY ProcsAssumption DEF ResetImport, IInv, HomeInv, CommitIsWhole, TypeOK,
         LockInv, ActivationInv, ScheduleInv, Procs, Inside, Replacing,
         procs, history, Activatable, TargetIsEmpty, HoldsRows, Db, Database,
         Parts
  <1>8. CopyIsKept'
    BY ProcsAssumption DEF ResetImport, IInv, HomeInv, CopyIsKept, TypeOK,
         LockInv, ActivationInv, ScheduleInv, DesktopInv, LogInv,
         CommitIsWhole, Procs, Inside, Replacing, procs, history,
         Activatable, TargetIsEmpty, HoldsRows, Db, Log, Database, Parts
  <1> QED
    BY <1>1, <1>2, <1>3, <1>4, <1>5, <1>6, <1>7, <1>8 DEF HomeInv

LEMMA RestartForImportKeepsHome ==
    ASSUME NEW h \in Helpers, IInv, HomeInv, RestartForImport(h)
    PROVE  HomeInv'
  <1>1. ScheduleInv'
    BY ProcsAssumption DEF RestartForImport, IInv, HomeInv, ScheduleInv,
         TypeOK, LockInv, DesktopInv, ActivationInv, Procs, Inside,
         Replacing, disk, window, history, Activatable, TargetIsEmpty,
         HoldsRows, Db, Log, Database, Parts
  <1>2. DesktopInv'
    BY ProcsAssumption DEF RestartForImport, IInv, HomeInv, DesktopInv,
         TypeOK, LockInv, ScheduleInv, Procs, Inside, disk, window, history,
         Db, Log, Database, Parts
  <1>3. ActivationInv'
    BY ProcsAssumption DEF RestartForImport, IInv, HomeInv, ActivationInv,
         TypeOK, LockInv, ScheduleInv, EmptyInv, Procs, Inside, Replacing,
         disk, window, history, Activatable, TargetIsEmpty, HoldsRows, Db,
         Database, Parts
  <1>4. SavedInv'
    BY ProcsAssumption DEF RestartForImport, IInv, HomeInv, SavedInv, TypeOK,
         LockInv, LogInv, ActivationInv, Procs, Inside, Replacing, disk,
         window, history, Activatable, TargetIsEmpty, HoldsRows, Db, Log,
         Database, Parts
  <1>5. LogInv'
    BY ProcsAssumption DEF RestartForImport, IInv, HomeInv, LogInv, TypeOK,
         LockInv, ScheduleInv, ActivationInv, SavedInv, DesktopInv, Procs,
         Inside, Replacing, disk, window, history, Activatable,
         TargetIsEmpty, HoldsRows, Db, Log, Database, Parts
  <1>6. HomeIsKept'
    BY ProcsAssumption DEF RestartForImport, IInv, HomeInv, HomeIsKept,
         TypeOK, LockInv, ActivationInv, SavedInv, Procs, Inside, Replacing,
         disk, window, history, Activatable, TargetIsEmpty, HoldsRows, Db,
         Database, Parts
  <1>7. CommitIsWhole'
    BY ProcsAssumption DEF RestartForImport, IInv, HomeInv, CommitIsWhole,
         TypeOK, LockInv, ActivationInv, ScheduleInv, Procs, Inside,
         Replacing, disk, window, history, Activatable, TargetIsEmpty,
         HoldsRows, Db, Database, Parts
  <1>8. CopyIsKept'
    BY ProcsAssumption DEF RestartForImport, IInv, HomeInv, CopyIsKept,
         TypeOK, LockInv, ActivationInv, ScheduleInv, DesktopInv, LogInv,
         CommitIsWhole, Procs, Inside, Replacing, disk, window, history,
         Activatable, TargetIsEmpty, HoldsRows, Db, Log, Database, Parts
  <1> QED
    BY <1>1, <1>2, <1>3, <1>4, <1>5, <1>6, <1>7, <1>8 DEF HomeInv

LEMMA AppExitsKeepsHome ==
    ASSUME IInv, HomeInv, AppExits
    PROVE  HomeInv'
  <1>1. ScheduleInv'
    BY ProcsAssumption DEF AppExits, IInv, HomeInv, ScheduleInv, TypeOK,
         LockInv, DesktopInv, ActivationInv, Goto, Procs, Inside, Replacing,
         window, history, Activatable, TargetIsEmpty, HoldsRows, Db, Log,
         Database, Parts
  <1>2. DesktopInv'
    BY ProcsAssumption DEF AppExits, IInv, HomeInv, DesktopInv, TypeOK,
         LockInv, ScheduleInv, Goto, Procs, Inside, window, history, Db, Log,
         Database, Parts
  <1>3. ActivationInv'
    BY ProcsAssumption DEF AppExits, IInv, HomeInv, ActivationInv, TypeOK,
         LockInv, ScheduleInv, EmptyInv, Goto, Procs, Inside, Replacing,
         window, history, Activatable, TargetIsEmpty, HoldsRows, Db,
         Database, Parts
  <1>4. SavedInv'
    BY ProcsAssumption DEF AppExits, IInv, HomeInv, SavedInv, TypeOK,
         LockInv, LogInv, ActivationInv, Goto, Procs, Inside, Replacing,
         window, history, Activatable, TargetIsEmpty, HoldsRows, Db, Log,
         Database, Parts
  <1>5. LogInv'
    BY ProcsAssumption DEF AppExits, IInv, HomeInv, LogInv, TypeOK, LockInv,
         ScheduleInv, ActivationInv, SavedInv, DesktopInv, Goto, Procs,
         Inside, Replacing, window, history, Activatable, TargetIsEmpty,
         HoldsRows, Db, Log, Database, Parts
  <1>6. HomeIsKept'
    BY ProcsAssumption DEF AppExits, IInv, HomeInv, HomeIsKept, TypeOK,
         LockInv, ActivationInv, SavedInv, Goto, Procs, Inside, Replacing,
         window, history, Activatable, TargetIsEmpty, HoldsRows, Db,
         Database, Parts
  <1>7. CommitIsWhole'
    BY ProcsAssumption DEF AppExits, IInv, HomeInv, CommitIsWhole, TypeOK,
         LockInv, ActivationInv, ScheduleInv, Goto, Procs, Inside, Replacing,
         window, history, Activatable, TargetIsEmpty, HoldsRows, Db,
         Database, Parts
  <1>8. CopyIsKept'
    BY ProcsAssumption DEF AppExits, IInv, HomeInv, CopyIsKept, TypeOK,
         LockInv, ActivationInv, ScheduleInv, DesktopInv, LogInv,
         CommitIsWhole, Goto, Procs, Inside, Replacing, window, history,
         Activatable, TargetIsEmpty, HoldsRows, Db, Log, Database, Parts
  <1> QED
    BY <1>1, <1>2, <1>3, <1>4, <1>5, <1>6, <1>7, <1>8 DEF HomeInv

LEMMA CliStartsKeepsHome ==
    ASSUME NEW ready \in SUBSET Kinds, IInv, HomeInv, CliStarts(ready)
    PROVE  HomeInv'
  <1>1. ScheduleInv'
    BY ProcsAssumption DEF CliStarts, IInv, HomeInv, ScheduleInv, TypeOK,
         LockInv, DesktopInv, ActivationInv, Goto, Procs, Inside, Replacing,
         disk, window, history, Activatable, TargetIsEmpty, HoldsRows, Db,
         Log, Database, Parts
  <1>2. DesktopInv'
    BY ProcsAssumption DEF CliStarts, IInv, HomeInv, DesktopInv, TypeOK,
         LockInv, ScheduleInv, Goto, Procs, Inside, disk, window, history,
         Db, Log, Database, Parts
  <1>3. ActivationInv'
    BY ProcsAssumption DEF CliStarts, IInv, HomeInv, ActivationInv, TypeOK,
         LockInv, ScheduleInv, EmptyInv, Goto, Procs, Inside, Replacing,
         disk, window, history, Activatable, TargetIsEmpty, HoldsRows, Db,
         Database, Parts
  <1>4. SavedInv'
    BY ProcsAssumption DEF CliStarts, IInv, HomeInv, SavedInv, TypeOK,
         LockInv, LogInv, ActivationInv, Goto, Procs, Inside, Replacing,
         disk, window, history, Activatable, TargetIsEmpty, HoldsRows, Db,
         Log, Database, Parts
  <1>5. LogInv'
    BY ProcsAssumption DEF CliStarts, IInv, HomeInv, LogInv, TypeOK, LockInv,
         ScheduleInv, ActivationInv, SavedInv, DesktopInv, Goto, Procs,
         Inside, Replacing, disk, window, history, Activatable,
         TargetIsEmpty, HoldsRows, Db, Log, Database, Parts
  <1>6. HomeIsKept'
    BY ProcsAssumption DEF CliStarts, IInv, HomeInv, HomeIsKept, TypeOK,
         LockInv, ActivationInv, SavedInv, Goto, Procs, Inside, Replacing,
         disk, window, history, Activatable, TargetIsEmpty, HoldsRows, Db,
         Database, Parts
  <1>7. CommitIsWhole'
    BY ProcsAssumption DEF CliStarts, IInv, HomeInv, CommitIsWhole, TypeOK,
         LockInv, ActivationInv, ScheduleInv, Goto, Procs, Inside, Replacing,
         disk, window, history, Activatable, TargetIsEmpty, HoldsRows, Db,
         Database, Parts
  <1>8. CopyIsKept'
    BY ProcsAssumption DEF CliStarts, IInv, HomeInv, CopyIsKept, TypeOK,
         LockInv, ActivationInv, ScheduleInv, DesktopInv, LogInv,
         CommitIsWhole, Goto, Procs, Inside, Replacing, disk, window,
         history, Activatable, TargetIsEmpty, HoldsRows, Db, Log, Database,
         Parts
  <1> QED
    BY <1>1, <1>2, <1>3, <1>4, <1>5, <1>6, <1>7, <1>8 DEF HomeInv

LEMMA CliCopiesKeepsHome ==
    ASSUME NEW k \in Kinds, IInv, HomeInv, CliCopies(k)
    PROVE  HomeInv'
  <1>1. ScheduleInv'
    BY ProcsAssumption DEF CliCopies, IInv, HomeInv, ScheduleInv, TypeOK,
         LockInv, DesktopInv, ActivationInv, Procs, Inside, Replacing,
         window, Fault, Activatable, TargetIsEmpty, HoldsRows, Db, Log,
         Database, Parts, Files, NoFiles, First
  <1>2. DesktopInv'
    BY ProcsAssumption DEF CliCopies, IInv, HomeInv, DesktopInv, TypeOK,
         LockInv, ScheduleInv, Procs, Inside, window, Fault, Db, Log,
         Database, Parts, Files, NoFiles, First
  <1>3. ActivationInv'
    BY ProcsAssumption DEF CliCopies, IInv, HomeInv, ActivationInv, TypeOK,
         LockInv, ScheduleInv, EmptyInv, Procs, Inside, Replacing, window,
         Fault, Activatable, TargetIsEmpty, HoldsRows, Db, Database, Parts,
         Files, NoFiles, First
  <1>4. SavedInv'
    BY ProcsAssumption DEF CliCopies, IInv, HomeInv, SavedInv, TypeOK,
         LockInv, LogInv, ActivationInv, Procs, Inside, Replacing, window,
         Fault, Activatable, TargetIsEmpty, HoldsRows, Db, Log, Database,
         Parts, Files, NoFiles, First
  <1>5. LogInv'
    BY ProcsAssumption DEF CliCopies, IInv, HomeInv, LogInv, TypeOK, LockInv,
         ScheduleInv, ActivationInv, SavedInv, DesktopInv, Procs, Inside,
         Replacing, window, Fault, Activatable, TargetIsEmpty, HoldsRows, Db,
         Log, Database, Parts, Files, NoFiles, First
  <1>6. HomeIsKept'
    BY ProcsAssumption DEF CliCopies, IInv, HomeInv, HomeIsKept, TypeOK,
         LockInv, ActivationInv, SavedInv, Procs, Inside, Replacing, window,
         Fault, Activatable, TargetIsEmpty, HoldsRows, Db, Database, Parts,
         Files, NoFiles, First
  <1>7. CommitIsWhole'
    BY ProcsAssumption DEF CliCopies, IInv, HomeInv, CommitIsWhole, TypeOK,
         LockInv, ActivationInv, ScheduleInv, Procs, Inside, Replacing,
         window, Fault, Activatable, TargetIsEmpty, HoldsRows, Db, Database,
         Parts, Files, NoFiles, First
  <1>8. CopyIsKept'
    BY ProcsAssumption DEF CliCopies, IInv, HomeInv, CopyIsKept, TypeOK,
         LockInv, ActivationInv, ScheduleInv, DesktopInv, LogInv,
         CommitIsWhole, Procs, Inside, Replacing, window, Fault, Activatable,
         TargetIsEmpty, HoldsRows, Db, Log, Database, Parts, Files, NoFiles,
         First
  <1> QED
    BY <1>1, <1>2, <1>3, <1>4, <1>5, <1>6, <1>7, <1>8 DEF HomeInv

LEMMA CliEndsKeepsHome ==
    ASSUME IInv, HomeInv, CliEnds
    PROVE  HomeInv'
  <1>1. ScheduleInv'
    BY ProcsAssumption DEF CliEnds, IInv, HomeInv, ScheduleInv, TypeOK,
         LockInv, DesktopInv, ActivationInv, Goto, Procs, Inside, Replacing,
         disk, window, history, Activatable, TargetIsEmpty, HoldsRows, Db,
         Log, Database, Parts
  <1>2. DesktopInv'
    BY ProcsAssumption DEF CliEnds, IInv, HomeInv, DesktopInv, TypeOK,
         LockInv, ScheduleInv, Goto, Procs, Inside, disk, window, history,
         Db, Log, Database, Parts
  <1>3. ActivationInv'
    BY ProcsAssumption DEF CliEnds, IInv, HomeInv, ActivationInv, TypeOK,
         LockInv, ScheduleInv, EmptyInv, Goto, Procs, Inside, Replacing,
         disk, window, history, Activatable, TargetIsEmpty, HoldsRows, Db,
         Database, Parts
  <1>4. SavedInv'
    BY ProcsAssumption DEF CliEnds, IInv, HomeInv, SavedInv, TypeOK, LockInv,
         LogInv, ActivationInv, Goto, Procs, Inside, Replacing, disk, window,
         history, Activatable, TargetIsEmpty, HoldsRows, Db, Log, Database,
         Parts
  <1>5. LogInv'
    BY ProcsAssumption DEF CliEnds, IInv, HomeInv, LogInv, TypeOK, LockInv,
         ScheduleInv, ActivationInv, SavedInv, DesktopInv, Goto, Procs,
         Inside, Replacing, disk, window, history, Activatable,
         TargetIsEmpty, HoldsRows, Db, Log, Database, Parts
  <1>6. HomeIsKept'
    BY ProcsAssumption DEF CliEnds, IInv, HomeInv, HomeIsKept, TypeOK,
         LockInv, ActivationInv, SavedInv, Goto, Procs, Inside, Replacing,
         disk, window, history, Activatable, TargetIsEmpty, HoldsRows, Db,
         Database, Parts
  <1>7. CommitIsWhole'
    BY ProcsAssumption DEF CliEnds, IInv, HomeInv, CommitIsWhole, TypeOK,
         LockInv, ActivationInv, ScheduleInv, Goto, Procs, Inside, Replacing,
         disk, window, history, Activatable, TargetIsEmpty, HoldsRows, Db,
         Database, Parts
  <1>8. CopyIsKept'
    BY ProcsAssumption DEF CliEnds, IInv, HomeInv, CopyIsKept, TypeOK,
         LockInv, ActivationInv, ScheduleInv, DesktopInv, LogInv,
         CommitIsWhole, Goto, Procs, Inside, Replacing, disk, window,
         history, Activatable, TargetIsEmpty, HoldsRows, Db, Log, Database,
         Parts
  <1> QED
    BY <1>1, <1>2, <1>3, <1>4, <1>5, <1>6, <1>7, <1>8 DEF HomeInv

LEMMA DieKeepsHome ==
    ASSUME NEW p \in Procs, IInv, HomeInv, Die(p)
    PROVE  HomeInv'
  <1>1. ScheduleInv'
    BY ProcsAssumption DEF Die, IInv, HomeInv, ScheduleInv, TypeOK, LockInv,
         DesktopInv, ActivationInv, Goto, Forget, Procs, Inside, Replacing,
         disk, window, Activatable, TargetIsEmpty, HoldsRows, Db, Log,
         Database, Parts
  <1>2. DesktopInv'
    BY ProcsAssumption DEF Die, IInv, HomeInv, DesktopInv, TypeOK, LockInv,
         ScheduleInv, Goto, Forget, Procs, Inside, disk, window, Db, Log,
         Database, Parts
  <1>3. ActivationInv'
    BY ProcsAssumption DEF Die, IInv, HomeInv, ActivationInv, TypeOK,
         LockInv, ScheduleInv, EmptyInv, Goto, Forget, Procs, Inside,
         Replacing, disk, window, Activatable, TargetIsEmpty, HoldsRows, Db,
         Database, Parts
  <1>4. SavedInv'
    BY ProcsAssumption DEF Die, IInv, HomeInv, SavedInv, TypeOK, LockInv,
         LogInv, ActivationInv, Goto, Forget, Procs, Inside, Replacing, disk,
         window, Activatable, TargetIsEmpty, HoldsRows, Db, Log, Database,
         Parts
  <1>5. LogInv'
    BY ProcsAssumption DEF Die, IInv, HomeInv, LogInv, TypeOK, LockInv,
         ScheduleInv, ActivationInv, SavedInv, DesktopInv, Goto, Forget,
         Procs, Inside, Replacing, disk, window, Activatable, TargetIsEmpty,
         HoldsRows, Db, Log, Database, Parts
  <1>6. HomeIsKept'
    BY ProcsAssumption DEF Die, IInv, HomeInv, HomeIsKept, TypeOK, LockInv,
         ActivationInv, SavedInv, Goto, Forget, Procs, Inside, Replacing,
         disk, window, Activatable, TargetIsEmpty, HoldsRows, Db, Database,
         Parts
  <1>7. CommitIsWhole'
    BY ProcsAssumption DEF Die, IInv, HomeInv, CommitIsWhole, TypeOK,
         LockInv, ActivationInv, ScheduleInv, Goto, Forget, Procs, Inside,
         Replacing, disk, window, Activatable, TargetIsEmpty, HoldsRows, Db,
         Database, Parts
  <1>8. CopyIsKept'
    BY ProcsAssumption DEF Die, IInv, HomeInv, CopyIsKept, TypeOK, LockInv,
         ActivationInv, ScheduleInv, DesktopInv, LogInv, CommitIsWhole, Goto,
         Forget, Procs, Inside, Replacing, disk, window, Activatable,
         TargetIsEmpty, HoldsRows, Db, Log, Database, Parts
  <1> QED
    BY <1>1, <1>2, <1>3, <1>4, <1>5, <1>6, <1>7, <1>8 DEF HomeInv

(* All of it holds always.                                                 *)
LEMMA HomeInductive == Spec => []HomeInv
  <1>1. Init => HomeInv
    BY ProcsAssumption DEF Init, HomeInv, ScheduleInv, DesktopInv,
         ActivationInv, SavedInv, LogInv, HomeIsKept, CommitIsWhole,
         CopyIsKept, Replacing, NoFiles, Files, Parts, Db, Log, Procs
  <1>2. IInv /\ HomeInv /\ [Next]_vars => HomeInv'
    <2> SUFFICES ASSUME IInv, HomeInv, [Next]_vars
                 PROVE  HomeInv'
      OBVIOUS
    <2>1. CASE \E p \in Activators : Activate(p)
      BY <2>1,
         TakeLockKeepsHome, GiveUpKeepsHome, CheckKeepsHome,
         MakeBackupHomeKeepsHome, MoveOutKeepsHome, MoveInKeepsHome,
         AllMovedKeepsHome, RemoveManifestKeepsHome, RemoveStagingKeepsHome,
         PutBackStagedKeepsHome, ReadBackupKeepsHome, PutBackKeepsHome,
         RolledBackKeepsHome, ReleaseKeepsHome
         DEF Activate
    <2>2. CASE AppRuns
      BY <2>2,
         AppStartsKeepsHome, HasPendingKeepsHome, AppOpensKeepsHome,
         UserWritesKeepsHome, PlanImportKeepsHome, StageImportKeepsHome,
         ScheduleKeepsHome, ResetImportKeepsHome, RestartForImportKeepsHome,
         AppExitsKeepsHome
         DEF AppRuns
    <2>3. CASE CliRuns
      BY <2>3, CliStartsKeepsHome, CliCopiesKeepsHome, CliEndsKeepsHome DEF CliRuns
    <2>4. CASE UNCHANGED vars
      BY <2>4 DEF vars, disk, procs, window, history, HomeInv, ScheduleInv,
           DesktopInv, ActivationInv, SavedInv, LogInv, HomeIsKept,
           CommitIsWhole, CopyIsKept, Activatable, TargetIsEmpty, HoldsRows,
           Db, Log
    <2> QED
      BY <2>1, <2>2, <2>3, <2>4, RespawnKeepsHome, DieKeepsHome DEF Next, Activators
  <1> QED
    BY <1>1, <1>2, Invariant, PTL DEF Spec

(* However many databases, deaths and failures: the database of this home  *)
(* is in its place or in the backup, and its copy, unless a roll-back      *)
(* failed, in its place or in the staging home.                            *)
THEOREM NothingIsEverLost == Spec => []NothingIsLost
  <1>1. HomeInv => NothingIsLost
    BY DEF HomeInv, NothingIsLost
  <1> QED
    BY <1>1, HomeInductive, PTL

(* However many databases, deaths and failures: an import that is no       *)
(* longer pending is there with all its databases, and the desktop never   *)
(* opens a database with the log of another.                               *)
THEOREM ImportIsAlwaysWhole == Spec => []ImportIsWhole
  <1>1. HomeInv => ImportIsWhole
    BY DEF HomeInv, ImportIsWhole, LogsFit, LogInv, DesktopInv
  <1> QED
    BY <1>1, HomeInductive, PTL

-----------------------------------------------------------------------------
(* An activation is never stuck and never set back.                        *)

\* A non-empty set of numbers has a least one.
LEMMA LeastNumber ==
    ASSUME NEW S \in SUBSET Nat, S # {}
    PROVE  \E n \in S : \A m \in S : n <= m
<1> DEFINE R == {ss \in Nat \X Nat : ss[1] < ss[2]}
<1>1. IsWellFoundedOn(R, Nat)
    BY NatLessThanWellFounded DEF OpToRel
<1>2. PICK n \in S : \A m \in S : ~ (<<m, n>> \in R)
  <2> HIDE DEF R
  <2> QED BY <1>1, WFMin
<1>3. ASSUME NEW m \in S PROVE n <= m
  <2>1. m < n => <<m, n>> \in R
      OBVIOUS
  <2> QED BY <2>1, <1>2
<1> QED BY <1>3

\* A finite one has a greatest: the number with the fewest above it.
LEMMA GreatestNumber ==
    ASSUME NEW S \in SUBSET Nat, IsFiniteSet(S), S # {}
    PROVE  \E n \in S : \A m \in S : m <= n
<1> DEFINE Above(n) == {m \in S : n < m}
           Sizes == {Cardinality(Above(n)) : n \in S}
<1>1. \A n \in S : IsFiniteSet(Above(n)) /\ Cardinality(Above(n)) \in Nat
  <2> TAKE n \in S
  <2>1. Above(n) \in SUBSET S
      OBVIOUS
  <2>2. IsFiniteSet(Above(n))
    <3> HIDE DEF Above
    <3> QED BY <2>1, FS_Subset
  <2> HIDE DEF Above
  <2> QED BY <2>2, FS_CardinalityType
<1>2. PICK n \in S : \A m \in S : Cardinality(Above(n)) <= Cardinality(Above(m))
  <2> HIDE DEF Above
  <2>1. Sizes \in SUBSET Nat /\ Sizes # {}
      BY <1>1
  <2>2. PICK least \in Sizes : \A size \in Sizes : least <= size
    <3> HIDE DEF Sizes
    <3> QED BY <2>1, LeastNumber
  <2> QED BY <2>2
<1>3. ASSUME NEW m \in S, n < m PROVE FALSE
  <2>1. /\ Above(m) \in SUBSET Above(n)
        /\ m \in Above(n) /\ m \notin Above(m)
    <3>1. \A j \in S : m < j => n < j
        BY <1>3
    <3>2. n < m /\ ~ (m < m)
        BY <1>3
    <3> QED BY <3>1, <3>2
  <2> HIDE DEF Above
  <2>2. Cardinality(Above(m)) <= Cardinality(Above(n))
      BY <1>1, <2>1, FS_Subset
  <2>3. Cardinality(Above(m)) = Cardinality(Above(n))
      BY <1>1, <1>2, <2>2
  <2>4. Above(n) = Above(m)
      BY <1>1, <2>1, <2>3, FS_Subset
  <2> QED BY <2>1, <2>4
<1>4. \A m \in S : m <= n
    BY <1>3
<1> QED BY <1>4

\* What is to be done is finite, and the next of it is there.
LEMMA NeverStuckNow == TypeOK => ActivationIsNeverStuck
<1> SUFFICES ASSUME TypeOK, NEW p \in Helpers \cup {App}
             PROVE  /\ pc[p] = "move" /\ todo[p] # {} =>
                          \E k \in First(todo[p]) :
                              \/ target[k] = NoFiles
                              \/ \E c \in Parts : /\ target[k][c] # "none"
                                                  /\ c = "wal" => Db(k) = "none"
                    /\ pc[p] = "restore" /\ activated[p] # {} =>
                          Last(activated[p]) # {}
                    /\ IsFiniteSet(Remaining(p))
    BY DEF ActivationIsNeverStuck
<1>1. /\ todo[p] \in SUBSET Kinds /\ activated[p] \in SUBSET Kinds
      /\ left[p] \in SUBSET (Kinds \X Parts)
      /\ target \in [Kinds -> Database]
    BY DEF TypeOK, Procs
<1>2. ASSUME todo[p] # {}
      PROVE  \E k \in First(todo[p]) :
                 \/ target[k] = NoFiles
                 \/ \E c \in Parts : /\ target[k][c] # "none"
                                     /\ c = "wal" => Db(k) = "none"
  <2>1. PICK k \in todo[p] : \A j \in todo[p] : k <= j
      BY <1>1, <1>2, KindsAssumption, LeastNumber
  <2>2. k \in First(todo[p]) /\ target[k] \in [Parts -> Contents]
      BY <1>1, <2>1 DEF First, Database
  <2>3. CASE target[k]["db"] # "none"
      BY <2>2, <2>3 DEF Parts
  <2>4. CASE target[k]["db"] = "none" /\ target[k]["wal"] # "none"
      BY <2>2, <2>4 DEF Parts, Db
  <2>5. CASE target[k]["db"] = "none" /\ target[k]["wal"] = "none"
    <3>1. \A c \in Parts : target[k][c] = NoFiles[c]
        BY <2>5 DEF Parts, NoFiles, Files
    <3>2. target[k] = NoFiles
        BY <2>2, <3>1 DEF NoFiles, Files
    <3> QED BY <2>2, <3>2
  <2> QED BY <2>3, <2>4, <2>5
<1>3. IsFiniteSet(todo[p]) /\ IsFiniteSet(activated[p])
    BY <1>1, KindsAssumption, FS_Subset
<1>4. activated[p] # {} => Last(activated[p]) # {}
  <2> SUFFICES ASSUME activated[p] # {} PROVE Last(activated[p]) # {}
      OBVIOUS
  <2>1. PICK k \in activated[p] : \A j \in activated[p] : j <= k
      BY <1>1, <1>3, KindsAssumption, GreatestNumber
  <2> QED BY <2>1 DEF Last
<1>5. IsFiniteSet(Parts) /\ IsFiniteSet({"copy"})
  <2>1. IsFiniteSet({"db"}) /\ IsFiniteSet({"wal"}) /\ IsFiniteSet({"copy"})
      BY FS_Singleton
  <2>2. Parts = {"db"} \cup {"wal"}
      BY DEF Parts
  <2> QED BY <2>1, <2>2, FS_Union
<1>6. IsFiniteSet(ToMove(p))
  <2> DEFINE Files1 == {f \in todo[p] \X Parts : target[f[1]][f[2]] # "none"}
             Files2 == todo[p] \X {"copy"}
  <2>1. IsFiniteSet(todo[p] \X Parts) /\ IsFiniteSet(Files2)
      BY <1>3, <1>5, FS_Product
  <2>2. Files1 \in SUBSET (todo[p] \X Parts)
      OBVIOUS
  <2>3. ToMove(p) = Files2 \cup Files1
      BY DEF ToMove
  <2> HIDE DEF Files1, Files2
  <2>4. IsFiniteSet(Files1)
      BY <2>1, <2>2, FS_Subset
  <2> QED BY <2>1, <2>3, <2>4, FS_Union
<1>7. IsFiniteSet(left[p])
  <2>1. IsFiniteSet(Kinds \X Parts)
      BY <1>5, KindsAssumption, FS_Product
  <2> QED BY <1>1, <2>1, FS_Subset
<1>8. IsFiniteSet(Remaining(p))
    BY <1>3, <1>6, <1>7, FS_EmptySet DEF Remaining
<1> QED BY <1>2, <1>4, <1>8

(* Whatever files an activation finds, for any number of databases: one of *)
(* its steps may happen, so that it cannot stop half-way with the lock.    *)
THEOREM ActivationNeverStuck == Spec => []ActivationIsNeverStuck
    BY NeverStuckNow, PendingImportTypes, PTL

\* Nobody else touches what an activation works on.
LEMMA OthersWait ==
    ASSUME TypeOK, LockInv, NEW p \in Helpers \cup {App},
           pc[p] \in Activation, Next, ~Activate(p)
    PROVE  pc'[p] = "off" \/ UNCHANGED <<pc[p], todo[p], activated[p], left[p], target>>
<1> USE DEF Goto, Refuse, Forget, disk, procs
<1>1. /\ pc[p] \in Inside \ {"running", "exiting", "copy"} /\ lock = p
      /\ \A q \in Procs \ {p} : pc[q] \notin Inside
      /\ p \in Procs /\ p # Cli /\ App \in Procs /\ Cli \in Procs
      /\ pc \in [Procs -> Places] /\ todo \in [Procs -> SUBSET Kinds]
      /\ activated \in [Procs -> SUBSET Kinds]
      /\ left \in [Procs -> SUBSET (Kinds \X Parts)]
      /\ lock # Nobody
    BY ProcsAssumption DEF TypeOK, LockInv, Procs, Inside, Activation, Distance
<1> USE DEF Inside
<1>2. ASSUME NEW q \in Helpers \cup {App}, q # p, Activate(q)
      PROVE  UNCHANGED <<pc[p], todo[p], activated[p], left[p], target>>
  <2>1. q \in Procs /\ pc[q] \notin Inside
      BY <1>1, <1>2 DEF Procs
  <2>2. GiveUp(q)
      BY <1>1, <1>2, <2>1 DEF Activate, TakeLock, Check, MakeBackupHome, MoveOut,
         PutBack, MoveIn, PutBackStaged, AllMoved, RemoveManifest,
         RemoveStaging, ReadBackup, RolledBack, Release
  <2> QED BY <1>1, <1>2, <2>1, <2>2 DEF GiveUp
<1>3. ASSUME NEW h \in Helpers, Respawn(h)
      PROVE  UNCHANGED <<pc[p], todo[p], activated[p], left[p], target>>
    BY <1>1, <1>3 DEF Respawn, StartApp, Procs
<1>4. ASSUME AppRuns
      PROVE  UNCHANGED <<pc[p], todo[p], activated[p], left[p], target>>
  <2>1. pc[App] \notin {"running", "exiting"}
      BY <1>1
  <2>2. AppStarts \/ HasPending \/ AppOpens \/ \E h \in Helpers : RestartForImport(h)
      BY <1>4, <2>1 DEF AppRuns, AppExits, UserWrites, PlanImport, Schedule,
         ResetImport, StageImport
  <2> QED BY <1>1, <2>1, <2>2 DEF AppStarts, StartApp, HasPending, AppOpens,
         RestartForImport
<1>5. ASSUME CliRuns
      PROVE  UNCHANGED <<pc[p], todo[p], activated[p], left[p], target>>
    BY <1>1, <1>5 DEF CliRuns, CliStarts, CliCopies, CliEnds
<1>6. ASSUME NEW q \in Procs, Die(q)
      PROVE  pc'[p] = "off" \/ UNCHANGED <<pc[p], todo[p], activated[p], left[p], target>>
    BY <1>1, <1>6 DEF Die
<1> QED BY <1>2, <1>3, <1>4, <1>5, <1>6 DEF Next

\* The places in their order.
LEMMA Distances ==
    /\ Distance["check"] = 8 /\ Distance["prepare"] = 7 /\ Distance["move"] = 6
    /\ Distance["restore"] = 5 /\ Distance["unmove"] = 4 /\ Distance["clear"] = 3
    /\ Distance["clean"] = 2 /\ Distance["release"] = 1
    /\ Activation = {"check", "prepare", "move", "restore", "unmove", "clear",
                     "clean", "release"}
    BY DEF Distance, Activation

\* Its own steps bring it nearer to its end.
LEMMA OwnStepMovesOn ==
    ASSUME TypeOK, NEW p \in Helpers \cup {App}, pc[p] \in Activation, Activate(p)
    PROVE  MovesOn(p)
<1> USE Distances DEF Goto, Refuse, Forget, disk, procs, MovesOn
<1>1. /\ p \in Procs /\ pc \in [Procs -> Places] /\ todo \in [Procs -> SUBSET Kinds]
      /\ activated \in [Procs -> SUBSET Kinds]
      /\ left \in [Procs -> SUBSET (Kinds \X Parts)]
      /\ target \in [Kinds -> Database]
    BY DEF TypeOK, Procs
<1>2. CASE TakeLock(p) BY <1>2 DEF TakeLock
<1>3. CASE GiveUp(p) BY <1>3 DEF GiveUp
<1>4. CASE Check(p) BY <1>1, <1>4 DEF Check
<1>5. CASE MakeBackupHome(p) BY <1>1, <1>5 DEF MakeBackupHome
<1>6. ASSUME NEW k \in Kinds, NEW c \in Parts, MoveOut(p, k, c) PROVE MovesOn(p)
  <2>1. CASE pc' = [pc EXCEPT ![p] = "restore"]
      BY <1>1, <1>6, <2>1 DEF MoveOut
  <2>2. CASE target' = [target EXCEPT ![k][c] = "none"] /\ UNCHANGED pc
    <3>1. /\ pc[p] = "move" /\ k \in todo[p] /\ target[k][c] # "none"
          /\ UNCHANGED todo
        BY <1>6 DEF MoveOut, First
    <3>2. \A f \in Kinds \X Parts :
              target'[f[1]][f[2]] = IF f = <<k, c>> THEN "none" ELSE target[f[1]][f[2]]
        BY <1>1, <2>2 DEF Database
    <3>3. todo[p] \subseteq Kinds
        BY <1>1
    <3>4. Remaining(p) = ToMove(p) /\ Remaining(p)' = ToMove(p)'
        BY <2>2, <3>1 DEF Remaining
    <3>5. ToMove(p)' \subseteq ToMove(p)
        BY <3>1, <3>2, <3>3 DEF ToMove
    <3>6. <<k, c>> \in ToMove(p)
        BY <3>1 DEF ToMove
    <3>7. <<k, c>> \notin ToMove(p)'
      <4>1. target'[k][c] = "none" /\ c # "copy"
          BY <3>2 DEF Parts
      <4> QED BY <4>1 DEF ToMove
    <3> QED BY <2>2, <3>4, <3>5, <3>6, <3>7
  <2> QED BY <1>6, <2>1, <2>2 DEF MoveOut
<1>7. ASSUME NEW k \in Kinds, MoveIn(p, k) PROVE MovesOn(p)
  <2>1. CASE pc' = [pc EXCEPT ![p] = "restore"]
      BY <1>1, <1>7, <2>1 DEF MoveIn
  <2>2. CASE /\ target' = [target EXCEPT ![k]["db"] = "imported"]
             /\ todo' = [todo EXCEPT ![p] = @ \ {k}]
             /\ UNCHANGED pc
    <3>1. pc[p] = "move" /\ k \in todo[p]
        BY <1>7 DEF MoveIn, First
    <3>2. todo'[p] = todo[p] \ {k}
        BY <1>1, <2>2
    <3>3. \A j \in Kinds \ {k} : target'[j] = target[j]
        BY <1>1, <2>2
    <3>4. todo[p] \subseteq Kinds
        BY <1>1
    <3>5. Remaining(p) = ToMove(p) /\ Remaining(p)' = ToMove(p)'
        BY <2>2, <3>1 DEF Remaining
    <3>6. ToMove(p)' \subseteq ToMove(p)
        BY <3>2, <3>3, <3>4 DEF ToMove
    <3>7. <<k, "copy">> \in ToMove(p) /\ <<k, "copy">> \notin ToMove(p)'
        BY <3>1, <3>2 DEF ToMove
    <3> QED BY <2>2, <3>5, <3>6, <3>7
  <2> QED BY <1>7, <2>1, <2>2 DEF MoveIn
<1>8. CASE AllMoved(p) BY <1>1, <1>8 DEF AllMoved
<1>9. CASE RemoveManifest(p) BY <1>1, <1>9 DEF RemoveManifest
<1>10. CASE RemoveStaging(p) BY <1>1, <1>10 DEF RemoveStaging
<1>11. ASSUME NEW k \in Kinds, PutBackStaged(p, k) PROVE MovesOn(p)
  <2>1. /\ pc[p] = "restore" /\ UNCHANGED pc
        /\ k \in activated[p] /\ activated'[p] = activated[p] \ {k}
      BY <1>1, <1>11 DEF PutBackStaged, Last
  <2> QED BY <2>1 DEF Remaining
<1>12. ASSUME NEW k \in Kinds, NEW c \in Parts, PutBack(p, k, c) PROVE MovesOn(p)
  <2>1. /\ pc[p] = "unmove" /\ UNCHANGED pc
        /\ <<k, c>> \in left[p] /\ left'[p] = left[p] \ {<<k, c>>}
      BY <1>1, <1>12 DEF PutBack
  <2> QED BY <2>1 DEF Remaining
<1>13. CASE ReadBackup(p) BY <1>1, <1>13 DEF ReadBackup
<1>14. CASE RolledBack(p) BY <1>1, <1>14 DEF RolledBack
<1>15. CASE Release(p) BY <1>1, <1>15 DEF Release
<1> QED BY <1>2, <1>3, <1>4, <1>5, <1>6, <1>7, <1>8, <1>9, <1>10, <1>11,
           <1>12, <1>13, <1>14, <1>15 DEF Activate

(* However many databases, failures and processes: every step of an        *)
(* activation leaves it less to do, and nobody sets it back, so that it    *)
(* ends after finitely many steps of its own.                              *)
THEOREM ActivationAlwaysMovesOn == Spec => ActivationMovesOn
<1> DEFINE Guided(p) == IF Activate(p) THEN MovesOn(p)
                        ELSE \/ pc'[p] = "off"
                             \/ UNCHANGED pc[p] /\ UNCHANGED Remaining(p)
           Step == \A p \in Helpers \cup {App} : pc[p] \in Activation => Guided(p)
<1>1. ASSUME IInv, [Next]_vars, NEW p \in Helpers \cup {App}, pc[p] \in Activation
      PROVE  Guided(p)
  <2>1. CASE Activate(p)
      BY <1>1, <2>1, OwnStepMovesOn DEF IInv
  <2>2. ASSUME UNCHANGED <<pc[p], todo[p], activated[p], left[p], target>>
        PROVE  UNCHANGED pc[p] /\ UNCHANGED Remaining(p)
      BY <2>2 DEF Remaining, ToMove
  <2>3. CASE Next /\ ~Activate(p)
    <3>1. \/ pc'[p] = "off"
          \/ UNCHANGED <<pc[p], todo[p], activated[p], left[p], target>>
        BY <1>1, <2>3, OthersWait DEF IInv
    <3> QED BY <2>2, <2>3, <3>1
  <2>4. CASE UNCHANGED vars /\ ~Activate(p)
    <3>1. UNCHANGED <<pc[p], todo[p], activated[p], left[p], target>>
        BY <2>4 DEF vars, disk, procs
    <3> QED BY <2>2, <2>4, <3>1
  <2> QED BY <1>1, <2>1, <2>3, <2>4
<1>2. IInv /\ [Next]_vars => [Step]_vars
    BY <1>1
<1> QED BY <1>2, Invariant, PTL DEF Spec, ActivationMovesOn
=============================================================================

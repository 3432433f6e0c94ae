--------------------------- MODULE PendingImport ---------------------------
(***************************************************************************)
(* The import of an older home: a copy of its databases is staged while    *)
(* the desktop runs, and put in the place of the databases of the home     *)
(* when nobody has them open.  Processes share only files and the lock     *)
(* writer.lock: the desktop (one at a time, single_instance.rs), helpers   *)
(* it leaves behind when it exits, and the command line.  Any of them may  *)
(* die between two file operations, and any file operation may fail.       *)
(***************************************************************************)
EXTENDS Naturals, FiniteSets

CONSTANTS
    Kinds,          \* database_kinds(): the databases of a home, in order
    Helpers,        \* processes launch_helper can start
    App, Cli,       \* the desktop; `liliacode import execute`
    Nobody,         \* writer.lock is not held
    MaxCrashes,     \* bound: processes that die
    MaxFaults       \* bound: file operations that fail

Procs == Helpers \cup {App, Cli}

ASSUME KindsAssumption == Kinds \subseteq Nat /\ IsFiniteSet(Kinds)
ASSUME ProcsAssumption ==
    App \notin Helpers /\ Cli \notin Helpers /\ App # Cli /\ Nobody \notin Procs

VARIABLES
    target, backup,     \* the files of each database in the home and its backup
    backupHome,         \* import-backups/<plan id> exists
    staged,             \* databases in the staging home
    manifest,           \* databases of pending.json; {} when there is no file
    lock,               \* who holds writer.lock
    pc, todo, activated, left, failed,  \* how far each process is
    told,               \* the desktop shows that the last import failed
    restart,            \* restart_required of the desktop
    importing,          \* the desktop has a plan, or a staged copy
    crashes, faults,    \* bounds
    unrestored,         \* a roll-back could not put a staged database back
    scheduled           \* databases of the import that was scheduled

disk == <<target, backup, backupHome, staged, manifest>>
procs == <<pc, todo, activated, left, failed>>
window == <<told, restart, importing>>
history == <<crashes, faults, unrestored, scheduled>>
vars == <<disk, lock, procs, window, history>>

(* A database is its file and the write-ahead log beside it.  "seed" has   *)
(* only a schema, "user" has rows made in this home, "imported" is the     *)
(* copy that was staged (with what was added to it since).                 *)
Contents == {"none", "seed", "user", "imported"}
Parts == {"db", "wal"}
Database == [Parts -> Contents]
Files(content) == [c \in Parts |-> content]
NoFiles == Files("none")
Db(k) == target[k]["db"]
Log(k) == target[k]["wal"]

Inside == {"check", "prepare", "move", "clear", "clean", "restore", "unmove",
           "release", "running", "exiting", "copy"}
Replacing == {"move", "clear", "restore", "unmove"}
Places == Inside \cup {"off", "starting", "waiting", "opening", "spawn"}

First(S) == {k \in S : \A j \in S : k <= j}
Last(S) == {k \in S : \A j \in S : j <= k}

HoldsRows(k) == Db(k) \in {"user", "imported"}
TargetIsEmpty == \A k \in Kinds : ~HoldsRows(k)

Goto(p, place) == pc' = [pc EXCEPT ![p] = place]

Fault == faults < MaxFaults /\ faults' = faults + 1

Forget(p) == /\ todo' = [todo EXCEPT ![p] = {}]
             /\ activated' = [activated EXCEPT ![p] = {}]
             /\ left' = [left EXCEPT ![p] = {}]

(* The result of an activation is an error: the lock is still released.    *)
Refuse(p) == /\ Goto(p, "release")
             /\ failed' = [failed EXCEPT ![p] = TRUE]

Init ==
    /\ target = [k \in Kinds |-> NoFiles]
    /\ backup = [k \in Kinds |-> NoFiles]
    /\ backupHome = FALSE
    /\ staged = {}
    /\ manifest = {}
    /\ lock = Nobody
    /\ pc = [p \in Procs |-> "off"]
    /\ todo = [p \in Procs |-> {}]
    /\ activated = [p \in Procs |-> {}]
    /\ left = [p \in Procs |-> {}]
    /\ failed = [p \in Procs |-> FALSE]
    /\ told = FALSE
    /\ restart = FALSE
    /\ importing = "no"
    /\ crashes = 0
    /\ faults = 0
    /\ unrestored = FALSE
    /\ scheduled = {}

-----------------------------------------------------------------------------
(* The desktop starts and looks for a pending import before it opens       *)
(* anything.                                                               *)

StartApp(toldFailed) ==
    /\ pc[App] = "off"
    /\ told' = toldFailed
    /\ restart' = FALSE
    /\ importing' = "no"

AppStarts ==
    /\ StartApp(FALSE)
    /\ Goto(App, "starting")
    /\ UNCHANGED <<disk, lock, todo, activated, left, failed, history>>

HasPending ==
    /\ pc[App] = "starting"
    /\ Goto(App, IF manifest = {} THEN "opening" ELSE "waiting")
    /\ UNCHANGED <<disk, lock, todo, activated, left, failed, window, history>>

\* Mutant: the lock is taken over from whoever has it.
TakeLockAnyway(p) ==
    /\ pc[p] = "waiting"
    /\ lock' = p
    /\ Goto(p, "check")
    /\ failed' = [failed EXCEPT ![p] = FALSE]
    /\ UNCHANGED <<disk, todo, activated, left, window, history>>

(* wait_for_writer retries until the lock is free ...                      *)
TakeLock(p) ==
    /\ pc[p] = "waiting"
    /\ lock = Nobody
    /\ lock' = p
    /\ Goto(p, "check")
    /\ failed' = [failed EXCEPT ![p] = FALSE]
    /\ UNCHANGED <<disk, todo, activated, left, window, history>>

(* ... or its time is over.  (On Windows the lock file cannot even be      *)
(* opened while the desktop has it, and the wait ends at once.)            *)
GiveUp(p) ==
    /\ pc[p] = "waiting"
    /\ lock # Nobody
    /\ IF p = App
       THEN Goto(p, "opening") /\ told' = TRUE
       ELSE Goto(p, "off") /\ UNCHANGED told
    /\ UNCHANGED <<disk, lock, todo, activated, left, failed, restart,
                   importing, history>>

-----------------------------------------------------------------------------
(* activate: what must hold before the home is touched.                    *)

\* Mutant: the home was found empty when the import was planned.
ActivatableAsPlanned ==
    /\ manifest # {}
    /\ manifest \subseteq staged
    /\ ~backupHome

Activatable ==
    /\ manifest # {}
    /\ TargetIsEmpty
    /\ manifest \subseteq staged
    /\ ~backupHome

Check(p) ==
    /\ pc[p] = "check"
    /\ \/ Activatable /\ Goto(p, "prepare") /\ UNCHANGED <<failed, faults>>
       \/ ~Activatable /\ Refuse(p) /\ UNCHANGED faults
       \/ Fault /\ Refuse(p)
    /\ UNCHANGED <<disk, lock, todo, activated, left, window, crashes,
                   unrestored, scheduled>>

MakeBackupHome(p) ==
    /\ pc[p] = "prepare"
    /\ \/ /\ backupHome' = TRUE
          /\ Goto(p, "move")
          /\ todo' = [todo EXCEPT ![p] = manifest]
          /\ activated' = [activated EXCEPT ![p] = {}]
          /\ UNCHANGED <<failed, faults>>
       \/ Fault /\ Refuse(p) /\ backupHome' \in BOOLEAN /\ UNCHANGED <<todo, activated>>
    /\ UNCHANGED <<target, backup, staged, manifest, lock, left, window,
                   crashes, unrestored, scheduled>>

(* A file of the database whose turn it is goes to the backup, the         *)
(* database before its log.                                                *)
MoveOut(p, k, c) ==
    /\ pc[p] = "move"
    /\ k \in First(todo[p])
    /\ target[k][c] # "none"
    /\ c = "wal" => Db(k) = "none"
    /\ \/ /\ backup' = [backup EXCEPT ![k][c] = target[k][c]]
          /\ target' = [target EXCEPT ![k][c] = "none"]
          /\ UNCHANGED <<pc, faults>>
       \/ Fault /\ Goto(p, "restore") /\ UNCHANGED <<target, backup>>
    /\ UNCHANGED <<backupHome, staged, manifest, lock, todo, activated, left,
                   failed, window, crashes, unrestored, scheduled>>

\* Mutant: the copy replaces the database that is there.
MoveInOver(p, k) ==
    /\ pc[p] = "move"
    /\ k \in First(todo[p])
    /\ \/ /\ staged' = staged \ {k}
          /\ target' = [target EXCEPT ![k]["db"] = "imported"]
          /\ todo' = [todo EXCEPT ![p] = @ \ {k}]
          /\ activated' = [activated EXCEPT ![p] = @ \cup {k}]
          /\ UNCHANGED <<pc, faults>>
       \/ Fault /\ Goto(p, "restore") /\ UNCHANGED <<staged, target, todo, activated>>
    /\ UNCHANGED <<backup, backupHome, manifest, lock, left, failed, window,
                   crashes, unrestored, scheduled>>

\* Mutant: the copy is moved in beside the old log.
MoveInBesideLog(p, k) ==
    /\ pc[p] = "move"
    /\ k \in First(todo[p])
    /\ Db(k) = "none"
    /\ \/ /\ staged' = staged \ {k}
          /\ target' = [target EXCEPT ![k]["db"] = "imported"]
          /\ todo' = [todo EXCEPT ![p] = @ \ {k}]
          /\ activated' = [activated EXCEPT ![p] = @ \cup {k}]
          /\ UNCHANGED <<pc, faults>>
       \/ Fault /\ Goto(p, "restore") /\ UNCHANGED <<staged, target, todo, activated>>
    /\ UNCHANGED <<backup, backupHome, manifest, lock, left, failed, window,
                   crashes, unrestored, scheduled>>

(* Nothing of it is left: the staged copy takes its place.                 *)
MoveIn(p, k) ==
    /\ pc[p] = "move"
    /\ k \in First(todo[p])
    /\ target[k] = NoFiles
    /\ \/ /\ staged' = staged \ {k}
          /\ target' = [target EXCEPT ![k]["db"] = "imported"]
          /\ todo' = [todo EXCEPT ![p] = @ \ {k}]
          /\ activated' = [activated EXCEPT ![p] = @ \cup {k}]
          /\ UNCHANGED <<pc, faults>>
       \/ Fault /\ Goto(p, "restore") /\ UNCHANGED <<staged, target, todo, activated>>
    /\ UNCHANGED <<backup, backupHome, manifest, lock, left, failed, window,
                   crashes, unrestored, scheduled>>

AllMoved(p) ==
    /\ pc[p] = "move"
    /\ todo[p] = {}
    /\ Goto(p, "clear")
    /\ UNCHANGED <<disk, lock, todo, activated, left, failed, window, history>>

RemoveManifest(p) ==
    /\ pc[p] = "clear"
    /\ \/ /\ manifest' = {}
          /\ Goto(p, "clean")
          /\ UNCHANGED <<failed, faults>>
       \/ Fault /\ Refuse(p) /\ UNCHANGED manifest
    /\ UNCHANGED <<target, backup, backupHome, staged, lock, todo, activated,
                   left, window, crashes, unrestored, scheduled>>

RemoveStaging(p) ==
    /\ pc[p] = "clean"
    /\ \/ /\ staged' = {}
          /\ Goto(p, "release")
          /\ UNCHANGED <<failed, faults>>
       \/ Fault /\ Refuse(p) /\ UNCHANGED staged
    /\ UNCHANGED <<target, backup, backupHome, manifest, lock, todo, activated,
                   left, window, crashes, unrestored, scheduled>>

-----------------------------------------------------------------------------
\* Mutant: a database that was put back is put back again.
PutBackStagedAgain(p, k) ==
    /\ pc[p] = "restore"
    /\ k \in Last(activated[p])
    /\ UNCHANGED activated
    /\ \/ /\ target' = [target EXCEPT ![k]["db"] = "none"]
          /\ staged' = staged \cup {k}
          /\ UNCHANGED <<faults, unrestored>>
       \/ Fault /\ unrestored' = TRUE /\ UNCHANGED <<target, staged>>
    /\ UNCHANGED <<backup, backupHome, manifest, lock, pc, todo, left, failed,
                   window, crashes, scheduled>>

(* rollback_activation: what was moved in goes back to the staging home,   *)
(* the last one first; then the backup goes back to the home.              *)

PutBackStaged(p, k) ==
    /\ pc[p] = "restore"
    /\ k \in Last(activated[p])
    /\ activated' = [activated EXCEPT ![p] = @ \ {k}]
    /\ \/ /\ target' = [target EXCEPT ![k]["db"] = "none"]
          /\ staged' = staged \cup {k}
          /\ UNCHANGED <<faults, unrestored>>
       \/ Fault /\ unrestored' = TRUE /\ UNCHANGED <<target, staged>>
    /\ UNCHANGED <<backup, backupHome, manifest, lock, pc, todo, left, failed,
                   window, crashes, scheduled>>

\* Mutant: files that were never moved there are put back, too.
BackupAndSharedMemory ==
    {f \in Kinds \X Parts : backup[f[1]][f[2]] # "none"} \cup (Kinds \X {"shm"})

BackupFiles == {f \in Kinds \X Parts : backup[f[1]][f[2]] # "none"}

ReadBackup(p) ==
    /\ pc[p] = "restore"
    /\ activated[p] = {}
    /\ \/ /\ left' = [left EXCEPT ![p] = BackupFiles]
          /\ Goto(p, "unmove")
          /\ UNCHANGED <<failed, faults>>
       \/ Fault /\ Refuse(p) /\ UNCHANGED left
    /\ UNCHANGED <<disk, lock, todo, activated, window, crashes, unrestored,
                   scheduled>>

\* Mutant: a file that cannot be put back is tried again.
PutBackUntilDone(p, k, c) ==
    /\ pc[p] = "unmove"
    /\ <<k, c>> \in left[p]
    /\ \/ /\ target' = [target EXCEPT ![k][c] = backup[k][c]]
          /\ backup' = [backup EXCEPT ![k][c] = "none"]
          /\ left' = [left EXCEPT ![p] = @ \ {<<k, c>>}]
          /\ UNCHANGED faults
       \/ Fault /\ UNCHANGED <<target, backup, left>>
    /\ UNCHANGED <<backupHome, staged, manifest, lock, pc, todo, activated,
                   failed, window, crashes, unrestored, scheduled>>

(* The directory lists its files in any order.                             *)
PutBack(p, k, c) ==
    /\ pc[p] = "unmove"
    /\ <<k, c>> \in left[p]
    /\ left' = [left EXCEPT ![p] = @ \ {<<k, c>>}]
    /\ \/ /\ target' = [target EXCEPT ![k][c] = backup[k][c]]
          /\ backup' = [backup EXCEPT ![k][c] = "none"]
          /\ UNCHANGED faults
       \/ Fault /\ UNCHANGED <<target, backup>>
    /\ UNCHANGED <<backupHome, staged, manifest, lock, pc, todo, activated,
                   failed, window, crashes, unrestored, scheduled>>

RolledBack(p) ==
    /\ pc[p] = "unmove"
    /\ left[p] = {}
    /\ Refuse(p)
    /\ UNCHANGED <<disk, lock, todo, activated, left, window, history>>

(* The lock is released whatever came of it.  The desktop goes on; the     *)
(* helper starts the desktop.                                              *)
Release(p) ==
    /\ pc[p] = "release"
    /\ lock' = Nobody
    /\ IF p = App
       THEN Goto(p, "opening") /\ told' = (told \/ failed[p])
       ELSE Goto(p, "spawn") /\ UNCHANGED told
    /\ Forget(p)
    /\ UNCHANGED <<disk, failed, restart, importing, history>>

Respawn(h) ==
    /\ pc[h] = "spawn"
    /\ \/ /\ StartApp(failed[h])
          /\ pc' = [pc EXCEPT ![h] = "off", ![App] = "starting"]
       \/ /\ pc[App] # "off"
          /\ Goto(h, "off")
          /\ UNCHANGED window
    /\ UNCHANGED <<disk, lock, todo, activated, left, failed, history>>

-----------------------------------------------------------------------------
(* The desktop holds the lock from before it opens the first database      *)
(* until its process ends.  Databases that do not exist are created; a log *)
(* without its database is discarded by SQLite.                            *)

Opened(d) ==
    IF d["db"] = "none" THEN Files("seed")
    ELSE IF d["wal"] = "none" THEN Files(d["db"]) ELSE d

AppOpens ==
    /\ pc[App] = "opening"
    /\ IF lock = Nobody
       THEN /\ lock' = App
            /\ Goto(App, "running")
            /\ target' = [k \in Kinds |-> Opened(target[k])]
            /\ restart' = (manifest # {})
       ELSE Goto(App, "off") /\ UNCHANGED <<lock, target, restart>>
    /\ UNCHANGED <<backup, backupHome, staged, manifest, todo, activated, left,
                   failed, told, importing, history>>

UserWrites(k) ==
    /\ pc[App] = "running"
    /\ Db(k) = "seed"
    /\ target' = [target EXCEPT ![k]["db"] = "user"]
    /\ UNCHANGED <<backup, backupHome, staged, manifest, lock, procs, window,
                   history>>

(* start_data_import_plan, with a new staging home.                        *)
PlanImport ==
    /\ pc[App] = "running"
    /\ ~restart
    /\ TargetIsEmpty
    /\ importing' = "planned"
    /\ staged' = {}
    /\ UNCHANGED <<target, backup, backupHome, manifest, lock, procs, told,
                   restart, history>>

(* The job copied some databases to the staging home, and none failed.     *)
StageImport(copied) ==
    /\ pc[App] = "running"
    /\ importing = "planned"
    /\ importing' = "staged"
    /\ staged' = copied
    /\ UNCHANGED <<target, backup, backupHome, manifest, lock, procs, told,
                   restart, history>>

(* finish_data_import: the manifest appears with one rename.               *)
Schedule ==
    /\ pc[App] = "running"
    /\ importing = "staged"
    /\ importing' = "no"
    /\ \/ /\ staged # {}
          /\ manifest = {}
          /\ manifest' = staged
          /\ scheduled' = staged
          /\ backupHome' = FALSE
          /\ restart' = TRUE
          /\ UNCHANGED faults
       \/ /\ staged = {} \/ manifest # {}
          /\ UNCHANGED <<backupHome, manifest, restart, scheduled, faults>>
       \/ Fault /\ UNCHANGED <<backupHome, manifest, restart, scheduled>>
    /\ UNCHANGED <<target, backup, staged, lock, procs, told, crashes, unrestored>>

(* reset_data_import throws the staging home away.                         *)
ResetImport ==
    /\ pc[App] = "running"
    /\ importing # "no"
    /\ ~restart
    /\ importing' = "no"
    /\ staged' = {}
    /\ UNCHANGED <<target, backup, backupHome, manifest, lock, procs, told,
                   restart, history>>

(* restart_after_data_import: the helper waits for the lock while the      *)
(* desktop is still on its way out.                                        *)
RestartForImport(h) ==
    /\ pc[App] = "running"
    /\ restart
    /\ pc[h] = "off"
    /\ pc' = [pc EXCEPT ![h] = "waiting", ![App] = "exiting"]
    /\ UNCHANGED <<disk, lock, todo, activated, left, failed, window, history>>

(* The last connection may take the log of its database along.             *)
AppExits ==
    /\ pc[App] \in {"running", "exiting"}
    /\ lock' = Nobody
    /\ Goto(App, "off")
    /\ \/ target' = [k \in Kinds |-> [target[k] EXCEPT !["wal"] = "none"]]
       \/ UNCHANGED target
    /\ UNCHANGED <<backup, backupHome, staged, manifest, todo, activated, left,
                   failed, window, history>>

-----------------------------------------------------------------------------
(* `liliacode import execute` copies databases straight into a home that   *)
(* does not have them, under the same lock.                                *)

CliStarts(ready) ==
    /\ pc[Cli] = "off"
    /\ lock = Nobody
    /\ lock' = Cli
    /\ Goto(Cli, "copy")
    /\ todo' = [todo EXCEPT ![Cli] = ready]
    /\ UNCHANGED <<disk, activated, left, failed, window, history>>

CliCopies(k) ==
    /\ pc[Cli] = "copy"
    /\ k \in First(todo[Cli])
    /\ todo' = [todo EXCEPT ![Cli] = @ \ {k}]
    /\ \/ /\ target[k] = NoFiles
          /\ target' = [target EXCEPT ![k]["db"] = "user"]
          /\ UNCHANGED faults
       \/ target[k] # NoFiles /\ UNCHANGED <<target, faults>>
       \/ Fault /\ UNCHANGED target
    /\ UNCHANGED <<backup, backupHome, staged, manifest, lock, pc, activated,
                   left, failed, window, crashes, unrestored, scheduled>>

CliEnds ==
    /\ pc[Cli] = "copy"
    /\ todo[Cli] = {}
    /\ lock' = Nobody
    /\ Goto(Cli, "off")
    /\ UNCHANGED <<disk, todo, activated, left, failed, window, history>>

(* A process dies: the system takes its lock away, and the logs stay.      *)
Die(p) ==
    /\ pc[p] # "off"
    /\ crashes < MaxCrashes
    /\ crashes' = crashes + 1
    /\ lock' = IF lock = p THEN Nobody ELSE lock
    /\ Goto(p, "off")
    /\ Forget(p)
    /\ UNCHANGED <<disk, failed, window, faults, unrestored, scheduled>>

-----------------------------------------------------------------------------
Activate(p) ==
    \/ TakeLock(p) \/ GiveUp(p) \/ Check(p) \/ MakeBackupHome(p)
    \/ \E k \in Kinds, c \in Parts : MoveOut(p, k, c) \/ PutBack(p, k, c)
    \/ \E k \in Kinds : MoveIn(p, k) \/ PutBackStaged(p, k)
    \/ AllMoved(p) \/ RemoveManifest(p) \/ RemoveStaging(p)
    \/ ReadBackup(p) \/ RolledBack(p) \/ Release(p)

AppRuns ==
    \/ AppStarts \/ HasPending \/ AppOpens \/ AppExits
    \/ \E k \in Kinds : UserWrites(k)
    \/ PlanImport \/ Schedule \/ ResetImport
    \/ \E copied \in SUBSET Kinds : StageImport(copied)
    \/ \E h \in Helpers : RestartForImport(h)

CliRuns ==
    \/ \E ready \in SUBSET Kinds : CliStarts(ready)
    \/ \E k \in Kinds : CliCopies(k)
    \/ CliEnds

Next ==
    \/ \E p \in Helpers \cup {App} : Activate(p)
    \/ \E h \in Helpers : Respawn(h)
    \/ AppRuns
    \/ CliRuns
    \/ \E p \in Procs : Die(p)

Spec == Init /\ [][Next]_vars

(* A process that is not dead goes on.                                     *)
FairSpec == Spec /\ \A p \in Helpers \cup {App} : WF_vars(Activate(p))

-----------------------------------------------------------------------------
TypeOK ==
    /\ target \in [Kinds -> Database]
    /\ backup \in [Kinds -> Database]
    /\ backupHome \in BOOLEAN
    /\ staged \subseteq Kinds
    /\ manifest \subseteq Kinds
    /\ lock \in Procs \cup {Nobody}
    /\ pc \in [Procs -> Places]
    /\ todo \in [Procs -> SUBSET Kinds]
    /\ activated \in [Procs -> SUBSET Kinds]
    /\ left \in [Procs -> SUBSET (Kinds \X Parts)]
    /\ failed \in [Procs -> BOOLEAN]
    /\ told \in BOOLEAN
    /\ restart \in BOOLEAN
    /\ importing \in {"no", "planned", "staged"}
    /\ crashes \in Nat
    /\ faults \in Nat
    /\ unrestored \in BOOLEAN
    /\ scheduled \subseteq Kinds

(* Rows made in this home are never moved away nor replaced, whoever       *)
(* replaces databases, however long ago it was scheduled (the second test  *)
(* of target_is_empty, made under the lock).                               *)
UserRowsStay ==
    [][\A k \in Kinds : Db(k) = "user" => Db(k)' = "user"]_vars

(* Of the desktop with its databases open, activations and imports by      *)
(* command line, there is never more than one, though each may wait, time  *)
(* out, die or be started again at any moment.                             *)
OneInside ==
    \A p, q \in Procs : pc[p] \in Inside /\ pc[q] \in Inside => p = q

(* Wherever an imported database took the place of one of this home, that  *)
(* one is in the backup: an import was scheduled by a desktop that had     *)
(* opened, and so created, every database.                                 *)
HomeIsKept == \A k \in Kinds : Db(k) = "imported" => backup[k]["db"] # "none"

(* The manifest goes last: an import that is no longer pending has put     *)
(* every one of its databases in place.                                    *)
CommitIsWhole ==
    manifest = {} => \A k \in scheduled : Db(k) = "imported"

(* Unless a roll-back could not put it back, the copy of every scheduled   *)
(* database is in the staging home or in its place.                        *)
CopyIsKept ==
    unrestored \/ \A k \in scheduled : k \in staged \/ Db(k) = "imported"

(* Neither of two databases is lost: the one of this home or its copy.     *)
NothingIsLost == HomeIsKept /\ CopyIsKept

(* The desktop never opens a database with the log of another one.         *)
LogsFit ==
    pc[App] = "running" /\ ~unrestored
        => \A k \in Kinds : (Log(k) = "imported") <=> (Db(k) = "imported")

(* Databases and their logs change places as wholes.                       *)
ImportIsWhole == CommitIsWhole /\ LogsFit

(* What an activation has still to do: the places ahead of it, and at the  *)
(* place it has reached the files it has not dealt with yet.               *)
Distance == [check |-> 8, prepare |-> 7, move |-> 6, restore |-> 5,
             unmove |-> 4, clear |-> 3, clean |-> 2, release |-> 1]
Activation == DOMAIN Distance

ToMove(p) == (todo[p] \X {"copy"})
             \cup {f \in todo[p] \X Parts : target[f[1]][f[2]] # "none"}

Remaining(p) ==
    IF pc[p] = "move" THEN ToMove(p)
    ELSE IF pc[p] = "restore" THEN activated[p]
    ELSE IF pc[p] = "unmove" THEN left[p]
    ELSE {}

MovesOn(p) ==
    \/ pc'[p] \notin Activation
    \/ Distance[pc'[p]] < Distance[pc[p]]
    \/ /\ UNCHANGED pc[p]
       /\ Remaining(p)' \subseteq Remaining(p)
       /\ Remaining(p)' # Remaining(p)

(* Every step of an activation, a failing one too, brings it nearer to its *)
(* end, and no other process can set it back: what it has to do is finite  *)
(* and never grows.                                                        *)
ActivationMovesOn ==
    [][\A p \in Helpers \cup {App} : pc[p] \in Activation =>
           IF Activate(p) THEN MovesOn(p)
           ELSE \/ pc'[p] = "off"
                \/ UNCHANGED pc[p] /\ UNCHANGED Remaining(p)]_vars

(* Nor is it ever stuck: whatever files it finds, a step of it may happen. *)
ActivationIsNeverStuck ==
    \A p \in Helpers \cup {App} :
        /\ pc[p] = "move" /\ todo[p] # {} =>
               \E k \in First(todo[p]) :
                   \/ target[k] = NoFiles
                   \/ \E c \in Parts : /\ target[k][c] # "none"
                                       /\ c = "wal" => Db(k) = "none"
        /\ pc[p] = "restore" /\ activated[p] # {} => Last(activated[p]) # {}
        /\ IsFiniteSet(Remaining(p))

(* Every activation ends, whatever files it finds and whichever operation  *)
(* fails.                                                                  *)
ActivationEnds ==
    \A p \in Helpers \cup {App} :
        pc[p] = "check" ~> pc[p] \in {"off", "spawn", "opening"}

(* desktop.rs:28824, shown after a failed activation: the data of the home *)
(* was not overwritten.                                                    *)
FailureKeepsHome ==
    pc[App] = "running" /\ told
        => \A k \in Kinds : Db(k) # "imported"
=============================================================================

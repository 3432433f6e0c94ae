---------------------------- MODULE ProductTasks ----------------------------
(***************************************************************************)
(* Tasks, their conversations and projects, as the service of the task     *)
(* feature changes them through the commands of SqliteProductStore.        *)
(*                                                                         *)
(* A call of the service reads rows, decides, and then sends one command   *)
(* that carries the revisions it read; a command is one transaction under  *)
(* the mutation lock of the store.  The user interface makes every kind of *)
(* call; workers (the title update after a turn, automations, remote       *)
(* requests, the worktree archive) change, create and archive tasks while  *)
(* a call of the interface is between its read and its command.            *)
(*                                                                         *)
(* A row keeps its place in the tree, its revision and the caller whose    *)
(* patch it carries.  Revisions of projects are left out: only the         *)
(* interface writes projects, one call at a time.                          *)
(***************************************************************************)
EXTENDS Integers, FiniteSets

CONSTANTS Tasks, Projects, Workers, UI, Inbox, None,
          First,      \* the tasks there are at first,
          Root,       \* and the one that is the parent of the others
          MaxWrites   \* bound on the commands that commit

ASSUME ProductAssumption ==
    /\ UI \notin Workers /\ Inbox \notin Projects /\ None \notin Tasks
    /\ None \notin Workers \union {UI}
    /\ First \subseteq Tasks /\ Root \in First /\ MaxWrites \in Nat
    /\ IsFiniteSet(Tasks)

Callers == Workers \union {UI}
Places == Projects \union {Inbox}

VARIABLES task,          \* tasks and task_dependencies, a row of revision 0 is not there
          conversation,  \* the conversation of a task, likewise
          live,          \* the projects that are not archived
          used,          \* product_command_results: keys of updates and moves
          pc, arg,       \* the command a caller is about to send, and its arguments
          seen, heard,   \* the rows and the conversation revisions it read
          writes

calls == <<pc, arg, seen, heard>>
vars == <<task, conversation, live, used, calls, writes>>

Row == [rev : Nat, project : Places, parent : Tasks \union {None},
        deps : SUBSET Tasks, archived : BOOLEAN, by : Callers \union {None}]
Talk == [rev : Nat, project : Places, archived : BOOLEAN]
NoRow == [rev |-> 0, project |-> Inbox, parent |-> None, deps |-> {},
          archived |-> FALSE, by |-> None]
NoTalk == [rev |-> 0, project |-> Inbox, archived |-> FALSE]
Arg == [task : Tasks \union {None}, place : Places, parent : Tasks \union {None},
        deps : SUBSET Tasks, archived : BOOLEAN]
NoArg == [task |-> None, place |-> Inbox, parent |-> None, deps |-> {}, archived |-> FALSE]
Commands == {"update", "move", "depend", "archive", "create", "converse", "remove",
             "archiveProject", "reorder"}
Key == [task : Tasks, rev : Nat, op : {"update", "move"}]

TypeOK ==
    /\ task \in [Tasks -> Row]
    /\ conversation \in [Tasks -> Talk]
    /\ live \subseteq Projects
    /\ used \subseteq Key
    /\ pc \in [Callers -> Commands \union {"idle"}]
    /\ arg \in [Callers -> Arg]
    /\ seen \in [Callers -> [Tasks -> Row]]
    /\ heard \in [Callers -> [Tasks -> Nat]]
    /\ writes \in Nat

Init ==
    /\ task = [t \in Tasks |-> [NoRow EXCEPT !.rev = IF t \in First THEN 1 ELSE 0,
                                  !.parent = IF t \in First \ {Root} THEN Root ELSE None]]
    /\ conversation = [t \in Tasks |-> [NoTalk EXCEPT !.rev = IF t \in First THEN 1 ELSE 0]]
    /\ live = Projects /\ used = {} /\ writes = 0
    /\ pc = [c \in Callers |-> "idle"]
    /\ arg = [c \in Callers |-> NoArg]
    /\ seen = [c \in Callers |-> [t \in Tasks |-> NoRow]]
    /\ heard = [c \in Callers |-> [t \in Tasks |-> 0]]

-----------------------------------------------------------------------------
(* The tree of tasks and the graph of dependencies.                        *)

There == {t \in Tasks : task[t].rev > 0}
Active(p) == {t \in There : task[t].project = p /\ ~task[t].archived}

\* Everything reached from S along f.
Closure(f, S) ==
    LET reach[i \in 0..Cardinality(Tasks)] ==
          IF i = 0 THEN S ELSE reach[i - 1] \union UNION {f[t] : t \in reach[i - 1]}
    IN reach[Cardinality(Tasks)]

Parents == [t \in Tasks |-> {task[t].parent} \ {None}]
Children == [t \in Tasks |-> {u \in There : task[u].parent = t}]
Dependencies == [t \in Tasks |-> task[t].deps]

Subtree(t) == {t} \union (There \cap Closure(Children, Children[t]))

\* Mutant: only the parent itself is looked at.
ParentIsThere(t, place, parent) ==
    parent # None => parent # t /\ parent \in Active(place)

\* validate_task_parent and validate_task_move_parent.
ParentFits(t, place, parent) ==
    LET above == Closure(Parents, {parent} \ {None}) IN
    /\ t \notin above
    /\ \A u \in above : u \in Active(place)

\* TaskDependencyGraph::validate_dependencies.
DependenciesFit(t, deps) ==
    /\ t \notin deps
    /\ \A d \in deps : /\ d \in There /\ task[d].project = task[t].project
                       /\ t \notin Closure(Dependencies, {d})

-----------------------------------------------------------------------------
(* What a call of the service reads before its command.                    *)

Read(c, op, a, S) ==
    /\ pc[c] = "idle" /\ writes < MaxWrites
    /\ pc' = [pc EXCEPT ![c] = op]
    /\ arg' = [arg EXCEPT ![c] = a]
    /\ seen' = [seen EXCEPT ![c] = [t \in Tasks |-> IF t \in S THEN task[t] ELSE NoRow]]
    /\ heard' = [heard EXCEPT ![c] =
                   [t \in Tasks |-> IF t \in S THEN conversation[t].rev ELSE 0]]
    /\ UNCHANGED <<task, conversation, live, used, writes>>

ReadUpdate(c, t) == t \in There /\ Read(c, "update", [NoArg EXCEPT !.task = t], {t})

ReadMove(t, place, parent) ==
    /\ t \in There /\ ~task[t].archived
    /\ place \in live \union {Inbox}
    /\ ParentFits(t, place, parent)
    /\ ~(task[t].project = place /\ task[t].parent = parent)
    /\ Read(UI, "move", [NoArg EXCEPT !.task = t, !.place = place, !.parent = parent], {t})

ReadDependencies(t, deps) ==
    /\ t \in There /\ task[t].deps # deps
    /\ Read(UI, "depend", [NoArg EXCEPT !.task = t, !.deps = deps], {t})

ReadArchive(c, t, archived) ==
    /\ t \in There
    /\ \/ task[t].archived # archived
       \/ conversation[t].rev > 0 /\ conversation[t].archived # archived
    /\ Read(c, "archive", [NoArg EXCEPT !.task = t, !.archived = archived], {t})

\* create_task only asks that the project is known.
ReadCreate(c, t, place, parent) ==
    /\ t \notin There /\ \A d \in Callers : arg[d].task # t
    /\ ParentFits(t, place, parent)
    /\ Read(c, "create", [NoArg EXCEPT !.task = t, !.place = place, !.parent = parent], {})

ReadRemove(p) == p \in live /\ Read(UI, "remove", [NoArg EXCEPT !.place = p], {})

ReadArchiveProject(p) ==
    /\ p \in live /\ Active(p) # {}
    /\ Read(UI, "archiveProject", [NoArg EXCEPT !.place = p], Active(p))

ReadReorder(place) ==
    /\ Cardinality(Active(place)) > 1
    /\ Read(UI, "reorder", [NoArg EXCEPT !.place = place], Active(place))

-----------------------------------------------------------------------------
(* The commands of the store.                                              *)

Return(c) ==
    /\ pc' = [pc EXCEPT ![c] = "idle"]
    /\ arg' = [arg EXCEPT ![c] = NoArg]
    /\ seen' = [seen EXCEPT ![c] = [t \in Tasks |-> NoRow]]
    /\ heard' = [heard EXCEPT ![c] = [t \in Tasks |-> 0]]

Commit(c, op) == pc[c] = op /\ writes < MaxWrites /\ writes' = writes + 1 /\ Return(c)

\* ensure_expected_revision.
Fresh(c, t) == seen[c][t].rev = task[t].rev

Next1(r) == [r EXCEPT !.rev = @ + 1]

\* Mutant: the key of a command names the task only.
KeyWithoutRevision(c, op) == [task |-> arg[c].task, rev |-> 1, op |-> op]

KeyOf(c, op) == [task |-> arg[c].task, rev |-> seen[c][arg[c].task].rev, op |-> op]

\* update_meta gives updates and moves of a task the same key for a revision.
KeyUsed(c) == \E k \in used : k.task = KeyOf(c, "update").task /\ k.rev = KeyOf(c, "update").rev

\* The stored result of another update is returned as this one's.
Replays(c) == pc[c] = "update" /\ KeyOf(c, "update") \in used

\* The whole row is written as it was read, with the patch.
Update(c) ==
    LET t == arg[c].task IN
    /\ Commit(c, "update")
    /\ ~KeyUsed(c) /\ Fresh(c, t)
    /\ task' = [task EXCEPT ![t] = Next1([seen[c][t] EXCEPT !.by = c])]
    /\ used' = used \union {KeyOf(c, "update")}
    /\ UNCHANGED <<conversation, live>>

\* Mutant: only the conversation of the moved task itself goes along.
TalksOf(t, moved) == {t}

MovedTalks(t, moved) == moved

Move ==
    LET t == arg[UI].task
        place == arg[UI].place
        moved == IF task[t].project # place THEN Subtree(t) ELSE {t}
    IN
    /\ Commit(UI, "move")
    /\ ~KeyUsed(UI) /\ Fresh(UI, t)
    /\ place \in live \union {Inbox}
    /\ ParentFits(t, place, arg[UI].parent)
    /\ task' = [u \in Tasks |->
                  IF u = t THEN Next1([task[u] EXCEPT !.project = place, !.parent = arg[UI].parent])
                  ELSE IF u \in moved THEN Next1([task[u] EXCEPT !.project = place])
                  ELSE task[u]]
    /\ conversation' = [u \in Tasks |->
                  IF /\ u \in MovedTalks(t, moved) /\ conversation[u].rev > 0
                     /\ conversation[u].project # place
                  THEN Next1([conversation[u] EXCEPT !.project = place]) ELSE conversation[u]]
    /\ used' = used \union {KeyOf(UI, "move")}
    /\ UNCHANGED live

\* update_task_dependencies writes its row in steps of their own: one that
\* fails leaves the new revision with the dependencies of before, or fewer.
Depend ==
    LET t == arg[UI].task IN
    /\ Commit(UI, "depend")
    /\ Fresh(UI, t) /\ DependenciesFit(t, arg[UI].deps)
    /\ \E deps \in {task[t].deps} \union SUBSET arg[UI].deps :
         task' = [task EXCEPT ![t] = Next1([@ EXCEPT !.deps = deps])]
    /\ UNCHANGED <<conversation, live, used>>

Archived(r, archived) ==
    IF r.rev > 0 /\ r.archived # archived THEN Next1([r EXCEPT !.archived = archived]) ELSE r

\* set_task_archived_command.
Archive(c) ==
    LET t == arg[c].task IN
    /\ Commit(c, "archive")
    /\ Fresh(c, t) /\ heard[c][t] = conversation[t].rev
    /\ task' = [task EXCEPT ![t] = Archived(@, arg[c].archived)]
    /\ conversation' = [conversation EXCEPT ![t] = Archived(@, arg[c].archived)]
    /\ UNCHANGED <<live, used>>

\* The row and then, in a transaction of its own, the conversation.  What the
\* call read of the parent is not looked at again.
Create(c) ==
    LET t == arg[c].task IN
    /\ pc[c] = "create" /\ writes < MaxWrites /\ writes' = writes + 1
    /\ task' = [task EXCEPT ![t] = [NoRow EXCEPT !.rev = 1, !.project = arg[c].place,
                                                 !.parent = arg[c].parent, !.by = c]]
    /\ pc' = [pc EXCEPT ![c] = "converse"]
    /\ UNCHANGED <<conversation, live, used, arg, seen, heard>>

Converse(c) ==
    /\ Commit(c, "converse")
    /\ conversation' = [conversation EXCEPT ![arg[c].task] =
                          [rev |-> 1, project |-> arg[c].place, archived |-> FALSE]]
    /\ UNCHANGED <<task, live, used>>

\* Mutant: the bulk UPDATE does not touch the revision.
DetachKeepsRevision(r, p) ==
    IF r.rev > 0 /\ r.project = p /\ ~r.archived THEN [r EXCEPT !.project = Inbox] ELSE r

\* Mutant: a removed project is not replaced by the inbox.
DetachToNone(r, p) ==
    IF r.rev > 0 /\ r.project = p /\ ~r.archived THEN Next1([r EXCEPT !.project = None]) ELSE r

Detached(r, p) ==
    IF r.rev > 0 /\ r.project = p /\ ~r.archived THEN Next1([r EXCEPT !.project = Inbox]) ELSE r

\* remove_project_command: what is not archived goes to the inbox.
Remove ==
    LET p == arg[UI].place IN
    /\ Commit(UI, "remove")
    /\ task' = [t \in Tasks |-> Detached(task[t], p)]
    /\ conversation' = [t \in Tasks |-> Detached(conversation[t], p)]
    /\ live' = live \ {p}
    /\ UNCHANGED used

\* archive_project_command: the active tasks and conversations are those read.
ArchiveProject ==
    LET p == arg[UI].place
        S == Active(p)
        open == {t \in S : conversation[t].rev > 0 /\ ~conversation[t].archived}
    IN
    /\ Commit(UI, "archiveProject")
    /\ \A t \in Tasks : seen[UI][t].rev = IF t \in S THEN task[t].rev ELSE 0
    /\ \A t \in open : heard[UI][t] = conversation[t].rev
    /\ task' = [t \in Tasks |-> IF t \in S THEN Archived(task[t], TRUE) ELSE task[t]]
    /\ conversation' = [t \in Tasks |-> IF t \in S THEN Archived(conversation[t], TRUE)
                                        ELSE conversation[t]]
    /\ UNCHANGED <<live, used>>

\* reorder_tasks_command: every task of the group gets a position.
Reorder ==
    LET S == Active(arg[UI].place) IN
    /\ Commit(UI, "reorder")
    /\ \A t \in Tasks : seen[UI][t].rev = IF t \in S THEN task[t].rev ELSE 0
    /\ task' = [t \in Tasks |-> IF t \in S THEN Next1(task[t]) ELSE task[t]]
    /\ UNCHANGED <<conversation, live, used>>

\* restore_project of the user interface, by update_project.
Restore(p) ==
    /\ pc[UI] = "idle" /\ p \notin live
    /\ writes < MaxWrites /\ writes' = writes + 1
    /\ live' = live \union {p}
    /\ UNCHANGED <<task, conversation, used, calls>>

\* A call that is refused, fails, replays a result or dies with the process
\* writes nothing (more).
GiveUp(c) ==
    /\ pc[c] # "idle" /\ Return(c)
    /\ UNCHANGED <<task, conversation, live, used, writes>>

Next ==
    \/ \E c \in Callers :
         \/ Update(c) \/ Archive(c) \/ Create(c) \/ Converse(c) \/ GiveUp(c)
         \/ \E t \in Tasks :
              \/ ReadUpdate(c, t) \/ ReadArchive(c, t, TRUE)
              \/ \E parent \in Tasks \union {None}, place \in Places :
                   ReadCreate(c, t, place, parent)
    \/ \E t \in Tasks :
         \/ ReadArchive(UI, t, FALSE)
         \/ \E deps \in SUBSET Tasks : ReadDependencies(t, deps)
         \/ \E parent \in Tasks \union {None}, place \in Places : ReadMove(t, place, parent)
    \/ \E p \in Projects : ReadRemove(p) \/ ReadArchiveProject(p) \/ Restore(p)
    \/ \E place \in Places : ReadReorder(place)
    \/ Move \/ Depend \/ Remove \/ ArchiveProject \/ Reorder

Spec == Init /\ [][Next]_vars

-----------------------------------------------------------------------------
(* Properties.                                                             *)

\* No task is its own ancestor and none waits for itself, although moves,
\* dependency changes and whole-row updates are all decided on earlier reads.
Acyclic ==
    \A t \in Tasks : /\ t \notin Closure(Parents, Parents[t])
                     /\ t \notin Closure(Dependencies, Dependencies[t])

\* A revision stands for one content of the row: a caller whose read has the
\* revision the row still has can write the rest of the row back as it read it.
RevisionTellsTheRow ==
    \A c \in Callers, t \in Tasks :
      seen[c][t].rev > 0 /\ seen[c][t].rev = task[t].rev => seen[c][t] = task[t]

\* Only a call whose read is out of date can meet its own key: reading again
\* always helps, and no task becomes unchangeable.
OnlyStaleCallsReplay ==
    \A c \in Callers : pc[c] \in {"update", "move"} /\ KeyUsed(c) => ~Fresh(c, arg[c].task)

\* No call separates a conversation from its task: neither a removal or move
\* that takes one of them along, nor an archive decided on an earlier read.
Together(t) == /\ conversation[t].rev > 0
               /\ conversation[t].project = task[t].project
               /\ conversation[t].archived = task[t].archived
ConversationStays == [][\A t \in Tasks : Together(t) => Together(t)']_vars

\* ProjectTaskService::record names a duplicate a write that "the idempotency
\* key had already applied": no caller is told so of a change it never made.
SuccessIsWritten == \A c \in Callers : ~Replays(c)
=============================================================================

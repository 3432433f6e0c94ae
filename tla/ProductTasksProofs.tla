------------------------- MODULE ProductTasksProofs -------------------------
(***************************************************************************)
(* Proofs about ProductTasks, for any tasks, projects and workers and any  *)
(* bound on the commands.                                                  *)
(*                                                                         *)
(* Every command keeps a row or raises its revision by one (the first half *)
(* of Writes), so a revision names one content of a row and the key of an  *)
(* old revision is never fresh again.  The one command that needs more is  *)
(* create: nobody else knows the task it is about to write.                *)
(*                                                                         *)
(* The last part proves that tasks and dependencies have no cycle.         *)
(* Closure counts steps, one for each task; the set it ends with is the    *)
(* least one that holds the start and is closed (ClosureIsLeast needs only *)
(* the steps, ClosureIsClosed that there are no more sets than tasks to    *)
(* grow through).  A command that gives a task new edges has looked, in    *)
(* the state it writes in, that the task is not among what they reach, and *)
(* then no task comes to reach itself (NewEdges).                          *)
(***************************************************************************)
EXTENDS ProductTasks, FiniteSetTheorems, WellFoundedInduction, TLAPS

\* A call that names a task, other than create, names one that is there.
ArgIsThere ==
    \A c \in Callers :
      pc[c] \in {"update", "move", "depend", "archive", "converse"} =>
        arg[c].task \in Tasks /\ task[arg[c].task].rev > 0

\* A task that is being created is known to its creator only, and has no
\* conversation until the creator writes one.
NewIsAlone ==
    \A c \in Callers :
      pc[c] \in {"create", "converse"} =>
        /\ arg[c].task \in Tasks
        /\ conversation[arg[c].task].rev = 0
        /\ pc[c] = "create" => task[arg[c].task].rev = 0
        /\ \A d \in Callers \ {c} :
             pc[d] \in {"create", "converse"} => arg[d].task # arg[c].task

\* A conversation belongs to a task.
TalkHasTask == \A t \in Tasks : task[t].rev = 0 => conversation[t].rev = 0

\* What was read is not ahead of the rows.
ReadIsPast == \A c \in Callers, t \in Tasks : seen[c][t].rev <= task[t].rev

\* The keys of the commands that were applied name revisions of the past.
KeysArePast == \A k \in used : k.rev < task[k.task].rev

IInv == /\ TypeOK /\ ArgIsThere /\ NewIsAlone /\ TalkHasTask
        /\ ReadIsPast /\ RevisionTellsTheRow /\ KeysArePast

\* What every command but create does, and then its caller is idle again.
Writes(c) ==
    /\ \A t \in Tasks : \/ task'[t] = task[t]
                        \/ task[t].rev > 0 /\ task'[t].rev = task[t].rev + 1
    /\ \A t \in Tasks : conversation[t].rev = 0 =>
                         \/ conversation'[t].rev = 0
                         \/ pc[c] = "converse" /\ t = arg[c].task
    /\ \A k \in used' : k \in used \/ (k \in Key /\ k.rev < task'[k.task].rev)
    /\ Return(c)

-----------------------------------------------------------------------------
(* Rows.                                                                   *)

LEMMA NoRowType == NoRow \in Row /\ NoRow.rev = 0 /\ NoTalk \in Talk /\ NoTalk.rev = 0
  BY DEF NoRow, Row, NoTalk, Talk, Places

LEMMA NoArgType == NoArg \in Arg /\ NoArg.task = None
  BY DEF NoArg, Arg, Places

LEMMA NextRow ==
    ASSUME NEW r \in Row
    PROVE  /\ Next1(r) \in Row
           /\ Next1(r).rev = r.rev + 1
           /\ Next1(r).project = r.project
           /\ Next1(r).archived = r.archived
  BY DEF Next1, Row

LEMMA NextTalk ==
    ASSUME NEW r \in Talk
    PROVE  /\ Next1(r) \in Talk
           /\ Next1(r).rev = r.rev + 1
           /\ Next1(r).project = r.project
           /\ Next1(r).archived = r.archived
  BY DEF Next1, Talk

\* The row of the task a move is about.
Placed(r, p, q) == [r EXCEPT !.project = p, !.parent = q]

LEMMA PlacedRow ==
    ASSUME NEW r \in Row, NEW p \in Places, NEW q \in Tasks \union {None}
    PROVE  /\ Placed(r, p, q) \in Row
           /\ Placed(r, p, q).rev = r.rev
           /\ Placed(r, p, q).project = p
           /\ Placed(r, p, q).archived = r.archived
  BY DEF Row, Placed

\* A row that Archived or Detached changes was there and gets the next revision.
LEMMA ArchivedRow ==
    ASSUME NEW r \in Row, NEW a \in BOOLEAN
    PROVE  /\ Archived(r, a) \in Row
           /\ Archived(r, a) = r \/ (r.rev > 0 /\ Archived(r, a).rev = r.rev + 1)
           /\ Archived(r, a).project = r.project
           /\ r.rev > 0 => Archived(r, a).archived = a
<1> DEFINE s == [r EXCEPT !.archived = a]
<1>1. s \in Row /\ s.rev = r.rev /\ s.project = r.project /\ s.archived = a
  BY DEF Row
<1>2. r.rev \in Nat /\ r.archived \in BOOLEAN
  BY DEF Row
<1>3. Archived(r, a) = IF r.rev > 0 /\ r.archived # a THEN Next1(s) ELSE r
  BY DEF Archived
<1> HIDE DEF s
<1> QED  BY <1>1, <1>2, <1>3, NextRow

LEMMA ArchivedTalk ==
    ASSUME NEW r \in Talk, NEW a \in BOOLEAN
    PROVE  /\ Archived(r, a) \in Talk
           /\ Archived(r, a) = r \/ (r.rev > 0 /\ Archived(r, a).rev = r.rev + 1)
           /\ Archived(r, a).project = r.project
           /\ r.rev > 0 => Archived(r, a).archived = a
<1> DEFINE s == [r EXCEPT !.archived = a]
<1>1. s \in Talk /\ s.rev = r.rev /\ s.project = r.project /\ s.archived = a
  BY DEF Talk
<1>2. r.rev \in Nat /\ r.archived \in BOOLEAN
  BY DEF Talk
<1>3. Archived(r, a) = IF r.rev > 0 /\ r.archived # a THEN Next1(s) ELSE r
  BY DEF Archived
<1> HIDE DEF s
<1> QED  BY <1>1, <1>2, <1>3, NextTalk

LEMMA DetachedRow ==
    ASSUME NEW r \in Row, NEW p
    PROVE  /\ Detached(r, p) \in Row
           /\ Detached(r, p) = r \/ (r.rev > 0 /\ Detached(r, p).rev = r.rev + 1)
           /\ Detached(r, p).archived = r.archived
           /\ Detached(r, p).project =
                IF r.rev > 0 /\ r.project = p /\ ~r.archived THEN Inbox ELSE r.project
<1> DEFINE s == [r EXCEPT !.project = Inbox]
<1>1. s \in Row /\ s.rev = r.rev /\ s.project = Inbox /\ s.archived = r.archived
  BY DEF Row, Places
<1>2. r.rev \in Nat
  BY DEF Row
<1>3. Detached(r, p) = IF r.rev > 0 /\ r.project = p /\ ~r.archived THEN Next1(s) ELSE r
  BY DEF Detached
<1> HIDE DEF s
<1> QED  BY <1>1, <1>2, <1>3, NextRow

LEMMA DetachedTalk ==
    ASSUME NEW r \in Talk, NEW p
    PROVE  /\ Detached(r, p) \in Talk
           /\ Detached(r, p) = r \/ (r.rev > 0 /\ Detached(r, p).rev = r.rev + 1)
           /\ Detached(r, p).archived = r.archived
           /\ Detached(r, p).project =
                IF r.rev > 0 /\ r.project = p /\ ~r.archived THEN Inbox ELSE r.project
<1> DEFINE s == [r EXCEPT !.project = Inbox]
<1>1. s \in Talk /\ s.rev = r.rev /\ s.project = Inbox /\ s.archived = r.archived
  BY DEF Talk, Places
<1>2. r.rev \in Nat
  BY DEF Talk
<1>3. Detached(r, p) = IF r.rev > 0 /\ r.project = p /\ ~r.archived THEN Next1(s) ELSE r
  BY DEF Detached
<1> HIDE DEF s
<1> QED  BY <1>1, <1>2, <1>3, NextTalk

-----------------------------------------------------------------------------
(* What each step does.                                                    *)

LEMMA CallTypes ==
    ASSUME TypeOK, NEW c \in Callers
    PROVE  /\ pc[c] \in Commands \union {"idle"}
           /\ arg[c] \in Arg
           /\ arg[c].place \in Places /\ arg[c].archived \in BOOLEAN
           /\ arg[c].parent \in Tasks \union {None} /\ arg[c].deps \in SUBSET Tasks
           /\ arg[c].task \in Tasks \union {None}
           /\ \A t \in Tasks : seen[c][t] \in Row /\ seen[c][t].rev \in Nat /\ heard[c][t] \in Nat
  BY DEF TypeOK, Arg, Row

LEMMA RowTypes ==
    ASSUME TypeOK, NEW t \in Tasks
    PROVE  /\ task[t] \in Row /\ task[t].rev \in Nat /\ task[t].project \in Places
           /\ task[t].archived \in BOOLEAN
           /\ conversation[t] \in Talk /\ conversation[t].rev \in Nat
           /\ conversation[t].project \in Places /\ conversation[t].archived \in BOOLEAN
  BY DEF TypeOK, Row, Talk

LEMMA ReturnType ==
    ASSUME TypeOK, NEW c \in Callers, Return(c)
    PROVE  /\ pc' \in [Callers -> Commands \union {"idle"}]
           /\ arg' \in [Callers -> Arg]
           /\ seen' \in [Callers -> [Tasks -> Row]]
           /\ heard' \in [Callers -> [Tasks -> Nat]]
  BY NoArgType, NoRowType DEF TypeOK, Return

\* The calls after a return: the caller's is empty, the others are as before.
LEMMA Returned ==
    ASSUME TypeOK, NEW c \in Callers, Return(c), NEW d \in Callers
    PROVE  /\ d = c => pc'[d] = "idle" /\ arg'[d] = NoArg /\ \A t \in Tasks : seen'[d][t] = NoRow
           /\ d # c => pc'[d] = pc[d] /\ arg'[d] = arg[d] /\ seen'[d] = seen[d]
  BY DEF TypeOK, Return

\* A command under which every row and every key stays true to its revision
\* keeps the invariant.
LEMMA WritesKeep ==
    ASSUME IInv, NEW c \in Callers, Writes(c), TypeOK'
    PROVE  IInv'
<1> USE DEF IInv
<1>1. Return(c)
  BY DEF Writes
<1>2. \A t \in Tasks : /\ task[t].rev \in Nat /\ task'[t].rev \in Nat
                       /\ task'[t] = task[t] \/ (task[t].rev > 0 /\ task'[t].rev = task[t].rev + 1)
  BY RowTypes DEF Writes, TypeOK, Row
<1>3. ArgIsThere'
  BY <1>1, <1>2, Returned DEF ArgIsThere
<1>4. NewIsAlone'
  <2> SUFFICES ASSUME NEW d \in Callers, pc'[d] \in {"create", "converse"}
               PROVE  /\ arg'[d].task \in Tasks
                      /\ conversation'[arg'[d].task].rev = 0
                      /\ pc'[d] = "create" => task'[arg'[d].task].rev = 0
                      /\ \A e \in Callers \ {d} :
                           pc'[e] \in {"create", "converse"} => arg'[e].task # arg'[d].task
    BY DEF NewIsAlone
  <2>1. d # c /\ pc'[d] = pc[d] /\ arg'[d] = arg[d]
    BY <1>1, Returned
  <2>2. arg[d].task \in Tasks /\ conversation[arg[d].task].rev = 0
    BY <2>1 DEF NewIsAlone
  <2>3. conversation'[arg[d].task].rev = 0
    BY <2>1, <2>2 DEF NewIsAlone, Writes
  <2>4. pc[d] = "create" => task'[arg[d].task].rev = 0
    BY <2>1, <2>2, <1>2 DEF NewIsAlone
  <2>5. \A e \in Callers \ {d} :
          pc'[e] \in {"create", "converse"} => arg'[e].task # arg'[d].task
    BY <2>1, <1>1, Returned DEF NewIsAlone
  <2> QED  BY <2>1, <2>2, <2>3, <2>4, <2>5
<1>5. TalkHasTask'
  BY <1>2 DEF TalkHasTask, Writes, ArgIsThere
<1>6. ReadIsPast' /\ RevisionTellsTheRow'
  <2> SUFFICES ASSUME NEW d \in Callers, NEW t \in Tasks
               PROVE  /\ seen'[d][t].rev <= task'[t].rev
                      /\ seen'[d][t].rev > 0 /\ seen'[d][t].rev = task'[t].rev =>
                           seen'[d][t] = task'[t]
    BY DEF ReadIsPast, RevisionTellsTheRow
  <2>1. CASE d = c
    BY <2>1, <1>1, <1>2, Returned, NoRowType
  <2>2. CASE d # c
    BY <2>2, <1>1, <1>2, Returned, CallTypes DEF ReadIsPast, RevisionTellsTheRow
  <2> QED  BY <2>1, <2>2
<1>7. KeysArePast'
  <2> SUFFICES ASSUME NEW k \in used'
               PROVE  k.rev < task'[k.task].rev
    BY DEF KeysArePast
  <2>1. CASE k \in used
    <3>1. k.task \in Tasks /\ k.rev \in Nat
      BY <2>1 DEF TypeOK, Key
    <3> QED  BY <2>1, <3>1, <1>2 DEF KeysArePast
  <2> QED  BY <2>1 DEF Writes
<1> QED  BY <1>3, <1>4, <1>5, <1>6, <1>7
LEMMA ReadKeeps ==
    ASSUME IInv, NEW c \in Callers, NEW op \in Commands \ {"converse"}, NEW a \in Arg, NEW S,
           Read(c, op, a, S),
           op \in {"update", "move", "depend", "archive"} =>
             a.task \in Tasks /\ task[a.task].rev > 0,
           op = "create" => /\ a.task \in Tasks /\ task[a.task].rev = 0
                            /\ \A d \in Callers : arg[d].task # a.task
    PROVE  IInv'
<1> USE DEF IInv
<1>1. UNCHANGED <<task, conversation, live, used, writes>>
  BY DEF Read
<1>2. /\ pc'[c] = op /\ arg'[c] = a
      /\ \A d \in Callers \ {c} : pc'[d] = pc[d] /\ arg'[d] = arg[d] /\ seen'[d] = seen[d]
  BY DEF Read, TypeOK
<1>3. \A t \in Tasks : seen'[c][t] = IF t \in S THEN task[t] ELSE NoRow
  BY DEF Read, TypeOK
<1>4. TypeOK'
  <2>1. [t \in Tasks |-> IF t \in S THEN task[t] ELSE NoRow] \in [Tasks -> Row]
    BY NoRowType DEF TypeOK
  <2>2. [t \in Tasks |-> IF t \in S THEN conversation[t].rev ELSE 0] \in [Tasks -> Nat]
    BY RowTypes
  <2> QED  BY <1>1, <2>1, <2>2 DEF Read, TypeOK
<1>5. ArgIsThere'
  <2> SUFFICES ASSUME NEW d \in Callers,
                      pc'[d] \in {"update", "move", "depend", "archive", "converse"}
               PROVE  arg'[d].task \in Tasks /\ task'[arg'[d].task].rev > 0
    BY DEF ArgIsThere
  <2>1. CASE d = c
    BY <2>1, <1>1, <1>2
  <2>2. CASE d # c
    BY <2>2, <1>1, <1>2 DEF ArgIsThere
  <2> QED  BY <2>1, <2>2
<1>6. NewIsAlone'
  <2> SUFFICES ASSUME NEW d \in Callers, pc'[d] \in {"create", "converse"}
               PROVE  /\ arg'[d].task \in Tasks
                      /\ conversation'[arg'[d].task].rev = 0
                      /\ pc'[d] = "create" => task'[arg'[d].task].rev = 0
                      /\ \A e \in Callers \ {d} :
                           pc'[e] \in {"create", "converse"} => arg'[e].task # arg'[d].task
    BY DEF NewIsAlone
  <2>1. CASE d = c
    <3>1. op = "create" /\ arg'[d] = a
      BY <2>1, <1>2
    <3>2. \A e \in Callers \ {d} : arg'[e].task # a.task
      BY <2>1, <3>1, <1>2
    <3> QED  BY <3>1, <3>2, <1>1 DEF TalkHasTask
  <2>2. CASE d # c
    <3>1. pc'[d] = pc[d] /\ arg'[d] = arg[d]
      BY <2>2, <1>2
    <3>2. /\ arg[d].task \in Tasks /\ conversation[arg[d].task].rev = 0
          /\ pc[d] = "create" => task[arg[d].task].rev = 0
          /\ \A e \in Callers \ {d} :
               pc[e] \in {"create", "converse"} => arg[e].task # arg[d].task
      BY <3>1 DEF NewIsAlone
    <3>3. pc'[c] \in {"create", "converse"} => arg'[c].task # arg[d].task
      BY <2>2, <1>2
    <3>4. \A e \in Callers \ {d} :
            pc'[e] \in {"create", "converse"} => arg'[e].task # arg[d].task
      BY <3>2, <3>3, <1>2
    <3> QED  BY <3>1, <3>2, <3>4, <1>1
  <2> QED  BY <2>1, <2>2
<1>7. ReadIsPast' /\ RevisionTellsTheRow'
  <2> SUFFICES ASSUME NEW d \in Callers, NEW t \in Tasks
               PROVE  /\ seen'[d][t].rev <= task[t].rev
                      /\ seen'[d][t].rev > 0 /\ seen'[d][t].rev = task[t].rev =>
                           seen'[d][t] = task[t]
    BY <1>1 DEF ReadIsPast, RevisionTellsTheRow
  <2>1. CASE d = c
    BY <2>1, <1>3, RowTypes, NoRowType
  <2>2. CASE d # c
    BY <2>2, <1>2 DEF ReadIsPast, RevisionTellsTheRow
  <2> QED  BY <2>1, <2>2
<1>8. TalkHasTask' /\ KeysArePast'
  BY <1>1 DEF TalkHasTask, KeysArePast
<1> QED  BY <1>4, <1>5, <1>6, <1>7, <1>8

LEMMA CreateKeeps ==
    ASSUME IInv, NEW c \in Callers, Create(c)
    PROVE  IInv'
<1> USE DEF IInv
<1> DEFINE t == arg[c].task
           r == [NoRow EXCEPT !.rev = 1, !.project = arg[c].place,
                              !.parent = arg[c].parent, !.by = c]
<1>1. t \in Tasks /\ task[t].rev = 0 /\ conversation[t].rev = 0
  BY DEF Create, NewIsAlone
<1>2. r \in Row /\ r.rev = 1
  BY CallTypes DEF Row, NoRow
<1>3. /\ task' = [task EXCEPT ![t] = r]
      /\ pc[c] = "create" /\ pc' = [pc EXCEPT ![c] = "converse"]
      /\ writes' = writes + 1
      /\ UNCHANGED <<conversation, live, used, arg, seen, heard>>
  BY DEF Create
<1> HIDE DEF r
<1>4. TypeOK'
  BY <1>1, <1>2, <1>3 DEF TypeOK, Commands
<1>5. \A u \in Tasks : /\ task[u].rev \in Nat
                       /\ u = t => task'[u] = r
                       /\ u # t => task'[u] = task[u]
  BY <1>3, RowTypes DEF TypeOK
<1>6. pc'[c] = "converse" /\ \A d \in Callers \ {c} : pc'[d] = pc[d]
  BY <1>3 DEF TypeOK
<1>7. ArgIsThere'
  BY <1>1, <1>2, <1>3, <1>5, <1>6 DEF ArgIsThere
<1>8. NewIsAlone'
  <2> SUFFICES ASSUME NEW d \in Callers, pc'[d] \in {"create", "converse"}
               PROVE  /\ arg[d].task \in Tasks
                      /\ conversation[arg[d].task].rev = 0
                      /\ pc'[d] = "create" => task'[arg[d].task].rev = 0
                      /\ \A e \in Callers \ {d} :
                           pc'[e] \in {"create", "converse"} => arg[e].task # arg[d].task
    BY <1>3 DEF NewIsAlone
  <2>1. \A e \in Callers : pc'[e] \in {"create", "converse"} => pc[e] \in {"create", "converse"}
    BY <1>3, <1>6
  <2>2. /\ arg[d].task \in Tasks /\ conversation[arg[d].task].rev = 0
        /\ pc[d] = "create" => task[arg[d].task].rev = 0
        /\ \A e \in Callers \ {d} :
             pc[e] \in {"create", "converse"} => arg[e].task # arg[d].task
    BY <2>1 DEF NewIsAlone
  <2>3. pc'[d] = "create" => d # c /\ pc[d] = "create"
    BY <1>6
  <2>4. pc'[d] = "create" => arg[d].task # t
    BY <2>2, <2>3, <1>3
  <2> QED  BY <2>1, <2>2, <2>3, <2>4, <1>5
<1>9. TalkHasTask'
  BY <1>1, <1>2, <1>3, <1>5 DEF TalkHasTask
<1>10. \A d \in Callers : seen[d][t].rev = 0
  BY <1>1, CallTypes DEF ReadIsPast
<1>11. ReadIsPast' /\ RevisionTellsTheRow'
  BY <1>2, <1>3, <1>5, <1>10 DEF ReadIsPast, RevisionTellsTheRow
<1>12. KeysArePast'
  BY <1>1, <1>2, <1>3, <1>5 DEF KeysArePast, TypeOK, Key
<1> QED  BY <1>4, <1>7, <1>8, <1>9, <1>11, <1>12

LEMMA CommitType ==
    ASSUME TypeOK, NEW c \in Callers, NEW op, Commit(c, op),
           task' \in [Tasks -> Row], conversation' \in [Tasks -> Talk],
           live' \subseteq Projects, used' \subseteq Key
    PROVE  TypeOK'
  BY ReturnType DEF TypeOK, Commit

\* The key of an update or a move of a row that is fresh and is written now.
LEMMA KeyIsPast ==
    ASSUME TypeOK, NEW c \in Callers, NEW op \in {"update", "move"}, arg[c].task \in Tasks,
           Fresh(c, arg[c].task), task'[arg[c].task].rev = task[arg[c].task].rev + 1
    PROVE  /\ KeyOf(c, op) \in Key
           /\ KeyOf(c, op).rev < task'[KeyOf(c, op).task].rev
  BY CallTypes DEF KeyOf, Key, Fresh

LEMMA UpdateWrites ==
    ASSUME IInv, NEW c \in Callers, Update(c)
    PROVE  TypeOK' /\ Writes(c)
<1> USE DEF IInv
<1> DEFINE t == arg[c].task
           r == [seen[c][t] EXCEPT !.by = c]
<1>1. t \in Tasks /\ task[t].rev > 0 /\ Fresh(c, t)
  BY DEF Update, Commit, ArgIsThere
<1>2. r \in Row /\ r.rev = task[t].rev
  BY <1>1, CallTypes DEF Row, Fresh
<1>3. /\ task' = [task EXCEPT ![t] = Next1(r)]
      /\ used' = used \union {KeyOf(c, "update")}
      /\ UNCHANGED <<conversation, live>>
      /\ Commit(c, "update")
  BY DEF Update
<1> HIDE DEF r
<1>4. Next1(r) \in Row /\ Next1(r).rev = task[t].rev + 1
  BY <1>2, NextRow
<1>5. task' \in [Tasks -> Row] /\ task'[t].rev = task[t].rev + 1
  BY <1>1, <1>3, <1>4 DEF TypeOK
<1>6. /\ KeyOf(c, "update") \in Key
      /\ KeyOf(c, "update").rev < task'[KeyOf(c, "update").task].rev
  BY <1>1, <1>5, KeyIsPast
<1>7. TypeOK'
  BY <1>3, <1>5, <1>6, CommitType DEF TypeOK
<1> QED  BY <1>1, <1>3, <1>5, <1>6, <1>7 DEF Writes, Commit, TypeOK
LEMMA MoveWrites ==
    ASSUME IInv, UI \in Callers, Move
    PROVE  TypeOK' /\ Writes(UI)
<1> USE DEF IInv
<1> DEFINE t == arg[UI].task
           place == arg[UI].place
           top == Placed(task[t], place, arg[UI].parent)
           below(u) == [task[u] EXCEPT !.project = place]
           talk(u) == [conversation[u] EXCEPT !.project = place]
           moved == IF task[t].project # place THEN Subtree(t) ELSE {t}
<1>1. t \in Tasks /\ task[t].rev > 0 /\ Fresh(UI, t) /\ place \in Places
  BY CallTypes DEF Move, Commit, ArgIsThere
<1>a. task[t] \in Row /\ arg[UI].parent \in Tasks \union {None}
  BY <1>1, RowTypes, CallTypes
<1>2. top \in Row /\ top.rev = task[t].rev
  BY <1>1, <1>a, PlacedRow
<1>3. \A u \in Tasks : /\ below(u) \in Row /\ below(u).rev = task[u].rev
                       /\ talk(u) \in Talk /\ talk(u).rev = conversation[u].rev
  BY <1>1, RowTypes DEF Row, Talk
<1>4. /\ task' = [u \in Tasks |-> IF u = t THEN Next1(top)
                                  ELSE IF u \in moved THEN Next1(below(u)) ELSE task[u]]
      /\ conversation' = [u \in Tasks |->
                            IF /\ u \in MovedTalks(t, moved) /\ conversation[u].rev > 0
                               /\ conversation[u].project # place
                            THEN Next1(talk(u)) ELSE conversation[u]]
      /\ used' = used \union {KeyOf(UI, "move")} /\ live' = live
      /\ Commit(UI, "move")
  BY DEF Move, Placed
<1>5. \A u \in moved : u \in Tasks /\ task[u].rev > 0
  BY <1>1 DEF Subtree, There
<1> HIDE DEF top, below, talk, moved
<1>6. /\ task' \in [Tasks -> Row] /\ conversation' \in [Tasks -> Talk]
      /\ task'[t].rev = task[t].rev + 1
  BY <1>1, <1>2, <1>3, <1>4, NextRow, NextTalk DEF TypeOK
<1>7. \A u \in Tasks : \/ task'[u] = task[u]
                       \/ task[u].rev > 0 /\ task'[u].rev = task[u].rev + 1
  BY <1>1, <1>2, <1>3, <1>4, <1>5, NextRow
<1>8. \A u \in Tasks : conversation[u].rev = 0 => conversation'[u].rev = 0
  BY <1>4
<1>9. /\ KeyOf(UI, "move") \in Key
      /\ KeyOf(UI, "move").rev < task'[KeyOf(UI, "move").task].rev
  BY <1>1, <1>6, KeyIsPast
<1>10. TypeOK'
  BY <1>4, <1>6, <1>9, CommitType DEF TypeOK
<1> QED  BY <1>4, <1>7, <1>8, <1>9, <1>10 DEF Writes, Commit

LEMMA DependWrites ==
    ASSUME IInv, UI \in Callers, Depend
    PROVE  TypeOK' /\ Writes(UI)
<1> USE DEF IInv
<1> DEFINE t == arg[UI].task
           row(deps) == [task[t] EXCEPT !.deps = deps]
<1>1. t \in Tasks /\ task[t].rev > 0
  BY DEF Depend, Commit, ArgIsThere
<1>2. PICK deps \in {task[t].deps} \union SUBSET arg[UI].deps :
        task' = [task EXCEPT ![t] = Next1(row(deps))]
  BY DEF Depend
<1>3. deps \in SUBSET Tasks
  BY <1>1, <1>2, RowTypes, CallTypes DEF Row
<1>4. row(deps) \in Row /\ row(deps).rev = task[t].rev
  BY <1>1, <1>3, RowTypes DEF Row
<1>5. UNCHANGED <<conversation, live, used>> /\ Commit(UI, "depend")
  BY DEF Depend
<1> HIDE DEF row
<1>6. /\ task' \in [Tasks -> Row]
      /\ \A u \in Tasks : task'[u] = task[u] \/ (task[u].rev > 0 /\ task'[u].rev = task[u].rev + 1)
  BY <1>1, <1>2, <1>4, NextRow DEF TypeOK
<1>7. TypeOK'
  BY <1>5, <1>6, CommitType DEF TypeOK
<1> QED  BY <1>5, <1>6, <1>7 DEF Writes, Commit

LEMMA ArchiveWrites ==
    ASSUME IInv, NEW c \in Callers, Archive(c)
    PROVE  TypeOK' /\ Writes(c)
<1> USE DEF IInv
<1> DEFINE t == arg[c].task
           a == arg[c].archived
<1>1. t \in Tasks /\ a \in BOOLEAN
  BY CallTypes DEF Archive, Commit, ArgIsThere
<1>2. /\ task' = [task EXCEPT ![t] = Archived(task[t], a)]
      /\ conversation' = [conversation EXCEPT ![t] = Archived(conversation[t], a)]
      /\ UNCHANGED <<live, used>> /\ Commit(c, "archive")
  BY DEF Archive
<1> HIDE DEF a
<1>b. /\ task[t] \in Row /\ conversation[t] \in Talk /\ conversation[t].rev \in Nat
  BY <1>1, RowTypes
<1>a. /\ Archived(task[t], a) \in Row /\ Archived(conversation[t], a) \in Talk
      /\ Archived(task[t], a) = task[t]
           \/ (task[t].rev > 0 /\ Archived(task[t], a).rev = task[t].rev + 1)
      /\ conversation[t].rev = 0 => Archived(conversation[t], a) = conversation[t]
  BY <1>1, <1>b, ArchivedRow, ArchivedTalk
<1>3. /\ task' \in [Tasks -> Row] /\ conversation' \in [Tasks -> Talk]
      /\ \A u \in Tasks : task'[u] = task[u] \/ (task[u].rev > 0 /\ task'[u].rev = task[u].rev + 1)
      /\ \A u \in Tasks : conversation[u].rev = 0 => conversation'[u].rev = 0
  BY <1>1, <1>2, <1>a DEF TypeOK
<1>4. TypeOK'
  BY <1>2, <1>3, CommitType DEF TypeOK
<1> QED  BY <1>2, <1>3, <1>4 DEF Writes, Commit

LEMMA ConverseWrites ==
    ASSUME IInv, NEW c \in Callers, Converse(c)
    PROVE  TypeOK' /\ Writes(c)
<1> USE DEF IInv
<1> DEFINE t == arg[c].task
           r == [rev |-> 1, project |-> arg[c].place, archived |-> FALSE]
<1>1. t \in Tasks /\ pc[c] = "converse"
  BY DEF Converse, Commit, ArgIsThere
<1>2. r \in Talk
  BY CallTypes DEF Talk
<1>3. /\ conversation' = [conversation EXCEPT ![t] = r]
      /\ UNCHANGED <<task, live, used>> /\ Commit(c, "converse")
  BY DEF Converse
<1> HIDE DEF r
<1>4. TypeOK'
  BY <1>1, <1>2, <1>3, CommitType DEF TypeOK
<1>5. \A u \in Tasks : u # t => conversation'[u] = conversation[u]
  BY <1>3 DEF TypeOK
<1> QED  BY <1>1, <1>3, <1>4, <1>5 DEF Writes, Commit

\* The three commands that write every row of a project.
LEMMA RemoveWrites ==
    ASSUME IInv, UI \in Callers, Remove
    PROVE  TypeOK' /\ Writes(UI)
<1> USE DEF IInv
<1> DEFINE p == arg[UI].place
<1>1. /\ task' = [t \in Tasks |-> Detached(task[t], p)]
      /\ conversation' = [t \in Tasks |-> Detached(conversation[t], p)]
      /\ live' = live \ {p} /\ used' = used /\ Commit(UI, "remove")
  BY DEF Remove
<1>2. /\ task' \in [Tasks -> Row] /\ conversation' \in [Tasks -> Talk]
      /\ \A u \in Tasks : task'[u] = task[u] \/ (task[u].rev > 0 /\ task'[u].rev = task[u].rev + 1)
      /\ \A u \in Tasks : conversation[u].rev = 0 => conversation'[u].rev = 0
  BY <1>1, RowTypes, DetachedRow, DetachedTalk
<1>3. TypeOK'
  BY <1>1, <1>2, CommitType DEF TypeOK
<1> QED  BY <1>1, <1>2, <1>3 DEF Writes, Commit

LEMMA ArchiveProjectWrites ==
    ASSUME IInv, UI \in Callers, ArchiveProject
    PROVE  TypeOK' /\ Writes(UI)
<1> USE DEF IInv
<1> DEFINE S == Active(arg[UI].place)
<1>t. PICK yes \in BOOLEAN : yes = TRUE
  OBVIOUS
<1>1. /\ task' = [t \in Tasks |-> IF t \in S THEN Archived(task[t], yes) ELSE task[t]]
      /\ conversation' = [t \in Tasks |-> IF t \in S THEN Archived(conversation[t], yes)
                                          ELSE conversation[t]]
      /\ UNCHANGED <<live, used>> /\ Commit(UI, "archiveProject")
  BY <1>t DEF ArchiveProject
<1> HIDE DEF S
<1>a. \A u \in Tasks :
        /\ task[u] \in Row /\ conversation[u] \in Talk /\ conversation[u].rev \in Nat
        /\ Archived(task[u], yes) \in Row /\ Archived(conversation[u], yes) \in Talk
        /\ Archived(task[u], yes) = task[u]
             \/ (task[u].rev > 0 /\ Archived(task[u], yes).rev = task[u].rev + 1)
        /\ conversation[u].rev = 0 => Archived(conversation[u], yes) = conversation[u]
  <2> TAKE u \in Tasks
  <2>1. task[u] \in Row /\ conversation[u] \in Talk /\ conversation[u].rev \in Nat
    BY RowTypes
  <2> QED  BY <2>1, ArchivedRow, ArchivedTalk
<1>2. /\ task' \in [Tasks -> Row] /\ conversation' \in [Tasks -> Talk]
      /\ \A u \in Tasks : task'[u] = task[u] \/ (task[u].rev > 0 /\ task'[u].rev = task[u].rev + 1)
      /\ \A u \in Tasks : conversation[u].rev = 0 => conversation'[u].rev = 0
  BY <1>1, <1>a
<1>3. TypeOK'
  BY <1>1, <1>2, CommitType DEF TypeOK
<1> QED  BY <1>1, <1>2, <1>3 DEF Writes, Commit

LEMMA ReorderWrites ==
    ASSUME IInv, UI \in Callers, Reorder
    PROVE  TypeOK' /\ Writes(UI)
<1> USE DEF IInv
<1> DEFINE S == Active(arg[UI].place)
<1>1. /\ task' = [t \in Tasks |-> IF t \in S THEN Next1(task[t]) ELSE task[t]]
      /\ UNCHANGED <<conversation, live, used>> /\ Commit(UI, "reorder")
  BY DEF Reorder
<1>2. \A t \in S : task[t].rev > 0
  BY RowTypes DEF Active, There
<1> HIDE DEF S
<1>3. /\ task' \in [Tasks -> Row]
      /\ \A u \in Tasks : task'[u] = task[u] \/ (task[u].rev > 0 /\ task'[u].rev = task[u].rev + 1)
  BY <1>1, <1>2, RowTypes, NextRow
<1>4. TypeOK'
  BY <1>1, <1>3, CommitType DEF TypeOK
<1> QED  BY <1>1, <1>3, <1>4 DEF Writes, Commit

LEMMA GiveUpWrites ==
    ASSUME IInv, NEW c \in Callers, GiveUp(c)
    PROVE  TypeOK' /\ Writes(c)
<1>1. TypeOK'
  BY ReturnType DEF GiveUp, IInv, TypeOK
<1> QED  BY <1>1 DEF GiveUp, Writes

LEMMA RestoreKeeps ==
    ASSUME IInv, NEW p \in Projects, Restore(p)
    PROVE  IInv'
  BY DEF Restore, IInv, TypeOK, ArgIsThere, NewIsAlone, TalkHasTask, ReadIsPast,
         RevisionTellsTheRow, KeysArePast, calls

-----------------------------------------------------------------------------
(* The invariant.                                                          *)

LEMMA InitIInv == Init => IInv
<1> SUFFICES ASSUME Init PROVE IInv
  OBVIOUS
<1>1. \A t \in Tasks : /\ [NoRow EXCEPT !.rev = IF t \in First THEN 1 ELSE 0,
                                         !.parent = IF t \in First \ {Root} THEN Root ELSE None] \in Row
                       /\ [NoTalk EXCEPT !.rev = IF t \in First THEN 1 ELSE 0] \in Talk
  BY ProductAssumption DEF NoRow, Row, NoTalk, Talk, Places
<1>2. \A t \in Tasks : /\ task[t].rev = IF t \in First THEN 1 ELSE 0
                       /\ conversation[t].rev = IF t \in First THEN 1 ELSE 0
  BY DEF Init, NoRow, NoTalk
<1>3. TypeOK
  BY <1>1, NoArgType, NoRowType DEF Init, TypeOK
<1>4. \A c \in Callers : pc[c] = "idle" /\ \A t \in Tasks : seen[c][t] = NoRow
  BY DEF Init
<1>5. ArgIsThere /\ NewIsAlone
  BY <1>4 DEF ArgIsThere, NewIsAlone
<1>6. TalkHasTask
  BY <1>2 DEF TalkHasTask
<1>7. ReadIsPast /\ RevisionTellsTheRow
  BY <1>2, <1>4, NoRowType DEF ReadIsPast, RevisionTellsTheRow
<1>8. KeysArePast
  BY DEF Init, KeysArePast
<1> QED  BY <1>3, <1>5, <1>6, <1>7, <1>8 DEF IInv

LEMMA ReadsKeep ==
    ASSUME IInv, UI \in Callers, NEW t \in Tasks
    PROVE  /\ \A c \in Callers : ReadUpdate(c, t) => IInv'
           /\ \A c \in Callers, a \in BOOLEAN : ReadArchive(c, t, a) => IInv'
           /\ \A deps \in SUBSET Tasks : ReadDependencies(t, deps) => IInv'
           /\ \A parent \in Tasks \union {None}, place \in Places :
                /\ ReadMove(t, place, parent) => IInv'
                /\ \A c \in Callers : ReadCreate(c, t, place, parent) => IInv'
<1>0. task[t].rev \in Nat
  BY RowTypes DEF IInv
<1>1. ASSUME NEW c \in Callers, ReadUpdate(c, t) PROVE IInv'
  <2> DEFINE a == [NoArg EXCEPT !.task = t]
  <2>1. a \in Arg /\ a.task = t
    BY DEF NoArg, Arg, Places
  <2>2. t \in There /\ Read(c, "update", a, {t})
    BY <1>1 DEF ReadUpdate
  <2> HIDE DEF a
  <2> QED  BY <2>1, <2>2, ReadKeeps DEF There, Commands
<1>2. ASSUME NEW c \in Callers, NEW b \in BOOLEAN, ReadArchive(c, t, b) PROVE IInv'
  <2> DEFINE a == [NoArg EXCEPT !.task = t, !.archived = b]
  <2>1. a \in Arg /\ a.task = t
    BY DEF NoArg, Arg, Places
  <2>2. t \in There /\ Read(c, "archive", a, {t})
    BY <1>2 DEF ReadArchive
  <2> HIDE DEF a
  <2> QED  BY <2>1, <2>2, ReadKeeps DEF There, Commands
<1>3. ASSUME NEW deps \in SUBSET Tasks, ReadDependencies(t, deps) PROVE IInv'
  <2> DEFINE a == [NoArg EXCEPT !.task = t, !.deps = deps]
  <2>1. a \in Arg /\ a.task = t
    BY DEF NoArg, Arg, Places
  <2>2. t \in There /\ Read(UI, "depend", a, {t})
    BY <1>3 DEF ReadDependencies
  <2> HIDE DEF a
  <2> QED  BY <2>1, <2>2, ReadKeeps DEF There, Commands
<1>4. ASSUME NEW parent \in Tasks \union {None}, NEW place \in Places
      PROVE  /\ ReadMove(t, place, parent) => IInv'
             /\ \A c \in Callers : ReadCreate(c, t, place, parent) => IInv'
  <2> DEFINE a == [NoArg EXCEPT !.task = t, !.place = place, !.parent = parent]
  <2>1. a \in Arg /\ a.task = t
    BY DEF NoArg, Arg, Places
  <2>2. ReadMove(t, place, parent) => t \in There /\ Read(UI, "move", a, {t})
    BY DEF ReadMove
  <2>3. \A c \in Callers : ReadCreate(c, t, place, parent) =>
          /\ t \notin There /\ \A d \in Callers : arg[d].task # t
          /\ Read(c, "create", a, {})
    BY DEF ReadCreate
  <2> HIDE DEF a
  <2>4. ReadMove(t, place, parent) => IInv'
    BY <2>1, <2>2, ReadKeeps DEF There, Commands
  <2>5. \A c \in Callers : ReadCreate(c, t, place, parent) => IInv'
    BY <1>0, <2>1, <2>3, ReadKeeps DEF There, Commands
  <2> QED  BY <2>4, <2>5
<1> QED  BY <1>1, <1>2, <1>3, <1>4

LEMMA ProjectReadsKeep ==
    ASSUME IInv, UI \in Callers, NEW p \in Places
    PROVE  ReadRemove(p) \/ ReadArchiveProject(p) \/ ReadReorder(p) => IInv'
<1> DEFINE a == [NoArg EXCEPT !.place = p]
<1>1. a \in Arg
  BY DEF NoArg, Arg, Places
<1>2. /\ ReadRemove(p) => Read(UI, "remove", a, {})
      /\ ReadArchiveProject(p) => Read(UI, "archiveProject", a, Active(p))
      /\ ReadReorder(p) => Read(UI, "reorder", a, Active(p))
  BY DEF ReadRemove, ReadArchiveProject, ReadReorder
<1> HIDE DEF a
<1> QED  BY <1>1, <1>2, ReadKeeps DEF Commands

LEMMA NextKeeps == IInv /\ [Next]_vars => IInv'
<1> SUFFICES ASSUME IInv, [Next]_vars PROVE IInv'
  OBVIOUS
<1>0. UI \in Callers /\ Projects \subseteq Places
  BY DEF Callers, Places
<1>1. ASSUME NEW c \in Callers, Update(c) \/ Archive(c) \/ Converse(c) \/ GiveUp(c) PROVE IInv'
  BY <1>1, UpdateWrites, ArchiveWrites, ConverseWrites, GiveUpWrites, WritesKeep
<1>2. ASSUME Move \/ Depend \/ Remove \/ ArchiveProject \/ Reorder PROVE IInv'
  BY <1>0, <1>2, MoveWrites, DependWrites, RemoveWrites, ArchiveProjectWrites, ReorderWrites,
     WritesKeep
<1>3. CASE UNCHANGED vars
  BY <1>3 DEF vars, calls, IInv, TypeOK, ArgIsThere, NewIsAlone, TalkHasTask, ReadIsPast,
              RevisionTellsTheRow, KeysArePast
<1> QED
  BY <1>0, <1>1, <1>2, <1>3, CreateKeeps, RestoreKeeps, ReadsKeep, ProjectReadsKeep DEF Next

THEOREM Invariance == Spec => []IInv
  BY InitIInv, NextKeeps, PTL DEF Spec

\* Every value stays in its range.
THEOREM Types == Spec => []TypeOK
  BY Invariance, PTL DEF IInv

\* A revision stands for one content of a row.
THEOREM RevisionNamesContent == Spec => []RevisionTellsTheRow
  BY Invariance, PTL DEF IInv

\* The key of an applied command names a revision of the past, so a call that
\* read the row as it is never meets its own key.
THEOREM ReadingAgainHelps == Spec => []OnlyStaleCallsReplay
<1>1. IInv => OnlyStaleCallsReplay
  <2> SUFFICES ASSUME IInv, NEW c \in Callers, pc[c] \in {"update", "move"}, KeyUsed(c)
               PROVE  ~Fresh(c, arg[c].task)
    BY DEF OnlyStaleCallsReplay
  <2>1. PICK k \in used : k.task = arg[c].task /\ k.rev = seen[c][arg[c].task].rev
    BY DEF KeyUsed, KeyOf
  <2>2. arg[c].task \in Tasks /\ k.rev < task[arg[c].task].rev
    BY <2>1 DEF IInv, ArgIsThere, KeysArePast
  <2> QED  BY <2>1, <2>2, RowTypes, CallTypes DEF IInv, Fresh
<1> QED  BY <1>1, Invariance, PTL
-----------------------------------------------------------------------------
(* No call separates a conversation from its task.                         *)

LEMMA UpdateKeepsTalk ==
    ASSUME IInv, NEW c \in Callers, Update(c), NEW u \in Tasks, Together(u)
    PROVE  Together(u)'
<1> DEFINE t == arg[c].task
           r == [seen[c][t] EXCEPT !.by = c]
<1>1. t \in Tasks /\ task[t].rev > 0 /\ Fresh(c, t)
  BY DEF Update, Commit, ArgIsThere, IInv
<1>2. seen[c][t] = task[t]
  BY <1>1 DEF IInv, RevisionTellsTheRow, Fresh
<1>3. r \in Row /\ r.project = task[t].project /\ r.archived = task[t].archived
  BY <1>1, <1>2, RowTypes DEF IInv, Row, Callers
<1>4. task' = [task EXCEPT ![t] = Next1(r)] /\ UNCHANGED conversation
  BY DEF Update
<1> HIDE DEF r
<1> QED  BY <1>1, <1>3, <1>4, NextRow DEF Together, IInv, TypeOK

LEMMA MoveKeepsTalk ==
    ASSUME IInv, UI \in Callers, Move, NEW u \in Tasks, Together(u)
    PROVE  Together(u)'
<1> DEFINE t == arg[UI].task
           place == arg[UI].place
           top == Placed(task[t], place, arg[UI].parent)
           below == [task[u] EXCEPT !.project = place]
           talk == [conversation[u] EXCEPT !.project = place]
           moved == IF task[t].project # place THEN Subtree(t) ELSE {t}
<1>1. t \in Tasks /\ place \in Places
  BY CallTypes DEF IInv, Move, Commit, ArgIsThere
<1>a. task[t] \in Row /\ arg[UI].parent \in Tasks \union {None}
  BY <1>1, RowTypes, CallTypes DEF IInv
<1>2. top \in Row /\ top.project = place /\ top.archived = task[t].archived
  BY <1>1, <1>a, PlacedRow
<1>3. /\ below \in Row /\ below.project = place /\ below.archived = task[u].archived
      /\ talk \in Talk /\ talk.project = place /\ talk.archived = conversation[u].archived
  BY <1>1, RowTypes DEF Row, Talk, IInv
<1>4. /\ task'[u] = IF u = t THEN Next1(top) ELSE IF u \in moved THEN Next1(below) ELSE task[u]
      /\ conversation'[u] =
           IF u \in moved /\ conversation[u].rev > 0 /\ conversation[u].project # place
           THEN Next1(talk) ELSE conversation[u]
  BY DEF Move, MovedTalks, Placed
<1>5. talk.rev = conversation[u].rev /\ conversation[u].rev \in Nat
  BY <1>1, RowTypes DEF Talk, IInv
<1>6. u = t => u \in moved
  BY DEF Subtree
<1> HIDE DEF top, below, talk, moved
<1> QED  BY <1>1, <1>2, <1>3, <1>4, <1>5, <1>6, NextRow, NextTalk DEF Together

LEMMA DependKeepsTalk ==
    ASSUME IInv, UI \in Callers, Depend, NEW u \in Tasks, Together(u)
    PROVE  Together(u)'
<1> DEFINE t == arg[UI].task
           row(deps) == [task[t] EXCEPT !.deps = deps]
<1>1. t \in Tasks
  BY DEF IInv, Depend, Commit, ArgIsThere
<1>2. PICK deps \in {task[t].deps} \union SUBSET arg[UI].deps :
        task' = [task EXCEPT ![t] = Next1(row(deps))]
  BY DEF Depend
<1>3. deps \in SUBSET Tasks
  BY <1>1, <1>2, RowTypes, CallTypes DEF Row, IInv
<1>4. /\ row(deps) \in Row /\ row(deps).project = task[t].project
      /\ row(deps).archived = task[t].archived
  BY <1>1, <1>3, RowTypes DEF Row, IInv
<1>5. UNCHANGED conversation
  BY DEF Depend
<1> HIDE DEF row
<1> QED  BY <1>1, <1>2, <1>4, <1>5, NextRow DEF Together, IInv, TypeOK

LEMMA ArchiveKeepsTalk ==
    ASSUME IInv, NEW c \in Callers, Archive(c), NEW u \in Tasks, Together(u)
    PROVE  Together(u)'
<1> DEFINE t == arg[c].task
           a == arg[c].archived
<1>1. t \in Tasks /\ a \in BOOLEAN /\ task[t].rev > 0
  BY CallTypes DEF IInv, Archive, Commit, ArgIsThere
<1>2. /\ task' = [task EXCEPT ![t] = Archived(task[t], a)]
      /\ conversation' = [conversation EXCEPT ![t] = Archived(conversation[t], a)]
  BY DEF Archive
<1>3. task[t] \in Row /\ conversation[t] \in Talk /\ conversation[t].rev \in Nat
  BY <1>1, RowTypes DEF IInv
<1>4. CASE u = t
  BY <1>1, <1>2, <1>3, <1>4, ArchivedRow, ArchivedTalk DEF Together, IInv, TypeOK
<1>5. CASE u # t
  BY <1>1, <1>2, <1>5 DEF Together, IInv, TypeOK
<1> QED  BY <1>4, <1>5

LEMMA ConverseKeepsTalk ==
    ASSUME IInv, NEW c \in Callers, Converse(c), NEW u \in Tasks, Together(u)
    PROVE  Together(u)'
<1> DEFINE t == arg[c].task
<1>1. t \in Tasks /\ conversation[t].rev = 0
  BY DEF IInv, Converse, Commit, NewIsAlone
<1>2. u # t
  BY <1>1 DEF Together
<1> QED  BY <1>1, <1>2 DEF Converse, Together, IInv, TypeOK

LEMMA ProjectKeepsTalk ==
    ASSUME IInv, UI \in Callers, Remove \/ ArchiveProject \/ Reorder, NEW u \in Tasks, Together(u)
    PROVE  Together(u)'
<1>0. /\ task[u] \in Row /\ task[u].rev \in Nat
      /\ conversation[u] \in Talk /\ conversation[u].rev \in Nat
  BY RowTypes DEF IInv
<1>1. CASE Remove
  <2> DEFINE p == arg[UI].place
  <2>1. task'[u] = Detached(task[u], p) /\ conversation'[u] = Detached(conversation[u], p)
    BY <1>1 DEF Remove
  <2>2. task[u].rev > 0
    BY <1>0 DEF Together, IInv, TalkHasTask
  <2> HIDE DEF p
  <2> QED  BY <1>0, <2>1, <2>2, DetachedRow, DetachedTalk DEF Together
<1>2. CASE ArchiveProject
  <2> DEFINE S == Active(arg[UI].place)
  <2>t. PICK yes \in BOOLEAN : yes = TRUE
    OBVIOUS
  <2>1. /\ task'[u] = IF u \in S THEN Archived(task[u], yes) ELSE task[u]
        /\ conversation'[u] = IF u \in S THEN Archived(conversation[u], yes) ELSE conversation[u]
    BY <1>2, <2>t DEF ArchiveProject
  <2>2. task[u].rev > 0
    BY <1>0 DEF Together, IInv, TalkHasTask
  <2> HIDE DEF S
  <2>3. /\ Archived(task[u], yes).project = task[u].project
        /\ Archived(task[u], yes).archived = yes
        /\ Archived(conversation[u], yes).project = conversation[u].project
        /\ conversation[u].rev > 0 => /\ Archived(conversation[u], yes).archived = yes
                                      /\ Archived(conversation[u], yes).rev > 0
    BY <1>0, <2>2, ArchivedRow, ArchivedTalk
  <2> QED  BY <2>1, <2>3 DEF Together
<1>3. CASE Reorder
  <2> DEFINE S == Active(arg[UI].place)
  <2>1. task'[u] = (IF u \in S THEN Next1(task[u]) ELSE task[u]) /\ conversation' = conversation
    BY <1>3 DEF Reorder
  <2> HIDE DEF S
  <2> QED  BY <1>0, <2>1, NextRow DEF Together
<1> QED  BY <1>1, <1>2, <1>3

\* Reads, refusals and the restoration of a project write no task.
LEMMA OthersKeepTalk ==
    ASSUME IInv, NEW u \in Tasks, Together(u), UNCHANGED <<task, conversation>>
    PROVE  Together(u)'
  BY DEF Together

LEMMA CreateKeepsTalk ==
    ASSUME IInv, NEW c \in Callers, Create(c), NEW u \in Tasks, Together(u)
    PROVE  Together(u)'
<1>1. arg[c].task \in Tasks /\ conversation[arg[c].task].rev = 0
  BY DEF IInv, Create, NewIsAlone
<1> QED  BY <1>1 DEF Create, Together, IInv, TypeOK

\* A task and its conversation that are in one project, and archived or not
\* together, stay so whatever the calls of the interface and the workers do.
THEOREM NoCallParts == Spec => ConversationStays
<1>1. ASSUME IInv, [Next]_vars, NEW u \in Tasks, Together(u)
      PROVE  Together(u)'
  <2>0. UI \in Callers
    BY DEF Callers
  <2>1. ASSUME NEW c \in Callers, NEW op, NEW a, NEW S, Read(c, op, a, S) PROVE Together(u)'
    BY <1>1, <2>1, OthersKeepTalk DEF Read
  <2>2. \A c \in Callers, t \in Tasks, a \in BOOLEAN :
          ReadUpdate(c, t) \/ ReadArchive(c, t, a) => Together(u)'
    BY <2>1 DEF ReadUpdate, ReadArchive
  <2>3. \A t \in Tasks, deps \in SUBSET Tasks : ReadDependencies(t, deps) => Together(u)'
    BY <2>0, <2>1 DEF ReadDependencies
  <2>4. \A t \in Tasks, parent \in Tasks \union {None}, place \in Places :
          /\ ReadMove(t, place, parent) => Together(u)'
          /\ \A c \in Callers : ReadCreate(c, t, place, parent) => Together(u)'
    BY <2>0, <2>1 DEF ReadMove, ReadCreate
  <2>5. \A p \in Places : ReadRemove(p) \/ ReadArchiveProject(p) \/ ReadReorder(p) => Together(u)'
    BY <2>0, <2>1 DEF ReadRemove, ReadArchiveProject, ReadReorder
  <2>6. \A p \in Projects : Restore(p) => Together(u)'
    BY <1>1, OthersKeepTalk DEF Restore
  <2>7. \A c \in Callers : GiveUp(c) => Together(u)'
    BY <1>1, OthersKeepTalk DEF GiveUp
  <2>8. \A c \in Callers :
          Update(c) \/ Archive(c) \/ Create(c) \/ Converse(c) => Together(u)'
    BY <1>1, UpdateKeepsTalk, ArchiveKeepsTalk, CreateKeepsTalk, ConverseKeepsTalk
  <2>9. Move \/ Depend \/ Remove \/ ArchiveProject \/ Reorder => Together(u)'
    BY <1>1, <2>0, MoveKeepsTalk, DependKeepsTalk, ProjectKeepsTalk
  <2>10. UNCHANGED vars => Together(u)'
    BY <1>1, OthersKeepTalk DEF vars
  <2> QED
    BY <1>1, <2>0, <2>2, <2>3, <2>4, <2>5, <2>6, <2>7, <2>8, <2>9, <2>10 DEF Next, Places
<1>2. IInv /\ [Next]_vars => [\A t \in Tasks : Together(t) => Together(t)']_vars
  BY <1>1
<1> QED  BY <1>2, Invariance, PTL DEF Spec, ConversationStays

-----------------------------------------------------------------------------
(* The tree of tasks and the graph of dependencies stay without cycles.    *)

\* A non-empty set of numbers has a least one.
LEMMA LeastNumber ==
    ASSUME NEW T \in SUBSET Nat, T # {}
    PROVE  \E n \in T : \A m \in T : n <= m
<1> DEFINE R == {ss \in Nat \X Nat : ss[1] < ss[2]}
<1>1. IsWellFoundedOn(R, Nat)
  BY NatLessThanWellFounded DEF OpToRel
<1>2. PICK n \in T : \A m \in T : ~ (<<m, n>> \in R)
  <2> HIDE DEF R
  <2> QED  BY <1>1, WFMin
<1>3. ASSUME NEW m \in T PROVE n <= m
  <2>1. m < n => <<m, n>> \in R
    OBVIOUS
  <2> QED  BY <2>1, <1>2
<1> QED  BY <1>3

\* The function Closure is computed with: what is reached in n steps.
StepFrom(f, R) == R \union UNION {f[t] : t \in R}
Chain(f, S, n, r) == r = [i \in 0..n |-> IF i = 0 THEN S ELSE StepFrom(f, r[i - 1])]

LEMMA ChainExists ==
    ASSUME NEW f, NEW S, NEW N \in Nat
    PROVE  \E r : Chain(f, S, N, r)
<1> DEFINE T == {n \in Nat : ~ \E r : Chain(f, S, n, r)}
<1>1. SUFFICES T = {}
  OBVIOUS
<1>2. SUFFICES ASSUME T # {} PROVE FALSE
  OBVIOUS
<1>3. PICK n \in T : \A m \in T : n <= m
  <2> HIDE DEF T
  <2>1. T \in SUBSET Nat
    BY DEF T
  <2> QED  BY <1>2, <2>1, LeastNumber
<1>4. n \in Nat /\ ~ \E r : Chain(f, S, n, r)
  BY <1>3
<1>5. CASE n = 0
  <2>1. Chain(f, S, 0, [i \in 0..0 |-> S])
    BY DEF Chain
  <2> QED  BY <1>4, <1>5, <2>1
<1>6. CASE n # 0
  <2>1. n - 1 \in Nat /\ n - 1 \notin T
    BY <1>3, <1>4, <1>6
  <2>2. PICK r : Chain(f, S, n - 1, r)
    BY <2>1
  <2> DEFINE q == [i \in 0..n |-> IF i = n THEN StepFrom(f, r[n - 1]) ELSE r[i]]
  <2>3. \A i \in 0..(n - 1) : q[i] = r[i] /\ r[i] = IF i = 0 THEN S ELSE StepFrom(f, r[i - 1])
    BY <1>4, <2>2 DEF Chain
  <2>4. q[n] = StepFrom(f, q[n - 1])
    BY <1>4, <1>6
  <2>5. \A i \in 0..n : q[i] = IF i = 0 THEN S ELSE StepFrom(f, q[i - 1])
    <3> HIDE DEF q
    <3> QED  BY <1>4, <1>6, <2>3, <2>4
  <2>6. Chain(f, S, n, q)
    BY <2>5 DEF Chain
  <2> QED  BY <1>4, <2>6
<1> QED  BY <1>5, <1>6

LEMMA ClosureIsChain ==
    ASSUME NEW f, NEW S
    PROVE  \E r : /\ r[0] = S
                  /\ \A i \in 0..(Cardinality(Tasks) - 1) : r[i + 1] = StepFrom(f, r[i])
                  /\ Closure(f, S) = r[Cardinality(Tasks)]
<1> DEFINE N == Cardinality(Tasks)
           q == CHOOSE r : Chain(f, S, N, r)
<1>1. N \in Nat
  BY ProductAssumption, FS_CardinalityType
<1>2. Chain(f, S, N, q)
  <2> HIDE DEF N
  <2> QED  BY <1>1, ChainExists
<1>3. Closure(f, S) = q[N]
  BY Zenon DEF Closure, Chain, StepFrom
<1> HIDE DEF q, N
<1>4. q[0] = S
  BY <1>1, <1>2 DEF Chain
<1>5. ASSUME NEW i \in 0..(N - 1) PROVE q[i + 1] = StepFrom(f, q[i])
  BY <1>1, <1>2 DEF Chain
<1> QED  BY <1>3, <1>4, <1>5 DEF N

Closed(f, C) == \A t \in C : f[t] \subseteq C

\* Closure is the least closed set.
LEMMA ClosureIsLeast ==
    ASSUME NEW f, NEW S, NEW C, S \subseteq C, Closed(f, C)
    PROVE  Closure(f, S) \subseteq C
<1> DEFINE N == Cardinality(Tasks)
<1>1. N \in Nat
  BY ProductAssumption, FS_CardinalityType
<1>2. PICK r : /\ r[0] = S /\ Closure(f, S) = r[N]
               /\ \A i \in 0..(N - 1) : r[i + 1] = StepFrom(f, r[i])
  BY ClosureIsChain
<1> DEFINE T == {n \in 0..N : ~(r[n] \subseteq C)}
<1> HIDE DEF N
<1>3. SUFFICES ASSUME T # {} PROVE FALSE
  BY <1>1, <1>2
<1>4. PICK n \in T : \A m \in T : n <= m
  <2> HIDE DEF T
  <2>1. T \in SUBSET Nat
    BY <1>1 DEF T
  <2> QED  BY <1>3, <2>1, LeastNumber
<1>5. n # 0 /\ n - 1 \in 0..(N - 1) /\ n - 1 \notin T
  BY <1>1, <1>2, <1>4
<1>6. r[n - 1] \subseteq C
  BY <1>1, <1>5
<1>7. r[n] = StepFrom(f, r[n - 1])
  BY <1>1, <1>2, <1>5
<1> QED  BY <1>4, <1>6, <1>7 DEF StepFrom, Closed

\* As many steps as there are tasks reach everything there is to reach: until
\* then every step that is not the last adds a task.
LEMMA ClosureIsClosed ==
    ASSUME NEW f \in [Tasks -> SUBSET Tasks], NEW S \in SUBSET Tasks
    PROVE  /\ S \subseteq Closure(f, S) /\ Closure(f, S) \subseteq Tasks
           /\ Closed(f, Closure(f, S))
<1> DEFINE N == Cardinality(Tasks)
<1>1. N \in Nat
  BY ProductAssumption, FS_CardinalityType
<1>2. PICK r : /\ r[0] = S /\ Closure(f, S) = r[N]
               /\ \A i \in 0..(N - 1) : r[i + 1] = StepFrom(f, r[i])
  BY ClosureIsChain
<1> DEFINE P(n) == /\ S \subseteq r[n] /\ r[n] \subseteq Tasks
                   /\ Cardinality(r[n]) >= n \/ Closed(f, r[n])
           T == {n \in 0..N : ~P(n)}
<1>3. T = {}
  <2> SUFFICES ASSUME T # {} PROVE FALSE
    OBVIOUS
  <2> HIDE DEF N
  <2>1. PICK n \in T : \A m \in T : n <= m
    <3> HIDE DEF T
    <3>1. T \in SUBSET Nat
      BY <1>1 DEF T
    <3> QED  BY <3>1, LeastNumber
  <2>2. P(0)
    <3>1. Cardinality(r[0]) \in Nat
      BY <1>2, ProductAssumption, FS_Subset, FS_CardinalityType
    <3> QED  BY <1>2, <3>1
  <2>3. n # 0 /\ n \in 0..N /\ n - 1 \in 0..(N - 1) /\ P(n - 1) /\ ~P(n)
    BY <1>1, <2>1, <2>2
  <2> DEFINE A == r[n - 1]
             B == r[n]
  <2>4. B = StepFrom(f, A)
    BY <1>1, <1>2, <2>3
  <2>5. S \subseteq A /\ A \subseteq Tasks /\ (Cardinality(A) >= n - 1 \/ Closed(f, A))
    BY <2>3
  <2>6. S \subseteq B /\ B \subseteq Tasks /\ A \subseteq B
    <3> HIDE DEF A, B
    <3> QED  BY <2>4, <2>5 DEF StepFrom
  <2>7. ~(Cardinality(B) >= n) /\ ~Closed(f, B)
    BY <2>3, <2>6
  <2> HIDE DEF A, B
  <2>8. ~Closed(f, A)
    <3>1. Closed(f, A) => B = A
      BY <2>4 DEF StepFrom, Closed
    <3> QED  BY <2>7, <3>1
  <2>9. A # B
    BY <2>4, <2>8 DEF StepFrom, Closed
  <2>10. /\ IsFiniteSet(B) /\ Cardinality(B) \in Nat /\ Cardinality(A) \in Nat
         /\ Cardinality(A) <= Cardinality(B) /\ Cardinality(A) # Cardinality(B)
    <3>1. IsFiniteSet(B) /\ Cardinality(B) \in Nat
      BY <2>6, ProductAssumption, FS_Subset, FS_CardinalityType
    <3>2. /\ IsFiniteSet(A) /\ Cardinality(A) <= Cardinality(B)
          /\ Cardinality(B) = Cardinality(A) => B = A
      BY <2>6, <3>1, FS_Subset
    <3> QED  BY <2>9, <3>1, <3>2, FS_CardinalityType
  <2> QED  BY <1>1, <2>3, <2>5, <2>7, <2>8, <2>10
<1>4. P(N)
  <2>1. N \in 0..N
    BY <1>1
  <2> QED  BY <1>3, <2>1
<1>5. CASE Closed(f, r[N])
  BY <1>2, <1>4, <1>5
<1>6. CASE Cardinality(r[N]) >= N
  <2>1. r[N] = Tasks
    <3>1. /\ Cardinality(r[N]) <= N /\ IsFiniteSet(r[N])
          /\ Cardinality(Tasks) = Cardinality(r[N]) => Tasks = r[N]
      BY <1>4, ProductAssumption, FS_Subset
    <3>2. Cardinality(r[N]) \in Nat
      BY <3>1, FS_CardinalityType
    <3> QED  BY <1>1, <1>6, <3>1, <3>2
  <2> QED  BY <1>2, <1>4, <2>1 DEF Closed
<1> QED  BY <1>4, <1>5, <1>6

NoCycle(f) == \A t \in Tasks : t \notin Closure(f, f[t])

\* New edges from t close no cycle if t is not reached from where they lead.
LEMMA NewEdges ==
    ASSUME NEW f \in [Tasks -> SUBSET Tasks], NEW t \in Tasks, NEW D \in SUBSET Tasks,
           NoCycle(f), t \notin Closure(f, D)
    PROVE  NoCycle([f EXCEPT ![t] = D])
<1> DEFINE g == [f EXCEPT ![t] = D]
           A == Closure(f, D)
<1>1. g[t] = D /\ (\A u \in Tasks \ {t} : g[u] = f[u]) /\ \A u \in Tasks : f[u] \in SUBSET Tasks
  OBVIOUS
<1>2. D \subseteq A /\ A \subseteq Tasks /\ Closed(f, A) /\ t \notin A
  BY ClosureIsClosed
<1> SUFFICES ASSUME NEW u \in Tasks PROVE u \notin Closure(g, g[u])
  BY DEF NoCycle
<1> HIDE DEF g, A
<1>3. Closed(g, A)
  BY <1>1, <1>2 DEF Closed
<1>4. CASE u = t
  <2>1. Closure(g, D) \subseteq A
    BY <1>2, <1>3, ClosureIsLeast
  <2> QED  BY <1>1, <1>2, <1>4, <2>1
<1>5. CASE u # t
  <2> DEFINE C == Closure(f, f[u])
  <2>1. f[u] \subseteq C /\ C \subseteq Tasks /\ Closed(f, C) /\ u \notin C
    <3>1. u \notin C
      BY DEF NoCycle
    <3>2. f[u] \in SUBSET Tasks
      BY <1>1
    <3> HIDE DEF C
    <3> QED  BY <3>1, <3>2, ClosureIsClosed DEF C
  <2>2. g[u] = f[u]
    BY <1>1, <1>5
  <2> HIDE DEF C
  <2>3. CASE t \notin C
    <3>1. Closed(g, C)
      BY <1>1, <2>1, <2>3 DEF Closed
    <3>2. Closure(g, g[u]) \subseteq C
      BY <2>1, <2>2, <3>1, ClosureIsLeast
    <3> QED  BY <2>1, <3>2
  <2>4. CASE t \in C
    <3>1. u \notin A
      <4>1. u \in A => f[u] \subseteq A
        BY <1>2 DEF Closed
      <4>2. f[u] \subseteq A => C \subseteq A
        BY <1>2, ClosureIsLeast DEF C
      <4> QED  BY <1>2, <2>4, <4>1, <4>2
    <3>2. Closed(g, C \union A)
      BY <1>1, <1>2, <2>1 DEF Closed
    <3>3. Closure(g, g[u]) \subseteq C \union A
      BY <2>1, <2>2, <3>2, ClosureIsLeast
    <3> QED  BY <2>1, <3>1, <3>3
  <2> QED  BY <2>3, <2>4
<1> QED  BY <1>4, <1>5 DEF g

\* Nothing points to a task that is not there, and who is about to create a
\* task knows a parent that is there, though perhaps elsewhere by now.
NothingNewInTree ==
    /\ \A t \in Tasks : task[t].rev = 0 =>
          \A u \in Tasks : task[u].parent # t /\ t \notin task[u].deps
    /\ \A c \in Callers : pc[c] = "create" =>
          arg[c].parent = None \/ task[arg[c].parent].rev > 0

TreeInv == Acyclic /\ NothingNewInTree

LEMMA Graphs ==
    ASSUME TypeOK
    PROVE  /\ Parents \in [Tasks -> SUBSET Tasks] /\ Dependencies \in [Tasks -> SUBSET Tasks]
           /\ Acyclic <=> NoCycle(Parents) /\ NoCycle(Dependencies)
           /\ \A t \in Tasks : /\ task[t].parent \in Tasks \union {None}
                               /\ task[t].deps \in SUBSET Tasks /\ task[t].rev \in Nat
<1>1. \A t \in Tasks : /\ task[t].parent \in Tasks \union {None}
                       /\ task[t].deps \in SUBSET Tasks /\ task[t].rev \in Nat
  BY DEF TypeOK, Row
<1> QED  BY <1>1 DEF Parents, Dependencies, Acyclic, NoCycle

\* Rows that keep their parents and dependencies keep the tree.
LEMMA ShapeKept ==
    ASSUME IInv, TreeInv,
           \A u \in Tasks : /\ task'[u].parent = task[u].parent /\ task'[u].deps = task[u].deps
                            /\ task'[u].rev = 0 => task[u].rev = 0,
           \A u \in Tasks : task[u].rev > 0 => task'[u].rev > 0,
           \A c \in Callers : pc'[c] = "create" => pc[c] = "create" /\ arg'[c] = arg[c]
    PROVE  TreeInv'
<1>1. Parents' = Parents /\ Dependencies' = Dependencies
  BY DEF Parents, Dependencies
<1>2. Acyclic'
  BY <1>1 DEF TreeInv, Acyclic
<1>3. \A c \in Callers : arg[c].parent \in Tasks \union {None}
  BY CallTypes DEF IInv
<1>4. NothingNewInTree'
  BY <1>3 DEF TreeInv, NothingNewInTree
<1> QED  BY <1>2, <1>4 DEF TreeInv

LEMMA WrittenShapeKept ==
    ASSUME IInv, TreeInv, NEW c \in Callers, Writes(c), TypeOK',
           \A u \in Tasks : task'[u].parent = task[u].parent /\ task'[u].deps = task[u].deps
    PROVE  TreeInv'
<1>1. \A u \in Tasks : /\ task'[u].rev = 0 => task[u].rev = 0
                       /\ task[u].rev > 0 => task'[u].rev > 0
  BY RowTypes DEF Writes, IInv
<1>2. \A d \in Callers : pc'[d] = "create" => pc[d] = "create" /\ arg'[d] = arg[d]
  BY Returned DEF Writes, IInv
<1> QED  BY <1>1, <1>2, ShapeKept

LEMMA UpdateKeepsTree ==
    ASSUME IInv, TreeInv, NEW c \in Callers, Update(c)
    PROVE  TreeInv'
<1> DEFINE t == arg[c].task
<1>1. t \in Tasks /\ task[t].rev > 0 /\ Fresh(c, t)
  BY DEF Update, Commit, IInv, ArgIsThere
<1>2. seen[c][t] = task[t] /\ task[t] \in Row
  BY <1>1, RowTypes DEF IInv, RevisionTellsTheRow, Fresh
<1>3. task' = [task EXCEPT ![t] = Next1([task[t] EXCEPT !.by = c])]
  BY <1>2 DEF Update
<1>4. \A u \in Tasks : task'[u].parent = task[u].parent /\ task'[u].deps = task[u].deps
  BY <1>1, <1>2, <1>3 DEF Next1, Row, IInv, TypeOK
<1> QED  BY <1>4, UpdateWrites, WrittenShapeKept

LEMMA ArchivedShape ==
    ASSUME NEW r \in Row, NEW a
    PROVE  Archived(r, a).parent = r.parent /\ Archived(r, a).deps = r.deps
  BY DEF Row, Archived, Next1

LEMMA OthersKeepTree ==
    ASSUME IInv, TreeInv, UI \in Callers, NEW c \in Callers,
           Archive(c) \/ Converse(c) \/ GiveUp(c) \/ Remove \/ ArchiveProject \/ Reorder
    PROVE  TreeInv'
<1>1. \A u \in Tasks : task[u] \in Row
  BY RowTypes DEF IInv
<1>2. CASE Archive(c)
  <2>1. arg[c].task \in Tasks
    BY <1>2 DEF Archive, Commit, IInv, ArgIsThere
  <2>2. \A u \in Tasks : task'[u] = task[u] \/ task'[u] = Archived(task[u], arg[c].archived)
    BY <1>2, <2>1 DEF Archive, IInv, TypeOK
  <2> QED  BY <1>1, <1>2, <2>2, ArchivedShape, ArchiveWrites, WrittenShapeKept
<1>3. CASE Converse(c)
  <2>1. task' = task
    BY <1>3 DEF Converse
  <2> QED  BY <1>3, <2>1, ConverseWrites, WrittenShapeKept
<1>4. CASE GiveUp(c)
  <2>1. task' = task
    BY <1>4 DEF GiveUp
  <2> QED  BY <1>4, <2>1, GiveUpWrites, WrittenShapeKept
<1>5. CASE Remove
  <2>1. \A u \in Tasks : task'[u] = Detached(task[u], arg[UI].place)
    BY <1>5 DEF Remove
  <2>2. \A u \in Tasks : task'[u].parent = task[u].parent /\ task'[u].deps = task[u].deps
    BY <1>1, <2>1 DEF Row, Detached, Next1
  <2> QED  BY <1>5, <2>2, RemoveWrites, WrittenShapeKept
<1>6. CASE ArchiveProject
  <2>t. PICK yes \in BOOLEAN : yes = TRUE
    OBVIOUS
  <2>1. \A u \in Tasks : task'[u] = task[u] \/ task'[u] = Archived(task[u], yes)
    BY <1>6, <2>t DEF ArchiveProject
  <2>2. \A u \in Tasks : task'[u].parent = task[u].parent /\ task'[u].deps = task[u].deps
    BY <1>1, <2>1, ArchivedShape
  <2> QED  BY <1>6, <2>2, ArchiveProjectWrites, WrittenShapeKept
<1>7. CASE Reorder
  <2>1. \A u \in Tasks : task'[u] = task[u] \/ task'[u] = Next1(task[u])
    BY <1>7 DEF Reorder
  <2>2. \A u \in Tasks : task'[u].parent = task[u].parent /\ task'[u].deps = task[u].deps
    BY <1>1, <2>1 DEF Row, Next1
  <2> QED  BY <1>7, <2>2, ReorderWrites, WrittenShapeKept
<1> QED  BY <1>2, <1>3, <1>4, <1>5, <1>6, <1>7

LEMMA MoveKeepsTree ==
    ASSUME IInv, TreeInv, UI \in Callers, Move
    PROVE  TreeInv'
<1> DEFINE t == arg[UI].task
           parent == arg[UI].parent
           D == {parent} \ {None}
<1>1. t \in Tasks /\ task[t].rev > 0 /\ pc[UI] = "move" /\ parent \in Tasks \union {None}
  BY CallTypes DEF Move, Commit, IInv, ArgIsThere
<1>2. TypeOK' /\ Writes(UI)
  BY MoveWrites
<1>3. /\ t \notin Closure(Parents, D)
      /\ \A u \in Closure(Parents, D) : u \in There
  BY DEF Move, ParentFits, Active
<1>4. \A u \in Tasks : /\ task'[u].deps = task[u].deps
                       /\ task'[u].parent = IF u = t THEN parent ELSE task[u].parent
  <2> DEFINE place == arg[UI].place
             top == Placed(task[t], place, parent)
             below(u) == [task[u] EXCEPT !.project = place]
             moved == IF task[t].project # place THEN Subtree(t) ELSE {t}
  <2>1. \A u \in Tasks : task[u] \in Row
    BY RowTypes DEF IInv
  <2>2. task' = [u \in Tasks |-> IF u = t THEN Next1(top)
                                 ELSE IF u \in moved THEN Next1(below(u)) ELSE task[u]]
    BY DEF Move, Placed
  <2>3. Next1(top).parent = parent /\ Next1(top).deps = task[t].deps
    BY <1>1, <2>1 DEF Placed, Next1, Row
  <2>4. \A u \in Tasks : Next1(below(u)).parent = task[u].parent /\ Next1(below(u)).deps = task[u].deps
    BY <2>1 DEF Next1, Row
  <2> HIDE DEF top, below, moved
  <2> QED  BY <1>1, <2>2, <2>3, <2>4
<1>5. D \in SUBSET Tasks
  BY <1>1
<1>6. D \subseteq There
  BY <1>3, <1>5, ClosureIsClosed, Graphs DEF IInv
<1> HIDE DEF D
<1>7. Parents' = [Parents EXCEPT ![t] = D] /\ Dependencies' = Dependencies
  <2>1. Dependencies' = Dependencies
    BY <1>4 DEF Dependencies
  <2>2. \A u \in Tasks : {task'[u].parent} \ {None} = IF u = t THEN D ELSE {task[u].parent} \ {None}
    BY <1>4 DEF D
  <2> QED  BY <1>1, <2>1, <2>2 DEF Parents
<1>8. Acyclic'
  <2>1. NoCycle(Parents') /\ NoCycle(Dependencies')
    BY <1>1, <1>3, <1>5, <1>7, NewEdges, Graphs DEF IInv, TreeInv
  <2> QED  BY <2>1 DEF Acyclic, NoCycle, Parents, Dependencies
<1>9. NothingNewInTree'
  <2>1. \A u \in Tasks : /\ task'[u].rev = 0 => task[u].rev = 0
                         /\ task[u].rev > 0 => task'[u].rev > 0
    BY <1>2, RowTypes DEF Writes, IInv
  <2>2. \A d \in Callers : pc'[d] = "create" => pc[d] = "create" /\ arg'[d] = arg[d]
    BY <1>2, Returned DEF Writes, IInv
  <2>3. \A d \in Callers : arg[d].parent \in Tasks \union {None}
    BY CallTypes DEF IInv
  <2>4. parent # None => task[parent].rev > 0
    BY <1>1, <1>6 DEF There, D
  <2>5. \A u \in Tasks : task[u].rev = 0 => u # parent
    BY <1>1, <2>4, ProductAssumption
  <2> QED  BY <1>1, <1>4, <2>1, <2>2, <2>3, <2>5 DEF TreeInv, NothingNewInTree
<1> QED  BY <1>8, <1>9 DEF TreeInv

LEMMA DependKeepsTree ==
    ASSUME IInv, TreeInv, UI \in Callers, Depend
    PROVE  TreeInv'
<1> DEFINE t == arg[UI].task
<1>1. t \in Tasks /\ pc[UI] = "depend"
  BY DEF Depend, Commit, IInv, ArgIsThere
<1>2. TypeOK' /\ Writes(UI)
  BY DependWrites
<1>3. PICK deps \in {task[t].deps} \union SUBSET arg[UI].deps :
         task' = [task EXCEPT ![t] = Next1([@ EXCEPT !.deps = deps])]
  BY DEF Depend
<1>4. \A u \in Tasks : /\ task'[u].parent = task[u].parent
                       /\ task'[u].deps = IF u = t THEN deps ELSE task[u].deps
  <2>1. \A u \in Tasks : task[u] \in Row
    BY RowTypes DEF IInv
  <2> QED  BY <1>1, <1>3, <2>1 DEF Row, Next1, IInv, TypeOK
<1>5. CASE deps = task[t].deps
  BY <1>2, <1>4, <1>5, WrittenShapeKept
<1>6. CASE deps \in SUBSET arg[UI].deps
  <2>1. /\ \A d \in deps : d \in There /\ t \notin Closure(Dependencies, {d})
        /\ deps \in SUBSET Tasks
    BY <1>6, CallTypes DEF Depend, DependenciesFit, IInv
  <2>2. t \notin Closure(Dependencies, deps)
    <3> DEFINE C == UNION {Closure(Dependencies, {d}) : d \in deps}
    <3>1. \A d \in deps : /\ d \in Closure(Dependencies, {d})
                          /\ Closed(Dependencies, Closure(Dependencies, {d}))
      BY <2>1, ClosureIsClosed, Graphs DEF IInv
    <3>2. deps \subseteq C /\ t \notin C
      BY <2>1, <3>1
    <3>3. Closed(Dependencies, C)
      BY <3>1 DEF Closed
    <3> HIDE DEF C
    <3>4. Closure(Dependencies, deps) \subseteq C
      BY <3>2, <3>3, ClosureIsLeast
    <3> QED  BY <3>2, <3>4
  <2>3. Dependencies' = [Dependencies EXCEPT ![t] = deps] /\ Parents' = Parents
    BY <1>1, <1>4 DEF Parents, Dependencies
  <2>4. Acyclic'
    <3>1. NoCycle(Parents') /\ NoCycle(Dependencies')
      BY <1>1, <2>1, <2>2, <2>3, NewEdges, Graphs DEF IInv, TreeInv
    <3> QED  BY <3>1 DEF Acyclic, NoCycle, Parents, Dependencies
  <2>5. NothingNewInTree'
    <3>1. \A u \in Tasks : /\ task'[u].rev = 0 => task[u].rev = 0
                           /\ task[u].rev > 0 => task'[u].rev > 0
      BY <1>2, RowTypes DEF Writes, IInv
    <3>2. \A d \in Callers : pc'[d] = "create" => pc[d] = "create" /\ arg'[d] = arg[d]
      BY <1>2, Returned DEF Writes, IInv
    <3>3. \A d \in Callers : arg[d].parent \in Tasks \union {None}
      BY CallTypes DEF IInv
    <3>4. \A u \in Tasks : task[u].rev = 0 => u \notin deps
      <4>1. \A d \in deps : task[d].rev > 0
        BY <2>1 DEF There
      <4> QED  BY <4>1
    <3> QED  BY <1>1, <1>4, <3>1, <3>2, <3>3, <3>4 DEF TreeInv, NothingNewInTree
  <2> QED  BY <2>4, <2>5 DEF TreeInv
<1> QED  BY <1>3, <1>5, <1>6

LEMMA CreateKeepsTree ==
    ASSUME IInv, TreeInv, NEW c \in Callers, Create(c)
    PROVE  TreeInv'
<1> DEFINE t == arg[c].task
           parent == arg[c].parent
           D == {parent} \ {None}
<1>1. /\ t \in Tasks /\ task[t].rev = 0 /\ parent \in Tasks \union {None}
      /\ parent = None \/ task[parent].rev > 0
  BY CallTypes DEF Create, IInv, NewIsAlone, TreeInv, NothingNewInTree
<1>2. IInv'
  BY CreateKeeps
<1>3. \A u \in Tasks : /\ task'[u].parent = IF u = t THEN parent ELSE task[u].parent
                       /\ task'[u].deps = IF u = t THEN {} ELSE task[u].deps
                       /\ task'[u].rev = IF u = t THEN 1 ELSE task[u].rev
  BY <1>1 DEF Create, NoRow, IInv, TypeOK
<1>4. \A u \in Tasks : t # task[u].parent /\ t \notin task[u].deps
  BY <1>1 DEF TreeInv, NothingNewInTree
<1>5. t # parent /\ D \in SUBSET Tasks
  BY <1>1, ProductAssumption
<1>6. t \notin Closure(Parents, D) /\ t \notin Closure(Dependencies, {})
  <2>1. Closed(Parents, Tasks \ {t}) /\ Closed(Dependencies, Tasks \ {t})
    BY <1>4, Graphs DEF Closed, Parents, Dependencies, IInv
  <2> QED  BY <1>5, <2>1, ClosureIsLeast
<1> HIDE DEF D, t, parent
<1>7. Parents' = [Parents EXCEPT ![t] = D] /\ Dependencies' = [Dependencies EXCEPT ![t] = {}]
  <2>1. Parents' = [u \in Tasks |-> IF u = t THEN D ELSE {task[u].parent} \ {None}]
    <3>1. \A u \in Tasks :
            {task'[u].parent} \ {None} = IF u = t THEN D ELSE {task[u].parent} \ {None}
      BY <1>3 DEF D
    <3> QED  BY <3>1 DEF Parents
  <2>2. Dependencies' = [u \in Tasks |-> IF u = t THEN {} ELSE task[u].deps]
    BY <1>3 DEF Dependencies
  <2>3. [Parents EXCEPT ![t] = D]
          = [u \in Tasks |-> IF u = t THEN D ELSE {task[u].parent} \ {None}]
    BY DEF Parents
  <2>4. [Dependencies EXCEPT ![t] = {}] = [u \in Tasks |-> IF u = t THEN {} ELSE task[u].deps]
    BY DEF Dependencies
  <2> QED  BY <2>1, <2>2, <2>3, <2>4
<1>8. Acyclic'
  <2>1. NoCycle(Parents')
    BY <1>1, <1>5, <1>6, <1>7, NewEdges, Graphs DEF IInv, TreeInv
  <2>2. NoCycle(Dependencies')
    BY <1>1, <1>6, <1>7, NewEdges, Graphs DEF IInv, TreeInv
  <2> QED  BY <2>1, <2>2 DEF Acyclic, NoCycle, Parents, Dependencies
<1>9. NothingNewInTree'
  <2>1. \A d \in Callers : pc'[d] = "create" => pc[d] = "create" /\ arg'[d] = arg[d]
    BY DEF Create, IInv, TypeOK
  <2>2. \A d \in Callers : arg[d].parent \in Tasks \union {None}
    BY CallTypes DEF IInv
  <2>3. ASSUME NEW w \in Tasks, task'[w].rev = 0, NEW u \in Tasks
        PROVE  task'[u].parent # w /\ w \notin task'[u].deps
    <3>1. w # t /\ task[w].rev = 0
      BY <1>3, <2>3
    <3>2. task[u].parent # w /\ w \notin task[u].deps
      BY <3>1 DEF TreeInv, NothingNewInTree
    <3>3. parent # w
      BY <1>1, <3>1, ProductAssumption
    <3> QED  BY <1>3, <3>1, <3>2, <3>3
  <2>4. ASSUME NEW d \in Callers, pc'[d] = "create"
        PROVE  arg'[d].parent = None \/ task'[arg'[d].parent].rev > 0
    <3>1. arg'[d] = arg[d] /\ (arg[d].parent = None \/ task[arg[d].parent].rev > 0)
      BY <2>1, <2>4 DEF TreeInv, NothingNewInTree
    <3> QED  BY <1>1, <1>3, <2>2, <3>1
  <2> QED  BY <2>3, <2>4 DEF NothingNewInTree
<1> QED  BY <1>8, <1>9 DEF TreeInv

\* A call that reads changes no row; one that is to create a task has read
\* its parent.
LEMMA ReadKeepsTree ==
    ASSUME IInv, TreeInv, NEW c \in Callers, NEW op, NEW a, NEW S, Read(c, op, a, S),
           op = "create" => a.parent = None \/ (a.parent \in Tasks /\ task[a.parent].rev > 0)
    PROVE  TreeInv'
<1>1. task' = task /\ \A d \in Callers : IF d = c THEN pc'[d] = op /\ arg'[d] = a
                                         ELSE pc'[d] = pc[d] /\ arg'[d] = arg[d]
  BY DEF Read, IInv, TypeOK
<1>2. Parents' = Parents /\ Dependencies' = Dependencies
  BY <1>1 DEF Parents, Dependencies
<1>3. Acyclic'
  BY <1>2 DEF TreeInv, Acyclic
<1>4. NothingNewInTree'
  BY <1>1 DEF TreeInv, NothingNewInTree
<1> QED  BY <1>3, <1>4 DEF TreeInv

LEMMA ReadCreateKeepsTree ==
    ASSUME IInv, TreeInv, NEW c \in Callers, NEW t \in Tasks, NEW place \in Places,
           NEW parent \in Tasks \union {None}, ReadCreate(c, t, place, parent)
    PROVE  TreeInv'
<1> DEFINE a == [NoArg EXCEPT !.task = t, !.place = place, !.parent = parent]
           D == {parent} \ {None}
<1>1. a.parent = parent
  BY DEF NoArg
<1>2. \A u \in Closure(Parents, D) : u \in There
  BY DEF ReadCreate, ParentFits, Active
<1>3. D \subseteq Closure(Parents, D)
  BY ClosureIsClosed, Graphs DEF IInv
<1>4. parent = None \/ (parent \in Tasks /\ task[parent].rev > 0)
  BY <1>2, <1>3 DEF There
<1>5. Read(c, "create", a, {})
  BY DEF ReadCreate
<1> HIDE DEF a
<1> QED  BY <1>1, <1>4, <1>5, ReadKeepsTree

LEMMA TreeStep == IInv /\ TreeInv /\ [Next]_vars => TreeInv'
<1> SUFFICES ASSUME IInv, TreeInv, [Next]_vars PROVE TreeInv'
  OBVIOUS
<1>0. UI \in Callers
  BY DEF Callers
<1>1. ASSUME NEW t \in Tasks, NEW c \in Callers, ReadUpdate(c, t) \/ \E b \in BOOLEAN : ReadArchive(c, t, b)
      PROVE  TreeInv'
  BY <1>1, ReadKeepsTree DEF ReadUpdate, ReadArchive
<1>2. ASSUME NEW t \in Tasks, NEW deps, ReadDependencies(t, deps)
      PROVE  TreeInv'
  BY <1>0, <1>2, ReadKeepsTree DEF ReadDependencies
<1>3. ASSUME NEW t \in Tasks, NEW place, NEW parent, ReadMove(t, place, parent)
      PROVE  TreeInv'
  BY <1>0, <1>3, ReadKeepsTree DEF ReadMove
<1>4. ASSUME NEW p, ReadRemove(p) \/ ReadArchiveProject(p) \/ ReadReorder(p)
      PROVE  TreeInv'
  BY <1>0, <1>4, ReadKeepsTree DEF ReadRemove, ReadArchiveProject, ReadReorder
<1>5. ASSUME UNCHANGED <<task, pc, arg>> PROVE TreeInv'
  BY <1>5, ShapeKept, Graphs DEF IInv
<1>6. ASSUME NEW p, Restore(p) PROVE TreeInv'
  BY <1>5, <1>6 DEF Restore, calls
<1>7. CASE UNCHANGED vars
  BY <1>5, <1>7 DEF vars, calls
<1> QED
  BY <1>0, <1>1, <1>2, <1>3, <1>4, <1>6, <1>7, UpdateKeepsTree, OthersKeepTree, MoveKeepsTree,
     DependKeepsTree, CreateKeepsTree, ReadCreateKeepsTree DEF Next

\* However many tasks and callers, and whatever they read before: the tree of
\* tasks stays a tree, and no task waits for itself.
THEOREM NeverACycle == Spec => []Acyclic
<1>1. Init => TreeInv
  <2> SUFFICES ASSUME Init PROVE TreeInv
    OBVIOUS
  <2>0. TypeOK
    BY InitIInv DEF IInv
  <2>1. \A t \in Tasks : /\ task[t].parent = (IF t \in First \ {Root} THEN Root ELSE None)
                         /\ task[t].deps = {} /\ task[t].rev = (IF t \in First THEN 1 ELSE 0)
    BY DEF Init, NoRow
  <2>2. NoCycle(Parents)
    <3> SUFFICES ASSUME NEW t \in Tasks PROVE t \notin Closure(Parents, Parents[t])
      BY DEF NoCycle
    <3> DEFINE C == {Root} \ {t}
    <3>1. Root \in Tasks /\ None \notin Tasks /\ Parents[t] \subseteq C
      BY <2>1, ProductAssumption DEF Parents
    <3>2. Closed(Parents, C)
      BY <2>1, <3>1 DEF Closed, Parents
    <3>3. Closure(Parents, Parents[t]) \subseteq C
      BY <3>1, <3>2, ClosureIsLeast
    <3> QED  BY <3>3
  <2>3. NoCycle(Dependencies)
    <3>1. \A t \in Tasks : Dependencies[t] = {}
      BY <2>1 DEF Dependencies
    <3>2. Closure(Dependencies, {}) \subseteq {}
      BY ClosureIsLeast DEF Closed
    <3> QED  BY <3>1, <3>2 DEF NoCycle
  <2>4. NothingNewInTree
    <3>1. ASSUME NEW t \in Tasks, task[t].rev = 0, NEW u \in Tasks
          PROVE  task[u].parent # t /\ t \notin task[u].deps
      <4>1. t # Root /\ t # None
        BY <2>1, <3>1, ProductAssumption
      <4> QED  BY <2>1, <4>1
    <3>2. \A c \in Callers : pc[c] # "create"
      BY DEF Init
    <3> QED  BY <3>1, <3>2 DEF NothingNewInTree
  <2> QED  BY <2>0, <2>2, <2>3, <2>4, Graphs DEF TreeInv
<1> QED  BY <1>1, TreeStep, Invariance, PTL DEF Spec, TreeInv
=============================================================================

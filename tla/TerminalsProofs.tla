--------------------------- MODULE TerminalsProofs ---------------------------
(***************************************************************************)
(* Proofs about Terminals, for any number of requests, sessions and calls. *)
(*                                                                         *)
(* A session goes from the call that starts it to the map and from there   *)
(* to nobody.  The invariant follows it: each part ties where a call is,   *)
(* or what it holds, to the stage of the session it is about.              *)
(***************************************************************************)
EXTENDS Terminals, TLAPS

\* What the threads of a session did so far, and what is left to them.
SessionInv ==
    \A s \in Sessions :
      /\ session[s].shown = "Ended" => /\ session[s].process = "gone"
                                       /\ session[s].waiter \in {"holds", "done"}
      /\ session[s].waiter = "done" => "end" \in session[s].told
      /\ session[s].registered => session[s].stage \notin {"none", "starting"}

\* A session that is not listed yet is in the hands of the call that started
\* it, and of no other.
StartInv ==
    /\ \A c \in Callers : At(c, "insert") =>
          /\ Id(c) \in Sessions /\ session[Id(c)].stage = "starting"
          /\ \A d \in Callers : At(d, "insert") /\ Id(d) = Id(c) => d = c
    /\ \A s \in Sessions : session[s].stage = "starting" =>
          \E c \in Callers : At(c, "insert") /\ Id(c) = s
    /\ \A c \in Callers : At(c, "register") =>
          Id(c) \in Sessions /\ session[Id(c)].stage \in {"listed", "forgotten"}

\* A service that was dropped is called by nobody.
ClosedInv == closed => \A c \in Callers : At(c, "idle")

\* Only the user interface runs the project's task, and only requests deal
\* with the task's own process.
Launching == {"spawn", "insert", "register", "first"}
CallInv ==
    /\ call[UI].at \in Launching \union {"idle", "rememberRun", "checkRun", "kill", "mark", "last"}
    /\ call[UI].op \in {"none", "runTask", "terminate", "refresh"}
    /\ call[UI].at \in Launching \union {"rememberRun", "checkRun"} => call[UI].op = "runTask"
    /\ \A c \in Requests : /\ call[c].at \notin {"rememberRun", "checkRun"}
                           /\ call[c].at \in Launching => call[c].op = "spawn"

\* The user interface knows of every process of the project's task: it is the
\* one it remembers or the one it is launching, and never both.
Launched == {"insert", "register", "first", "rememberRun"}
RunInv ==
    /\ call[UI].at \in Launched \union {"spawn"} => run = NoSession
    /\ At(UI, "checkRun") => Id(UI) = run /\ run # NoSession
    /\ call[UI].at \in Launched \ {"insert"} =>
          Id(UI) \in Sessions /\ session[Id(UI)].stage \in {"listed", "forgotten"}
    /\ run # NoSession => session[run].stage \in {"listed", "forgotten"}
    /\ \A s \in Sessions :
          (/\ session[s].stage \in {"starting", "listed"} /\ session[s].scope = "project"
           /\ session[s].process \in {"alive", "hungUp"})
          => run = s \/ (call[UI].at \in Launched /\ Id(UI) = s)

\* The inductive invariant.  The properties alone are not: that a session is
\* forgotten only when its process is gone rests on what the waiting thread
\* does first, that Close reaches every process on who holds the sessions not
\* yet listed, and that the task has one process on what its caller knows.
IInv == /\ TypeOK /\ NoProcessWithoutOwner /\ ToldWhileListed
        /\ SessionInv /\ StartInv /\ ClosedInv /\ CallInv /\ RunInv

-----------------------------------------------------------------------------
(* Every action keeps the invariant.                                        *)

LEMMA Numbers ==
    /\ UI \in Callers /\ UI \notin Requests /\ Nobody \notin Callers
    /\ \A c \in Callers : c = UI \/ c \in Requests
    /\ Requests \subseteq Callers
    /\ NoSession \notin Sessions /\ \A s \in Sessions : s \in Nat
    /\ 0 \in 0 .. MaxCalls
  BY TerminalsAssumption DEF Callers, Sessions, NoSession

\* What the steps make of the record of a session is one.
LEMMA Records ==
    /\ \A r \in SessionRecords :
         /\ [r EXCEPT !.stage = "listed"] \in SessionRecords
         /\ [r EXCEPT !.stage = "forgotten"] \in SessionRecords
         /\ [r EXCEPT !.registered = TRUE] \in SessionRecords
         /\ [r EXCEPT !.shown = "Terminating"] \in SessionRecords
         /\ [r EXCEPT !.process = "hungUp"] \in SessionRecords
    /\ \A p \in {"project", "task"} :
         [NewSession EXCEPT !.stage = "starting", !.process = "alive", !.scope = p,
                            !.waiter = "waits", !.reader = "reads"] \in SessionRecords
    /\ \A w \in {"none", "waits"} :
         [NewSession EXCEPT !.stage = "failed", !.process = "hungUp",
                            !.registered = TRUE, !.waiter = w] \in SessionRecords
  <1>1. ASSUME NEW r \in SessionRecords
        PROVE  /\ [r EXCEPT !.stage = "listed"] \in SessionRecords
               /\ [r EXCEPT !.stage = "forgotten"] \in SessionRecords
               /\ [r EXCEPT !.registered = TRUE] \in SessionRecords
               /\ [r EXCEPT !.shown = "Terminating"] \in SessionRecords
               /\ [r EXCEPT !.process = "hungUp"] \in SessionRecords
    BY DEF SessionRecords
  <1>2. ASSUME NEW p \in {"project", "task"}
        PROVE  [NewSession EXCEPT !.stage = "starting", !.process = "alive", !.scope = p,
                                  !.waiter = "waits", !.reader = "reads"] \in SessionRecords
    BY DEF SessionRecords, NewSession
  <1>3. ASSUME NEW w \in {"none", "waits"}
        PROVE  [NewSession EXCEPT !.stage = "failed", !.process = "hungUp",
                                  !.registered = TRUE, !.waiter = w] \in SessionRecords
    BY DEF SessionRecords, NewSession
  <1> QED
    BY <1>1, <1>2, <1>3

\* A process of the project's task is known to the user interface in one of
\* two ways that exclude each other.
LEMMA OneKnown ==
    ASSUME RunInv
    PROVE  OneRunAtATime
  <1> SUFFICES ASSUME NEW s \in Sessions, NEW r \in Sessions,
                      {session[s].stage, session[r].stage} \subseteq {"starting", "listed"},
                      {session[s].scope, session[r].scope} = {"project"},
                      {session[s].process, session[r].process} \subseteq {"alive", "hungUp"}
               PROVE  s = r
    BY DEF OneRunAtATime
  <1>1. /\ session[s].stage \in {"starting", "listed"} /\ session[r].stage \in {"starting", "listed"}
        /\ session[s].scope = "project" /\ session[r].scope = "project"
        /\ session[s].process \in {"alive", "hungUp"} /\ session[r].process \in {"alive", "hungUp"}
    OBVIOUS
  <1>2. /\ run = s \/ (call[UI].at \in Launched /\ Id(UI) = s)
        /\ run = r \/ (call[UI].at \in Launched /\ Id(UI) = r)
    BY <1>1 DEF RunInv
  <1> QED
    BY <1>2, Numbers DEF RunInv

LEMMA LockKeeps ==
    ASSUME NEW c \in Callers, IInv, Lock(c)
    PROVE  IInv'
  <1>1. TypeOK'
    BY Numbers DEF Lock, IInv, TypeOK, rest, Callers
  <1>2. NoProcessWithoutOwner'
    BY Numbers DEF Lock, IInv, NoProcessWithoutOwner, TypeOK, SessionInv,
         StartInv, ClosedInv, At, Id, rest
  <1>3. ToldWhileListed'
    BY Numbers DEF Lock, IInv, ToldWhileListed, TypeOK
  <1>4. SessionInv'
    BY Numbers DEF Lock, IInv, SessionInv, TypeOK
  <1>5. StartInv'
    BY Numbers DEF Lock, IInv, StartInv, TypeOK, ClosedInv, CallInv,
         SessionInv, At, Id, rest
  <1>6. ClosedInv'
    BY Numbers DEF Lock, IInv, ClosedInv, TypeOK, At, rest
  <1>7. CallInv'
    BY Numbers DEF Lock, IInv, CallInv
  <1>8. RunInv'
    BY Numbers DEF Lock, IInv, RunInv, TypeOK, SessionInv, StartInv, CallInv,
         At, Id
  <1> QED
    BY <1>1, <1>2, <1>3, <1>4, <1>5, <1>6, <1>7, <1>8 DEF IInv

LEMMA StartKeeps ==
    ASSUME NEW c \in Callers, IInv, Start(c)
    PROVE  IInv'
  <1>1. TypeOK'
    <2>1. session' \in [Sessions -> SessionRecords]
      BY ZenonT(60), Numbers, Records DEF Start, Unused, IInv, TypeOK, At, Id, Go,
           GoWith, Return, Release, Idle, Listed, IsRunning, StateFree, rest,
           Callers, Queued, Holding, Places, Ops
    <2>2. call' \in [Callers -> [op : Ops, at : Places, id : Sessions \union {NoSession}]]
      BY Numbers DEF Start, Unused, NewSession, IInv, TypeOK, At, Id, Go,
           GoWith, Return, Release, Idle, Listed, IsRunning, StateFree, rest,
           Callers, Queued, Holding, Places
    <2> QED
      BY <2>1, <2>2, Numbers DEF Start, Unused, NewSession, IInv, TypeOK, At,
           Id, Go, GoWith, Return, Release, Idle, Listed, IsRunning,
           StateFree, rest, Callers, Queued, Holding, Places
  <1>2. NoProcessWithoutOwner'
    BY Numbers DEF Start, Unused, NewSession, IInv, NoProcessWithoutOwner,
         TypeOK, SessionInv, StartInv, ClosedInv, At, Id, GoWith, rest
  <1>3. ToldWhileListed'
    BY Numbers DEF Start, Unused, NewSession, IInv, ToldWhileListed
  <1>4. SessionInv'
    BY Numbers DEF Start, Unused, NewSession, IInv, SessionInv
  <1>5. StartInv'
    BY SMTT(30), Numbers DEF Start, Unused, NewSession, IInv, StartInv, TypeOK,
         ClosedInv, CallInv, SessionInv, At, Id, GoWith, rest
  <1>6. ClosedInv'
    BY Numbers DEF Start, Unused, NewSession, IInv, ClosedInv, TypeOK, At,
         GoWith, rest
  <1>7. CallInv'
    BY Numbers DEF Start, Unused, NewSession, IInv, CallInv, TypeOK, At,
         GoWith, rest, Callers, SessionRecords, Queued, Holding, Places,
         Launching
  <1>8. RunInv'
    BY Numbers DEF Start, Unused, NewSession, IInv, RunInv, TypeOK,
         SessionInv, StartInv, CallInv, At, Id, GoWith, rest, Callers,
         SessionRecords, Queued, Holding, Places, Ops, Commands, Launching,
         Launched
  <1> QED
    BY <1>1, <1>2, <1>3, <1>4, <1>5, <1>6, <1>7, <1>8 DEF IInv

LEMMA StartFailsKeeps ==
    ASSUME NEW c \in Callers, IInv, StartFails(c)
    PROVE  IInv'
  <1>1. TypeOK'
    BY Numbers DEF StartFails, IInv, TypeOK, At, Return, Idle, rest, Callers,
         SessionRecords, Queued, Holding, Places, Ops
  <1>2. NoProcessWithoutOwner'
    BY Numbers DEF StartFails, IInv, NoProcessWithoutOwner, TypeOK,
         SessionInv, StartInv, ClosedInv, At, Id, Return, Idle, rest
  <1>3. ToldWhileListed'
    BY Numbers DEF StartFails, IInv, ToldWhileListed, TypeOK
  <1>4. SessionInv'
    BY Numbers DEF StartFails, IInv, SessionInv, TypeOK
  <1>5. StartInv'
    BY Numbers DEF StartFails, IInv, StartInv, TypeOK, ClosedInv, CallInv,
         SessionInv, At, Id, Return, Idle, rest
  <1>6. ClosedInv'
    BY Numbers DEF StartFails, IInv, ClosedInv, TypeOK, At, Return, Idle,
         rest
  <1>7. CallInv'
    BY Numbers DEF StartFails, IInv, CallInv, TypeOK, At, Return, Idle, rest,
         Callers, SessionRecords, Queued, Holding, Places, Launching
  <1>8. RunInv'
    BY Numbers DEF StartFails, IInv, RunInv, TypeOK, SessionInv, StartInv,
         CallInv, At, Id, Return, Idle, rest, Callers, SessionRecords,
         Queued, Holding, Places, Ops, Commands, Launching, Launched
  <1> QED
    BY <1>1, <1>2, <1>3, <1>4, <1>5, <1>6, <1>7, <1>8 DEF IInv

LEMMA ThreadFailsKeeps ==
    ASSUME NEW c \in Callers, IInv, ThreadFails(c)
    PROVE  IInv'
  <1>1. TypeOK'
    <2>1. session' \in [Sessions -> SessionRecords]
      <3>1. PICK s \in Sessions, w \in {"none", "waits"} :
              session' = [session EXCEPT ![s] = [NewSession EXCEPT !.stage = "failed",
                            !.process = "hungUp", !.registered = TRUE, !.waiter = w]]
        BY DEF ThreadFails
      <3>2. [NewSession EXCEPT !.stage = "failed", !.process = "hungUp",
                               !.registered = TRUE, !.waiter = w] \in SessionRecords
        BY Records
      <3> QED
        BY <3>1, <3>2 DEF IInv, TypeOK
    <2>2. call' \in [Callers -> [op : Ops, at : Places, id : Sessions \union {NoSession}]]
      BY Numbers DEF ThreadFails, Unused, NewSession, IInv, TypeOK, At, Id,
           Go, GoWith, Return, Release, Idle, Listed, IsRunning, StateFree,
           rest, Callers, Queued, Holding, Places, Ops
    <2> QED
      BY <2>1, <2>2, Numbers DEF ThreadFails, Unused, NewSession, IInv,
           TypeOK, At, Id, Go, GoWith, Return, Release, Idle, Listed,
           IsRunning, StateFree, rest, Callers, Queued, Holding, Places
  <1>2. NoProcessWithoutOwner'
    BY Numbers DEF ThreadFails, Unused, NewSession, IInv,
         NoProcessWithoutOwner, TypeOK, SessionInv, StartInv, ClosedInv, At,
         Id, Return, Idle, rest, Callers
  <1>3. ToldWhileListed'
    BY Numbers DEF ThreadFails, Unused, NewSession, IInv, ToldWhileListed,
         TypeOK
  <1>4. SessionInv'
    BY Numbers DEF ThreadFails, Unused, NewSession, IInv, SessionInv, TypeOK
  <1>5. StartInv'
    BY Numbers DEF ThreadFails, Unused, NewSession, IInv, StartInv, TypeOK,
         ClosedInv, CallInv, SessionInv, At, Id, Return, Idle, rest
  <1>6. ClosedInv'
    BY Numbers DEF ThreadFails, Unused, NewSession, IInv, ClosedInv, TypeOK,
         At, Return, Idle, rest
  <1>7. CallInv'
    BY Numbers DEF ThreadFails, Unused, NewSession, IInv, CallInv, TypeOK,
         At, Return, Idle, rest, Callers, SessionRecords, Queued, Holding,
         Places, Launching
  <1>8. RunInv'
    BY Numbers DEF ThreadFails, Unused, NewSession, IInv, RunInv, TypeOK,
         SessionInv, StartInv, CallInv, At, Id, Return, Idle, rest, Callers,
         SessionRecords, Queued, Holding, Places, Ops, Commands, Launching,
         Launched
  <1> QED
    BY <1>1, <1>2, <1>3, <1>4, <1>5, <1>6, <1>7, <1>8 DEF IInv

LEMMA InsertKeeps ==
    ASSUME NEW c \in Callers, IInv, Insert(c)
    PROVE  IInv'
  <1>1. TypeOK'
    <2>1. session' \in [Sessions -> SessionRecords]
      BY Numbers, Records DEF Insert, IInv, TypeOK, At
    <2>2. call' \in [Callers -> [op : Ops, at : Places, id : Sessions \union {NoSession}]]
      BY Numbers DEF Insert, IInv, TypeOK, At, Id, Go, GoWith, Return,
           Release, Idle, Listed, IsRunning, StateFree, rest, Callers,
           Queued, Holding, Places, Ops
    <2> QED
      BY <2>1, <2>2, Numbers DEF Insert, IInv, TypeOK, At, Id, Go, GoWith,
           Return, Release, Idle, Listed, IsRunning, StateFree, rest,
           Callers, Queued, Holding
  <1>2. NoProcessWithoutOwner'
    BY Numbers DEF Insert, IInv, NoProcessWithoutOwner, TypeOK, SessionInv,
         StartInv, ClosedInv, At, Id, Go, Release, rest
  <1>3. ToldWhileListed'
    BY Numbers DEF Insert, IInv, ToldWhileListed, TypeOK
  <1>4. SessionInv'
    BY Numbers DEF Insert, IInv, SessionInv, TypeOK
  <1>5. StartInv'
    BY Numbers DEF Insert, IInv, StartInv, TypeOK, ClosedInv, CallInv,
         SessionInv, At, Id, Go
  <1>6. ClosedInv'
    BY Numbers DEF Insert, IInv, ClosedInv, TypeOK, At, Id, Go, Release, rest
  <1>7. CallInv'
    BY Numbers DEF Insert, IInv, CallInv, TypeOK, At, Id, Go, Release, rest,
         Callers, SessionRecords, Queued, Holding, Places, Launching
  <1>8. RunInv'
    BY Numbers DEF Insert, IInv, RunInv, TypeOK, SessionInv, StartInv,
         CallInv, At, Id, Go, Release, rest, Callers, SessionRecords, Queued,
         Holding, Places, Ops, Commands, Launching, Launched
  <1> QED
    BY <1>1, <1>2, <1>3, <1>4, <1>5, <1>6, <1>7, <1>8 DEF IInv

LEMMA RegisterKeeps ==
    ASSUME NEW c \in Callers, IInv, Register(c)
    PROVE  IInv'
  <1>1. TypeOK'
    <2>1. session' \in [Sessions -> SessionRecords]
      BY Numbers, Records DEF Register, IInv, TypeOK, At
    <2>2. call' \in [Callers -> [op : Ops, at : Places, id : Sessions \union {NoSession}]]
      BY Numbers DEF Register, IInv, TypeOK, At, Id, Go, GoWith, Return,
           Release, Idle, Listed, IsRunning, StateFree, rest, Callers,
           Queued, Holding, Places, Ops
    <2> QED
      BY <2>1, <2>2, Numbers DEF Register, IInv, TypeOK, At, Id, Go, GoWith,
           Return, Release, Idle, Listed, IsRunning, StateFree, rest,
           Callers, Queued, Holding
  <1>2. NoProcessWithoutOwner'
    BY Numbers DEF Register, IInv, NoProcessWithoutOwner, TypeOK, SessionInv,
         StartInv, ClosedInv, At, Id, Go, rest
  <1>3. ToldWhileListed'
    BY Numbers DEF Register, IInv, ToldWhileListed, TypeOK, SessionInv
  <1>4. SessionInv'
    BY Numbers DEF Register, IInv, SessionInv, TypeOK, StartInv
  <1>5. StartInv'
    BY Numbers DEF Register, IInv, StartInv, TypeOK, ClosedInv, CallInv,
         SessionInv, At, Id, Go, rest
  <1>6. ClosedInv'
    BY Numbers DEF Register, IInv, ClosedInv, TypeOK, At, Id, Go, rest
  <1>7. CallInv'
    BY Numbers DEF Register, IInv, CallInv, TypeOK, At, Id, Go, rest,
         Callers, SessionRecords, Queued, Holding, Places, Launching
  <1>8. RunInv'
    BY Numbers DEF Register, IInv, RunInv, TypeOK, SessionInv, StartInv,
         CallInv, At, Id, Go, rest, Callers, SessionRecords, Queued, Holding,
         Places, Ops, Launched
  <1> QED
    BY <1>1, <1>2, <1>3, <1>4, <1>5, <1>6, <1>7, <1>8 DEF IInv

LEMMA FirstKeeps ==
    ASSUME NEW c \in Callers, IInv, First(c)
    PROVE  IInv'
  <1>1. TypeOK'
    BY Numbers DEF First, IInv, TypeOK, At, Id, Go, Release, StateFree, rest,
         Callers, SessionRecords, Queued, Holding, Places, Ops
  <1>2. NoProcessWithoutOwner'
    BY Numbers DEF First, IInv, NoProcessWithoutOwner, TypeOK, SessionInv,
         StartInv, ClosedInv, At, Id, Go, Release, StateFree, rest
  <1>3. ToldWhileListed'
    BY Numbers DEF First, IInv, ToldWhileListed, TypeOK, SessionInv
  <1>4. SessionInv'
    BY Numbers DEF First, IInv, SessionInv, TypeOK, StartInv
  <1>5. StartInv'
    BY Numbers DEF First, IInv, StartInv, TypeOK, ClosedInv, CallInv,
         SessionInv, At, Id, Go, Release
  <1>6. ClosedInv'
    BY Numbers DEF First, IInv, ClosedInv, TypeOK, At, Id, Go, Release,
         StateFree, rest
  <1>7. CallInv'
    BY Numbers DEF First, IInv, CallInv, TypeOK, At, Id, Go, Release,
         StateFree, rest, Callers, SessionRecords, Queued, Holding, Places,
         Launching
  <1>8. RunInv'
    BY Numbers DEF First, IInv, RunInv, TypeOK, SessionInv, StartInv,
         CallInv, At, Id, Go, Release, StateFree, rest, Callers,
         SessionRecords, Queued, Holding, Places, Ops, Commands, Launching,
         Launched
  <1> QED
    BY <1>1, <1>2, <1>3, <1>4, <1>5, <1>6, <1>7, <1>8 DEF IInv

LEMMA LastKeeps ==
    ASSUME NEW c \in Callers, IInv, Last(c)
    PROVE  IInv'
  <1>1. TypeOK'
    BY Numbers DEF Last, IInv, TypeOK, At, Id, Return, Release, Idle, Listed,
         StateFree, rest, Callers, SessionRecords, Queued, Holding, Places,
         Ops
  <1>2. NoProcessWithoutOwner'
    BY Numbers DEF Last, IInv, NoProcessWithoutOwner, TypeOK, SessionInv,
         StartInv, ClosedInv, At, Id, Return, Release, Idle, Listed,
         StateFree, rest, Callers
  <1>3. ToldWhileListed'
    BY Numbers DEF Last, IInv, ToldWhileListed, TypeOK, SessionInv
  <1>4. SessionInv'
    BY Numbers DEF Last, IInv, SessionInv, TypeOK, StartInv
  <1>5. StartInv'
    BY Numbers DEF Last, IInv, StartInv, TypeOK, ClosedInv, CallInv,
         SessionInv, At, Id, Return, Release, Idle, Listed
  <1>6. ClosedInv'
    BY Numbers DEF Last, IInv, ClosedInv, TypeOK, At, Id, Return, Release,
         Idle, Listed, StateFree, rest
  <1>7. CallInv'
    BY Numbers DEF Last, IInv, CallInv, TypeOK, At, Id, Return, Release,
         Idle, Listed, StateFree, rest, Callers, SessionRecords, Queued,
         Holding, Places, Launching
  <1>8. RunInv'
    BY Numbers DEF Last, IInv, RunInv, TypeOK, SessionInv, StartInv, CallInv,
         At, Id, Return, Release, Idle, Listed, StateFree, rest, Callers,
         SessionRecords, Queued, Holding, Places, Ops, Commands, Launching,
         Launched
  <1> QED
    BY <1>1, <1>2, <1>3, <1>4, <1>5, <1>6, <1>7, <1>8 DEF IInv

LEMMA NotRunningKeeps ==
    ASSUME NEW c \in Callers, IInv, NotRunning(c)
    PROVE  IInv'
  <1>1. TypeOK'
    BY Numbers DEF NotRunning, IInv, TypeOK, Id, Return, Release, Idle,
         Listed, IsRunning, StateFree, rest, Callers, SessionRecords, Queued,
         Holding, Places, Ops
  <1>2. NoProcessWithoutOwner'
    BY Numbers DEF NotRunning, IInv, NoProcessWithoutOwner, TypeOK,
         SessionInv, StartInv, ClosedInv, At, Id, Return, Release, Idle,
         Listed, IsRunning, StateFree, rest, Callers
  <1>3. ToldWhileListed'
    BY Numbers DEF NotRunning, IInv, ToldWhileListed
  <1>4. SessionInv'
    BY Numbers DEF NotRunning, IInv, SessionInv
  <1>5. StartInv'
    BY Numbers DEF NotRunning, IInv, StartInv, TypeOK, ClosedInv, CallInv,
         SessionInv, At, Id, Return, Release, Idle, Listed
  <1>6. ClosedInv'
    BY Numbers DEF NotRunning, IInv, ClosedInv, TypeOK, At, Id, Return,
         Release, Idle, Listed, IsRunning, StateFree, rest
  <1>7. CallInv'
    BY Numbers DEF NotRunning, IInv, CallInv, TypeOK, Id, Return, Release,
         Idle, Listed, IsRunning, StateFree, rest, Callers, SessionRecords,
         Queued, Holding, Places, Launching
  <1>8. RunInv'
    BY Numbers DEF NotRunning, IInv, RunInv, TypeOK, SessionInv, StartInv,
         CallInv, At, Id, Return, Release, Idle, Listed, IsRunning,
         StateFree, rest, Callers, SessionRecords, Queued, Holding, Places,
         Ops, Commands, Launching, Launched
  <1> QED
    BY <1>1, <1>2, <1>3, <1>4, <1>5, <1>6, <1>7, <1>8 DEF IInv

LEMMA WriteKeeps ==
    ASSUME NEW c \in Callers, IInv, Write(c)
    PROVE  IInv'
  <1>1. TypeOK'
    BY Numbers DEF Write, IInv, TypeOK, At, Id, Go, Listed, IsRunning,
         StateFree, rest, Callers, SessionRecords, Queued, Holding, Places,
         Ops
  <1>2. NoProcessWithoutOwner'
    BY Numbers DEF Write, IInv, NoProcessWithoutOwner, TypeOK, SessionInv,
         StartInv, ClosedInv, At, Id, Go, Listed, IsRunning, StateFree, rest,
         Callers
  <1>3. ToldWhileListed'
    BY Numbers DEF Write, IInv, ToldWhileListed
  <1>4. SessionInv'
    BY Numbers DEF Write, IInv, SessionInv
  <1>5. StartInv'
    BY Numbers DEF Write, IInv, StartInv, TypeOK, ClosedInv, CallInv,
         SessionInv, At, Id, Go
  <1>6. ClosedInv'
    BY Numbers DEF Write, IInv, ClosedInv, TypeOK, At, Id, Go, Listed,
         IsRunning, StateFree, rest
  <1>7. CallInv'
    BY Numbers DEF Write, IInv, CallInv, TypeOK, At, Id, Go, Listed,
         IsRunning, StateFree, rest, Callers, SessionRecords, Queued,
         Holding, Places, Launching
  <1>8. RunInv'
    BY Numbers DEF Write, IInv, RunInv, TypeOK, SessionInv, StartInv,
         CallInv, At, Id, Go, Listed, IsRunning, StateFree, rest, Callers,
         SessionRecords, Queued, Holding, Places, Ops, Commands, Launching
  <1> QED
    BY <1>1, <1>2, <1>3, <1>4, <1>5, <1>6, <1>7, <1>8 DEF IInv

LEMMA WrittenKeeps ==
    ASSUME NEW c \in Callers, IInv, Written(c)
    PROVE  IInv'
  <1>1. TypeOK'
    BY Numbers DEF Written, IInv, TypeOK, At, Go, Release, rest, Callers,
         SessionRecords, Queued, Holding, Places
  <1>2. NoProcessWithoutOwner'
    BY Numbers DEF Written, IInv, NoProcessWithoutOwner, TypeOK, SessionInv,
         StartInv, ClosedInv, At, Id, Go, Release, rest
  <1>3. ToldWhileListed'
    BY Numbers DEF Written, IInv, ToldWhileListed, TypeOK
  <1>4. SessionInv'
    BY Numbers DEF Written, IInv, SessionInv, TypeOK
  <1>5. StartInv'
    BY Numbers DEF Written, IInv, StartInv, TypeOK, ClosedInv, CallInv,
         SessionInv, At, Id, Go
  <1>6. ClosedInv'
    BY Numbers DEF Written, IInv, ClosedInv, TypeOK, At, Go, Release, rest
  <1>7. CallInv'
    BY Numbers DEF Written, IInv, CallInv, TypeOK, At, Go, Release, rest,
         Callers, SessionRecords, Queued, Holding, Places, Launching
  <1>8. RunInv'
    BY Numbers DEF Written, IInv, RunInv, TypeOK, SessionInv, StartInv,
         CallInv, At, Id, Go, Release, rest, Callers, SessionRecords, Queued,
         Holding, Places, Ops, Commands, Launching
  <1> QED
    BY <1>1, <1>2, <1>3, <1>4, <1>5, <1>6, <1>7, <1>8 DEF IInv

LEMMA TerminateKeeps ==
    ASSUME NEW c \in Callers, IInv, Terminate(c)
    PROVE  IInv'
  <1>1. TypeOK'
    BY Numbers DEF Terminate, IInv, TypeOK, At, Id, Go, Return, Release,
         Idle, Listed, IsRunning, StateFree, rest, Callers, SessionRecords,
         Queued, Holding, Places, Ops
  <1>2. NoProcessWithoutOwner'
    BY Numbers DEF Terminate, IInv, NoProcessWithoutOwner, TypeOK,
         SessionInv, StartInv, ClosedInv, At, Id, Go, Return, Release, Idle,
         Listed, IsRunning, StateFree, rest, Callers, SessionRecords, Queued
  <1>3. ToldWhileListed'
    BY Numbers DEF Terminate, IInv, ToldWhileListed, TypeOK, SessionInv,
         StartInv, At, Id, Go, Return, Release, Idle, Listed, IsRunning,
         StateFree, rest, Callers, SessionRecords, Queued
  <1>4. SessionInv'
    BY Numbers DEF Terminate, IInv, SessionInv, TypeOK, StartInv,
         ToldWhileListed, At, Id, Go, Return, Release, Idle, Listed,
         IsRunning, StateFree, rest, Callers, SessionRecords, Queued
  <1>5. StartInv'
    BY Numbers DEF Terminate, IInv, StartInv, TypeOK, ClosedInv, CallInv,
         SessionInv, At, Id, Go, Return, Release, Idle, Listed, IsRunning,
         StateFree, rest, Callers, SessionRecords
  <1>6. ClosedInv'
    BY Numbers DEF Terminate, IInv, ClosedInv, TypeOK, At, Id, Go, Return,
         Release, Idle, Listed, IsRunning, StateFree, rest, Callers
  <1>7. CallInv'
    BY Numbers DEF Terminate, IInv, CallInv, TypeOK, At, Id, Go, Return,
         Release, Idle, Listed, IsRunning, StateFree, rest, Callers,
         SessionRecords, Queued, Holding, Places, Ops, Commands, Launching
  <1>8. RunInv'
    BY Numbers DEF Terminate, IInv, RunInv, TypeOK, SessionInv, StartInv,
         CallInv, At, Id, Go, Return, Release, Idle, Listed, IsRunning,
         StateFree, rest, Callers, SessionRecords, Queued, Holding, Places,
         Ops, Commands, Launching, Launched
  <1> QED
    BY <1>1, <1>2, <1>3, <1>4, <1>5, <1>6, <1>7, <1>8 DEF IInv

LEMMA MarkTerminatingKeeps ==
    ASSUME NEW c \in Callers, IInv, MarkTerminating(c)
    PROVE  IInv'
  <1>1. TypeOK'
    <2>1. session' \in [Sessions -> SessionRecords]
      BY Numbers, Records DEF MarkTerminating, IInv, TypeOK, At
    <2>2. call' \in [Callers -> [op : Ops, at : Places, id : Sessions \union {NoSession}]]
      BY Numbers DEF MarkTerminating, IInv, TypeOK, At, Id, Go, GoWith,
           Return, Release, Idle, Listed, IsRunning, StateFree, rest,
           Callers, Queued, Holding, Places, Ops
    <2> QED
      BY <2>1, <2>2, Numbers DEF MarkTerminating, IInv, TypeOK, At, Id, Go,
           GoWith, Return, Release, Idle, Listed, IsRunning, StateFree, rest,
           Callers, Queued, Holding
  <1>2. NoProcessWithoutOwner'
    BY Numbers DEF MarkTerminating, IInv, NoProcessWithoutOwner, TypeOK,
         SessionInv, StartInv, ClosedInv, At, Id, Go, Release, StateFree,
         rest
  <1>3. ToldWhileListed'
    BY Numbers DEF MarkTerminating, IInv, ToldWhileListed, TypeOK, SessionInv
  <1>4. SessionInv'
    BY Numbers DEF MarkTerminating, IInv, SessionInv, TypeOK, StartInv
  <1>5. StartInv'
    BY Numbers DEF MarkTerminating, IInv, StartInv, TypeOK, ClosedInv,
         CallInv, SessionInv, At, Id, Go, Release
  <1>6. ClosedInv'
    BY Numbers DEF MarkTerminating, IInv, ClosedInv, TypeOK, At, Id, Go,
         Release, StateFree, rest
  <1>7. CallInv'
    BY Numbers DEF MarkTerminating, IInv, CallInv, TypeOK, At, Id, Go,
         Release, StateFree, rest, Callers, SessionRecords, Queued, Holding,
         Places, Launching
  <1>8. RunInv'
    BY Numbers DEF MarkTerminating, IInv, RunInv, TypeOK, SessionInv,
         StartInv, CallInv, At, Id, Go, Release, StateFree, rest, Callers,
         SessionRecords, Queued, Holding, Places, Ops, Commands, Launching,
         Launched
  <1> QED
    BY <1>1, <1>2, <1>3, <1>4, <1>5, <1>6, <1>7, <1>8 DEF IInv

LEMMA ForgetKeeps ==
    ASSUME NEW c \in Callers, IInv, Forget(c)
    PROVE  IInv'
  <1>1. TypeOK'
    <2>1. session' \in [Sessions -> SessionRecords]
      BY Numbers, Records DEF Forget, IInv, TypeOK, At
    <2>2. call' \in [Callers -> [op : Ops, at : Places, id : Sessions \union {NoSession}]]
      BY Numbers DEF Forget, IInv, TypeOK, At, Id, Go, GoWith, Return,
           Release, Idle, Listed, IsRunning, StateFree, rest, Callers,
           Queued, Holding, Places, Ops
    <2> QED
      BY <2>1, <2>2, Numbers DEF Forget, IInv, TypeOK, At, Id, Go, GoWith,
           Return, Release, Idle, Listed, IsRunning, StateFree, rest,
           Callers, Queued, Holding
  <1>2. NoProcessWithoutOwner'
    BY Numbers DEF Forget, IInv, NoProcessWithoutOwner, TypeOK, SessionInv,
         StartInv, ClosedInv, At, Id, GoWith, Release, Listed, IsRunning,
         StateFree, rest, Callers
  <1>3. ToldWhileListed'
    BY Numbers DEF Forget, IInv, ToldWhileListed, TypeOK, SessionInv,
         StartInv, At, Id, GoWith
  <1>4. SessionInv'
    BY Numbers DEF Forget, IInv, SessionInv, TypeOK, StartInv
  <1>5. StartInv'
    BY Numbers DEF Forget, IInv, StartInv, TypeOK, ClosedInv, CallInv,
         SessionInv, At, Id, GoWith, Release
  <1>6. ClosedInv'
    BY Numbers DEF Forget, IInv, ClosedInv, TypeOK, At, Id, GoWith, Release,
         Listed, IsRunning, StateFree, rest
  <1>7. CallInv'
    BY Numbers DEF Forget, IInv, CallInv, TypeOK, At, Id, GoWith, Release,
         Listed, IsRunning, StateFree, rest, Callers, SessionRecords, Queued,
         Holding, Places, Launching
  <1>8. RunInv'
    BY Numbers DEF Forget, IInv, RunInv, TypeOK, SessionInv, StartInv,
         CallInv, At, Id, GoWith, Release, Listed, IsRunning, StateFree,
         rest, Callers, SessionRecords, Queued, Holding, Places, Ops,
         Commands, Launching
  <1> QED
    BY <1>1, <1>2, <1>3, <1>4, <1>5, <1>6, <1>7, <1>8 DEF IInv

LEMMA ReadLinkKeeps ==
    ASSUME NEW c \in Callers, IInv, ReadLink(c)
    PROVE  IInv'
  <1>1. TypeOK'
    BY Numbers DEF ReadLink, IInv, TypeOK, At, GoWith, rest, Callers,
         SessionRecords, Queued, Holding, Places
  <1>2. NoProcessWithoutOwner'
    BY Numbers DEF ReadLink, IInv, NoProcessWithoutOwner, TypeOK, SessionInv,
         StartInv, ClosedInv, At, Id, GoWith, rest
  <1>3. ToldWhileListed'
    BY Numbers DEF ReadLink, IInv, ToldWhileListed, TypeOK, SessionInv
  <1>4. SessionInv'
    BY Numbers DEF ReadLink, IInv, SessionInv, TypeOK, StartInv
  <1>5. StartInv'
    BY Numbers DEF ReadLink, IInv, StartInv, TypeOK, ClosedInv, CallInv,
         SessionInv, At, Id, GoWith, rest
  <1>6. ClosedInv'
    BY Numbers DEF ReadLink, IInv, ClosedInv, TypeOK, At, GoWith, rest
  <1>7. CallInv'
    BY Numbers DEF ReadLink, IInv, CallInv, TypeOK, At, GoWith, rest,
         Callers, SessionRecords, Queued, Holding, Places, Launching
  <1>8. RunInv'
    BY Numbers DEF ReadLink, IInv, RunInv, TypeOK, SessionInv, StartInv,
         CallInv, At, Id, GoWith, rest, Callers, SessionRecords, Queued,
         Holding, Places, Ops, Commands, Launching
  <1> QED
    BY <1>1, <1>2, <1>3, <1>4, <1>5, <1>6, <1>7, <1>8 DEF IInv

LEMMA LookKeeps ==
    ASSUME NEW c \in Callers, IInv, Look(c)
    PROVE  IInv'
  <1>1. TypeOK'
    <2> DEFINE p == CASE ~Listed(Id(c)) -> "unlink"
                      [] session[Id(c)].shown = "Running" -> "decide"
                      [] IsRunning(Id(c)) -> "unlink"
                      [] OTHER -> "drop"
    <2>1. p \in {"unlink", "decide", "drop"}
      BY DEF IsRunning
    <2>2. /\ call' = [call EXCEPT ![c].at = p]
          /\ lock' = Nobody /\ UNCHANGED <<session, link, run, rest>>
      BY DEF Look, Go, Release
    <2> HIDE DEF p
    <2>3. p \in Places
      BY <2>1 DEF Places
    <2>4. call' \in [Callers -> [op : Ops, at : Places, id : Sessions \union {NoSession}]]
      BY <2>2, <2>3 DEF IInv, TypeOK
    <2>5. \A d \in Callers : /\ call'[d].at \notin Holding /\ lock' # d
      <3>1. \A d \in Callers : call[d].at \in Holding => lock = d
        BY DEF IInv, TypeOK
      <3>2. \A d \in Callers : call'[d].at = IF d = c THEN p ELSE call[d].at
        BY <2>2 DEF IInv, TypeOK
      <3>3. lock = c /\ call[c].at \notin Holding /\ p \notin Holding
        BY <2>1 DEF Look, At, Holding
      <3> QED  BY <2>2, <3>1, <3>2, <3>3, Numbers
    <2> QED
      BY <2>2, <2>4, <2>5 DEF IInv, TypeOK, rest
  <1>2. NoProcessWithoutOwner'
    BY Numbers DEF Look, IInv, NoProcessWithoutOwner, TypeOK, SessionInv,
         StartInv, ClosedInv, At, Id, Go, Release, Listed, IsRunning,
         StateFree, rest, Callers
  <1>3. ToldWhileListed'
    BY Numbers DEF Look, IInv, ToldWhileListed, TypeOK, SessionInv
  <1>4. SessionInv'
    BY Numbers DEF Look, IInv, SessionInv, TypeOK, StartInv
  <1>5. StartInv'
    BY Numbers DEF Look, IInv, StartInv, TypeOK, ClosedInv, CallInv,
         SessionInv, At, Id, Go, Release
  <1>6. ClosedInv'
    BY Numbers DEF Look, IInv, ClosedInv, TypeOK, At, Id, Go, Release,
         Listed, IsRunning, StateFree, rest
  <1>7. CallInv'
    BY Numbers DEF Look, IInv, CallInv, TypeOK, At, Id, Go, Release, Listed,
         IsRunning, StateFree, rest, Callers, SessionRecords, Queued,
         Holding, Places, Launching
  <1>8. RunInv'
    BY Numbers DEF Look, IInv, RunInv, TypeOK, SessionInv, StartInv, CallInv,
         At, Id, Go, Release, Listed, IsRunning, StateFree, rest, Callers,
         SessionRecords, Queued, Holding, Places, Ops, Commands, Launching
  <1> QED
    BY <1>1, <1>2, <1>3, <1>4, <1>5, <1>6, <1>7, <1>8 DEF IInv

LEMMA UnlinkKeeps ==
    ASSUME NEW c \in Callers, IInv, Unlink(c)
    PROVE  IInv'
  <1>1. TypeOK'
    BY Numbers DEF Unlink, IInv, TypeOK, At, Go, GoWith, rest, Callers,
         SessionRecords, Queued, Holding, Places
  <1>2. NoProcessWithoutOwner'
    BY Numbers DEF Unlink, IInv, NoProcessWithoutOwner, TypeOK, SessionInv,
         StartInv, ClosedInv, At, Id, Go, GoWith, rest
  <1>3. ToldWhileListed'
    BY Numbers DEF Unlink, IInv, ToldWhileListed, TypeOK
  <1>4. SessionInv'
    BY Numbers DEF Unlink, IInv, SessionInv, TypeOK
  <1>5. StartInv'
    BY Numbers DEF Unlink, IInv, StartInv, TypeOK, ClosedInv, CallInv,
         SessionInv, At, Id, Go, GoWith, rest, Callers
  <1>6. ClosedInv'
    BY Numbers DEF Unlink, IInv, ClosedInv, TypeOK, At, Go, GoWith, rest
  <1>7. CallInv'
    BY Numbers DEF Unlink, IInv, CallInv, TypeOK, At, Go, GoWith, rest,
         Callers, SessionRecords, Queued, Holding, Places, Launching
  <1>8. RunInv'
    BY Numbers DEF Unlink, IInv, RunInv, TypeOK, SessionInv, StartInv,
         CallInv, At, Id, Go, GoWith, rest, Callers, SessionRecords, Queued,
         Holding, Places, Ops, Commands, Launching
  <1> QED
    BY <1>1, <1>2, <1>3, <1>4, <1>5, <1>6, <1>7, <1>8 DEF IInv

LEMMA RefuseKeeps ==
    ASSUME NEW c \in Callers, IInv, Refuse(c)
    PROVE  IInv'
  <1>1. TypeOK'
    BY Numbers DEF Refuse, IInv, TypeOK, At, Return, Idle, rest, Callers,
         SessionRecords, Queued, Holding, Places, Ops
  <1>2. NoProcessWithoutOwner'
    BY Numbers DEF Refuse, IInv, NoProcessWithoutOwner, TypeOK, SessionInv,
         StartInv, ClosedInv, At, Id, Return, Idle, rest
  <1>3. ToldWhileListed'
    BY Numbers DEF Refuse, IInv, ToldWhileListed, TypeOK
  <1>4. SessionInv'
    BY Numbers DEF Refuse, IInv, SessionInv, TypeOK
  <1>5. StartInv'
    BY Numbers DEF Refuse, IInv, StartInv, TypeOK, ClosedInv, CallInv,
         SessionInv, At, Id, Return, Idle, rest
  <1>6. ClosedInv'
    BY Numbers DEF Refuse, IInv, ClosedInv, TypeOK, At, Return, Idle, rest
  <1>7. CallInv'
    BY Numbers DEF Refuse, IInv, CallInv, TypeOK, At, Return, Idle, rest,
         Callers, SessionRecords, Queued, Holding, Places, Launching
  <1>8. RunInv'
    BY Numbers DEF Refuse, IInv, RunInv, TypeOK, SessionInv, StartInv,
         CallInv, At, Id, Return, Idle, rest, Callers, SessionRecords,
         Queued, Holding, Places, Ops, Commands, Launching
  <1> QED
    BY <1>1, <1>2, <1>3, <1>4, <1>5, <1>6, <1>7, <1>8 DEF IInv

LEMMA AcceptKeeps ==
    ASSUME NEW c \in Callers, IInv, Accept(c)
    PROVE  IInv'
  <1>1. TypeOK'
    BY Numbers DEF Accept, IInv, TypeOK, At, Id, Go, rest, Callers,
         SessionRecords, Queued, Holding, Places
  <1>2. NoProcessWithoutOwner'
    BY Numbers DEF Accept, IInv, NoProcessWithoutOwner, TypeOK, SessionInv,
         StartInv, ClosedInv, At, Id, Go, rest
  <1>3. ToldWhileListed'
    BY Numbers DEF Accept, IInv, ToldWhileListed, TypeOK, SessionInv
  <1>4. SessionInv'
    BY Numbers DEF Accept, IInv, SessionInv, TypeOK, StartInv
  <1>5. StartInv'
    BY Numbers DEF Accept, IInv, StartInv, TypeOK, ClosedInv, CallInv,
         SessionInv, At, Id, Go, rest
  <1>6. ClosedInv'
    BY Numbers DEF Accept, IInv, ClosedInv, TypeOK, At, Id, Go, rest
  <1>7. CallInv'
    BY Numbers DEF Accept, IInv, CallInv, TypeOK, At, Id, Go, rest, Callers,
         SessionRecords, Queued, Holding, Places, Launching
  <1>8. RunInv'
    BY Numbers DEF Accept, IInv, RunInv, TypeOK, SessionInv, StartInv,
         CallInv, At, Id, Go
  <1> QED
    BY <1>1, <1>2, <1>3, <1>4, <1>5, <1>6, <1>7, <1>8 DEF IInv

LEMMA RememberKeeps ==
    ASSUME NEW c \in Callers, IInv, Remember(c)
    PROVE  IInv'
  <1>1. TypeOK'
    BY Numbers DEF Remember, IInv, TypeOK, At, Id, Return, Idle, rest,
         Callers, SessionRecords, Queued, Holding, Places, Ops
  <1>2. NoProcessWithoutOwner'
    BY Numbers DEF Remember, IInv, NoProcessWithoutOwner, TypeOK, SessionInv,
         StartInv, ClosedInv, At, Id, Return, Idle, rest
  <1>3. ToldWhileListed'
    BY Numbers DEF Remember, IInv, ToldWhileListed, TypeOK
  <1>4. SessionInv'
    BY Numbers DEF Remember, IInv, SessionInv, TypeOK
  <1>5. StartInv'
    BY Numbers DEF Remember, IInv, StartInv, TypeOK, ClosedInv, CallInv,
         SessionInv, At, Id, Return, Idle, rest
  <1>6. ClosedInv'
    BY Numbers DEF Remember, IInv, ClosedInv, TypeOK, At, Id, Return, Idle,
         rest
  <1>7. CallInv'
    BY Numbers DEF Remember, IInv, CallInv, TypeOK, At, Id, Return, Idle,
         rest, Callers, SessionRecords, Queued, Holding, Places, Launching
  <1>8. RunInv'
    BY Numbers DEF Remember, IInv, RunInv, TypeOK, SessionInv, StartInv,
         CallInv, At, Id, Return, Idle, rest, Callers, SessionRecords,
         Queued, Holding, Places, Ops, Commands, Launching
  <1> QED
    BY <1>1, <1>2, <1>3, <1>4, <1>5, <1>6, <1>7, <1>8 DEF IInv

LEMMA LastKillKeeps ==
    ASSUME NEW c \in Callers, IInv, LastKill(c)
    PROVE  IInv'
  <1>1. TypeOK'
    BY Numbers DEF LastKill, IInv, TypeOK, At, Id, Go, Return, Release, Idle,
         Listed, StateFree, rest, Callers, SessionRecords, Queued, Holding,
         Places, Ops
  <1>2. NoProcessWithoutOwner'
    BY Numbers DEF LastKill, IInv, NoProcessWithoutOwner, TypeOK, SessionInv,
         StartInv, ClosedInv, At, Id, Go, Return, Release, Idle, Listed,
         StateFree, rest, Callers
  <1>3. ToldWhileListed'
    BY Numbers DEF LastKill, IInv, ToldWhileListed
  <1>4. SessionInv'
    BY Numbers DEF LastKill, IInv, SessionInv
  <1>5. StartInv'
    BY SMTT(30), Numbers DEF LastKill, IInv, StartInv, TypeOK, ClosedInv, CallInv,
         SessionInv, At, Id, Go, Return, Release, Idle
  <1>6. ClosedInv'
    BY Numbers DEF LastKill, IInv, ClosedInv, TypeOK, At, Id, Go, Return,
         Release, Idle, Listed, StateFree, rest
  <1>7. CallInv'
    BY Numbers DEF LastKill, IInv, CallInv, TypeOK, At, Id, Go, Return,
         Release, Idle, Listed, StateFree, rest, Callers, SessionRecords,
         Queued, Holding, Places, Ops, Commands, Launching
  <1>8. RunInv'
    BY Numbers DEF LastKill, IInv, RunInv, TypeOK, SessionInv, StartInv,
         CallInv, At, Id, Go, Return, Release, Idle, Listed, StateFree, rest,
         Callers, SessionRecords, Queued, Holding, Places, Ops, Commands,
         Launching
  <1> QED
    BY <1>1, <1>2, <1>3, <1>4, <1>5, <1>6, <1>7, <1>8 DEF IInv

LEMMA UnlinkKilledKeeps ==
    ASSUME NEW c \in Callers, IInv, UnlinkKilled(c)
    PROVE  IInv'
  <1>1. TypeOK'
    BY Numbers DEF UnlinkKilled, IInv, TypeOK, At, Return, Idle, rest,
         Callers, SessionRecords, Queued, Holding, Places, Ops
  <1>2. NoProcessWithoutOwner'
    BY Numbers DEF UnlinkKilled, IInv, NoProcessWithoutOwner, TypeOK,
         SessionInv, StartInv, ClosedInv, At, Id, Return, Idle, rest
  <1>3. ToldWhileListed'
    BY Numbers DEF UnlinkKilled, IInv, ToldWhileListed, TypeOK
  <1>4. SessionInv'
    BY Numbers DEF UnlinkKilled, IInv, SessionInv, TypeOK
  <1>5. StartInv'
    BY Numbers DEF UnlinkKilled, IInv, StartInv, TypeOK, ClosedInv, CallInv,
         SessionInv, At, Id, Return, Idle, rest
  <1>6. ClosedInv'
    BY Numbers DEF UnlinkKilled, IInv, ClosedInv, TypeOK, At, Return, Idle,
         rest
  <1>7. CallInv'
    BY Numbers DEF UnlinkKilled, IInv, CallInv, TypeOK, At, Return, Idle,
         rest, Callers, SessionRecords, Queued, Holding, Places, Launching
  <1>8. RunInv'
    BY Numbers DEF UnlinkKilled, IInv, RunInv, TypeOK, SessionInv, StartInv,
         CallInv, At, Id, Return, Idle, rest, Callers, SessionRecords,
         Queued, Holding, Places, Ops, Commands, Launching
  <1> QED
    BY <1>1, <1>2, <1>3, <1>4, <1>5, <1>6, <1>7, <1>8 DEF IInv

LEMMA CloseKeeps ==
    ASSUME IInv, Close
    PROVE  IInv'
  <1>1. TypeOK'
    <2>1. session' \in [Sessions -> SessionRecords]
      BY Numbers, Records DEF Close, IInv, TypeOK, At
    <2>2. call' \in [Callers -> [op : Ops, at : Places, id : Sessions \union {NoSession}]]
      BY Numbers DEF Close, IInv, TypeOK
    <2> QED
      BY <2>1, <2>2, Numbers DEF Close, IInv, TypeOK
  <1>2. NoProcessWithoutOwner'
    BY Numbers DEF Close, IInv, NoProcessWithoutOwner, TypeOK, SessionInv,
         StartInv, ClosedInv, At, Id, Listed, IsRunning, Callers,
         SessionRecords
  <1>3. ToldWhileListed'
    BY Numbers DEF Close, IInv, ToldWhileListed, TypeOK, SessionInv
  <1>4. SessionInv'
    BY Numbers DEF Close, IInv, SessionInv, TypeOK, StartInv
  <1>5. StartInv'
    BY Numbers DEF Close, IInv, StartInv, TypeOK, ClosedInv, CallInv,
         SessionInv, At, Id
  <1>6. ClosedInv'
    BY Numbers DEF Close, IInv, ClosedInv, TypeOK, At, Listed, IsRunning
  <1>7. CallInv'
    BY Numbers DEF Close, IInv, CallInv
  <1>8. RunInv'
    BY Numbers DEF Close, IInv, RunInv, TypeOK, SessionInv, StartInv,
         CallInv, At, Id, Listed
  <1> QED
    BY <1>1, <1>2, <1>3, <1>4, <1>5, <1>6, <1>7, <1>8 DEF IInv

LEMMA ProcessEndsKeeps ==
    ASSUME NEW s \in Sessions, IInv, ProcessEnds(s)
    PROVE  IInv'
  <1>1. TypeOK'
    BY Numbers DEF ProcessEnds, IInv, TypeOK, rest, Callers, SessionRecords
  <1>2. NoProcessWithoutOwner'
    BY Numbers DEF ProcessEnds, IInv, NoProcessWithoutOwner, TypeOK,
         SessionInv, StartInv, ClosedInv, At, Id, rest
  <1>3. ToldWhileListed'
    BY Numbers DEF ProcessEnds, IInv, ToldWhileListed, TypeOK
  <1>4. SessionInv'
    BY Numbers DEF ProcessEnds, IInv, SessionInv, TypeOK
  <1>5. StartInv'
    BY Numbers DEF ProcessEnds, IInv, StartInv, TypeOK, ClosedInv, CallInv,
         SessionInv, At, Id, rest
  <1>6. ClosedInv'
    BY Numbers DEF ProcessEnds, IInv, ClosedInv, TypeOK, At, rest
  <1>7. CallInv'
    BY Numbers DEF ProcessEnds, IInv, CallInv
  <1>8. RunInv'
    BY Numbers DEF ProcessEnds, IInv, RunInv, TypeOK, SessionInv, StartInv,
         CallInv, At, Id
  <1> QED
    BY <1>1, <1>2, <1>3, <1>4, <1>5, <1>6, <1>7, <1>8 DEF IInv

LEMMA WaiterSetsKeeps ==
    ASSUME NEW s \in Sessions, IInv, WaiterSets(s)
    PROVE  IInv'
  <1>1. TypeOK'
    BY Numbers DEF WaiterSets, IInv, TypeOK, StateFree, rest, Callers,
         SessionRecords
  <1>2. NoProcessWithoutOwner'
    BY Numbers DEF WaiterSets, IInv, NoProcessWithoutOwner, TypeOK,
         SessionInv, StartInv, ClosedInv, At, Id, StateFree, rest
  <1>3. ToldWhileListed'
    BY Numbers DEF WaiterSets, IInv, ToldWhileListed, TypeOK, SessionInv
  <1>4. SessionInv'
    BY Numbers DEF WaiterSets, IInv, SessionInv, TypeOK, StartInv
  <1>5. StartInv'
    BY Numbers DEF WaiterSets, IInv, StartInv, TypeOK, ClosedInv, CallInv,
         SessionInv, At, Id
  <1>6. ClosedInv'
    BY Numbers DEF WaiterSets, IInv, ClosedInv, TypeOK, At, StateFree, rest
  <1>7. CallInv'
    BY Numbers DEF WaiterSets, IInv, CallInv, TypeOK
  <1>8. RunInv'
    BY Numbers DEF WaiterSets, IInv, RunInv, TypeOK, SessionInv, StartInv,
         CallInv, At, Id, StateFree
  <1> QED
    BY <1>1, <1>2, <1>3, <1>4, <1>5, <1>6, <1>7, <1>8 DEF IInv

LEMMA WaiterTellsKeeps ==
    ASSUME NEW s \in Sessions, IInv, WaiterTells(s)
    PROVE  IInv'
  <1>1. TypeOK'
    BY Numbers DEF WaiterTells, IInv, TypeOK, rest, Callers, SessionRecords
  <1>2. NoProcessWithoutOwner'
    BY Numbers DEF WaiterTells, IInv, NoProcessWithoutOwner, TypeOK,
         SessionInv, StartInv, ClosedInv, At, Id, rest
  <1>3. ToldWhileListed'
    BY Numbers DEF WaiterTells, IInv, ToldWhileListed, TypeOK, SessionInv,
         StartInv, At
  <1>4. SessionInv'
    BY Numbers DEF WaiterTells, IInv, SessionInv, TypeOK
  <1>5. StartInv'
    BY Numbers DEF WaiterTells, IInv, StartInv, TypeOK, ClosedInv, CallInv,
         SessionInv, At, Id, rest
  <1>6. ClosedInv'
    BY Numbers DEF WaiterTells, IInv, ClosedInv, TypeOK, At, rest
  <1>7. CallInv'
    BY Numbers DEF WaiterTells, IInv, CallInv
  <1>8. RunInv'
    BY Numbers DEF WaiterTells, IInv, RunInv, TypeOK, SessionInv, StartInv,
         CallInv, At, Id
  <1> QED
    BY <1>1, <1>2, <1>3, <1>4, <1>5, <1>6, <1>7, <1>8 DEF IInv

LEMMA ReaderSetsKeeps ==
    ASSUME NEW s \in Sessions, IInv, ReaderSets(s)
    PROVE  IInv'
  <1>1. TypeOK'
    BY Numbers DEF ReaderSets, IInv, TypeOK, StateFree, rest, Callers,
         SessionRecords
  <1>2. NoProcessWithoutOwner'
    BY Numbers DEF ReaderSets, IInv, NoProcessWithoutOwner, TypeOK,
         SessionInv, StartInv, ClosedInv, At, Id, StateFree, rest
  <1>3. ToldWhileListed'
    BY Numbers DEF ReaderSets, IInv, ToldWhileListed, TypeOK, SessionInv
  <1>4. SessionInv'
    BY Numbers DEF ReaderSets, IInv, SessionInv, TypeOK, StartInv
  <1>5. StartInv'
    BY Numbers DEF ReaderSets, IInv, StartInv, TypeOK, ClosedInv, CallInv,
         SessionInv, At, Id
  <1>6. ClosedInv'
    BY Numbers DEF ReaderSets, IInv, ClosedInv, TypeOK, At, StateFree, rest
  <1>7. CallInv'
    BY Numbers DEF ReaderSets, IInv, CallInv, TypeOK
  <1>8. RunInv'
    BY Numbers DEF ReaderSets, IInv, RunInv, TypeOK, SessionInv, StartInv,
         CallInv, At, Id, StateFree
  <1> QED
    BY <1>1, <1>2, <1>3, <1>4, <1>5, <1>6, <1>7, <1>8 DEF IInv

LEMMA ReaderTellsKeeps ==
    ASSUME NEW s \in Sessions, IInv, ReaderTells(s)
    PROVE  IInv'
  <1>1. TypeOK'
    BY Numbers DEF ReaderTells, IInv, TypeOK, rest, Callers, SessionRecords
  <1>2. NoProcessWithoutOwner'
    BY Numbers DEF ReaderTells, IInv, NoProcessWithoutOwner, TypeOK,
         SessionInv, StartInv, ClosedInv, At, Id, rest
  <1>3. ToldWhileListed'
    BY Numbers DEF ReaderTells, IInv, ToldWhileListed, TypeOK, SessionInv,
         StartInv, At
  <1>4. SessionInv'
    BY Numbers DEF ReaderTells, IInv, SessionInv, TypeOK
  <1>5. StartInv'
    BY Numbers DEF ReaderTells, IInv, StartInv, TypeOK, ClosedInv, CallInv,
         SessionInv, At, Id, rest
  <1>6. ClosedInv'
    BY Numbers DEF ReaderTells, IInv, ClosedInv, TypeOK, At, rest
  <1>7. CallInv'
    BY Numbers DEF ReaderTells, IInv, CallInv
  <1>8. RunInv'
    BY Numbers DEF ReaderTells, IInv, RunInv, TypeOK, SessionInv, StartInv,
         CallInv, At, Id
  <1> QED
    BY <1>1, <1>2, <1>3, <1>4, <1>5, <1>6, <1>7, <1>8 DEF IInv

LEMMA AskKeeps ==
    ASSUME NEW c \in Requests, IInv, Ask(c)
    PROVE  IInv'
  <1>1. TypeOK'
    <2>1. UNCHANGED session
      BY DEF Ask
    <2>2. \A o \in Commands : [Idle EXCEPT !.op = o, !.at = "link"]
                               \in [op : Ops, at : Places, id : Sessions \union {NoSession}]
      BY DEF Idle, Ops, Places, Commands
    <2>3. call' \in [Callers -> [op : Ops, at : Places, id : Sessions \union {NoSession}]]
      <3>1. PICK o \in Commands : call' = [call EXCEPT ![c] = [Idle EXCEPT !.op = o, !.at = "link"]]
        BY DEF Ask
      <3> QED
        BY <3>1, <2>2 DEF IInv, TypeOK
    <2>4. calls' \in 0 .. MaxCalls
      BY TerminalsAssumption DEF Ask, IInv, TypeOK
    <2> QED
      BY <2>1, <2>3, <2>4, Numbers DEF Ask, IInv, TypeOK, At, Id, Go, GoWith,
           Return, Release, Idle, Listed, IsRunning, StateFree, rest,
           Callers, Queued, Holding
  <1>2. NoProcessWithoutOwner'
    BY Numbers DEF Ask, IInv, NoProcessWithoutOwner, TypeOK, SessionInv
  <1>3. ToldWhileListed'
    BY Numbers DEF Ask, IInv, ToldWhileListed, TypeOK
  <1>4. SessionInv'
    BY Numbers DEF Ask, IInv, SessionInv, TypeOK
  <1>5. StartInv'
    BY Numbers DEF Ask, IInv, StartInv, TypeOK, ClosedInv, CallInv,
         SessionInv, At, Id, Idle
  <1>6. ClosedInv'
    BY Numbers DEF Ask, IInv, ClosedInv
  <1>7. CallInv'
    BY Numbers DEF Ask, IInv, CallInv, TypeOK, At, Idle, Callers,
         SessionRecords, Queued, Holding, Places, Ops, Launching
  <1>8. RunInv'
    BY Numbers DEF Ask, IInv, RunInv, TypeOK, SessionInv, StartInv, CallInv,
         At, Id
  <1> QED
    BY <1>1, <1>2, <1>3, <1>4, <1>5, <1>6, <1>7, <1>8 DEF IInv

LEMMA RunTaskKeeps ==
    ASSUME IInv, RunTask
    PROVE  IInv'
  <1>1. TypeOK'
    <2>1. session' \in [Sessions -> SessionRecords]
      BY Numbers, Records DEF RunTask, IInv, TypeOK, At
    <2>2. call' \in [Callers -> [op : Ops, at : Places, id : Sessions \union {NoSession}]]
      BY Numbers DEF RunTask, IInv, TypeOK, At, Id, Go, GoWith, Return,
           Release, Idle, Listed, IsRunning, StateFree, rest, Callers,
           Queued, Holding, Places, Ops
    <2>3. calls' \in 0 .. MaxCalls
      BY TerminalsAssumption DEF RunTask, IInv, TypeOK
    <2> QED
      BY <2>1, <2>2, <2>3, Numbers DEF RunTask, IInv, TypeOK, At, Id, Go,
           GoWith, Return, Release, Idle, Listed, IsRunning, StateFree, rest,
           Callers, Queued, Holding
  <1>2. NoProcessWithoutOwner'
    BY Numbers DEF RunTask, IInv, NoProcessWithoutOwner, TypeOK
  <1>3. ToldWhileListed'
    BY Numbers DEF RunTask, IInv, ToldWhileListed
  <1>4. SessionInv'
    BY Numbers DEF RunTask, IInv, SessionInv
  <1>5. StartInv'
    BY Numbers DEF RunTask, IInv, StartInv, TypeOK, ClosedInv, CallInv,
         SessionInv, At, Id, Callers
  <1>6. ClosedInv'
    BY Numbers DEF RunTask, IInv, ClosedInv, TypeOK, At
  <1>7. CallInv'
    BY Numbers DEF RunTask, IInv, CallInv, TypeOK, At, Callers,
         SessionRecords, Queued, Holding, Places, Ops, Launching
  <1>8. RunInv'
    BY Numbers DEF RunTask, IInv, RunInv, TypeOK, SessionInv, StartInv,
         CallInv, At, Id, Callers, SessionRecords, Queued, Holding, Places,
         Ops, Launched
  <1> QED
    BY <1>1, <1>2, <1>3, <1>4, <1>5, <1>6, <1>7, <1>8 DEF IInv

LEMMA CheckRunKeeps ==
    ASSUME IInv, CheckRun
    PROVE  IInv'
  <1>1. TypeOK'
    BY Numbers DEF CheckRun, IInv, TypeOK, At, Id, Go, Return, Release, Idle,
         Listed, IsRunning, StateFree, rest, Callers, SessionRecords, Queued,
         Holding, Places, Ops
  <1>2. NoProcessWithoutOwner'
    BY Numbers DEF CheckRun, IInv, NoProcessWithoutOwner, TypeOK, SessionInv,
         StartInv, ClosedInv, At, Id, Go, Return, Release, Idle, Listed,
         IsRunning, StateFree, rest, Callers
  <1>3. ToldWhileListed'
    BY Numbers DEF CheckRun, IInv, ToldWhileListed
  <1>4. SessionInv'
    BY Numbers DEF CheckRun, IInv, SessionInv
  <1>5. StartInv'
    BY SMTT(30), Numbers DEF CheckRun, IInv, StartInv, TypeOK, ClosedInv, CallInv,
         SessionInv, At, Id, Go, Return, Release, Idle, Listed
  <1>6. ClosedInv'
    BY Numbers DEF CheckRun, IInv, ClosedInv, TypeOK, At, Id, Go, Return,
         Release, Idle, Listed, IsRunning, StateFree, rest, Callers
  <1>7. CallInv'
    BY Numbers DEF CheckRun, IInv, CallInv, TypeOK, At, Id, Go, Return,
         Release, Idle, Listed, IsRunning, StateFree, rest, Callers,
         SessionRecords, Queued, Holding, Places, Ops, Commands, Launching
  <1>8. RunInv'
    BY Numbers DEF CheckRun, IInv, RunInv, TypeOK, SessionInv, StartInv,
         CallInv, At, Id, Go, Return, Release, Idle, Listed, IsRunning,
         StateFree, rest, Callers, SessionRecords, Queued, Holding, Places,
         Ops, Commands, Launching, Launched
  <1> QED
    BY <1>1, <1>2, <1>3, <1>4, <1>5, <1>6, <1>7, <1>8 DEF IInv

LEMMA RememberRunKeeps ==
    ASSUME IInv, RememberRun
    PROVE  IInv'
  <1>1. TypeOK'
    BY Numbers DEF RememberRun, IInv, TypeOK, At, Id, Return, Idle, rest,
         Callers, SessionRecords, Queued, Holding, Places, Ops
  <1>2. NoProcessWithoutOwner'
    BY Numbers DEF RememberRun, IInv, NoProcessWithoutOwner, TypeOK,
         SessionInv, StartInv, ClosedInv, At, Id, Return, Idle, rest
  <1>3. ToldWhileListed'
    BY Numbers DEF RememberRun, IInv, ToldWhileListed, TypeOK
  <1>4. SessionInv'
    BY Numbers DEF RememberRun, IInv, SessionInv, TypeOK
  <1>5. StartInv'
    BY Numbers DEF RememberRun, IInv, StartInv, TypeOK, ClosedInv, CallInv,
         SessionInv, At, Id, Return, Idle, rest
  <1>6. ClosedInv'
    BY Numbers DEF RememberRun, IInv, ClosedInv, TypeOK, At, Id, Return,
         Idle, rest
  <1>7. CallInv'
    BY Numbers DEF RememberRun, IInv, CallInv, TypeOK, At, Id, Return, Idle,
         rest, Callers, SessionRecords, Queued, Holding, Places, Launching
  <1>8. RunInv'
    BY Numbers DEF RememberRun, IInv, RunInv, TypeOK, SessionInv, StartInv,
         CallInv, At, Id, Return, Idle, rest, Callers, SessionRecords,
         Queued, Holding, Places, Ops, Commands, Launching, Launched
  <1> QED
    BY <1>1, <1>2, <1>3, <1>4, <1>5, <1>6, <1>7, <1>8 DEF IInv

LEMMA OpenTabKeeps ==
    ASSUME NEW s \in Sessions, IInv, OpenTab(s)
    PROVE  IInv'
  <1>1. TypeOK'
    <2>1. session' \in [Sessions -> SessionRecords]
      BY Numbers, Records DEF OpenTab, IInv, TypeOK, At
    <2>2. call' \in [Callers -> [op : Ops, at : Places, id : Sessions \union {NoSession}]]
      BY Numbers DEF OpenTab, IInv, TypeOK, At, Id, Go, GoWith, Return,
           Release, Idle, Listed, IsRunning, StateFree, rest, Callers,
           Queued, Holding, Places, Ops
    <2>3. calls' \in 0 .. MaxCalls
      BY TerminalsAssumption DEF OpenTab, IInv, TypeOK
    <2> QED
      BY <2>1, <2>2, <2>3, Numbers DEF OpenTab, IInv, TypeOK, At, Id, Go,
           GoWith, Return, Release, Idle, Listed, IsRunning, StateFree, rest,
           Callers, Queued, Holding
  <1>2. NoProcessWithoutOwner'
    BY Numbers DEF OpenTab, IInv, NoProcessWithoutOwner, TypeOK
  <1>3. ToldWhileListed'
    BY Numbers DEF OpenTab, IInv, ToldWhileListed
  <1>4. SessionInv'
    BY Numbers DEF OpenTab, IInv, SessionInv
  <1>5. StartInv'
    BY Numbers DEF OpenTab, IInv, StartInv, TypeOK, ClosedInv, CallInv,
         SessionInv, At, Id, Callers
  <1>6. ClosedInv'
    BY Numbers DEF OpenTab, IInv, ClosedInv, TypeOK, At
  <1>7. CallInv'
    BY Numbers DEF OpenTab, IInv, CallInv, TypeOK, At, Callers,
         SessionRecords, Queued, Holding, Places, Ops, Launching
  <1>8. RunInv'
    BY Numbers DEF OpenTab, IInv, RunInv, TypeOK, SessionInv, StartInv,
         CallInv, At, Id, Callers, SessionRecords, Queued, Holding, Places,
         Ops, Launched
  <1> QED
    BY <1>1, <1>2, <1>3, <1>4, <1>5, <1>6, <1>7, <1>8 DEF IInv

LEMMA StutterKeeps ==
    ASSUME IInv, UNCHANGED vars
    PROVE  IInv'
  BY DEF IInv, vars, rest, TypeOK, NoProcessWithoutOwner, ToldWhileListed,
         SessionInv, StartInv, ClosedInv, CallInv, RunInv, At, Id

-----------------------------------------------------------------------------
LEMMA InitHolds ==
    ASSUME Init
    PROVE  IInv
  <1> USE DEF Init, NewSession, Idle, At, Id
  <1>1. TypeOK
    BY Numbers DEF TypeOK, SessionRecords, Ops, Places, Queued, Holding, Commands, Callers
  <1>2. NoProcessWithoutOwner /\ ToldWhileListed
    BY DEF NoProcessWithoutOwner, ToldWhileListed
  <1>3. SessionInv /\ StartInv /\ ClosedInv
    BY DEF SessionInv, StartInv, ClosedInv
  <1>4. CallInv /\ RunInv
    BY Numbers DEF CallInv, RunInv, Launching, Launched
  <1> QED
    BY <1>1, <1>2, <1>3, <1>4 DEF IInv

LEMMA NextKeeps ==
    ASSUME IInv, [Next]_vars
    PROVE  IInv'
  <1>1. ASSUME NEW c \in Callers, Step(c)
        PROVE  IInv'
    BY <1>1, LockKeeps, StartKeeps, StartFailsKeeps, ThreadFailsKeeps,
       InsertKeeps, RegisterKeeps, FirstKeeps, LastKeeps,
       NotRunningKeeps, WriteKeeps, TerminateKeeps, MarkTerminatingKeeps,
       ForgetKeeps, ReadLinkKeeps, LookKeeps, UnlinkKeeps,
       RefuseKeeps, AcceptKeeps, RememberKeeps, LastKillKeeps,
       UnlinkKilledKeeps
       DEF Step
  <1>2. ASSUME NEW c \in Callers, Written(c)
        PROVE  IInv'
    BY <1>2, WrittenKeeps
  <1>3. ASSUME NEW c \in Requests, Ask(c)
        PROVE  IInv'
    BY <1>3, AskKeeps
  <1>4. CASE RunTask \/ RunStep \/ Close
    BY <1>4, RunTaskKeeps, CheckRunKeeps, RememberRunKeeps, CloseKeeps DEF RunStep
  <1>5. ASSUME NEW s \in Sessions, OpenTab(s) \/ ProcessEnds(s) \/ Threads(s)
        PROVE  IInv'
    BY <1>5, OpenTabKeeps, ProcessEndsKeeps, WaiterSetsKeeps, WaiterTellsKeeps,
       ReaderSetsKeeps, ReaderTellsKeeps DEF Threads
  <1>6. CASE UNCHANGED vars
    BY <1>6, StutterKeeps
  <1> QED
    BY <1>1, <1>2, <1>3, <1>4, <1>5, <1>6 DEF Next

-----------------------------------------------------------------------------
\* The strengthened invariant holds of every reachable state.
THEOREM Inductive == Spec => []IInv
  <1>1. Init => IInv
    BY InitHolds
  <1>2. IInv /\ [Next]_vars => IInv'
    BY NextKeeps
  <1> QED
    BY <1>1, <1>2, PTL DEF Spec

\* Type correctness, and that a call holds the map of sessions exactly where
\* it uses it: terminate still does when it marks the session.
THEOREM Types == Spec => []TypeOK
  <1>1. IInv => TypeOK
    BY DEF IInv
  <1> QED
    BY <1>1, Inductive, PTL

\* A process that was not sent the signal belongs to a session that is listed
\* or about to be, forget leaves none behind, and closing the application
\* reaches all of them: however many callers start, kill and forget at once.
THEOREM EveryProcessIsOwned == Spec => []NoProcessWithoutOwner
  <1>1. IInv => NoProcessWithoutOwner
    BY DEF IInv
  <1> QED
    BY <1>1, Inductive, PTL

\* The check in launch_project_task keeps the processes of a task that forbids
\* concurrent runs to one, whatever a process makes of the signal.
THEOREM OneRun == Spec => []OneRunAtATime
  <1>1. IInv => OneRunAtATime
    BY OneKnown DEF IInv
  <1> QED
    BY <1>1, Inductive, PTL

\* What is published of a session is published while the map has it, because
\* both its threads wait for mark_terminal_registered, and its end is published
\* before forget removes it.
THEOREM ToldInTime == Spec => []ToldWhileListed
  <1>1. IInv => ToldWhileListed
    BY DEF IInv
  <1> QED
    BY <1>1, Inductive, PTL

-----------------------------------------------------------------------------
(* Nobody is stuck.                                                         *)

\* Where a call needs a session there is one; the snapshot of a launch comes
\* after its session was registered, and what is marked is still listed.
Fits(c) ==
    /\ ~At(c, "checkTask")
    /\ call[c].at \in Queued \union Holding \union {"drop"} => Id(c) \in Sessions
    /\ At(c, "first") => session[Id(c)].registered
    /\ At(c, "mark") => Listed(Id(c))

PlaceInv == \A c \in Callers : Fits(c)

\* Only a session that was started has its state held, and a thread is done
\* with it, and the map too, only after it was registered.  One that was
\* listed and is not registered yet will be: the call that started it is at
\* that, and needs nothing for it.
HeldInv ==
    \A s \in Sessions :
      /\ session[s].stage = "none" => session[s].waiter = "none" /\ session[s].reader = "none"
      /\ session[s].waiter = "done" => session[s].registered
      /\ session[s].stage \in {"forgotten", "failed"} => session[s].registered
      /\ Listed(s) /\ ~session[s].registered => \E c \in Callers : At(c, "register") /\ Id(c) = s

WaitsInv == PlaceInv /\ HeldInv

\* What the ways to go on make of the calls.
Others(c) == \A d \in Callers : d # c => call'[d] = call[d]

LEMMA Going ==
    ASSUME TypeOK, NEW c \in Callers, NEW p, NEW s
    PROVE  /\ Go(c, p) => Others(c) /\ call'[c].at = p /\ call'[c].id = call[c].id
           /\ GoWith(c, p, s) => Others(c) /\ call'[c].at = p /\ call'[c].id = s
           /\ Return(c) => Others(c) /\ call'[c].at = "idle"
  BY DEF TypeOK, Go, GoWith, Return, Idle, Others

\* No session comes, goes or is registered in the step, and a thread that
\* is done waited for its session to be registered.
SessionsStay ==
    \A s \in Sessions :
      /\ session'[s].stage = session[s].stage /\ session'[s].registered = session[s].registered
      /\ session[s].stage = "none" => session'[s].waiter = "none" /\ session'[s].reader = "none"
      /\ session'[s].waiter = "done" => session[s].registered

LEMMA SameSessionsStay ==
    ASSUME HeldInv, session' = session
    PROVE  SessionsStay
  BY DEF HeldInv, SessionsStay, StateFree

LEMMA CallMoves ==
    ASSUME WaitsInv, SessionsStay, NEW c \in Callers, Others(c), ~At(c, "register"), Fits(c)'
    PROVE  WaitsInv'
  <1>1. ASSUME NEW d \in Callers, d # c
        PROVE  Fits(d)'
    <2>1. Fits(d) /\ call'[d] = call[d]
      BY <1>1 DEF WaitsInv, PlaceInv, Others
    <2> QED
      BY <2>1 DEF SessionsStay, Fits, At, Id, Listed, Queued, Holding
  <1>2. ASSUME NEW s \in Sessions, Listed(s)', ~session'[s].registered
        PROVE  \E d \in Callers : At(d, "register")' /\ Id(d)' = s
    <2>1. PICK d \in Callers : At(d, "register") /\ Id(d) = s
      BY <1>2 DEF SessionsStay, WaitsInv, HeldInv, Listed
    <2>2. d # c
      BY <2>1
    <2> QED
      BY <2>1, <2>2 DEF Others, At, Id
  <1>3. HeldInv'
    BY <1>2 DEF SessionsStay, WaitsInv, HeldInv
  <1> QED
    BY <1>1, <1>3 DEF WaitsInv, PlaceInv

LEMMA ThreadMoves ==
    ASSUME WaitsInv, SessionsStay, call' = call
    PROVE  WaitsInv'
  <1>1. PlaceInv'
    BY DEF SessionsStay, WaitsInv, PlaceInv, Fits, At, Id, Listed, Queued, Holding
  <1>2. HeldInv'
    BY DEF SessionsStay, WaitsInv, HeldInv, At, Id, Listed
  <1> QED
    BY <1>1, <1>2 DEF WaitsInv

LEMMA StartFailsKeepsWaits ==
    ASSUME IInv, WaitsInv, NEW c \in Callers, StartFails(c)
    PROVE  WaitsInv'
  <1>1. SessionsStay
    BY SameSessionsStay DEF StartFails, WaitsInv
  <1>2. Others(c) /\ ~At(c, "register")
    BY Going, Numbers DEF StartFails, At, IInv
  <1>3. Fits(c)'
    BY Going, Numbers DEF StartFails, Fits, At, Id, Listed, Queued, Holding, IInv,
         WaitsInv, PlaceInv, HeldInv
  <1> QED
    BY <1>1, <1>2, <1>3, CallMoves, Numbers

LEMMA FirstKeepsWaits ==
    ASSUME IInv, WaitsInv, NEW c \in Callers, First(c)
    PROVE  WaitsInv'
  <1>1. SessionsStay
    BY SameSessionsStay DEF First, WaitsInv
  <1>2. Others(c) /\ ~At(c, "register")
    BY Going, Numbers DEF First, At, IInv
  <1>4. call'[c].at \in {"remember", "rememberRun"}
    BY Going, Numbers DEF First, At, Id, IInv
  <1>3. Fits(c)'
    BY <1>4, Numbers DEF First, Fits, At, Id, Listed, Queued, Holding, IInv, WaitsInv, PlaceInv
  <1> QED
    BY <1>1, <1>2, <1>3, CallMoves, Numbers

LEMMA LastKeepsWaits ==
    ASSUME IInv, WaitsInv, NEW c \in Callers, Last(c)
    PROVE  WaitsInv'
  <1>1. SessionsStay
    BY SameSessionsStay DEF Last, WaitsInv
  <1>2. Others(c) /\ ~At(c, "register")
    BY Going, Numbers DEF Last, At, IInv
  <1>3. Fits(c)'
    BY Going, Numbers DEF Last, Fits, At, Id, Listed, Queued, Holding, IInv, WaitsInv,
         PlaceInv, HeldInv
  <1> QED
    BY <1>1, <1>2, <1>3, CallMoves, Numbers

LEMMA NotRunningKeepsWaits ==
    ASSUME IInv, WaitsInv, NEW c \in Callers, NotRunning(c)
    PROVE  WaitsInv'
  <1>1. SessionsStay
    BY SameSessionsStay DEF NotRunning, WaitsInv
  <1>2. Others(c) /\ ~At(c, "register")
    BY Going, Numbers DEF NotRunning, At, IInv
  <1>3. Fits(c)'
    BY Going, Numbers DEF NotRunning, Fits, At, Id, Listed, Queued, Holding, IInv,
         WaitsInv, PlaceInv, HeldInv
  <1> QED
    BY <1>1, <1>2, <1>3, CallMoves, Numbers

LEMMA WriteKeepsWaits ==
    ASSUME IInv, WaitsInv, NEW c \in Callers, Write(c)
    PROVE  WaitsInv'
  <1>1. SessionsStay
    BY SameSessionsStay DEF Write, WaitsInv
  <1>2. Others(c) /\ ~At(c, "register")
    BY Going, Numbers DEF Write, At, IInv
  <1>4. call'[c].at = "writing" /\ Id(c)' = Id(c)
    BY Going, Numbers DEF Write, At, Id, IInv
  <1>3. Fits(c)'
    BY <1>4, Numbers DEF Write, Fits, At, Id, Listed, Queued, Holding, IInv, WaitsInv, PlaceInv
  <1> QED
    BY <1>1, <1>2, <1>3, CallMoves, Numbers

LEMMA WrittenKeepsWaits ==
    ASSUME IInv, WaitsInv, NEW c \in Callers, Written(c)
    PROVE  WaitsInv'
  <1>1. SessionsStay
    BY SameSessionsStay DEF Written, WaitsInv
  <1>2. Others(c) /\ ~At(c, "register")
    BY Going, Numbers DEF Written, At, IInv
  <1>4. call'[c].at = "last" /\ Id(c)' = Id(c)
    BY Going, Numbers DEF Written, At, Id, IInv
  <1>3. Fits(c)'
    BY <1>4, Numbers DEF Written, Fits, At, Id, Listed, Queued, Holding, IInv, WaitsInv,
         PlaceInv
  <1> QED
    BY <1>1, <1>2, <1>3, CallMoves, Numbers

LEMMA ReadLinkKeepsWaits ==
    ASSUME IInv, WaitsInv, NEW c \in Callers, ReadLink(c)
    PROVE  WaitsInv'
  <1>1. SessionsStay
    BY SameSessionsStay DEF ReadLink, WaitsInv
  <1>2. Others(c) /\ ~At(c, "register")
    BY Going, Numbers DEF ReadLink, At, IInv
  <1>3. Fits(c)'
    BY Going, Numbers DEF ReadLink, Fits, At, Id, Listed, Queued, Holding, IInv,
         WaitsInv, PlaceInv, HeldInv, TypeOK
  <1> QED
    BY <1>1, <1>2, <1>3, CallMoves, Numbers

LEMMA LookKeepsWaits ==
    ASSUME IInv, WaitsInv, NEW c \in Callers, Look(c)
    PROVE  WaitsInv'
  <1>1. SessionsStay
    BY SameSessionsStay DEF Look, WaitsInv
  <1>2. Others(c) /\ ~At(c, "register")
    BY Going, Numbers DEF Look, At, IInv
  <1>4. call'[c].at \in {"unlink", "decide", "drop"} /\ Id(c)' = Id(c)
    BY Going, Numbers DEF Look, At, Id, IInv
  <1>3. Fits(c)'
    BY <1>4, Numbers DEF Look, Fits, At, Id, Listed, Queued, Holding, IInv, WaitsInv, PlaceInv
  <1> QED
    BY <1>1, <1>2, <1>3, CallMoves, Numbers

LEMMA UnlinkKeepsWaits ==
    ASSUME IInv, WaitsInv, NEW c \in Callers, Unlink(c)
    PROVE  WaitsInv'
  <1>1. SessionsStay
    BY SameSessionsStay DEF Unlink, WaitsInv
  <1>2. Others(c) /\ ~At(c, "register")
    BY Going, Numbers DEF Unlink, At, IInv
  <1>4. call'[c].at = "decide" \/ (call'[c].at = "forget" /\ At(c, "drop") /\ Id(c)' = Id(c))
    BY Going, Numbers DEF Unlink, At, Id, IInv
  <1>3. Fits(c)'
    BY <1>4, Numbers DEF Unlink, Fits, At, Id, Listed, Queued, Holding, IInv, WaitsInv,
         PlaceInv
  <1> QED
    BY <1>1, <1>2, <1>3, CallMoves, Numbers

LEMMA RefuseKeepsWaits ==
    ASSUME IInv, WaitsInv, NEW c \in Callers, Refuse(c)
    PROVE  WaitsInv'
  <1>1. SessionsStay
    BY SameSessionsStay DEF Refuse, WaitsInv
  <1>2. Others(c) /\ ~At(c, "register")
    BY Going, Numbers DEF Refuse, At, IInv
  <1>3. Fits(c)'
    BY Going, Numbers DEF Refuse, Fits, At, Id, Listed, Queued, Holding, IInv, WaitsInv,
         PlaceInv, HeldInv
  <1> QED
    BY <1>1, <1>2, <1>3, CallMoves, Numbers

LEMMA AcceptKeepsWaits ==
    ASSUME IInv, WaitsInv, NEW c \in Callers, Accept(c)
    PROVE  WaitsInv'
  <1>1. SessionsStay
    BY SameSessionsStay DEF Accept, WaitsInv
  <1>2. Others(c) /\ ~At(c, "register")
    BY Going, Numbers DEF Accept, At, IInv
  <1>4. call'[c].at = "spawn" \/ (call'[c].at \in {"write", "kill"} /\ Id(c)' = Id(c) /\ Id(c) # NoSession)
    BY Going, Numbers DEF Accept, At, Id, IInv
  <1>3. Fits(c)'
    BY <1>4, Numbers DEF Accept, Fits, At, Id, Listed, Queued, Holding, IInv, WaitsInv,
         PlaceInv, TypeOK
  <1> QED
    BY <1>1, <1>2, <1>3, CallMoves, Numbers

LEMMA RememberKeepsWaits ==
    ASSUME IInv, WaitsInv, NEW c \in Callers, Remember(c)
    PROVE  WaitsInv'
  <1>1. SessionsStay
    BY SameSessionsStay DEF Remember, WaitsInv
  <1>2. Others(c) /\ ~At(c, "register")
    BY Going, Numbers DEF Remember, At, IInv
  <1>3. Fits(c)'
    BY Going, Numbers DEF Remember, Fits, At, Id, Listed, Queued, Holding, IInv,
         WaitsInv, PlaceInv, HeldInv
  <1> QED
    BY <1>1, <1>2, <1>3, CallMoves, Numbers

LEMMA LastKillKeepsWaits ==
    ASSUME IInv, WaitsInv, NEW c \in Callers, LastKill(c)
    PROVE  WaitsInv'
  <1>1. SessionsStay
    BY SameSessionsStay DEF LastKill, WaitsInv
  <1>2. Others(c) /\ ~At(c, "register")
    BY Going, Numbers DEF LastKill, At, IInv
  <1>4. call'[c].at \in {"unlinkKilled", "idle"}
    BY Going, Numbers DEF LastKill, At, Id, IInv
  <1>3. Fits(c)'
    BY <1>4, Numbers DEF LastKill, Fits, At, Id, Listed, Queued, Holding, IInv, WaitsInv,
         PlaceInv
  <1> QED
    BY <1>1, <1>2, <1>3, CallMoves, Numbers

LEMMA UnlinkKilledKeepsWaits ==
    ASSUME IInv, WaitsInv, NEW c \in Callers, UnlinkKilled(c)
    PROVE  WaitsInv'
  <1>1. SessionsStay
    BY SameSessionsStay DEF UnlinkKilled, WaitsInv
  <1>2. Others(c) /\ ~At(c, "register")
    BY Going, Numbers DEF UnlinkKilled, At, IInv
  <1>3. Fits(c)'
    BY Going, Numbers DEF UnlinkKilled, Fits, At, Id, Listed, Queued, Holding, IInv,
         WaitsInv, PlaceInv, HeldInv
  <1> QED
    BY <1>1, <1>2, <1>3, CallMoves, Numbers

LEMMA CheckRunKeepsWaits ==
    ASSUME IInv, WaitsInv, CheckRun
    PROVE  WaitsInv'
  <1>1. SessionsStay
    BY SameSessionsStay DEF CheckRun, WaitsInv
  <1>2. Others(UI) /\ ~At(UI, "register")
    BY Going, Numbers DEF CheckRun, At, IInv
  <1>4. call'[UI].at \in {"idle", "spawn"}
    BY Going, Numbers DEF CheckRun, At, Id, IInv
  <1>3. Fits(UI)'
    BY <1>4, Numbers DEF CheckRun, Fits, At, Id, Listed, Queued, Holding, IInv, WaitsInv,
         PlaceInv
  <1> QED
    BY <1>1, <1>2, <1>3, CallMoves, Numbers

LEMMA RememberRunKeepsWaits ==
    ASSUME IInv, WaitsInv, RememberRun
    PROVE  WaitsInv'
  <1>1. SessionsStay
    BY SameSessionsStay DEF RememberRun, WaitsInv
  <1>2. Others(UI) /\ ~At(UI, "register")
    BY Going, Numbers DEF RememberRun, At, IInv
  <1>3. Fits(UI)'
    BY Going, Numbers DEF RememberRun, Fits, At, Id, Listed, Queued, Holding, IInv,
         WaitsInv, PlaceInv, HeldInv
  <1> QED
    BY <1>1, <1>2, <1>3, CallMoves, Numbers

LEMMA LockKeepsWaits ==
    ASSUME IInv, WaitsInv, NEW c \in Callers, Lock(c)
    PROVE  WaitsInv'
  <1>1. SessionsStay
    BY SameSessionsStay DEF Lock, WaitsInv
  <1> QED
    BY <1>1, ThreadMoves DEF Lock

LEMMA CloseKeepsWaits ==
    ASSUME IInv, WaitsInv, Close
    PROVE  WaitsInv'
  <1>1. SessionsStay
    BY DEF Close, SessionsStay, IInv, TypeOK, SessionInv, WaitsInv, HeldInv, StateFree
  <1> QED
    BY <1>1, ThreadMoves DEF Close

LEMMA ProcessEndsKeepsWaits ==
    ASSUME IInv, WaitsInv, NEW s \in Sessions, ProcessEnds(s)
    PROVE  WaitsInv'
  <1>1. SessionsStay
    BY DEF ProcessEnds, SessionsStay, IInv, TypeOK, SessionInv, WaitsInv, HeldInv, StateFree
  <1> QED
    BY <1>1, ThreadMoves DEF ProcessEnds

LEMMA WaiterSetsKeepsWaits ==
    ASSUME IInv, WaitsInv, NEW s \in Sessions, WaiterSets(s)
    PROVE  WaitsInv'
  <1>1. SessionsStay
    BY DEF WaiterSets, SessionsStay, IInv, TypeOK, SessionInv, WaitsInv, HeldInv, StateFree
  <1> QED
    BY <1>1, ThreadMoves DEF WaiterSets

LEMMA WaiterTellsKeepsWaits ==
    ASSUME IInv, WaitsInv, NEW s \in Sessions, WaiterTells(s)
    PROVE  WaitsInv'
  <1>1. SessionsStay
    BY DEF WaiterTells, SessionsStay, IInv, TypeOK, SessionInv, WaitsInv, HeldInv, StateFree
  <1> QED
    BY <1>1, ThreadMoves DEF WaiterTells

LEMMA ReaderSetsKeepsWaits ==
    ASSUME IInv, WaitsInv, NEW s \in Sessions, ReaderSets(s)
    PROVE  WaitsInv'
  <1>1. SessionsStay
    BY DEF ReaderSets, SessionsStay, IInv, TypeOK, SessionInv, WaitsInv, HeldInv, StateFree
  <1> QED
    BY <1>1, ThreadMoves DEF ReaderSets

LEMMA ReaderTellsKeepsWaits ==
    ASSUME IInv, WaitsInv, NEW s \in Sessions, ReaderTells(s)
    PROVE  WaitsInv'
  <1>1. SessionsStay
    BY DEF ReaderTells, SessionsStay, IInv, TypeOK, SessionInv, WaitsInv, HeldInv, StateFree
  <1> QED
    BY <1>1, ThreadMoves DEF ReaderTells

LEMMA TerminateKeepsWaits ==
    ASSUME IInv, WaitsInv, NEW c \in Callers, Terminate(c)
    PROVE  WaitsInv'
  <1>1. SessionsStay
    <2>1. \/ session' = session
          \/ session' = [session EXCEPT ![Id(c)].process = IF @ = "alive" THEN "hungUp" ELSE @]
      BY DEF Terminate
    <2>2. \A s \in Sessions :
            /\ session'[s].stage = session[s].stage /\ session'[s].registered = session[s].registered
            /\ session'[s].waiter = session[s].waiter /\ session'[s].reader = session[s].reader
      BY <2>1 DEF IInv, TypeOK, SessionRecords
    <2> QED
      BY <2>2 DEF SessionsStay, WaitsInv, HeldInv
  <1>2. Others(c) /\ ~At(c, "register")
    BY Going DEF Terminate, At, IInv
  <1>3. call'[c].at \in {"mark", "idle"} /\ (call'[c].at = "mark" => Id(c)' = Id(c))
    BY Going DEF Terminate, At, Id, IInv
  <1>4. Fits(c)'
    BY <1>1, <1>3 DEF Terminate, Fits, SessionsStay, At, Id, Listed, Queued, Holding,
         WaitsInv, PlaceInv
  <1> QED
    BY <1>1, <1>2, <1>4, CallMoves

LEMMA MarkTerminatingKeepsWaits ==
    ASSUME IInv, WaitsInv, NEW c \in Callers, MarkTerminating(c)
    PROVE  WaitsInv'
  <1>1. SessionsStay
    BY DEF MarkTerminating, SessionsStay, IInv, TypeOK, WaitsInv, HeldInv
  <1>2. Others(c) /\ ~At(c, "register")
    BY Going DEF MarkTerminating, At, IInv
  <1>3. call'[c].at \in {"lastKill", "last"} /\ Id(c)' = Id(c)
    BY Going DEF MarkTerminating, At, Id, IInv
  <1>4. Fits(c)'
    BY <1>1, <1>3 DEF MarkTerminating, Fits, SessionsStay, At, Id, Listed, Queued,
         Holding, WaitsInv, PlaceInv
  <1> QED
    BY <1>1, <1>2, <1>4, CallMoves

LEMMA AskKeepsWaits ==
    ASSUME IInv, WaitsInv, NEW c \in Requests, Ask(c)
    PROVE  WaitsInv'
  <1>1. SessionsStay
    BY SameSessionsStay DEF Ask, WaitsInv
  <1>2. Others(c) /\ ~At(c, "register")
    BY Numbers DEF Ask, At, Others, IInv, TypeOK
  <1>3. call'[c].at = "link"
    BY Numbers DEF Ask, At, Id, Idle, IInv, TypeOK
  <1>4. Fits(c)'
    BY <1>3 DEF Fits, At, Id, Queued, Holding
  <1> QED
    BY <1>1, <1>2, <1>4, Numbers, CallMoves

LEMMA RunTaskKeepsWaits ==
    ASSUME IInv, WaitsInv, RunTask
    PROVE  WaitsInv'
  <1>1. SessionsStay
    BY SameSessionsStay DEF RunTask, WaitsInv
  <1>2. Others(UI) /\ ~At(UI, "register")
    BY Numbers DEF RunTask, At, Others, IInv, TypeOK
  <1>3. call'[UI].at = "spawn" \/ (call'[UI].at = "checkRun" /\ Id(UI)' \in Sessions)
    BY Numbers DEF RunTask, At, Id, Idle, IInv, TypeOK
  <1>4. Fits(UI)'
    BY <1>3 DEF Fits, At, Id, Queued, Holding
  <1> QED
    BY <1>1, <1>2, <1>4, Numbers, CallMoves

LEMMA OpenTabKeepsWaits ==
    ASSUME IInv, WaitsInv, NEW s \in Sessions, OpenTab(s)
    PROVE  WaitsInv'
  <1>1. SessionsStay
    BY SameSessionsStay DEF OpenTab, WaitsInv
  <1>2. Others(UI) /\ ~At(UI, "register")
    BY Numbers DEF OpenTab, At, Others, IInv, TypeOK
  <1>3. call'[UI].at \in {"kill", "last"} /\ Id(UI)' \in Sessions
    BY Numbers DEF OpenTab, At, Id, Idle, IInv, TypeOK
  <1>4. Fits(UI)'
    BY <1>3 DEF Fits, At, Id, Queued, Holding
  <1> QED
    BY <1>1, <1>2, <1>4, Numbers, CallMoves

LEMMA StartKeepsWaits ==
    ASSUME IInv, WaitsInv, NEW c \in Callers, Start(c)
    PROVE  WaitsInv'
  <1>1. PICK s \in Sessions :
          /\ session[s].stage = "none" /\ GoWith(c, "insert", s)
          /\ session'[s].stage = "starting"
          /\ \A r \in Sessions : r # s => session'[r] = session[r]
    BY DEF Start, Unused, NewSession, IInv, TypeOK
  <1>2. Others(c) /\ call'[c].at = "insert" /\ call'[c].id = s /\ At(c, "spawn")
    BY <1>1, Going DEF Start, IInv
  <1>3. PlaceInv'
    <2>1. Fits(c)'
      BY <1>2 DEF Fits, At, Id, Queued, Holding
    <2>2. ASSUME NEW d \in Callers, d # c
          PROVE  Fits(d)'
      <3>1. Fits(d) /\ call'[d] = call[d] /\ session[s].registered = FALSE
        BY <1>1, <1>2, <2>2 DEF Others, WaitsInv, PlaceInv, IInv, SessionInv, TypeOK,
             SessionRecords
      <3>2. Id(d) \in Sessions /\ (At(d, "first") \/ At(d, "mark")) => Id(d) # s
        BY <1>1, <3>1 DEF Fits, Listed
      <3> QED
        BY <1>1, <3>1, <3>2 DEF Fits, At, Id, Listed, Queued, Holding
    <2> QED
      BY <2>1, <2>2 DEF PlaceInv
  <1>4. HeldInv'
    <2>1. ASSUME NEW r \in Sessions, Listed(r), ~session[r].registered
          PROVE  \E d \in Callers : At(d, "register")' /\ Id(d)' = r
      <3>1. PICK d \in Callers : At(d, "register") /\ Id(d) = r
        BY <2>1 DEF WaitsInv, HeldInv
      <3>2. d # c
        BY <1>2, <3>1 DEF At
      <3> QED
        BY <1>2, <3>1, <3>2 DEF Others, At, Id
    <2>2. session'[s].waiter # "done"
      BY <1>1 DEF Start, Unused, NewSession, IInv, TypeOK, GoWith
    <2> QED
      BY <1>1, <2>1, <2>2 DEF WaitsInv, HeldInv, StateFree, Listed
  <1> QED
    BY <1>3, <1>4 DEF WaitsInv

LEMMA ThreadFailsKeepsWaits ==
    ASSUME IInv, WaitsInv, NEW c \in Callers, ThreadFails(c)
    PROVE  WaitsInv'
  <1>1. PICK s \in Sessions :
          /\ session[s].stage = "none" /\ Return(c)
          /\ session'[s].stage = "failed" /\ session'[s].registered
          /\ session'[s].waiter # "done"
          /\ \A r \in Sessions : r # s => session'[r] = session[r]
    BY DEF ThreadFails, Unused, NewSession, IInv, TypeOK
  <1>2. Others(c) /\ call'[c].at = "idle" /\ At(c, "spawn")
    BY <1>1, Going DEF ThreadFails, IInv
  <1>3. PlaceInv'
    <2>1. Fits(c)'
      BY <1>2 DEF Fits, At, Id, Queued, Holding
    <2>2. ASSUME NEW d \in Callers, d # c
          PROVE  Fits(d)'
      <3>1. Fits(d) /\ call'[d] = call[d]
        BY <1>2, <2>2 DEF Others, WaitsInv, PlaceInv
      <3>2. At(d, "mark") => Id(d) \in Sessions /\ Id(d) # s
        BY <1>1, <3>1 DEF Fits, Listed, Holding, At
      <3> QED
        BY <1>1, <3>1, <3>2 DEF Fits, At, Id, Listed, Queued, Holding
    <2> QED
      BY <2>1, <2>2 DEF PlaceInv
  <1>4. HeldInv'
    <2>1. ASSUME NEW r \in Sessions, Listed(r), ~session[r].registered
          PROVE  \E d \in Callers : At(d, "register")' /\ Id(d)' = r
      <3>1. PICK d \in Callers : At(d, "register") /\ Id(d) = r
        BY <2>1 DEF WaitsInv, HeldInv
      <3>2. d # c
        BY <1>2, <3>1 DEF At
      <3> QED
        BY <1>2, <3>1, <3>2 DEF Others, At, Id
    <2> QED
      BY <1>1, <2>1 DEF WaitsInv, HeldInv, Listed
  <1> QED
    BY <1>3, <1>4 DEF WaitsInv

LEMMA InsertKeepsWaits ==
    ASSUME IInv, WaitsInv, NEW c \in Callers, Insert(c)
    PROVE  WaitsInv'
  <1>1. /\ Others(c) /\ At(c, "insert") /\ At(c, "register")' /\ Id(c)' = Id(c)
        /\ Id(c) \in Sessions
    BY Going DEF Insert, At, Id, IInv, StartInv
  <1>2. \A s \in Sessions :
          /\ session'[s].stage = IF s = Id(c) THEN "listed" ELSE session[s].stage
          /\ session'[s].registered = session[s].registered
          /\ session'[s].waiter = session[s].waiter /\ session'[s].reader = session[s].reader
    BY DEF Insert, IInv, TypeOK, SessionRecords
  <1>3. PlaceInv'
    <2>1. Fits(c)'
      BY <1>1 DEF Fits, At, Queued, Holding
    <2>2. ASSUME NEW d \in Callers, d # c
          PROVE  Fits(d)'
      <3>1. Fits(d) /\ call'[d] = call[d]
        BY <1>1, <2>2 DEF Others, WaitsInv, PlaceInv
      <3> QED
        BY <1>2, <3>1 DEF Fits, At, Id, Listed, Queued, Holding
    <2> QED
      BY <2>1, <2>2 DEF PlaceInv
  <1>4. HeldInv'
    <2>1. ASSUME NEW r \in Sessions, Listed(r)', ~session'[r].registered
          PROVE  \E d \in Callers : At(d, "register")' /\ Id(d)' = r
      <3>1. CASE r = Id(c)
        BY <1>1, <3>1
      <3>2. CASE r # Id(c)
        <4>1. PICK d \in Callers : At(d, "register") /\ Id(d) = r
          BY <1>2, <2>1, <3>2 DEF WaitsInv, HeldInv, Listed
        <4>2. d # c
          BY <1>1, <4>1 DEF At
        <4> QED
          BY <1>1, <4>1, <4>2 DEF Others, At, Id
      <3> QED
        BY <3>1, <3>2
    <2> QED
      BY <1>2, <2>1 DEF WaitsInv, HeldInv
  <1> QED
    BY <1>3, <1>4 DEF WaitsInv

LEMMA RegisterKeepsWaits ==
    ASSUME IInv, WaitsInv, NEW c \in Callers, Register(c)
    PROVE  WaitsInv'
  <1>1. /\ Others(c) /\ At(c, "register") /\ At(c, "first")' /\ Id(c)' = Id(c)
        /\ Id(c) \in Sessions
    BY Going DEF Register, At, Id, IInv, StartInv
  <1>2. \A s \in Sessions :
          /\ session'[s].stage = session[s].stage
          /\ s = Id(c) => session'[s].registered
          /\ s # Id(c) => session'[s].registered = session[s].registered
          /\ session[s].registered => session'[s].registered
          /\ session'[s].waiter = session[s].waiter /\ session'[s].reader = session[s].reader
    <2>1. \A s \in Sessions :
            session'[s] = IF s = Id(c) THEN [session[s] EXCEPT !.registered = TRUE] ELSE session[s]
      BY DEF Register, IInv, TypeOK
    <2>2. \A r \in SessionRecords :
            /\ [r EXCEPT !.registered = TRUE].registered
            /\ [r EXCEPT !.registered = TRUE].stage = r.stage
            /\ [r EXCEPT !.registered = TRUE].waiter = r.waiter
            /\ [r EXCEPT !.registered = TRUE].reader = r.reader
      BY DEF SessionRecords
    <2>3. \A s \in Sessions : session[s] \in SessionRecords
      BY DEF IInv, TypeOK
    <2> QED
      BY <2>1, <2>2, <2>3
  <1>3. PlaceInv'
    <2>1. Fits(c)'
      BY <1>1, <1>2 DEF Fits, At, Queued, Holding
    <2>2. ASSUME NEW d \in Callers, d # c
          PROVE  Fits(d)'
      <3>1. Fits(d) /\ call'[d] = call[d]
        BY <1>1, <2>2 DEF Others, WaitsInv, PlaceInv
      <3> QED
        BY <1>2, <3>1 DEF Fits, At, Id, Listed, Queued, Holding
    <2> QED
      BY <2>1, <2>2 DEF PlaceInv
  <1>4. HeldInv'
    <2>1. ASSUME NEW r \in Sessions, Listed(r)', ~session'[r].registered
          PROVE  \E d \in Callers : At(d, "register")' /\ Id(d)' = r
      <3>1. PICK d \in Callers : At(d, "register") /\ Id(d) = r
        BY <1>2, <2>1 DEF WaitsInv, HeldInv, Listed
      <3>2. d # c
        BY <1>2, <2>1, <3>1
      <3> QED
        BY <1>1, <3>1, <3>2 DEF Others, At, Id
    <2> QED
      BY <1>2, <2>1 DEF WaitsInv, HeldInv
  <1> QED
    BY <1>3, <1>4 DEF WaitsInv

\* What is forgotten has ended, and so its end was published.
LEMMA ForgetKeepsWaits ==
    ASSUME IInv, WaitsInv, NEW c \in Callers, Forget(c)
    PROVE  WaitsInv'
  <1>1. Others(c) /\ At(c, "forget") /\ At(c, "decide")' /\ lock = c
    BY Going DEF Forget, At, IInv
  <1>2. /\ Id(c) \in Sessions
        /\ \/ session' = session
           \/ /\ session' = [session EXCEPT ![Id(c)].stage = "forgotten"]
              /\ StateFree(Id(c)) /\ ~IsRunning(Id(c)) /\ Listed(Id(c))
    BY <1>1 DEF Forget, WaitsInv, PlaceInv, Fits, At, Queued
  <1>3. \A s \in Sessions :
          /\ \/ session'[s].stage = session[s].stage
             \/ session'[s].stage = "forgotten" /\ session[s].registered /\ s = Id(c)
          /\ session'[s].registered = session[s].registered
          /\ session'[s].waiter = session[s].waiter /\ session'[s].reader = session[s].reader
    <2>1. CASE session' = session
      BY <2>1
    <2>2. CASE /\ session' = [session EXCEPT ![Id(c)].stage = "forgotten"]
               /\ StateFree(Id(c)) /\ ~IsRunning(Id(c)) /\ Listed(Id(c))
      <3>1. session[Id(c)].shown = "Ended"
        BY <1>2, <2>2 DEF IInv, TypeOK, SessionRecords, IsRunning
      <3>2. session[Id(c)].registered
        BY <1>2, <2>2, <3>1 DEF IInv, SessionInv, WaitsInv, HeldInv, StateFree
      <3> QED
        BY <1>2, <2>2, <3>2 DEF IInv, TypeOK, SessionRecords
    <2> QED
      BY <1>2, <2>1, <2>2
  <1>4. PlaceInv'
    <2>1. Fits(c)'
      BY <1>1 DEF Fits, At, Queued, Holding
    <2>2. ASSUME NEW d \in Callers, d # c
          PROVE  Fits(d)'
      <3>1. Fits(d) /\ call'[d] = call[d]
        BY <1>1, <2>2 DEF Others, WaitsInv, PlaceInv
      <3>2. ~At(d, "mark")
        BY <1>1, <2>2 DEF IInv, TypeOK, At, Holding
      <3> QED
        BY <1>3, <3>1, <3>2 DEF Fits, At, Id, Listed, Queued, Holding
    <2> QED
      BY <2>1, <2>2 DEF PlaceInv
  <1>5. HeldInv'
    <2>1. ASSUME NEW r \in Sessions, Listed(r)', ~session'[r].registered
          PROVE  \E d \in Callers : At(d, "register")' /\ Id(d)' = r
      <3>1. PICK d \in Callers : At(d, "register") /\ Id(d) = r
        BY <1>3, <2>1 DEF WaitsInv, HeldInv, Listed
      <3>2. d # c
        BY <1>1, <3>1 DEF At
      <3> QED
        BY <1>1, <3>1, <3>2 DEF Others, At, Id
    <2> QED
      BY <1>3, <2>1 DEF WaitsInv, HeldInv
  <1> QED
    BY <1>4, <1>5 DEF WaitsInv

LEMMA NextKeepsWaits ==
    ASSUME IInv, WaitsInv, [Next]_vars
    PROVE  WaitsInv'
  <1>1. ASSUME NEW c \in Callers, Step(c) \/ Written(c)
        PROVE  WaitsInv'
    BY <1>1, LockKeepsWaits, StartKeepsWaits, StartFailsKeepsWaits, ThreadFailsKeepsWaits,
       InsertKeepsWaits, RegisterKeepsWaits, FirstKeepsWaits, LastKeepsWaits,
       NotRunningKeepsWaits, WriteKeepsWaits, WrittenKeepsWaits, TerminateKeepsWaits,
       MarkTerminatingKeepsWaits, ForgetKeepsWaits, ReadLinkKeepsWaits, LookKeepsWaits,
       UnlinkKeepsWaits, RefuseKeepsWaits, AcceptKeepsWaits, RememberKeepsWaits,
       LastKillKeepsWaits, UnlinkKilledKeepsWaits
       DEF Step
  <1>2. ASSUME NEW c \in Requests, Ask(c)
        PROVE  WaitsInv'
    BY <1>2, AskKeepsWaits
  <1>3. CASE RunTask \/ RunStep \/ Close
    BY <1>3, RunTaskKeepsWaits, CheckRunKeepsWaits, RememberRunKeepsWaits, CloseKeepsWaits
       DEF RunStep
  <1>4. ASSUME NEW s \in Sessions, OpenTab(s) \/ ProcessEnds(s) \/ Threads(s)
        PROVE  WaitsInv'
    BY <1>4, OpenTabKeepsWaits, ProcessEndsKeepsWaits, WaiterSetsKeepsWaits,
       WaiterTellsKeepsWaits, ReaderSetsKeepsWaits, ReaderTellsKeepsWaits DEF Threads
  <1>5. CASE UNCHANGED vars
    <2>1. session' = session /\ call' = call
      BY <1>5 DEF vars
    <2> QED
      BY <2>1, SameSessionsStay, ThreadMoves DEF WaitsInv
  <1> QED
    BY <1>1, <1>2, <1>3, <1>4, <1>5 DEF Next

\* A session whose state is held was started; its thread may go on, or its
\* launcher is on the way to let it.
LEMMA HeldGoesOn ==
    ASSUME IInv, WaitsInv, NEW s \in Sessions, ~StateFree(s)
    PROVE  \/ ThreadMay(s)
           \/ \E c \in Callers : At(c, "register")
           \/ session[s].stage = "starting"
  <1>1. session[s].stage \in {"none", "starting", "listed", "forgotten", "failed"}
    BY DEF IInv, TypeOK, SessionRecords
  <1>2. session[s].stage # "none"
    BY DEF WaitsInv, HeldInv, StateFree
  <1> QED
    BY <1>1, <1>2 DEF WaitsInv, HeldInv, ThreadMay, Listed

\* Whoever waits for the map, waits for one who has it, and that one waits for
\* no one but a session's threads.
LEMMA CallGoesOn ==
    ASSUME IInv, WaitsInv, NEW c \in Callers, ~At(c, "idle"), ~Writing
    PROVE  SomeoneMay
  <1>1. CASE call[c].at \in Free
    BY <1>1 DEF SomeoneMay, CallerMay
  <1>2. CASE lock = Nobody
    <2>1. call[c].at \in Places /\ call[c].at \notin Holding /\ ~At(c, "checkTask")
      BY <1>2, Numbers DEF IInv, TypeOK, WaitsInv, PlaceInv, Fits
    <2>2. call[c].at \in Free \union Queued
      BY <2>1 DEF Places, Free, At
    <2> QED
      BY <1>2, <2>2 DEF SomeoneMay, CallerMay
  <1>3. CASE lock # Nobody
    <2>1. lock \in Callers /\ call[lock].at \in Queued \union {"mark"} /\ Id(lock) \in Sessions
      <3>1. lock \in Callers /\ call[lock].at \in Queued \union Holding
        BY <1>3 DEF IInv, TypeOK
      <3>2. ~At(lock, "writing")
        BY <3>1 DEF Writing
      <3> QED
        BY <3>1, <3>2 DEF Holding, At, WaitsInv, PlaceInv, Fits
    <2>2. CASE At(lock, "insert") \/ StateFree(Id(lock))
      <3>1. CallerMay(lock)
        BY <2>1, <2>2 DEF CallerMay, At
      <3> QED
        BY <2>1, <3>1 DEF SomeoneMay
    <2>3. CASE ~At(lock, "insert") /\ ~StateFree(Id(lock))
      <3>1. CASE ThreadMay(Id(lock))
        BY <2>1, <3>1 DEF SomeoneMay
      <3>2. CASE \E d \in Callers : At(d, "register")
        <4>1. PICK d \in Callers : At(d, "register")
          BY <3>2
        <4>2. CallerMay(d)
          BY <4>1 DEF CallerMay, Free, At
        <4> QED
          BY <4>2 DEF SomeoneMay
      <3>3. CASE session[Id(lock)].stage = "starting"
        <4>1. ~Listed(Id(lock)) /\ ~session[Id(lock)].registered
          BY <2>1, <3>3 DEF Listed, IInv, SessionInv
        <4>2. ~At(lock, "first") /\ ~At(lock, "mark")
          BY <2>1, <4>1 DEF WaitsInv, PlaceInv, Fits
        <4>3. CallerMay(lock)
          BY <2>1, <2>3, <4>1, <4>2 DEF CallerMay, At
        <4> QED
          BY <2>1, <4>3 DEF SomeoneMay
      <3> QED
        BY <2>1, <2>3, <3>1, <3>2, <3>3, HeldGoesOn
    <2> QED
      BY <2>2, <2>3
  <1> QED
    BY <1>2, <1>3

\* The two locks of a session, its registration and the map never make the
\* threads of the service wait for each other in a circle: while a call is
\* under way or the end of a process is to be published, one of them may go
\* on, unless a process does not read what is written to it.
THEOREM NobodyEverStuck == Spec => []NobodyIsStuck
  <1>1. Init => WaitsInv
    <2> SUFFICES ASSUME Init
                 PROVE  WaitsInv
      OBVIOUS
    <2> QED
      BY DEF Init, Idle, NewSession, WaitsInv, PlaceInv, HeldInv, Fits, At, Id, Queued,
           Holding,
             Listed
  <1>2. IInv /\ WaitsInv /\ [Next]_vars => WaitsInv'
    BY NextKeepsWaits
  <1>3. IInv /\ WaitsInv => NobodyIsStuck
    <2> SUFFICES ASSUME IInv, WaitsInv, SomeoneWaits, ~Writing
                 PROVE  SomeoneMay
      BY DEF NobodyIsStuck
    <2>1. CASE \E c \in Callers : ~At(c, "idle")
      BY <2>1, CallGoesOn
    <2>2. ASSUME NEW s \in Sessions,
                 session[s].process = "gone", session[s].waiter \in {"waits", "holds"}
          PROVE  SomeoneMay
      <3>1. CASE StateFree(s)
        BY <2>2, <3>1 DEF SomeoneMay, ThreadMay, StateFree
      <3>2. CASE ~StateFree(s)
        <4>1. ASSUME NEW c \in Callers, ~At(c, "idle")
              PROVE  SomeoneMay
          BY <4>1, CallGoesOn
        <4>2. CASE ThreadMay(s)
          BY <4>2 DEF SomeoneMay
        <4>3. CASE \E c \in Callers : At(c, "register")
          BY <4>1, <4>3 DEF At
        <4>4. CASE session[s].stage = "starting"
          BY <4>1, <4>4 DEF At, IInv, StartInv
        <4> QED
          BY <3>2, <4>2, <4>3, <4>4, HeldGoesOn
      <3> QED
        BY <3>1, <3>2
    <2> QED
      BY <2>1, <2>2 DEF SomeoneWaits
  <1> QED
    BY <1>1, <1>2, <1>3, Inductive, PTL DEF Spec
=============================================================================

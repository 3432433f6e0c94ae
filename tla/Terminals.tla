------------------------------ MODULE Terminals ------------------------------
(***************************************************************************)
(* Terminal sessions: the DesktopTerminalService of lilia-feature-terminal *)
(* with its two threads per session, and what calls it: the desktop, which *)
(* runs a project's task, and the requests of a remote client, each on a   *)
(* thread of its own, which start, write to and kill the process of one    *)
(* task.  Neither the map of sessions nor the state of one is held by two  *)
(* threads at a time; a thread that holds one may wait for the other, and  *)
(* a session's own threads wait with its state in hand until the session   *)
(* is registered.                                                          *)
(*                                                                         *)
(* Screens, sizes, revisions and the text written are left out, and a      *)
(* process writes one piece of output at most; so resize is not told from  *)
(* snapshot.  The project has one task, which forbids concurrent runs.     *)
(***************************************************************************)
EXTENDS Naturals

CONSTANTS UI,           \* the thread of the user interface
          Requests,     \* threads of the remote host
          Nobody,
          MaxSessions,  \* bound on the sessions started
          MaxCalls      \* bound on the calls made

ASSUME TerminalsAssumption == /\ UI \notin Requests /\ Nobody \notin Requests \union {UI}
                              /\ MaxSessions \in Nat /\ MaxCalls \in Nat

VARIABLES
    session,   \* each session, its process and its threads
    lock,      \* who holds the map of sessions
    link,      \* process_sessions of the remote control, for the task
    run,       \* project_task_runs, for the project's task
    call,      \* the call each thread makes and where it is
    calls,
    closed     \* the service was dropped

vars == <<session, lock, link, run, call, calls, closed>>
rest == <<calls, closed>>

Sessions == 1 .. MaxSessions
NoSession == 0
Callers == Requests \union {UI}
Commands == {"runtime", "spawn", "write", "kill"}
Ops == Commands \union {"none", "runTask", "terminate", "refresh"}

\* stage tells where the session's entry in the map is, process is "hungUp"
\* once the signal was sent, shown is the DesktopTerminalProcessState, and
\* told what was published of the session.
SessionRecords ==
    [stage : {"none", "starting", "listed", "forgotten", "failed"}, scope : {"project", "task"},
     process : {"none", "alive", "hungUp", "gone"}, shown : {"Running", "Terminating", "Ended"},
     registered : BOOLEAN, waiter : {"none", "waits", "holds", "done"},
     reader : {"none", "reads", "holds", "quiet"}, told : SUBSET {"output", "end"}]

\* Where a call waits for the map of sessions, and where it goes on without.
Queued == {"look", "forget", "insert", "first", "write", "kill", "last", "lastKill", "checkRun"}
Holding == {"writing", "mark"}
Places == Queued \union Holding
          \union {"idle", "link", "unlink", "drop", "decide", "spawn", "register", "remember",
                  "unlinkKilled", "checkTask", "rememberRun"}
Idle == [op |-> "none", at |-> "idle", id |-> NoSession]

NewSession == [stage |-> "none", scope |-> "project", process |-> "none", shown |-> "Running",
               registered |-> FALSE, waiter |-> "none", reader |-> "none", told |-> {}]

Init ==
    /\ session = [s \in Sessions |-> NewSession]
    /\ lock = Nobody /\ link = NoSession /\ run = NoSession
    /\ call = [c \in Callers |-> Idle] /\ calls = 0 /\ closed = FALSE

At(c, p) == call[c].at = p
Id(c) == call[c].id
Go(c, p) == call' = [call EXCEPT ![c].at = p]
GoWith(c, p, s) == call' = [call EXCEPT ![c].at = p, ![c].id = s]
Return(c) == call' = [call EXCEPT ![c] = Idle]
Release == lock' = Nobody

Listed(s) == session[s].stage = "listed"

\* Mutant: a session that is being terminated counts as over.
IsStarted(s) == session[s].shown = "Running"

IsRunning(s) == session[s].shown \in {"Running", "Terminating"}

\* Nobody waits with the state of s in hand.
StateFree(s) == session[s].waiter # "holds" /\ session[s].reader # "holds"
-----------------------------------------------------------------------------
(* A call that needs the map of sessions takes it and gives it up at its    *)
(* end; what it does in between is one step or, when it locks the state of  *)
(* a session twice, two.                                                    *)

Lock(c) ==
    /\ lock = Nobody /\ call[c].at \in Queued
    /\ lock' = c
    /\ UNCHANGED <<session, link, run, call, rest>>

Unused(s) == session[s].stage = "none" /\ \A r \in 1 .. (s - 1) : session[r].stage # "none"

\* launch: the process and its two threads run before the session is listed.
Start(c) ==
    /\ At(c, "spawn")
    /\ \E s \in Sessions :
         /\ Unused(s)
         /\ session' = [session EXCEPT ![s] =
                [NewSession EXCEPT !.stage = "starting", !.process = "alive",
                                   !.scope = IF call[c].op = "spawn" THEN "task" ELSE "project",
                                   !.waiter = "waits", !.reader = "reads"]]
         /\ GoWith(c, "insert", s)
    /\ UNCHANGED <<lock, link, run, rest>>

\* There is no terminal or no process.
StartFails(c) ==
    /\ At(c, "spawn") /\ Return(c)
    /\ UNCHANGED <<session, lock, link, run, rest>>

\* One of the threads cannot be started: the process is sent the signal and
\* the thread that runs is let go, although the session is never listed.
ThreadFails(c) ==
    /\ At(c, "spawn")
    /\ \E s \in Sessions, w \in {"none", "waits"} :
         /\ Unused(s)
         /\ session' = [session EXCEPT ![s] =
                [NewSession EXCEPT !.stage = "failed", !.process = "hungUp",
                                   !.registered = TRUE, !.waiter = w]]
    /\ Return(c)
    /\ UNCHANGED <<lock, link, run, rest>>

\* Mutant: launch takes its snapshot with the map locked, before it registers.
InsertAndLook(c) ==
    /\ At(c, "insert") /\ lock = c /\ StateFree(Id(c))
    /\ session' = [session EXCEPT ![Id(c)].stage = "listed"]
    /\ Release /\ Go(c, "register")
    /\ UNCHANGED <<link, run, rest>>

Insert(c) ==
    /\ At(c, "insert") /\ lock = c
    /\ session' = [session EXCEPT ![Id(c)].stage = "listed"]
    /\ Release /\ Go(c, "register")
    /\ UNCHANGED <<link, run, rest>>

Register(c) ==
    /\ At(c, "register")
    /\ session' = [session EXCEPT ![Id(c)].registered = TRUE]
    /\ Go(c, "first")
    /\ UNCHANGED <<lock, link, run, rest>>

\* The snapshot a launch returns.
First(c) ==
    /\ At(c, "first") /\ lock = c /\ StateFree(Id(c))
    /\ Release /\ Go(c, IF call[c].op = "spawn" THEN "remember" ELSE "rememberRun")
    /\ UNCHANGED <<session, link, run, rest>>

\* A snapshot that ends a call, whether the session is there or not.
Last(c) ==
    /\ At(c, "last") /\ lock = c /\ (Listed(Id(c)) => StateFree(Id(c)))
    /\ Release /\ Return(c)
    /\ UNCHANGED <<session, link, run, rest>>

\* A call that needs a running session and does not find one.
NotRunning(c) ==
    /\ call[c].at \in {"write", "kill"} /\ lock = c
    /\ Listed(Id(c)) => StateFree(Id(c)) /\ ~IsRunning(Id(c))
    /\ Release /\ Return(c)
    /\ UNCHANGED <<session, link, run, rest>>

\* The map stays locked until the process takes what is written.
Write(c) ==
    /\ At(c, "write") /\ lock = c
    /\ Listed(Id(c)) /\ StateFree(Id(c)) /\ IsRunning(Id(c))
    /\ Go(c, "writing")
    /\ UNCHANGED <<session, lock, link, run, rest>>

\* It did, or it is no more.
Written(c) ==
    /\ At(c, "writing")
    /\ Release /\ Go(c, "last")
    /\ UNCHANGED <<session, link, run, rest>>

\* Mutant: the map is let go before the session is marked.
TerminateUnlocked(c) ==
    /\ At(c, "kill") /\ lock = c
    /\ Listed(Id(c)) /\ StateFree(Id(c)) /\ IsRunning(Id(c))
    /\ session' = [session EXCEPT ![Id(c)].process = IF @ = "alive" THEN "hungUp" ELSE @]
    /\ Release /\ Go(c, "mark")
    /\ UNCHANGED <<link, run, rest>>

\* terminate: first the signal, which fails when the process is gone ...
Terminate(c) ==
    /\ At(c, "kill") /\ lock = c
    /\ Listed(Id(c)) /\ StateFree(Id(c)) /\ IsRunning(Id(c))
    /\ \/ /\ session' = [session EXCEPT ![Id(c)].process = IF @ = "alive" THEN "hungUp" ELSE @]
          /\ Go(c, "mark") /\ UNCHANGED lock
       \/ /\ session[Id(c)].process = "gone"
          /\ Release /\ Return(c) /\ UNCHANGED session
    /\ UNCHANGED <<link, run, rest>>

\* ... then, with the state locked once more, what the session shows.
MarkTerminating(c) ==
    /\ At(c, "mark") /\ StateFree(Id(c))
    /\ session' = [session EXCEPT ![Id(c)].shown = "Terminating"]
    /\ Release /\ Go(c, IF call[c].op = "kill" THEN "lastKill" ELSE "last")
    /\ UNCHANGED <<link, run, rest>>

Forget(c) ==
    /\ At(c, "forget") /\ lock = c /\ (Listed(Id(c)) => StateFree(Id(c)))
    /\ session' = IF Listed(Id(c)) /\ ~IsRunning(Id(c))
                  THEN [session EXCEPT ![Id(c)].stage = "forgotten"] ELSE session
    /\ Release /\ GoWith(c, "decide", NoSession)
    /\ UNCHANGED <<link, run, rest>>

\* The application is closed: what is running and listed gets the signal.
Close ==
    /\ ~closed /\ \A c \in Callers : At(c, "idle")
    /\ closed' = TRUE
    /\ session' = [s \in Sessions |->
                     IF Listed(s) /\ IsRunning(s) /\ session[s].process = "alive"
                     THEN [session[s] EXCEPT !.process = "hungUp"] ELSE session[s]]
    /\ UNCHANGED <<lock, link, run, call, calls>>
-----------------------------------------------------------------------------
(* The process and the threads of a session.                                *)

ProcessEnds(s) ==
    /\ session[s].process \in {"alive", "hungUp"}
    /\ session' = [session EXCEPT ![s].process = "gone"]
    /\ UNCHANGED <<lock, link, run, call, rest>>

WaiterSets(s) ==
    /\ session[s].waiter = "waits" /\ session[s].process = "gone" /\ StateFree(s)
    /\ session' = [session EXCEPT ![s].shown = "Ended", ![s].waiter = "holds"]
    /\ UNCHANGED <<lock, link, run, call, rest>>

\* Mutant: the end is published at once.
WaiterTellsAtOnce(s) ==
    /\ session[s].waiter = "holds"
    /\ session' = [session EXCEPT ![s].told = @ \union {"end"}, ![s].waiter = "done"]
    /\ UNCHANGED <<lock, link, run, call, rest>>

\* Once the session is registered its end is published; then its state is
\* let go.
WaiterTells(s) ==
    /\ session[s].waiter = "holds" /\ session[s].registered
    /\ session' = [session EXCEPT ![s].told = @ \union {"end"}, ![s].waiter = "done"]
    /\ UNCHANGED <<lock, link, run, call, rest>>

ReaderSets(s) ==
    /\ session[s].reader = "reads" /\ StateFree(s)
    /\ session' = [session EXCEPT ![s].reader = "holds"]
    /\ UNCHANGED <<lock, link, run, call, rest>>

ReaderTells(s) ==
    /\ session[s].reader = "holds" /\ session[s].registered
    /\ session' = [session EXCEPT ![s].told = @ \union {"output"}, ![s].reader = "quiet"]
    /\ UNCHANGED <<lock, link, run, call, rest>>
-----------------------------------------------------------------------------
(* A request of the remote client: what the task's process is, or a command *)
(* to it.  Either begins with live_process.                                 *)

Ask(c) ==
    /\ ~closed /\ calls < MaxCalls /\ At(c, "idle")
    /\ \E o \in Commands : call' = [call EXCEPT ![c] = [Idle EXCEPT !.op = o, !.at = "link"]]
    /\ calls' = calls + 1
    /\ UNCHANGED <<session, lock, link, run, closed>>

ReadLink(c) ==
    /\ At(c, "link")
    /\ GoWith(c, IF link = NoSession THEN "decide" ELSE "look", link)
    /\ UNCHANGED <<session, lock, link, run, rest>>

\* A session that is not running is unlinked, and one that ended is
\* forgotten.
Look(c) ==
    /\ At(c, "look") /\ lock = c /\ (Listed(Id(c)) => StateFree(Id(c)))
    /\ Release
    /\ Go(c, CASE ~Listed(Id(c)) -> "unlink"
               [] session[Id(c)].shown = "Running" -> "decide"
               [] IsRunning(Id(c)) -> "unlink"
               [] OTHER -> "drop")
    /\ UNCHANGED <<session, link, run, rest>>

\* forget_process_session: by task, whatever session it names by now.
Unlink(c) ==
    /\ call[c].at \in {"unlink", "drop"}
    /\ link' = NoSession
    /\ IF At(c, "drop") THEN Go(c, "forget") ELSE GoWith(c, "decide", NoSession)
    /\ UNCHANGED <<session, lock, run, rest>>

\* Only a question, or a conflict: the task is blocked, or another session
\* was meant, or it is (to start one) or is not (to use one) running.
Refuse(c) ==
    /\ At(c, "decide") /\ Return(c)
    /\ UNCHANGED <<session, lock, link, run, rest>>

Accept(c) ==
    /\ At(c, "decide") /\ call[c].op \in {"spawn", "write", "kill"}
    /\ (call[c].op = "spawn") <=> (Id(c) = NoSession)
    /\ Go(c, call[c].op)
    /\ UNCHANGED <<session, lock, link, run, rest>>

Remember(c) ==
    /\ At(c, "remember")
    /\ link' = Id(c) /\ Return(c)
    /\ UNCHANGED <<session, lock, run, rest>>

\* The snapshot after a kill; a session that is no longer there ends the
\* call before the link is removed.
LastKill(c) ==
    /\ At(c, "lastKill") /\ lock = c /\ (Listed(Id(c)) => StateFree(Id(c)))
    /\ Release
    /\ IF Listed(Id(c)) THEN Go(c, "unlinkKilled") ELSE Return(c)
    /\ UNCHANGED <<session, link, run, rest>>

UnlinkKilled(c) ==
    /\ At(c, "unlinkKilled")
    /\ link' = NoSession /\ Return(c)
    /\ UNCHANGED <<session, lock, run, rest>>
-----------------------------------------------------------------------------
(* The user runs the project's task, terminates the session of one or looks *)
(* at it.                                                                   *)

RunTask ==
    /\ ~closed /\ calls < MaxCalls /\ At(UI, "idle")
    /\ call' = [call EXCEPT ![UI] =
                  [op |-> "runTask", at |-> IF run = NoSession THEN "spawn" ELSE "checkRun", id |-> run]]
    /\ calls' = calls + 1
    /\ UNCHANGED <<session, lock, link, run, closed>>

\* Mutant: a task that is being terminated may be launched again.
CheckRunStarted ==
    /\ At(UI, "checkRun") /\ lock = UI /\ (Listed(Id(UI)) => StateFree(Id(UI)))
    /\ Release
    /\ IF Listed(Id(UI)) /\ session[Id(UI)].shown = "Running"
       THEN Return(UI) /\ UNCHANGED run
       ELSE Go(UI, "spawn") /\ run' = NoSession
    /\ UNCHANGED <<session, link, rest>>

\* Already running, or else the entry is removed and the task launched.
CheckRun ==
    /\ At(UI, "checkRun") /\ lock = UI /\ (Listed(Id(UI)) => StateFree(Id(UI)))
    /\ Release
    /\ IF Listed(Id(UI)) /\ IsRunning(Id(UI))
       THEN Return(UI) /\ UNCHANGED run
       ELSE Go(UI, "spawn") /\ run' = NoSession
    /\ UNCHANGED <<session, link, rest>>

RememberRun ==
    /\ At(UI, "rememberRun")
    /\ run' = Id(UI) /\ Return(UI)
    /\ UNCHANGED <<session, lock, link, rest>>

OpenTab(s) ==
    /\ ~closed /\ calls < MaxCalls /\ At(UI, "idle")
    /\ session[s].stage \in {"listed", "forgotten"} /\ session[s].scope = "project"
    /\ \/ call' = [call EXCEPT ![UI] = [op |-> "terminate", at |-> "kill", id |-> s]]
       \/ call' = [call EXCEPT ![UI] = [op |-> "refresh", at |-> "last", id |-> s]]
    /\ calls' = calls + 1
    /\ UNCHANGED <<session, lock, link, run, closed>>
-----------------------------------------------------------------------------
\* What a call does by itself once it was made.  Written is not among it: that
\* is up to the process.
Step(c) ==
    \/ Lock(c) \/ Start(c) \/ StartFails(c) \/ ThreadFails(c) \/ Insert(c) \/ Register(c)
    \/ First(c) \/ Last(c) \/ NotRunning(c) \/ Write(c) \/ Terminate(c) \/ MarkTerminating(c)
    \/ Forget(c) \/ ReadLink(c) \/ Look(c) \/ Unlink(c) \/ Refuse(c) \/ Accept(c)
    \/ Remember(c) \/ LastKill(c) \/ UnlinkKilled(c)

RunStep == CheckRun \/ RememberRun
Threads(s) == WaiterSets(s) \/ WaiterTells(s) \/ ReaderSets(s) \/ ReaderTells(s)

Next ==
    \/ \E c \in Callers : Step(c) \/ Written(c)
    \/ \E c \in Requests : Ask(c)
    \/ RunTask \/ RunStep \/ Close
    \/ \E s \in Sessions : OpenTab(s) \/ ProcessEnds(s) \/ Threads(s)

Spec == Init /\ [][Next]_vars
-----------------------------------------------------------------------------
\* Every variable has its type, and a call holds the map exactly where it uses
\* it: terminate still does when it marks the session.
TypeOK ==
    /\ session \in [Sessions -> SessionRecords]
    /\ lock \in Callers \union {Nobody}
    /\ link \in Sessions \union {NoSession} /\ run \in Sessions \union {NoSession}
    /\ call \in [Callers -> [op : Ops, at : Places, id : Sessions \union {NoSession}]]
    /\ calls \in 0 .. MaxCalls /\ closed \in BOOLEAN
    /\ \A c \in Callers : /\ lock = c => call[c].at \in Queued \union Holding
                          /\ call[c].at \in Holding => lock = c

\* A process that was not sent the signal has an owner: its session is listed
\* or about to be, and after the application was closed there is none left.
\* One whose session was given up or forgotten was.  The doc of forget: "so no
\* process is left without an owner".
NoProcessWithoutOwner ==
    \A s \in Sessions :
      /\ session[s].process = "alive" => session[s].stage \in {"starting", "listed"} /\ ~closed
      /\ session[s].stage = "forgotten" => session[s].process = "gone"

\* The project's task, which forbids concurrent runs, has one process at a
\* time, however often it is launched and terminated and whatever the process
\* makes of the signal.  The check in launch_project_task is for this.
OneRunAtATime ==
    \A s, r \in Sessions :
      (/\ {session[s].stage, session[r].stage} \subseteq {"starting", "listed"}
       /\ {session[s].scope, session[r].scope} = {"project"}
       /\ {session[s].process, session[r].process} \subseteq {"alive", "hungUp"}) => s = r

\* Nothing is published of a session that is not yet in the map, and none
\* leaves the map before its end was published: who hears of a session can
\* look it up.  mark_terminal_registered is for the first.
ToldWhileListed ==
    \A s \in Sessions :
      /\ session[s].stage \in {"none", "starting"} => session[s].told = {}
      /\ session[s].stage = "forgotten" => "end" \in session[s].told

Program == (\E c \in Callers : Step(c)) \/ RunStep \/ \E s \in Sessions : Threads(s)

\* The guards of Program: where a call goes on by itself, and what a thread of
\* a session waits for.
Free == {"link", "unlink", "drop", "decide", "spawn", "register", "remember", "unlinkKilled",
         "rememberRun"}

CallerMay(c) ==
    \/ call[c].at \in Free
    \/ call[c].at \in Queued /\ lock = Nobody
    \/ At(c, "insert") /\ lock = c
    \/ call[c].at \in {"first", "mark"} /\ lock = c /\ StateFree(Id(c))
    \/ /\ call[c].at \in Queued \ {"insert", "first"} /\ lock = c
       /\ Listed(Id(c)) => StateFree(Id(c))

ThreadMay(s) ==
    \/ session[s].waiter = "waits" /\ session[s].process = "gone" /\ StateFree(s)
    \/ session[s].reader = "reads" /\ StateFree(s)
    \/ ~StateFree(s) /\ session[s].registered

SomeoneMay == (\E c \in Callers : CallerMay(c)) \/ \E s \in Sessions : ThreadMay(s)

SomeoneWaits ==
    \/ \E c \in Callers : ~At(c, "idle")
    \/ \E s \in Sessions : session[s].process = "gone" /\ session[s].waiter \in {"waits", "holds"}

\* As long as a call is under way or the end of a process is to be published,
\* some thread can go on: a session's threads wait for its launcher with the
\* session's state in hand, and the launcher and whoever holds the map ask for
\* that state.  The exception is a caller that writes to a process that does
\* not read.
Writing == \E c \in Callers : At(c, "writing")
NobodyIsStuck == SomeoneWaits /\ ~Writing => SomeoneMay

\* The same of the steps themselves: a thread that may go on has a step.
SomeoneGoesOn == NobodyIsStuck /\ (SomeoneMay => ENABLED Program)

-----------------------------------------------------------------------------
(* What is to be expected and the code does not do: see the README.         *)

\* A session whose process ended, and whom nobody is terminating, shows it.
\* The test terminal_resize_and_terminate_are_explicit_lifecycle_operations
\* waits for it after a terminate.
EndIsShown ==
    \A s \in Sessions :
      session[s].waiter = "done" /\ (\A c \in Callers : At(c, "mark") => Id(c) # s)
        => ~IsRunning(s)

\* A task has one process of the remote client's at a time; a second spawn is
\* answered with "task already has a running process session".
OneProcessPerTask ==
    \A s, r \in Sessions :
      (/\ {session[s].stage, session[r].stage} = {"listed"}
       /\ {session[s].scope, session[r].scope} = {"task"}
       /\ {session[s].shown, session[r].shown} = {"Running"}) => s = r
=============================================================================

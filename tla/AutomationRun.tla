---------------------------- MODULE AutomationRun ----------------------------
(***************************************************************************)
(* One run of an automation workflow: the statuses of the run and of its   *)
(* nodes, which only change by compare-and-swap transitions of the store,  *)
(* and the threads that make them.  The thread of the user interface       *)
(* begins, executes, resumes and cancels; the thread that ends an agent    *)
(* node's turn completes the node and goes on with the run.  Between two   *)
(* transitions a thread holds no lock, so the others come in between.      *)
(*                                                                         *)
(* Nodes are numbered in the order of automation_topological_order, which  *)
(* depends on the published snapshot only.  Node outputs are reduced to    *)
(* the handle they select; TurnQueue has the turns behind agent nodes.     *)
(***************************************************************************)
EXTENDS Integers, FiniteSets

CONSTANTS N,          \* nodes of the workflow
          Graphs,     \* the published snapshots a run may be bound to
          MaxCrashes, MaxFaults

Nodes == 1..N
UI == 0
Actors == 0..N        \* UI, and the thread that reports the turn of a node
Kinds == {"trigger", "condition", "switch", "stop", "tool", "human", "agent"}
Handles == {"any", "true", "false", "default"}
Edge == [from : Nodes, to : Nodes, handle : Handles]

\* validate_automation_graph: one trigger, edges between nodes, no cycle.
\* busy: the task its agent nodes are pointed at has another turn to work on.
ValidGraph(g) ==
    /\ g.kind \in [Nodes -> Kinds]
    /\ Cardinality({n \in Nodes : g.kind[n] = "trigger"}) = 1
    /\ g.edges \subseteq {e \in Edge : e.from < e.to}
    /\ g.busy \in BOOLEAN

ASSUME ConstantsAssumption ==
    /\ N \in Nat \ {0} /\ MaxCrashes \in Nat /\ MaxFaults \in Nat
    /\ \A g \in Graphs : ValidGraph(g)

VARIABLES graph,      \* the snapshot of the published version
          run,        \* automation_runs.status
          status,     \* automation_run_nodes.status
          out,        \* automation_run_nodes.output_json, as what it selects
          turn,       \* the turn that start_agent made for a node
          pc, at, start, result,   \* where a thread is in advance or cancel
          seen,       \* the active nodes cancel_run read
          crashes, faults

threads == <<pc, at, start, result, seen>>
store == <<run, status, out>>
counters == <<crashes, faults>>
vars == <<graph, store, turn, threads, counters>>

RunActive == {"Running", "WaitingUser"}
RunEnded == {"Succeeded", "Failed", "Cancelled"}
Started == {"Running", "WaitingUser"}
NodeActive == {"Pending", "Running", "WaitingUser"}
Outputs == {"none", "plain", "true", "false", "other", "success", "stopped",
            "waitingUser", "waitingAgent", "branch", "error"}
Outstanding == {"prepared", "queued", "running"}
TurnStates == Outstanding \union {"none", "succeeded", "failed", "ended", "cancelled", "lost"}
Advancing == {"advance", "execute", "record", "activate", "finish"}

TypeOK ==
    /\ ValidGraph(graph)
    /\ run \in {"none"} \union RunActive \union RunEnded
    /\ status \in [Nodes -> NodeActive \union RunEnded \union {"Skipped"}]
    /\ out \in [Nodes -> Outputs]
    /\ turn \in [Nodes -> TurnStates]
    /\ pc \in [Actors -> Advancing \union {"idle", "cancelTurn", "cancelRead", "cancelApply"}]
    /\ at \in [Actors -> Actors] /\ start \in [Actors -> Actors]
    /\ result \in [Actors -> Outputs]
    /\ seen \subseteq Nodes
    /\ crashes \in 0..MaxCrashes /\ faults \in 0..MaxFaults

Init ==
    /\ graph \in Graphs
    /\ run = "none"
    /\ status = [n \in Nodes |-> "Pending"]
    /\ out = [n \in Nodes |-> "none"]
    /\ turn = [n \in Nodes |-> "none"]
    /\ pc = [a \in Actors |-> "idle"]
    /\ at = [a \in Actors |-> 0] /\ start = [a \in Actors |-> 0]
    /\ result = [a \in Actors |-> "none"]
    /\ seen = {} /\ crashes = 0 /\ faults = 0

-----------------------------------------------------------------------------
(* The graph: which edges an output selects and which nodes they activate. *)

From(n) == {e \in graph.edges : e.from = n}

\* automation_active_outgoing_edges.
Selected(e) ==
    LET o == out[e.from] IN
    CASE e.handle = "any" -> o \in {"plain", "success", "true"}
      [] e.handle = "default" -> /\ graph.kind[e.from] = "switch"
                                 /\ \A f \in From(e.from) : f.handle # o
      [] OTHER -> e.handle = o

\* outputs_from_detail, and what advance adds to it.
Done == {n \in Nodes : status[n] \in {"Succeeded", "Skipped"}}

Successors(n) == {e.to : e \in {f \in From(n) : Selected(f)}}

\* The nodes advance starts from: those behind the node it was resumed from,
\* or the trigger.
StartNodes(a) == IF start[a] # 0 THEN Successors(start[a])
                 ELSE {n \in Nodes : graph.kind[n] = "trigger"}

\* The nodes reached from S along the edges of E, in the order of the nodes.
Reached(S, E) ==
    LET active[n \in Nodes] == n \in S \/ \E e \in E : e.to = n /\ active[e.from]
    IN {n \in Nodes : active[n]}

\* What the loop of advance has activated once it passed every node that has
\* an output.
Activated(a) == Reached(StartNodes(a), {e \in graph.edges : e.from \in Done /\ Selected(e)})

Todo(a) == Activated(a) \ Done

\* Mutant: the last node comes first.
IsLast(n, S) == n \in S /\ \A m \in S : m <= n

IsFirst(n, S) == n \in S /\ \A m \in S : n <= m

-----------------------------------------------------------------------------
(* The user begins a run and answers.                                      *)

Goto(a, label) == pc' = [pc EXCEPT ![a] = label]

\* apply_execution_transition with one node: both statuses are compared.
Swap(n, runs, nodes) == run \in runs /\ status[n] \in nodes

SetNode(n, s, o) ==
    /\ status' = [status EXCEPT ![n] = s]
    /\ out' = [out EXCEPT ![n] = o]

\* try_begin_run, and execute_run up to its first read.
Begin ==
    /\ run = "none" /\ pc[UI] = "idle"
    /\ run' = "Running"
    /\ Goto(UI, "advance")
    /\ start' = [start EXCEPT ![UI] = 0]
    /\ UNCHANGED <<graph, status, out, turn, at, result, seen, counters>>

\* resume_human; its own read and its transition see the same statuses.
ResumeHuman(n) ==
    /\ pc[UI] = "idle"
    /\ Swap(n, {"WaitingUser"}, {"WaitingUser"})
    /\ run' = "Running"
    /\ SetNode(n, "Succeeded", "success")
    /\ Goto(UI, "advance")
    /\ start' = [start EXCEPT ![UI] = n]
    /\ UNCHANGED <<graph, turn, at, result, seen, counters>>

-----------------------------------------------------------------------------
(* advance: mark the next node as running, execute it, record its output.  *)
(* Every write is one transition; a refused one ends the thread's work.    *)

MarkRunning(a) ==
    /\ pc[a] = "advance"
    /\ \E n \in Nodes :
         /\ IsFirst(n, Todo(a))
         /\ IF Swap(n, {"Running"}, {"Pending", "Running"}) /\ out[n] # "waitingAgent"
            THEN /\ SetNode(n, "Running", "none")
                 /\ at' = [at EXCEPT ![a] = n]
                 /\ Goto(a, "execute")
            ELSE Goto(a, "idle") /\ UNCHANGED <<status, out, at>>
    /\ UNCHANGED <<graph, run, turn, start, result, seen, counters>>

\* What execute_node can return for a node of each kind.
Results(n) ==
    CASE graph.kind[n] = "condition" -> {"true", "false"}
      [] graph.kind[n] = "switch" -> {"true", "other"}
      [] graph.kind[n] = "stop" -> {"stopped"}
      [] graph.kind[n] = "tool" -> {"plain", "error"}
      [] graph.kind[n] = "human" -> {"waitingUser"}
      [] graph.kind[n] = "agent" -> {"waitingAgent", "error"}
      [] OTHER -> {"plain"}

\* Mutant: the worker starts before the run records that it waits.
ExecuteStartsWorker(a) ==
    /\ pc[a] = "execute"
    /\ \E r \in Results(at[a]) :
         /\ result' = [result EXCEPT ![a] = r]
         /\ turn' = IF r = "waitingAgent" THEN [turn EXCEPT ![at[a]] = "running"] ELSE turn
    /\ Goto(a, "record")
    /\ UNCHANGED <<graph, store, at, start, seen, counters>>

\* start_agent leaves a prepared turn, or one queued behind another turn.
Execute(a) ==
    /\ pc[a] = "execute"
    /\ \E r \in Results(at[a]) :
         /\ result' = [result EXCEPT ![a] = r]
         /\ IF r = "waitingAgent"
            THEN \E t \in IF graph.busy THEN {"prepared", "queued"} ELSE {"prepared"} :
                   turn' = [turn EXCEPT ![at[a]] = t]
            ELSE UNCHANGED turn
    /\ Goto(a, "record")
    /\ UNCHANGED <<graph, store, at, start, seen, counters>>

\* abort_agent discards a turn that did not start yet.
Aborted(a) ==
    IF /\ pc[a] = "record" /\ result[a] = "waitingAgent"
       /\ turn[at[a]] \in {"prepared", "queued"}
    THEN [turn EXCEPT ![at[a]] = "ended"] ELSE turn

RecordRefused(a) ==
    /\ pc[a] = "record" /\ ~Swap(at[a], {"Running"}, {"Running"})
    /\ turn' = Aborted(a)
    /\ Goto(a, "idle")
    /\ UNCHANGED <<graph, store, at, start, result, seen, counters>>

\* Mutant: a status of its own, which no other operation knows.
RecordWaitingStatus(a) ==
    /\ SetNode(at[a], "WaitingAgent", "waitingAgent")
    /\ Goto(a, IF turn[at[a]] = "prepared" THEN "activate" ELSE "idle")
    /\ UNCHANGED run

\* Mutant: nobody starts the worker.
RecordWithoutWorker(a) ==
    /\ SetNode(at[a], "Running", "waitingAgent")
    /\ Goto(a, "idle")
    /\ UNCHANGED run

\* The run waits for an agent, whose worker starts only after this write.
RecordWaitingAgent(a) ==
    /\ SetNode(at[a], "Running", "waitingAgent")
    /\ Goto(a, IF turn[at[a]] = "prepared" THEN "activate" ELSE "idle")
    /\ UNCHANGED run

RecordWaitingUser(a) ==
    /\ SetNode(at[a], "WaitingUser", "waitingUser")
    /\ run' = "WaitingUser"
    /\ Goto(a, "idle")

RecordFailed(a) ==
    /\ SetNode(at[a], "Failed", "none")
    /\ run' = "Failed"
    /\ Goto(a, "idle")

RecordSucceeded(a) ==
    /\ SetNode(at[a], "Succeeded", result[a])
    /\ Goto(a, IF result[a] = "stopped" THEN "finish" ELSE "advance")
    /\ UNCHANGED run

Record(a) ==
    /\ pc[a] = "record" /\ Swap(at[a], {"Running"}, {"Running"})
    /\ CASE result[a] = "waitingAgent" -> RecordWaitingAgent(a)
         [] result[a] = "waitingUser" -> RecordWaitingUser(a)
         [] result[a] = "error" -> RecordFailed(a)
         [] OTHER -> RecordSucceeded(a)
    /\ UNCHANGED <<graph, turn, at, start, result, seen, counters>>

\* activate_agent; a turn that was discarded meanwhile, or that the executor
\* refuses, fails the node if the run still goes on.
Activate(a) ==
    /\ pc[a] = "activate"
    /\ \/ /\ turn[at[a]] = "prepared"
          /\ turn' = [turn EXCEPT ![at[a]] = "running"]
          /\ UNCHANGED store
       \/ /\ turn' = IF turn[at[a]] = "prepared"
                     THEN [turn EXCEPT ![at[a]] = "ended"] ELSE turn
          /\ IF Swap(at[a], {"Running"}, {"Running"})
             THEN SetNode(at[a], "Failed", "waitingAgent") /\ run' = "Failed"
             ELSE UNCHANGED store
    /\ Goto(a, "idle")
    /\ UNCHANGED <<graph, at, start, result, seen, counters>>

\* finish_success: what was not reached is skipped as a branch not selected.
Finish(a) ==
    /\ \/ pc[a] = "finish"
       \/ pc[a] = "advance" /\ Todo(a) = {}
    /\ IF run = "Running" /\ \A n \in Nodes : status[n] = "Pending" \/ n \in Done
       THEN /\ run' = "Succeeded"
            /\ status' = [n \in Nodes |-> IF n \in Done THEN status[n] ELSE "Skipped"]
            /\ out' = [n \in Nodes |-> IF n \in Done THEN out[n] ELSE "branch"]
       ELSE UNCHANGED store
    /\ Goto(a, "idle")
    /\ UNCHANGED <<graph, turn, at, start, result, seen, counters>>

-----------------------------------------------------------------------------
(* The turns of agent nodes, and complete_agent on the thread that ends one.*)

TurnStarts(n) ==
    /\ turn[n] = "queued"
    /\ turn' = [turn EXCEPT ![n] = "running"]
    /\ UNCHANGED <<graph, store, threads, counters>>

TurnEnds(n) ==
    /\ turn[n] = "running"
    /\ \E r \in {"succeeded", "failed"} : turn' = [turn EXCEPT ![n] = r]
    /\ UNCHANGED <<graph, store, threads, counters>>

\* Mutant: any running node is taken for one that waits.
RunsForAgent(n) == run = "Running" /\ status[n] = "Running"

WaitsForAgent(n) == run = "Running" /\ status[n] = "Running" /\ out[n] = "waitingAgent"

\* Its read and its transition see the same statuses, or it is refused.
CompleteAgent(n) ==
    /\ turn[n] \in {"succeeded", "failed"} /\ pc[n] = "idle"
    /\ turn' = [turn EXCEPT ![n] = "ended"]
    /\ IF ~WaitsForAgent(n)
       THEN UNCHANGED <<store, pc, start>>
       ELSE IF turn[n] = "succeeded"
       THEN /\ SetNode(n, "Succeeded", "success")
            /\ Goto(n, "advance")
            /\ start' = [start EXCEPT ![n] = n]
            /\ UNCHANGED run
       ELSE /\ SetNode(n, "Failed", "error")
            /\ run' = "Failed"
            /\ UNCHANGED <<pc, start>>
    /\ UNCHANGED <<graph, at, result, seen, counters>>

-----------------------------------------------------------------------------
(* cancel_automation_run reads the run and cancels the turn it waits for;  *)
(* then cancel_run reads it again and writes.                              *)

CancelBegin ==
    /\ pc[UI] = "idle" /\ run \in RunActive
    /\ \/ /\ \A n \in Nodes : ~WaitsForAgent(n)
          /\ Goto(UI, "cancelRead") /\ UNCHANGED at
       \/ \E n \in Nodes : /\ WaitsForAgent(n)
                           /\ Goto(UI, "cancelTurn") /\ at' = [at EXCEPT ![UI] = n]
    /\ UNCHANGED <<graph, store, turn, start, result, seen, counters>>

\* cancel_automation_agent_turn: the turn will not report; one that already
\* ended is refused, unless it was cancelled before.
CancelTurn ==
    /\ pc[UI] = "cancelTurn"
    /\ \/ /\ turn[at[UI]] \in Outstanding \union {"succeeded", "failed", "cancelled"}
          /\ turn' = IF turn[at[UI]] \in Outstanding
                     THEN [turn EXCEPT ![at[UI]] = "cancelled"] ELSE turn
          /\ Goto(UI, "cancelRead")
       \/ /\ turn[at[UI]] \in {"succeeded", "failed", "ended", "lost"}
          /\ Goto(UI, "idle")
          /\ UNCHANGED turn
    /\ UNCHANGED <<graph, store, at, start, result, seen, counters>>

\* Mutant: the nodes that did not start are left out.
CancelReadStarted ==
    /\ pc[UI] = "cancelRead"
    /\ run \in RunActive
    /\ seen' = {n \in Nodes : status[n] \in {"Running", "WaitingUser"}}
    /\ Goto(UI, "cancelApply")
    /\ UNCHANGED <<graph, store, turn, at, start, result, counters>>

CancelRead ==
    /\ pc[UI] = "cancelRead"
    /\ IF run \in RunActive
       THEN /\ seen' = {n \in Nodes : status[n] \in NodeActive}
            /\ Goto(UI, "cancelApply")
       ELSE Goto(UI, "idle") /\ UNCHANGED seen
    /\ UNCHANGED <<graph, store, turn, at, start, result, counters>>

\* Mutant: the transition does not compare.
CancelApplyUnchecked ==
    /\ pc[UI] = "cancelApply"
    /\ run' = "Cancelled"
    /\ status' = [n \in Nodes |-> IF n \in seen THEN "Cancelled" ELSE status[n]]
    /\ Goto(UI, "idle")
    /\ seen' = {}
    /\ UNCHANGED <<graph, out, turn, at, start, result, counters>>

CancelApply ==
    /\ pc[UI] = "cancelApply"
    /\ IF run \in RunActive /\ \A n \in seen : status[n] \in NodeActive
       THEN /\ run' = "Cancelled"
            /\ status' = [n \in Nodes |-> IF n \in seen THEN "Cancelled" ELSE status[n]]
       ELSE UNCHANGED <<run, status>>
    /\ Goto(UI, "idle")
    /\ seen' = {}
    /\ UNCHANGED <<graph, out, turn, at, start, result, counters>>

-----------------------------------------------------------------------------
(* Faults: SQLite refuses a transition, or the process dies.               *)

StorageFails(a) ==
    /\ faults < MaxFaults
    /\ pc[a] \in {"advance", "record", "finish", "cancelApply"}
    /\ faults' = faults + 1
    /\ turn' = Aborted(a)
    /\ Goto(a, "idle")
    /\ UNCHANGED <<graph, store, at, start, result, seen, crashes>>

ReportFails(n) ==
    /\ faults < MaxFaults /\ turn[n] \in {"succeeded", "failed"}
    /\ faults' = faults + 1
    /\ turn' = [turn EXCEPT ![n] = "ended"]
    /\ UNCHANGED <<graph, store, threads, crashes>>

\* No start of the application looks at runs.  A turn that has no row yet is
\* lost, one that ended does not report, one that ran is recovered.
Crash ==
    /\ crashes < MaxCrashes /\ run # "none"
    /\ crashes' = crashes + 1
    /\ pc' = [a \in Actors |-> "idle"]
    /\ seen' = {}
    /\ turn' = [n \in Nodes |-> CASE turn[n] \in {"prepared", "queued"} -> "lost"
                                  [] turn[n] \in {"succeeded", "failed"} -> "ended"
                                  [] OTHER -> turn[n]]
    /\ UNCHANGED <<graph, store, at, start, result, faults>>

-----------------------------------------------------------------------------
Step(a) == MarkRunning(a) \/ Execute(a) \/ Record(a) \/ RecordRefused(a)
           \/ Activate(a) \/ Finish(a)

Next ==
    \/ Begin \/ CancelBegin \/ CancelTurn \/ CancelRead \/ CancelApply \/ Crash
    \/ \E a \in Actors : Step(a) \/ StorageFails(a)
    \/ \E n \in Nodes : \/ ResumeHuman(n) \/ TurnStarts(n) \/ TurnEnds(n)
                        \/ CompleteAgent(n) \/ ReportFails(n)

\* Threads go on, and a turn that runs ends and reports; users need not act,
\* and a turn queued behind another one need not start.
Fairness ==
    /\ \A a \in Actors : WF_vars(Step(a))
    /\ \A n \in Nodes : WF_vars(TurnEnds(n)) /\ WF_vars(CompleteAgent(n))
    /\ WF_vars(CancelTurn) /\ WF_vars(CancelRead) /\ WF_vars(CancelApply)

Spec == Init /\ [][Next]_vars
FairSpec == Spec /\ Fairness

-----------------------------------------------------------------------------
(* Properties.                                                             *)

\* Of all the calls that may be inside advance, by the user's thread or by
\* those of turns that ended, at most one works on the run, and at most one
\* node executes, waits for the user or waits for an agent.  Nothing in the
\* store enforces it; the engine relies on it to find the node to resume.
OneAtATime ==
    /\ \A a, b \in Actors : pc[a] \in Advancing /\ pc[b] \in Advancing => a = b
    /\ \A m, n \in Nodes :
         status[m] \in Started /\ status[n] \in Started => m = n

\* The status of a run tells the truth about its nodes, whoever wrote last.
RunMatchesNodes ==
    /\ run = "Succeeded" => \A n \in Nodes : n \in Done
    /\ run = "Cancelled" => \A n \in Nodes : status[n] \notin NodeActive
    /\ run = "Failed" => /\ \E n \in Nodes : status[n] = "Failed"
                         /\ \A n \in Nodes : status[n] \notin {"Running", "WaitingUser"}
    /\ run = "WaitingUser" => \E n \in Nodes : status[n] = "WaitingUser"
    /\ run = "Running" => \A n \in Nodes : status[n] \notin
                            {"WaitingUser", "Failed", "Cancelled"}

\* A run that reports success or failure leaves no turn of its agents behind,
\* and a node waits only for a turn that still reports or that a cancellation
\* accepts: otherwise cancel_automation_run answers with an error for ever, and
\* the workflow can neither run again nor be deleted.  Only a crash, a failed
\* write or a turn queued behind another one leads there.  (A cancelled run can
\* leave a turn behind: CancelBegin reads the nodes before a thread records
\* that it waits for the turn it just made.)
TurnsMatchNodes ==
    /\ run \in {"Succeeded", "Failed"} => \A n \in Nodes : turn[n] \notin Outstanding
    /\ (crashes = 0 /\ faults = 0 /\ ~graph.busy)
         => \A n \in Nodes : WaitsForAgent(n) => turn[n] \notin {"none", "ended", "lost"}

\* While a run is running somebody is at it: a thread in advance, or the
\* thread of the turn that its node waits for, or the user's that cancelled
\* this turn and is about to cancel the run.
RunIsTended ==
    run = "Running" /\ crashes = 0 /\ faults = 0 /\ ~graph.busy =>
        \/ \E a \in Actors : pc[a] \in Advancing
        \/ \E n \in Nodes :
             /\ WaitsForAgent(n)
             /\ \/ turn[n] \in {"running", "succeeded", "failed"}
                \/ turn[n] = "cancelled" /\ pc[UI] \in {"cancelRead", "cancelApply"}

\* No turn and no run is left that nobody will end.
NothingIsForgotten == TurnsMatchNodes /\ RunIsTended

\* Whoever holds a stale read of an ended run changes nothing of it any more.
EndedRunIsFrozen == [][(run \in RunEnded) => UNCHANGED store]_vars

\* How far a node is, and its turn.
Stage(n) == CASE status[n] = "Pending" -> 0
              [] status[n] = "Running" /\ out[n] # "waitingAgent" -> 1
              [] status[n] = "WaitingUser" \/ (status[n] = "Running" /\ out[n] = "waitingAgent") -> 2
              [] OTHER -> 3
TurnStage(n) == CASE turn[n] = "none" -> 0
                  [] turn[n] \in {"prepared", "queued"} -> 1
                  [] turn[n] = "running" -> 2
                  [] turn[n] \in {"succeeded", "failed"} -> 3
                  [] OTHER -> 4

\* A node executes once and an agent node has one turn, whoever resumes,
\* completes or cancels the run: nodes and turns only ever move on, and a
\* thread executes only a node that nobody executed before.
NodesMoveOn ==
    [][/\ \A n \in Nodes : /\ Stage(n) <= Stage(n)' /\ TurnStage(n) <= TurnStage(n)'
                           /\ Stage(n) = 3 => UNCHANGED <<status[n], out[n]>>
       /\ \A a \in Actors : pc[a] # "execute" /\ pc'[a] = "execute" => Stage(at'[a]) = 0]_vars

\* What has happened stands.
HistoryStands == EndedRunIsFrozen /\ NodesMoveOn

\* A node never executes after a node behind it has started: what it would
\* contribute to that node's input came too late.
NoLateUpstream ==
    [][\A e \in graph.edges :
         status[e.to] # "Pending" => ~(status[e.from] = "Pending" /\ status'[e.from] = "Running")]_vars

\* A running run reaches its end or the user, whatever outcomes nodes and
\* turns have and whenever the user tries to cancel, unless a fault or a
\* queue in front of its turn came in between.
RunEnds ==
    run = "Running" ~> (run # "Running" \/ crashes > 0 \/ faults > 0 \/ graph.busy)

-----------------------------------------------------------------------------
(* What is to be expected and the code does not do: see the README.         *)

\* finish_success writes "branch_not_selected" for what was never reached: a
\* node that an executed node selected is not skipped for that reason, unless
\* a stop node ended the run.
SkippedWasNotSelected ==
    (\A n \in Nodes : out[n] # "stopped") => \A e \in graph.edges :
      e.from \in Done /\ out[e.from] # "branch" /\ out[e.to] = "branch" => ~Selected(e)
=============================================================================

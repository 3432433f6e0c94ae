------------------------- MODULE AutomationRunProofs -------------------------
(***************************************************************************)
(* Proofs about AutomationRun, for any set of graphs of any size and any   *)
(* number of crashes and refused transitions.                              *)
(***************************************************************************)
EXTENDS AutomationRun, WellFoundedInduction, TLAPS

\* Before the run begins nobody works on it.
FreshInv ==
    run = "none" => /\ \A a \in Actors : pc[a] = "idle"
                    /\ \A n \in Nodes : status[n] = "Pending"

\* A thread inside advance works on a running run, unless the user cancelled
\* it meanwhile; it is where the run is.
ThreadInv ==
    \A a \in Actors : pc[a] \in Advancing =>
      /\ run \in {"Running", "Cancelled"}
      /\ pc[a] \in {"execute", "record", "activate"} =>
           /\ at[a] \in Nodes
           /\ run = "Running" => status[at[a]] = "Running"
      /\ pc[a] \in {"execute", "record"} /\ run = "Running" => out[at[a]] # "waitingAgent"
      /\ pc[a] \in {"advance", "finish"} /\ run = "Running" =>
           \A n \in Nodes : status[n] \notin Started

\* The turn of a node a thread works on.
TurnInv ==
    /\ \A n \in Nodes : status[n] = "Pending" => turn[n] = "none"
    /\ \A n \in Nodes : turn[n] \in Outstanding =>
         run = "Cancelled" \/ (run = "Running" /\ status[n] = "Running")
    /\ \A a \in Actors :
         /\ pc[a] = "execute" => turn[at[a]] = "none"
         /\ pc[a] = "record" /\ result[a] # "waitingAgent" => turn[at[a]] = "none"
         /\ pc[a] = "activate" => turn[at[a]] \in {"prepared", "cancelled"}
         /\ (crashes = 0 /\ faults = 0 /\ ~graph.busy) =>
              (pc[a] = "record" /\ result[a] = "waitingAgent"
                 => turn[at[a]] \in {"prepared", "cancelled"})

\* What cancel_run read still holds every node that is active.
SeenInv ==
    pc[UI] = "cancelApply" => \A n \in Nodes : status[n] \in NodeActive => n \in seen

\* A run that is not over has no node that failed or was cancelled.
AliveInv ==
    run \in RunActive => \A n \in Nodes : status[n] \notin {"Failed", "Cancelled"}

\* The inductive invariant.  The properties say nothing of where the threads
\* are, so a step of a thread could not be shown to keep them: the parts added
\* here tie each thread's place to the rows it is about to write.
IInv == /\ TypeOK /\ OneAtATime /\ RunMatchesNodes /\ TurnsMatchNodes
        /\ FreshInv /\ ThreadInv /\ TurnInv /\ SeenInv /\ AliveInv

-----------------------------------------------------------------------------
(* Every action keeps the invariant.  Only that the user's thread and the   *)
(* nodes' threads are different actors matters of the numbers.              *)

LEMMA Ids ==
  /\ Nodes \subseteq Actors /\ UI \in Actors /\ UI \notin Nodes
  /\ UI = 0 /\ 0 \in 0..MaxCrashes /\ 0 \in 0..MaxFaults
  /\ \A a \in Actors : a = UI \/ a \in Nodes
  BY ConstantsAssumption DEF Nodes, Actors, UI

LEMMA BeginKeeps ==
    ASSUME IInv, Begin
    PROVE  IInv'
  <1>1. TypeOK'
    BY Ids DEF Begin, Goto, IInv, TypeOK, counters, RunActive, Advancing
  <1>2. OneAtATime'
    BY Ids DEF Begin, Goto, IInv, TypeOK, OneAtATime, RunMatchesNodes,
         FreshInv, ThreadInv, TurnInv
  <1>3. RunMatchesNodes'
    BY Ids DEF Begin, Goto, IInv, TypeOK, OneAtATime, RunMatchesNodes, Done,
         ThreadInv, FreshInv, SeenInv, AliveInv
  <1>4. TurnsMatchNodes'
    BY Ids DEF Begin, Goto, IInv, TypeOK, FreshInv, OneAtATime,
         TurnsMatchNodes, WaitsForAgent, ThreadInv, TurnInv
  <1>5. FreshInv'
    BY Ids DEF Begin, Goto, IInv, TypeOK, FreshInv, ThreadInv
  <1>6. ThreadInv'
    BY Ids DEF Begin, Goto, IInv, TypeOK, OneAtATime, FreshInv, ThreadInv,
         TurnInv, RunMatchesNodes, Started
  <1>7. TurnInv'
    BY Ids DEF Begin, Goto, IInv, TypeOK, OneAtATime, FreshInv, ThreadInv,
         TurnInv, WaitsForAgent, TurnsMatchNodes, RunMatchesNodes
  <1>8. SeenInv'
    BY Ids DEF Begin, Goto, IInv, TypeOK, SeenInv
  <1>9. AliveInv'
    BY Ids DEF Begin, Goto, IInv, TypeOK, AliveInv, OneAtATime, FreshInv
  <1> QED
    BY <1>1, <1>2, <1>3, <1>4, <1>5, <1>6, <1>7, <1>8, <1>9 DEF IInv

LEMMA ResumeHumanKeeps ==
    ASSUME NEW n \in Nodes, IInv, ResumeHuman(n)
    PROVE  IInv'
  <1>1. TypeOK'
    BY Ids DEF ResumeHuman, Goto, Swap, SetNode, IInv, TypeOK, counters,
         RunActive, RunEnded, Outputs, Advancing
  <1>2. OneAtATime'
    BY Ids DEF ResumeHuman, Goto, Swap, SetNode, IInv, TypeOK, OneAtATime,
         RunMatchesNodes, FreshInv, ThreadInv, TurnInv, Started
  <1>3. RunMatchesNodes'
    BY Ids DEF ResumeHuman, Goto, Swap, SetNode, IInv, TypeOK, OneAtATime,
         RunMatchesNodes, Done, ThreadInv, FreshInv, SeenInv, AliveInv,
         RunActive, Started, Advancing
  <1>4. TurnsMatchNodes'
    BY Ids DEF ResumeHuman, Goto, Swap, SetNode, IInv, TypeOK, FreshInv,
         OneAtATime, TurnsMatchNodes, WaitsForAgent, ThreadInv, TurnInv,
         Started, TurnStates, Advancing
  <1>5. FreshInv'
    BY Ids DEF ResumeHuman, Goto, Swap, SetNode, IInv, TypeOK, FreshInv,
         ThreadInv, Started, Outputs, Outstanding
  <1>6. ThreadInv'
    BY Ids DEF ResumeHuman, Goto, Swap, SetNode, IInv, TypeOK, OneAtATime,
         FreshInv, ThreadInv, TurnInv, RunMatchesNodes, RunEnded, NodeActive,
         Started
  <1>7. TurnInv'
    BY Ids DEF ResumeHuman, Goto, Swap, SetNode, IInv, TypeOK, OneAtATime,
         FreshInv, ThreadInv, TurnInv, WaitsForAgent, TurnsMatchNodes,
         RunMatchesNodes, RunActive
  <1>8. SeenInv'
    BY Ids DEF ResumeHuman, Goto, Swap, SetNode, IInv, TypeOK, SeenInv,
         threads, counters, RunActive
  <1>9. AliveInv'
    BY Ids DEF ResumeHuman, Goto, Swap, SetNode, IInv, TypeOK, AliveInv,
         OneAtATime, FreshInv, store, threads, RunActive
  <1> QED
    BY <1>1, <1>2, <1>3, <1>4, <1>5, <1>6, <1>7, <1>8, <1>9 DEF IInv

LEMMA MarkRunningKeeps ==
    ASSUME NEW a \in Actors, IInv, MarkRunning(a)
    PROVE  IInv'
  <1>1. TypeOK'
    BY Ids DEF MarkRunning, Goto, Swap, SetNode, IInv, TypeOK, counters,
         NodeActive, Outputs, Advancing
  <1>2. OneAtATime'
    BY Ids DEF MarkRunning, Goto, Swap, SetNode, IInv, TypeOK, OneAtATime,
         RunMatchesNodes, FreshInv, ThreadInv, TurnInv
  <1>3. RunMatchesNodes'
    BY Ids DEF MarkRunning, Goto, Swap, SetNode, IInv, TypeOK, OneAtATime,
         RunMatchesNodes, Done, ThreadInv, FreshInv, SeenInv, AliveInv
  <1>4. TurnsMatchNodes'
    BY Ids DEF MarkRunning, Goto, Swap, SetNode, IInv, TypeOK, FreshInv,
         OneAtATime, TurnsMatchNodes, WaitsForAgent, ThreadInv, TurnInv,
         counters
  <1>5. FreshInv'
    BY Ids DEF MarkRunning, Goto, Swap, SetNode, IInv, TypeOK, FreshInv,
         ThreadInv
  <1>6. ThreadInv'
    BY Ids DEF MarkRunning, Goto, Swap, SetNode, IInv, TypeOK, OneAtATime,
         FreshInv, ThreadInv, TurnInv, RunMatchesNodes
  <1>7. TurnInv'
    BY Ids DEF MarkRunning, Goto, Swap, SetNode, IInv, TypeOK, OneAtATime,
         FreshInv, ThreadInv, TurnInv, WaitsForAgent, TurnsMatchNodes,
         RunMatchesNodes, Started
  <1>8. SeenInv'
    <2>1. \A m \in Nodes : status'[m] \in NodeActive => status[m] \in NodeActive
      BY DEF MarkRunning, Swap, SetNode, IInv, TypeOK, NodeActive
    <2>2. pc'[UI] = "cancelApply" => pc[UI] = "cancelApply"
      BY Ids DEF MarkRunning, Goto, IInv, TypeOK
    <2> QED
      BY <2>1, <2>2 DEF MarkRunning, IInv, SeenInv
  <1>9. AliveInv'
    <2>1. \A m \in Nodes : status'[m] \in {"Failed", "Cancelled"} => status'[m] = status[m]
      BY DEF MarkRunning, Swap, SetNode, IInv, TypeOK
    <2> QED
      BY <2>1 DEF MarkRunning, IInv, AliveInv
  <1> QED
    BY <1>1, <1>2, <1>3, <1>4, <1>5, <1>6, <1>7, <1>8, <1>9 DEF IInv

LEMMA ExecuteKeeps ==
    ASSUME NEW a \in Actors, IInv, Execute(a)
    PROVE  IInv'
  <1>1. TypeOK'
    BY Ids DEF Execute, Goto, Results, IInv, TypeOK, store, counters,
         Outputs, Outstanding, TurnStates, Advancing
  <1>2. OneAtATime'
    BY Ids DEF Execute, Goto, Results, IInv, TypeOK, OneAtATime,
         RunMatchesNodes, FreshInv, ThreadInv, TurnInv, store
  <1>3. RunMatchesNodes'
    BY Ids DEF Execute, Goto, Results, IInv, TypeOK, OneAtATime,
         RunMatchesNodes, Done, ThreadInv, FreshInv, SeenInv, AliveInv, store
  <1>4. TurnsMatchNodes'
    BY Ids DEF Execute, Goto, Results, IInv, TypeOK, FreshInv, OneAtATime,
         TurnsMatchNodes, WaitsForAgent, ThreadInv, TurnInv, store, counters
  <1>5. FreshInv'
    BY Ids DEF Execute, Goto, Results, IInv, TypeOK, FreshInv, ThreadInv,
         store
  <1>6. ThreadInv'
    BY Ids DEF Execute, Goto, Results, IInv, TypeOK, OneAtATime, FreshInv,
         ThreadInv, TurnInv, RunMatchesNodes, store
  <1>7. TurnInv'
    BY SMTT(30), Ids DEF Execute, Goto, Results, IInv, TypeOK, OneAtATime, FreshInv,
         ThreadInv, TurnInv, WaitsForAgent, TurnsMatchNodes, RunMatchesNodes,
         store, RunEnded
  <1>8. SeenInv'
    BY Ids DEF Execute, Goto, Results, IInv, TypeOK, SeenInv, store
  <1>9. AliveInv'
    BY Ids DEF Execute, Goto, Results, IInv, TypeOK, AliveInv, OneAtATime,
         FreshInv, store
  <1> QED
    BY <1>1, <1>2, <1>3, <1>4, <1>5, <1>6, <1>7, <1>8, <1>9 DEF IInv

LEMMA RecordRefusedKeeps ==
    ASSUME NEW a \in Actors, IInv, RecordRefused(a)
    PROVE  IInv'
  <1>1. TypeOK'
    BY Ids DEF RecordRefused, Goto, Swap, Aborted, IInv, TypeOK, store,
         counters, TurnStates
  <1>2. OneAtATime'
    BY Ids DEF RecordRefused, Goto, Swap, Aborted, IInv, TypeOK, OneAtATime,
         RunMatchesNodes, FreshInv, ThreadInv, TurnInv, store, TurnStates,
         Advancing
  <1>3. RunMatchesNodes'
    BY Ids DEF RecordRefused, Goto, Swap, Aborted, IInv, TypeOK, OneAtATime,
         RunMatchesNodes, Done, ThreadInv, FreshInv, SeenInv, AliveInv, store
  <1>4. TurnsMatchNodes'
    BY Ids DEF RecordRefused, Goto, Swap, Aborted, IInv, TypeOK, FreshInv,
         OneAtATime, TurnsMatchNodes, WaitsForAgent, ThreadInv, TurnInv,
         store, Outstanding
  <1>5. FreshInv'
    BY Ids DEF RecordRefused, Goto, Swap, Aborted, IInv, TypeOK, FreshInv,
         ThreadInv, store, Outstanding
  <1>6. ThreadInv'
    BY Ids DEF RecordRefused, Goto, Swap, Aborted, IInv, TypeOK, OneAtATime,
         FreshInv, ThreadInv, TurnInv, RunMatchesNodes, store, Outputs
  <1>7. TurnInv'
    BY Ids DEF RecordRefused, Goto, Swap, Aborted, IInv, TypeOK, OneAtATime,
         FreshInv, ThreadInv, TurnInv, WaitsForAgent, TurnsMatchNodes,
         RunMatchesNodes, store, Started, Outputs
  <1>8. SeenInv'
    BY Ids DEF RecordRefused, Goto, Swap, Aborted, IInv, TypeOK, SeenInv,
         store, Started
  <1>9. AliveInv'
    BY Ids DEF RecordRefused, Goto, Swap, Aborted, IInv, TypeOK, AliveInv,
         OneAtATime, FreshInv, store, NodeActive
  <1> QED
    BY <1>1, <1>2, <1>3, <1>4, <1>5, <1>6, <1>7, <1>8, <1>9 DEF IInv

LEMMA RecordKeeps ==
    ASSUME NEW a \in Actors, IInv, Record(a)
    PROVE  IInv'
  <1>1. TypeOK'
    BY Ids DEF Record, Goto, Swap, SetNode, RecordWaitingAgent,
         RecordWaitingUser, RecordFailed, RecordSucceeded, IInv, TypeOK,
         counters, RunActive, RunEnded, NodeActive, Outputs, Advancing
  <1>2. OneAtATime'
    BY Ids DEF Record, Goto, Swap, SetNode, RecordWaitingAgent,
         RecordWaitingUser, RecordFailed, RecordSucceeded, IInv, TypeOK,
         OneAtATime, RunMatchesNodes, FreshInv, ThreadInv, TurnInv,
         RunActive, Started
  <1>3. RunMatchesNodes'
    BY Ids DEF Record, Goto, Swap, SetNode, RecordWaitingAgent,
         RecordWaitingUser, RecordFailed, RecordSucceeded, IInv, TypeOK,
         OneAtATime, RunMatchesNodes, Done, ThreadInv, FreshInv, SeenInv,
         AliveInv, counters, Started
  <1>4. TurnsMatchNodes'
    BY Ids DEF Record, Goto, Swap, SetNode, RecordWaitingAgent,
         RecordWaitingUser, RecordFailed, RecordSucceeded, IInv, TypeOK,
         FreshInv, OneAtATime, TurnsMatchNodes, WaitsForAgent, ThreadInv,
         TurnInv, threads, counters, Started, Outstanding
  <1>5. FreshInv'
    BY Ids DEF Record, Goto, Swap, SetNode, RecordWaitingAgent,
         RecordWaitingUser, RecordFailed, RecordSucceeded, IInv, TypeOK,
         FreshInv, ThreadInv, store
  <1>6. ThreadInv'
    BY Ids DEF Record, Goto, Swap, SetNode, RecordWaitingAgent,
         RecordWaitingUser, RecordFailed, RecordSucceeded, IInv, TypeOK,
         OneAtATime, FreshInv, ThreadInv, TurnInv, RunMatchesNodes, Started,
         Advancing
  <1>7. TurnInv'
    BY Ids DEF Record, Goto, Swap, SetNode, RecordWaitingAgent,
         RecordWaitingUser, RecordFailed, RecordSucceeded, IInv, TypeOK,
         OneAtATime, FreshInv, ThreadInv, TurnInv, WaitsForAgent,
         TurnsMatchNodes, RunMatchesNodes, Started, Outstanding, TurnStates,
         Advancing
  <1>8. SeenInv'
    BY Ids DEF Record, Goto, Swap, SetNode, RecordWaitingAgent,
         RecordWaitingUser, RecordFailed, RecordSucceeded, IInv, TypeOK,
         SeenInv, RunEnded
  <1>9. AliveInv'
    BY Ids DEF Record, Goto, Swap, SetNode, RecordWaitingAgent,
         RecordWaitingUser, RecordFailed, RecordSucceeded, IInv, TypeOK,
         AliveInv, OneAtATime, FreshInv, RunActive, Outstanding, Advancing
  <1> QED
    BY <1>1, <1>2, <1>3, <1>4, <1>5, <1>6, <1>7, <1>8, <1>9 DEF IInv

\* Activating concerns the one node the thread is at, and its turn.
LEMMA ActivateStep ==
    ASSUME NEW a \in Actors, IInv, Activate(a)
    PROVE  /\ at[a] \in Nodes /\ turn[at[a]] \in {"prepared", "cancelled"}
           /\ \A n \in Nodes \ {at[a]} :
                status'[n] = status[n] /\ out'[n] = out[n] /\ turn'[n] = turn[n]
           /\ \/ /\ turn[at[a]] = "prepared" /\ turn'[at[a]] = "running"
                 /\ UNCHANGED store
              \/ /\ turn'[at[a]] \in {"ended", "cancelled"}
                 /\ \/ /\ run = "Running" /\ status[at[a]] = "Running"
                       /\ run' = "Failed" /\ status'[at[a]] = "Failed"
                    \/ /\ run # "Running" /\ UNCHANGED store
  <1>1. at[a] \in Nodes /\ turn[at[a]] \in {"prepared", "cancelled"}
    BY DEF Activate, IInv, ThreadInv, TurnInv, Advancing
  <1>2. run = "Running" => status[at[a]] = "Running"
    BY DEF Activate, IInv, ThreadInv, Advancing
  <1>3. CASE turn' = [turn EXCEPT ![at[a]] = "running"] /\ turn[at[a]] = "prepared" /\ UNCHANGED store
    BY <1>1, <1>3 DEF IInv, TypeOK, store
  <1>4. CASE /\ turn' = IF turn[at[a]] = "prepared"
                        THEN [turn EXCEPT ![at[a]] = "ended"] ELSE turn
             /\ IF Swap(at[a], {"Running"}, {"Running"})
                THEN SetNode(at[a], "Failed", "waitingAgent") /\ run' = "Failed"
                ELSE UNCHANGED store
    <2>1. /\ turn'[at[a]] \in {"ended", "cancelled"}
          /\ \A n \in Nodes \ {at[a]} : turn'[n] = turn[n]
      BY <1>1, <1>4 DEF IInv, TypeOK
    <2>2. CASE run = "Running"
      BY <1>1, <1>2, <1>4, <2>1, <2>2 DEF IInv, TypeOK, Swap, SetNode
    <2>3. CASE run # "Running"
      BY <1>1, <1>4, <2>1, <2>3 DEF Swap, store
    <2> QED
      BY <2>2, <2>3
  <1> QED
    BY <1>3, <1>4 DEF Activate

LEMMA ActivateKeeps ==
    ASSUME NEW a \in Actors, IInv, Activate(a)
    PROVE  IInv'
  <1>1. TypeOK'
    BY Ids DEF Activate, Goto, Swap, SetNode, IInv, TypeOK, store, counters,
         RunActive, RunEnded, Outputs, Outstanding, TurnStates
  <1>2. OneAtATime'
    BY Ids DEF Activate, Goto, Swap, SetNode, IInv, TypeOK, OneAtATime,
         RunMatchesNodes, FreshInv, ThreadInv, TurnInv, store, counters,
         RunEnded, Started
  <1>3. RunMatchesNodes'
    BY ActivateStep DEF IInv, RunMatchesNodes, OneAtATime, Started, Done, NodeActive, store
  <1>4. TurnsMatchNodes'
    <2>1. \A n \in Nodes \ {at[a]} : status[n] \notin Started \/ status[at[a]] # "Running"
      BY ActivateStep DEF IInv, OneAtATime, Started
    <2>2. UNCHANGED <<graph, crashes, faults>>
      BY DEF Activate, counters
    <2>3. run' \in {"Succeeded", "Failed"} => \A n \in Nodes : turn'[n] \notin Outstanding
      BY <2>1, ActivateStep DEF IInv, TurnInv, ThreadInv, TurnsMatchNodes, Outstanding, Started, store
    <2>4. ASSUME crashes = 0 /\ faults = 0 /\ ~graph.busy, NEW n \in Nodes, WaitsForAgent(n)'
          PROVE  turn'[n] \notin {"none", "ended", "lost"}
      BY <2>4, ActivateStep DEF IInv, TurnsMatchNodes, WaitsForAgent, store
    <2> QED
      BY <2>2, <2>3, <2>4 DEF TurnsMatchNodes
  <1>5. FreshInv'
    BY Ids DEF Activate, Goto, Swap, SetNode, IInv, TypeOK, FreshInv,
         ThreadInv, store, threads
  <1>6. ThreadInv'
    BY Ids DEF Activate, Goto, Swap, SetNode, IInv, TypeOK, OneAtATime,
         FreshInv, ThreadInv, TurnInv, RunMatchesNodes, threads, Advancing
  <1>7. TurnInv'
    <2>1. UNCHANGED <<graph, at, result, crashes, faults>>
      BY DEF Activate, counters
    <2>2. pc'[a] = "idle" /\ \A b \in Actors \ {a} : pc'[b] = pc[b] /\ pc[b] \notin Advancing
      BY DEF Activate, Goto, IInv, TypeOK, OneAtATime, Advancing
    <2>3. \A n \in Nodes \ {at[a]} : status[n] \notin Started \/ status[at[a]] # "Running"
      BY ActivateStep DEF IInv, OneAtATime, Started
    <2>4. \A n \in Nodes : turn'[n] \in Outstanding =>
            run' = "Cancelled" \/ (run' = "Running" /\ status'[n] = "Running")
      BY <2>3, ActivateStep DEF IInv, TurnInv, ThreadInv, Outstanding, Started, Advancing, store
    <2>5. \A n \in Nodes : status'[n] = "Pending" => turn'[n] = "none"
      BY ActivateStep DEF IInv, TurnInv, store
    <2> QED
      BY <2>1, <2>2, <2>4, <2>5 DEF TurnInv, Advancing
  <1>8. SeenInv'
    BY Ids DEF Activate, Goto, Swap, SetNode, IInv, TypeOK, SeenInv, store,
         RunEnded
  <1>9. AliveInv'
    BY Ids DEF Activate, Goto, Swap, SetNode, IInv, TypeOK, AliveInv,
         OneAtATime, FreshInv, store, RunActive
  <1> QED
    BY <1>1, <1>2, <1>3, <1>4, <1>5, <1>6, <1>7, <1>8, <1>9 DEF IInv

LEMMA FinishKeeps ==
    ASSUME NEW a \in Actors, IInv, Finish(a)
    PROVE  IInv'
  <1>1. TypeOK'
    BY Ids DEF Finish, Goto, Done, IInv, TypeOK, store, counters, RunEnded,
         Outputs
  <1>2. OneAtATime'
    BY Ids DEF Finish, Goto, Done, IInv, TypeOK, OneAtATime, RunMatchesNodes,
         FreshInv, ThreadInv, TurnInv, store, Started
  <1>3. RunMatchesNodes'
    BY Ids DEF Finish, Goto, Done, IInv, TypeOK, OneAtATime, RunMatchesNodes,
         ThreadInv, FreshInv, SeenInv, AliveInv, store
  <1>4. TurnsMatchNodes'
    BY Ids DEF Finish, Goto, Done, IInv, TypeOK, FreshInv, OneAtATime,
         TurnsMatchNodes, WaitsForAgent, ThreadInv, TurnInv, store, counters
  <1>5. FreshInv'
    BY Ids DEF Finish, Goto, Done, IInv, TypeOK, FreshInv, ThreadInv, store
  <1>6. ThreadInv'
    BY Ids DEF Finish, Goto, Done, IInv, TypeOK, OneAtATime, FreshInv,
         ThreadInv, TurnInv, RunMatchesNodes, Advancing
  <1>7. TurnInv'
    BY Ids DEF Finish, Goto, Done, IInv, TypeOK, OneAtATime, FreshInv,
         ThreadInv, TurnInv, WaitsForAgent, TurnsMatchNodes, RunMatchesNodes,
         store
  <1>8. SeenInv'
    BY Ids DEF Finish, Goto, Done, IInv, TypeOK, SeenInv, store, RunEnded
  <1>9. AliveInv'
    BY Ids DEF Finish, Goto, Done, IInv, TypeOK, AliveInv, OneAtATime,
         FreshInv, store
  <1> QED
    BY <1>1, <1>2, <1>3, <1>4, <1>5, <1>6, <1>7, <1>8, <1>9 DEF IInv

LEMMA TurnStartsKeeps ==
    ASSUME NEW n \in Nodes, IInv, TurnStarts(n)
    PROVE  IInv'
  <1>1. TypeOK'
    BY Ids DEF TurnStarts, IInv, TypeOK, store, threads, counters,
         Outstanding, TurnStates
  <1>2. OneAtATime'
    BY Ids DEF TurnStarts, IInv, TypeOK, OneAtATime, RunMatchesNodes,
         FreshInv, ThreadInv, TurnInv, store, threads
  <1>3. RunMatchesNodes'
    BY Ids DEF TurnStarts, IInv, TypeOK, OneAtATime, RunMatchesNodes, Done,
         ThreadInv, FreshInv, SeenInv, AliveInv, store
  <1>4. TurnsMatchNodes'
    BY Ids DEF TurnStarts, IInv, TypeOK, FreshInv, OneAtATime,
         TurnsMatchNodes, WaitsForAgent, ThreadInv, TurnInv, store, counters,
         Outstanding
  <1>5. FreshInv'
    BY Ids DEF TurnStarts, IInv, TypeOK, FreshInv, ThreadInv, store, threads
  <1>6. ThreadInv'
    BY Ids DEF TurnStarts, IInv, TypeOK, OneAtATime, FreshInv, ThreadInv,
         TurnInv, RunMatchesNodes, store, threads
  <1>7. TurnInv'
    BY Ids DEF TurnStarts, IInv, TypeOK, OneAtATime, FreshInv, ThreadInv,
         TurnInv, WaitsForAgent, TurnsMatchNodes, RunMatchesNodes, store,
         threads, counters, Outstanding
  <1>8. SeenInv'
    BY Ids DEF TurnStarts, IInv, TypeOK, SeenInv, store, threads
  <1>9. AliveInv'
    BY Ids DEF TurnStarts, IInv, TypeOK, AliveInv, OneAtATime, FreshInv,
         store
  <1> QED
    BY <1>1, <1>2, <1>3, <1>4, <1>5, <1>6, <1>7, <1>8, <1>9 DEF IInv

LEMMA TurnEndsKeeps ==
    ASSUME NEW n \in Nodes, IInv, TurnEnds(n)
    PROVE  IInv'
  <1>1. TypeOK'
    BY Ids DEF TurnEnds, IInv, TypeOK, store, threads, counters, TurnStates
  <1>2. OneAtATime'
    BY Ids DEF TurnEnds, IInv, TypeOK, OneAtATime, RunMatchesNodes, FreshInv,
         ThreadInv, TurnInv, store, threads
  <1>3. RunMatchesNodes'
    BY Ids DEF TurnEnds, IInv, TypeOK, OneAtATime, RunMatchesNodes, Done,
         ThreadInv, FreshInv, SeenInv, AliveInv, store
  <1>4. TurnsMatchNodes'
    BY Ids DEF TurnEnds, IInv, TypeOK, FreshInv, OneAtATime, TurnsMatchNodes,
         WaitsForAgent, ThreadInv, TurnInv, store, counters, Outstanding
  <1>5. FreshInv'
    BY Ids DEF TurnEnds, IInv, TypeOK, FreshInv, ThreadInv, store, threads
  <1>6. ThreadInv'
    BY Ids DEF TurnEnds, IInv, TypeOK, OneAtATime, FreshInv, ThreadInv,
         TurnInv, RunMatchesNodes, store, threads
  <1>7. TurnInv'
    BY Ids DEF TurnEnds, IInv, TypeOK, OneAtATime, FreshInv, ThreadInv,
         TurnInv, WaitsForAgent, TurnsMatchNodes, RunMatchesNodes, store,
         threads, counters, Outstanding
  <1>8. SeenInv'
    BY Ids DEF TurnEnds, IInv, TypeOK, SeenInv, store, threads
  <1>9. AliveInv'
    BY Ids DEF TurnEnds, IInv, TypeOK, AliveInv, OneAtATime, FreshInv, store
  <1> QED
    BY <1>1, <1>2, <1>3, <1>4, <1>5, <1>6, <1>7, <1>8, <1>9 DEF IInv

\* While a node waits for its agent nobody is inside advance: that thread would
\* work on the waiting node, whose turn has not been activated.
LEMMA NobodyAdvances ==
    ASSUME IInv, NEW n \in Nodes, turn[n] \in {"succeeded", "failed"}
    PROVE  WaitsForAgent(n) => \A b \in Actors : pc[b] \notin Advancing
  <1> SUFFICES ASSUME NEW b \in Actors, pc[b] \in Advancing
               PROVE  ~WaitsForAgent(n)
    OBVIOUS
  <1>1. CASE pc[b] \in {"advance", "finish"}
    BY <1>1 DEF IInv, ThreadInv, WaitsForAgent, Started
  <1>2. CASE pc[b] = "activate"
    BY <1>2 DEF IInv, ThreadInv, TurnInv, OneAtATime, WaitsForAgent, Started
  <1>3. CASE pc[b] \in {"execute", "record"}
    BY <1>3 DEF IInv, ThreadInv, TurnInv, OneAtATime, WaitsForAgent, Started
  <1> QED
    BY <1>1, <1>2, <1>3 DEF Advancing

LEMMA CompleteAgentStep ==
    ASSUME NEW n \in Nodes, IInv, CompleteAgent(n)
    PROVE  /\ turn[n] \in {"succeeded", "failed"} /\ turn'[n] = "ended" /\ pc[n] = "idle"
           /\ \A m \in Nodes \ {n} :
                status'[m] = status[m] /\ out'[m] = out[m] /\ turn'[m] = turn[m]
           /\ \A b \in Actors \ {n} : pc'[b] = pc[b]
           /\ \/ ~WaitsForAgent(n) /\ UNCHANGED <<store, pc>>
              \/ /\ WaitsForAgent(n)
                 /\ \/ /\ status'[n] = "Succeeded" /\ run' = run /\ pc'[n] = "advance"
                    \/ /\ status'[n] = "Failed" /\ run' = "Failed" /\ pc'[n] = "idle"
  <1>1. /\ turn[n] \in {"succeeded", "failed"} /\ turn'[n] = "ended" /\ pc[n] = "idle"
        /\ \A m \in Nodes \ {n} : turn'[m] = turn[m]
    BY DEF CompleteAgent, IInv, TypeOK
  <1>2. CASE ~WaitsForAgent(n)
    BY <1>1, <1>2 DEF CompleteAgent, store
  <1>3. CASE WaitsForAgent(n)
    BY <1>1, <1>3, Ids DEF CompleteAgent, SetNode, Goto, IInv, TypeOK
  <1> QED
    BY <1>2, <1>3

LEMMA CompleteAgentKeeps ==
    ASSUME NEW n \in Nodes, IInv, CompleteAgent(n)
    PROVE  IInv'
  <1>1. TypeOK'
    BY Ids DEF CompleteAgent, Goto, SetNode, WaitsForAgent, IInv, TypeOK,
         store, counters, RunEnded, Outputs, TurnStates, Advancing
  <1>2. OneAtATime'
    <2>1. CASE UNCHANGED <<status, pc>>
      BY <2>1 DEF IInv, OneAtATime
    <2>2. CASE WaitsForAgent(n)
      BY <2>2, CompleteAgentStep, NobodyAdvances, Ids DEF IInv, OneAtATime, Started
    <2> QED
      BY <2>1, <2>2, CompleteAgentStep DEF store
  <1>3. RunMatchesNodes'
    BY Ids DEF CompleteAgent, Goto, SetNode, WaitsForAgent, IInv, TypeOK,
         OneAtATime, RunMatchesNodes, Done, ThreadInv, FreshInv, SeenInv,
         AliveInv, store, Started
  <1>4. TurnsMatchNodes'
    BY Ids DEF CompleteAgent, Goto, SetNode, WaitsForAgent, IInv, TypeOK,
         FreshInv, OneAtATime, TurnsMatchNodes, ThreadInv, TurnInv, store,
         counters, Started, Outstanding
  <1>5. FreshInv'
    BY Ids DEF CompleteAgent, Goto, SetNode, WaitsForAgent, IInv, TypeOK,
         FreshInv, ThreadInv, store
  <1>6. ThreadInv'
    <2>1. UNCHANGED at
      BY DEF CompleteAgent
    <2>2. CASE UNCHANGED <<store, pc>>
      BY <2>1, <2>2 DEF store, IInv, ThreadInv
    <2>3. CASE WaitsForAgent(n)
      <3>1. \A b \in Actors : pc'[b] \in Advancing => b = n /\ pc'[b] = "advance"
        BY <2>3, CompleteAgentStep, NobodyAdvances, Ids
      <3>2. \A m \in Nodes : status'[m] \notin Started
        BY <2>3, CompleteAgentStep DEF IInv, OneAtATime, WaitsForAgent, Started
      <3>3. pc'[n] \in Advancing => run' = "Running"
        BY <2>3, CompleteAgentStep, NobodyAdvances, Ids DEF WaitsForAgent
      <3> QED
        BY <3>1, <3>2, <3>3 DEF ThreadInv
    <2> QED
      BY <2>2, <2>3, CompleteAgentStep
  <1>7. TurnInv'
    <2>1. UNCHANGED <<graph, at, result, crashes, faults>>
      BY DEF CompleteAgent, counters
    <2>2. \A m \in Nodes : status'[m] = "Pending" => turn'[m] = "none"
      BY CompleteAgentStep DEF IInv, TurnInv, store
    <2>3. \A m \in Nodes : turn'[m] \in Outstanding =>
            run' = "Cancelled" \/ (run' = "Running" /\ status'[m] = "Running")
      BY CompleteAgentStep DEF IInv, TurnInv, OneAtATime, WaitsForAgent, Outstanding, Started, store
    <2>4. \A b \in Actors : pc'[b] \in {"execute", "record", "activate"} =>
            pc'[b] = pc[b] /\ at[b] \in Nodes
      BY CompleteAgentStep, Ids DEF IInv, ThreadInv, Advancing
    <2>5. \A b \in Actors :
            turn[at[b]] \in {"none", "prepared", "cancelled"} => at[b] # n
      BY CompleteAgentStep
    <2> QED
      BY <2>1, <2>2, <2>3, <2>4, <2>5, CompleteAgentStep DEF IInv, TurnInv
  <1>8. SeenInv'
    BY Ids DEF CompleteAgent, Goto, SetNode, WaitsForAgent, IInv, TypeOK,
         SeenInv, store, RunEnded
  <1>9. AliveInv'
    BY Ids DEF CompleteAgent, Goto, SetNode, WaitsForAgent, IInv, TypeOK,
         AliveInv, OneAtATime, FreshInv, store, RunActive
  <1> QED
    BY <1>1, <1>2, <1>3, <1>4, <1>5, <1>6, <1>7, <1>8, <1>9 DEF IInv

LEMMA CancelBeginKeeps ==
    ASSUME IInv, CancelBegin
    PROVE  IInv'
  <1>1. TypeOK'
    BY Ids DEF CancelBegin, Goto, WaitsForAgent, IInv, TypeOK, store,
         counters
  <1>2. OneAtATime'
    BY Ids DEF CancelBegin, Goto, WaitsForAgent, IInv, TypeOK, OneAtATime,
         RunMatchesNodes, FreshInv, ThreadInv, TurnInv, store, Advancing
  <1>3. RunMatchesNodes'
    BY Ids DEF CancelBegin, Goto, WaitsForAgent, IInv, TypeOK, OneAtATime,
         RunMatchesNodes, Done, ThreadInv, FreshInv, SeenInv, AliveInv, store
  <1>4. TurnsMatchNodes'
    BY Ids DEF CancelBegin, Goto, WaitsForAgent, IInv, TypeOK, FreshInv,
         OneAtATime, TurnsMatchNodes, ThreadInv, TurnInv, store, counters
  <1>5. FreshInv'
    BY Ids DEF CancelBegin, Goto, WaitsForAgent, IInv, TypeOK, FreshInv,
         ThreadInv, store, RunActive
  <1>6. ThreadInv'
    BY Ids DEF CancelBegin, Goto, WaitsForAgent, IInv, TypeOK, OneAtATime,
         FreshInv, ThreadInv, TurnInv, RunMatchesNodes, store, Advancing
  <1>7. TurnInv'
    BY Ids DEF CancelBegin, Goto, WaitsForAgent, IInv, TypeOK, OneAtATime,
         FreshInv, ThreadInv, TurnInv, TurnsMatchNodes, RunMatchesNodes,
         store, counters
  <1>8. SeenInv'
    BY Ids DEF CancelBegin, Goto, WaitsForAgent, IInv, TypeOK, SeenInv
  <1>9. AliveInv'
    BY Ids DEF CancelBegin, Goto, WaitsForAgent, IInv, TypeOK, AliveInv,
         OneAtATime, FreshInv, store
  <1> QED
    BY <1>1, <1>2, <1>3, <1>4, <1>5, <1>6, <1>7, <1>8, <1>9 DEF IInv

LEMMA CancelTurnKeeps ==
    ASSUME IInv, CancelTurn
    PROVE  IInv'
  <1>1. TypeOK'
    BY Ids DEF CancelTurn, Goto, IInv, TypeOK, store, counters, TurnStates
  <1>2. OneAtATime'
    BY Ids DEF CancelTurn, Goto, IInv, TypeOK, OneAtATime, RunMatchesNodes,
         FreshInv, ThreadInv, TurnInv, store, Advancing
  <1>3. RunMatchesNodes'
    BY Ids DEF CancelTurn, Goto, IInv, TypeOK, OneAtATime, RunMatchesNodes,
         Done, ThreadInv, FreshInv, SeenInv, AliveInv, store
  <1>4. TurnsMatchNodes'
    BY Ids DEF CancelTurn, Goto, IInv, TypeOK, FreshInv, OneAtATime,
         TurnsMatchNodes, WaitsForAgent, ThreadInv, TurnInv, store, counters
  <1>5. FreshInv'
    BY Ids DEF CancelTurn, Goto, IInv, TypeOK, FreshInv, ThreadInv, store
  <1>6. ThreadInv'
    BY Ids DEF CancelTurn, Goto, IInv, TypeOK, OneAtATime, FreshInv,
         ThreadInv, TurnInv, RunMatchesNodes, store, Advancing
  <1>7. TurnInv'
    <2>1. \A n \in Nodes : \/ turn'[n] = turn[n]
                           \/ turn[n] \in Outstanding /\ turn'[n] = "cancelled"
      BY DEF CancelTurn, IInv, TypeOK
    <2>2. \A b \in Actors : pc'[b] \in Advancing => pc'[b] = pc[b]
      BY Ids DEF CancelTurn, Goto, IInv, TypeOK, Advancing
    <2>3. UNCHANGED <<graph, store, at, result, crashes, faults>>
      BY DEF CancelTurn, counters
    <2> QED
      BY <2>1, <2>2, <2>3 DEF IInv, TurnInv, ThreadInv, Advancing, Outstanding, store
  <1>8. SeenInv'
    BY Ids DEF CancelTurn, Goto, IInv, TypeOK, SeenInv
  <1>9. AliveInv'
    BY Ids DEF CancelTurn, Goto, IInv, TypeOK, AliveInv, OneAtATime,
         FreshInv, store
  <1> QED
    BY <1>1, <1>2, <1>3, <1>4, <1>5, <1>6, <1>7, <1>8, <1>9 DEF IInv

LEMMA CancelReadKeeps ==
    ASSUME IInv, CancelRead
    PROVE  IInv'
  <1>1. TypeOK'
    BY Ids DEF CancelRead, Goto, IInv, TypeOK, store, counters
  <1>2. OneAtATime'
    BY Ids DEF CancelRead, Goto, IInv, TypeOK, OneAtATime, RunMatchesNodes,
         FreshInv, ThreadInv, TurnInv, store, Advancing
  <1>3. RunMatchesNodes'
    BY Ids DEF CancelRead, Goto, IInv, TypeOK, OneAtATime, RunMatchesNodes,
         Done, ThreadInv, FreshInv, SeenInv, AliveInv, store
  <1>4. TurnsMatchNodes'
    BY Ids DEF CancelRead, Goto, IInv, TypeOK, FreshInv, OneAtATime,
         TurnsMatchNodes, WaitsForAgent, ThreadInv, TurnInv, store, counters
  <1>5. FreshInv'
    BY Ids DEF CancelRead, Goto, IInv, TypeOK, FreshInv, ThreadInv, store
  <1>6. ThreadInv'
    BY Ids DEF CancelRead, Goto, IInv, TypeOK, OneAtATime, FreshInv,
         ThreadInv, TurnInv, RunMatchesNodes, store, Advancing
  <1>7. TurnInv'
    BY Ids DEF CancelRead, Goto, IInv, TypeOK, OneAtATime, FreshInv,
         ThreadInv, TurnInv, WaitsForAgent, TurnsMatchNodes, RunMatchesNodes,
         store, counters
  <1>8. SeenInv'
    BY Ids DEF CancelRead, Goto, IInv, TypeOK, SeenInv, store
  <1>9. AliveInv'
    BY Ids DEF CancelRead, Goto, IInv, TypeOK, AliveInv, OneAtATime,
         FreshInv, store
  <1> QED
    BY <1>1, <1>2, <1>3, <1>4, <1>5, <1>6, <1>7, <1>8, <1>9 DEF IInv

LEMMA CancelApplyKeeps ==
    ASSUME IInv, CancelApply
    PROVE  IInv'
  <1>1. TypeOK'
    BY Ids DEF CancelApply, Goto, IInv, TypeOK, counters, RunEnded
  <1>2. OneAtATime'
    BY Ids DEF CancelApply, Goto, IInv, TypeOK, OneAtATime, RunMatchesNodes,
         FreshInv, ThreadInv, TurnInv, Started, Advancing
  <1>3. RunMatchesNodes'
    BY Ids DEF CancelApply, Goto, IInv, TypeOK, OneAtATime, RunMatchesNodes,
         Done, ThreadInv, FreshInv, SeenInv, AliveInv, NodeActive
  <1>4. TurnsMatchNodes'
    BY Ids DEF CancelApply, Goto, IInv, TypeOK, FreshInv, OneAtATime,
         TurnsMatchNodes, WaitsForAgent, ThreadInv, TurnInv, counters
  <1>5. FreshInv'
    BY Ids DEF CancelApply, Goto, IInv, TypeOK, FreshInv, ThreadInv
  <1>6. ThreadInv'
    BY Ids DEF CancelApply, Goto, IInv, TypeOK, OneAtATime, FreshInv,
         ThreadInv, TurnInv, RunMatchesNodes, Advancing
  <1>7. TurnInv'
    BY Ids DEF CancelApply, Goto, IInv, TypeOK, OneAtATime, FreshInv,
         ThreadInv, TurnInv, WaitsForAgent, TurnsMatchNodes, RunMatchesNodes,
         counters
  <1>8. SeenInv'
    BY Ids DEF CancelApply, Goto, IInv, TypeOK, SeenInv
  <1>9. AliveInv'
    BY Ids DEF CancelApply, Goto, IInv, TypeOK, AliveInv, OneAtATime,
         FreshInv, RunActive
  <1> QED
    BY <1>1, <1>2, <1>3, <1>4, <1>5, <1>6, <1>7, <1>8, <1>9 DEF IInv

LEMMA StorageFailsKeeps ==
    ASSUME NEW a \in Actors, IInv, StorageFails(a)
    PROVE  IInv'
  <1>1. TypeOK'
    <2>1. faults' \in 0..MaxFaults
      BY ConstantsAssumption DEF StorageFails, IInv, TypeOK
    <2>2. turn' \in [Nodes -> TurnStates]
      BY Ids DEF StorageFails, Goto, Aborted, IInv, TypeOK, TurnStates
    <2> QED
      BY <2>1, <2>2, Ids DEF StorageFails, Goto, Aborted, IInv, TypeOK, store
  <1>2. OneAtATime'
    BY Ids DEF StorageFails, Goto, Aborted, IInv, TypeOK, OneAtATime,
         RunMatchesNodes, FreshInv, ThreadInv, TurnInv, store, Advancing
  <1>3. RunMatchesNodes'
    BY Ids DEF StorageFails, Goto, Aborted, IInv, TypeOK, OneAtATime,
         RunMatchesNodes, Done, ThreadInv, FreshInv, SeenInv, AliveInv, store
  <1>4. TurnsMatchNodes'
    BY Ids DEF StorageFails, Goto, Aborted, IInv, TypeOK, FreshInv,
         OneAtATime, TurnsMatchNodes, WaitsForAgent, ThreadInv, TurnInv,
         store
  <1>5. FreshInv'
    BY Ids DEF StorageFails, Goto, Aborted, IInv, TypeOK, FreshInv,
         ThreadInv, store
  <1>6. ThreadInv'
    BY Ids DEF StorageFails, Goto, Aborted, IInv, TypeOK, OneAtATime,
         FreshInv, ThreadInv, TurnInv, RunMatchesNodes, store, Advancing
  <1>7. TurnInv'
    BY Ids DEF StorageFails, Goto, Aborted, IInv, TypeOK, OneAtATime,
         FreshInv, ThreadInv, TurnInv, WaitsForAgent, TurnsMatchNodes,
         RunMatchesNodes, store
  <1>8. SeenInv'
    BY Ids DEF StorageFails, Goto, Aborted, IInv, TypeOK, SeenInv, store
  <1>9. AliveInv'
    BY Ids DEF StorageFails, Goto, Aborted, IInv, TypeOK, AliveInv,
         OneAtATime, FreshInv, store
  <1> QED
    BY <1>1, <1>2, <1>3, <1>4, <1>5, <1>6, <1>7, <1>8, <1>9 DEF IInv

LEMMA ReportFailsKeeps ==
    ASSUME NEW n \in Nodes, IInv, ReportFails(n)
    PROVE  IInv'
  <1>1. TypeOK'
    <2>1. faults' \in 0..MaxFaults
      BY ConstantsAssumption DEF ReportFails, IInv, TypeOK
    <2>2. turn' \in [Nodes -> TurnStates]
      BY Ids DEF ReportFails, IInv, TypeOK, TurnStates
    <2> QED
      BY <2>1, <2>2, Ids DEF ReportFails, IInv, TypeOK, store, threads
  <1>2. OneAtATime'
    BY Ids DEF ReportFails, IInv, TypeOK, OneAtATime, RunMatchesNodes,
         FreshInv, ThreadInv, TurnInv, store, threads
  <1>3. RunMatchesNodes'
    BY Ids DEF ReportFails, IInv, TypeOK, OneAtATime, RunMatchesNodes, Done,
         ThreadInv, FreshInv, SeenInv, AliveInv, store
  <1>4. TurnsMatchNodes'
    BY Ids DEF ReportFails, IInv, TypeOK, FreshInv, OneAtATime,
         TurnsMatchNodes, WaitsForAgent, ThreadInv, TurnInv, store,
         Outstanding
  <1>5. FreshInv'
    BY Ids DEF ReportFails, IInv, TypeOK, FreshInv, ThreadInv, store, threads
  <1>6. ThreadInv'
    BY Ids DEF ReportFails, IInv, TypeOK, OneAtATime, FreshInv, ThreadInv,
         TurnInv, RunMatchesNodes, store, threads
  <1>7. TurnInv'
    BY Ids DEF ReportFails, IInv, TypeOK, OneAtATime, FreshInv, ThreadInv,
         TurnInv, WaitsForAgent, TurnsMatchNodes, RunMatchesNodes, store,
         threads, Outstanding
  <1>8. SeenInv'
    BY Ids DEF ReportFails, IInv, TypeOK, SeenInv, store, threads
  <1>9. AliveInv'
    BY Ids DEF ReportFails, IInv, TypeOK, AliveInv, OneAtATime, FreshInv,
         store
  <1> QED
    BY <1>1, <1>2, <1>3, <1>4, <1>5, <1>6, <1>7, <1>8, <1>9 DEF IInv

LEMMA CrashKeeps ==
    ASSUME IInv, Crash
    PROVE  IInv'
  <1>1. TypeOK'
    <2>1. crashes' \in 0..MaxCrashes
      BY ConstantsAssumption DEF Crash, IInv, TypeOK
    <2>2. turn' \in [Nodes -> TurnStates]
      BY Ids DEF Crash, IInv, TypeOK, TurnStates
    <2> QED
      BY <2>1, <2>2, Ids DEF Crash, IInv, TypeOK, store
  <1>2. OneAtATime'
    BY Ids DEF Crash, IInv, TypeOK, OneAtATime, RunMatchesNodes, FreshInv,
         ThreadInv, TurnInv, store, Advancing
  <1>3. RunMatchesNodes'
    BY Ids DEF Crash, IInv, TypeOK, OneAtATime, RunMatchesNodes, Done,
         ThreadInv, FreshInv, SeenInv, AliveInv, store
  <1>4. TurnsMatchNodes'
    BY Ids DEF Crash, IInv, TypeOK, FreshInv, OneAtATime, TurnsMatchNodes,
         WaitsForAgent, ThreadInv, TurnInv, store, Outstanding
  <1>5. FreshInv'
    BY Ids DEF Crash, IInv, TypeOK, FreshInv, ThreadInv, store
  <1>6. ThreadInv'
    BY Ids DEF Crash, IInv, TypeOK, OneAtATime, FreshInv, ThreadInv, TurnInv,
         RunMatchesNodes, Advancing
  <1>7. TurnInv'
    BY Ids DEF Crash, IInv, TypeOK, OneAtATime, FreshInv, ThreadInv, TurnInv,
         WaitsForAgent, TurnsMatchNodes, RunMatchesNodes, store, Outstanding
  <1>8. SeenInv'
    BY Ids DEF Crash, IInv, TypeOK, SeenInv
  <1>9. AliveInv'
    BY Ids DEF Crash, IInv, TypeOK, AliveInv, OneAtATime, FreshInv, store
  <1> QED
    BY <1>1, <1>2, <1>3, <1>4, <1>5, <1>6, <1>7, <1>8, <1>9 DEF IInv

-----------------------------------------------------------------------------
(* The theorems.                                                           *)

LEMMA InitIInv == Init => IInv
  <1> SUFFICES ASSUME Init PROVE IInv
    OBVIOUS
  <1>1. TypeOK
    BY Ids, ConstantsAssumption DEF Init, TypeOK, Outputs, NodeActive, TurnStates
  <1>2. /\ \A a \in Actors : pc[a] = "idle"
        /\ \A n \in Nodes : status[n] = "Pending" /\ turn[n] = "none"
        /\ run = "none"
    BY DEF Init
  <1> QED
    BY <1>1, <1>2, Ids DEF IInv, OneAtATime, RunMatchesNodes, TurnsMatchNodes, FreshInv,
       ThreadInv, TurnInv, SeenInv, AliveInv, Advancing, Started, Outstanding, WaitsForAgent,
       RunActive

LEMMA StutterKeeps ==
    ASSUME IInv, UNCHANGED vars
    PROVE  IInv'
  BY DEF IInv, vars, store, threads, counters, TypeOK, OneAtATime, RunMatchesNodes,
     TurnsMatchNodes, FreshInv, ThreadInv, TurnInv, SeenInv, AliveInv, WaitsForAgent, Done

LEMMA NextKeeps == IInv /\ [Next]_vars => IInv'
  <1> SUFFICES ASSUME IInv, [Next]_vars PROVE IInv'
    OBVIOUS
  <1>1. CASE Begin \/ CancelBegin \/ CancelTurn \/ CancelRead \/ CancelApply \/ Crash
    BY <1>1, BeginKeeps, CancelBeginKeeps, CancelTurnKeeps, CancelReadKeeps,
       CancelApplyKeeps, CrashKeeps
  <1>2. ASSUME NEW a \in Actors, Step(a) \/ StorageFails(a)
        PROVE  IInv'
    BY <1>2, MarkRunningKeeps, ExecuteKeeps, RecordKeeps, RecordRefusedKeeps,
       ActivateKeeps, FinishKeeps, StorageFailsKeeps DEF Step
  <1>3. ASSUME NEW n \in Nodes,
               ResumeHuman(n) \/ TurnStarts(n) \/ TurnEnds(n) \/ CompleteAgent(n) \/ ReportFails(n)
        PROVE  IInv'
    BY <1>3, ResumeHumanKeeps, TurnStartsKeeps, TurnEndsKeeps, CompleteAgentKeeps,
       ReportFailsKeeps
  <1>4. CASE UNCHANGED vars
    BY <1>4, StutterKeeps
  <1> QED
    BY <1>1, <1>2, <1>3, <1>4 DEF Next

THEOREM Invariance == Spec => []IInv
  BY InitIInv, NextKeeps, PTL DEF Spec

\* The variables keep their types: the statuses of runs and nodes, the turns
\* behind agent nodes and the places of the threads of the automation engine.
THEOREM Types == Spec => []TypeOK
  <1>1. IInv => TypeOK
    BY DEF IInv
  <1> QED
    BY <1>1, Invariance, PTL

\* Whatever the graph and the interleaving, one thread works on the run and one
\* node is started: complete_agent never finds a second node that waits, and no
\* two callers of advance meet.
THEOREM OneThreadWorks == Spec => []OneAtATime
  <1>1. IInv => OneAtATime
    BY DEF IInv
  <1> QED
    BY <1>1, Invariance, PTL

\* The status of the run agrees with the statuses of its nodes after every
\* transition of apply_execution_transition, by whichever thread.
THEOREM RunTellsTheTruth == Spec => []RunMatchesNodes
  <1>1. IInv => RunMatchesNodes
    BY DEF IInv
  <1> QED
    BY <1>1, Invariance, PTL

\* A run that succeeded or failed leaves no turn behind, and without faults a
\* waiting node has a turn that reports to complete_agent or can be cancelled.
THEOREM NoTurnIsForgotten == Spec => []TurnsMatchNodes
  <1>1. IInv => TurnsMatchNodes
    BY DEF IInv
  <1> QED
    BY <1>1, Invariance, PTL

LEMMA EndedStep ==
    ASSUME run \in RunEnded, [Next]_vars
    PROVE  UNCHANGED store
  <1>1. CASE Begin \/ CancelBegin \/ CancelTurn \/ CancelRead \/ CancelApply \/ Crash
    BY <1>1 DEF Begin, CancelBegin, CancelTurn, CancelRead, CancelApply, Crash, RunEnded,
       RunActive, store
  <1>2. ASSUME NEW a \in Actors, Step(a) \/ StorageFails(a)
        PROVE  UNCHANGED store
    BY <1>2 DEF Step, MarkRunning, Execute, Record, RecordRefused, Activate, Finish,
       StorageFails, Swap, RunEnded, store
  <1>3. ASSUME NEW n \in Nodes,
               ResumeHuman(n) \/ TurnStarts(n) \/ TurnEnds(n) \/ CompleteAgent(n) \/ ReportFails(n)
        PROVE  UNCHANGED store
    BY <1>3 DEF ResumeHuman, TurnStarts, TurnEnds, CompleteAgent, ReportFails, WaitsForAgent,
       Swap, RunEnded, store
  <1>4. CASE UNCHANGED vars
    BY <1>4 DEF vars, store
  <1> QED
    BY <1>1, <1>2, <1>3, <1>4 DEF Next

\* Once a run ended, no transition of a thread that still holds an older read
\* of it gets through.
THEOREM EndedRunStays == Spec => EndedRunIsFrozen
  <1>1. [Next]_vars => [(run \in RunEnded) => UNCHANGED store]_vars
    BY EndedStep
  <1> QED
    BY <1>1, PTL DEF Spec, EndedRunIsFrozen

-----------------------------------------------------------------------------
(* A node never executes after a node behind it has started.               *)
(*                                                                         *)
(* One call of advance executes the nodes in their order, and a call that  *)
(* resumes a run reaches only nodes behind the one it resumes: so a node   *)
(* that is still to do is behind every node that has started (OrderInv).   *)

\* A non-empty set of numbers has a least one.
LEMMA LeastNumber ==
    ASSUME NEW T \in SUBSET Nat, T # {}
    PROVE  \E n \in T : \A m \in T : n <= m
  <1> DEFINE R == {ss \in Nat \X Nat : ss[1] < ss[2]}
  <1>1. IsWellFoundedOn(R, Nat)
    BY NatLessThanWellFounded DEF OpToRel
  <1>2. PICK n \in T : \A m \in T : ~ (<<m, n>> \in R)
    <2> HIDE DEF R
    <2> QED
      BY <1>1, WFMin
  <1>3. ASSUME NEW m \in T PROVE n <= m
    <2>1. m < n => <<m, n>> \in R
      OBVIOUS
    <2> QED
      BY <2>1, <1>2
  <1> QED
    BY <1>3

Forward == {e \in Edge : e.from < e.to}

\* The function Reached is computed with, on the first n nodes.
Rule(f, S, E, n) == f = [m \in 1..n |-> m \in S \/ \E e \in E : e.to = m /\ f[e.from]]

LEMMA RuleExists ==
    ASSUME NEW S, NEW E \in SUBSET Forward
    PROVE  \E f : Rule(f, S, E, N)
  <1> DEFINE T == {n \in Nat : ~ \E f : Rule(f, S, E, n)}
  <1>1. SUFFICES T = {}
    BY ConstantsAssumption
  <1>2. SUFFICES ASSUME T # {} PROVE FALSE
    OBVIOUS
  <1>3. PICK n \in T : \A m \in T : n <= m
    <2>1. T \in SUBSET Nat
      OBVIOUS
    <2> HIDE DEF T
    <2> QED
      BY <1>2, <2>1, LeastNumber
  <1>4. n # 0
    <2> DEFINE f == [m \in 1..0 |-> TRUE]
               g == [m \in 1..0 |-> m \in S \/ \E e \in E : e.to = m /\ f[e.from]]
    <2>1. f = g
      OBVIOUS
    <2> QED
      BY <2>1 DEF Rule
  <1>5. PICK f : Rule(f, S, E, n - 1)
    <2>1. n - 1 \in Nat /\ n - 1 < n
      BY <1>4
    <2> QED
      BY <1>3, <2>1
  <1> DEFINE Holds(m, h) == m \in S \/ \E e \in E : e.to = m /\ h[e.from]
             g == [m \in 1..n |-> IF m = n THEN Holds(n, f) ELSE f[m]]
  <1>6. ASSUME NEW m \in 1..n
        PROVE  g[m] = Holds(m, g)
    <2>1. \A e \in E : e.to = m => /\ e.from \in 1..(n - 1) /\ e.from \in 1..n /\ e.from # n
                                   /\ g[e.from] = f[e.from]
      BY DEF Forward, Edge, Nodes
    <2>2. Holds(m, g) = Holds(m, f)
      <3> HIDE DEF g
      <3> QED
        BY <2>1
    <2>3. CASE m = n
      BY <2>2, <2>3
    <2>4. CASE m # n
      <3>1. m \in 1..(n - 1) /\ g[m] = f[m]
        BY <2>4
      <3>2. f[m] = Holds(m, f)
        BY <1>5, <3>1 DEF Rule
      <3> QED
        BY <2>2, <3>1, <3>2
    <2> QED
      BY <2>3, <2>4
  <1>7. g = [m \in 1..n |-> Holds(m, g)]
    <2> DEFINE h == [m \in 1..n |-> Holds(m, g)]
    <2>1. \A m \in 1..n : g[m] = h[m]
      BY <1>6
    <2>2. DOMAIN g = 1..n /\ g = [m \in 1..n |-> g[m]] /\ h = [m \in 1..n |-> h[m]]
      OBVIOUS
    <2> HIDE DEF g, h
    <2> QED
      BY <2>1, <2>2 DEF h
  <1>8. Rule(g, S, E, n)
    BY <1>7 DEF Rule
  <1> QED
    BY <1>3, <1>8

LEMMA ReachedRule ==
    ASSUME NEW S, NEW E \in SUBSET Forward
    PROVE  \A n \in Nodes : n \in Reached(S, E)
              <=> n \in S \/ \E e \in E : e.to = n /\ e.from \in Reached(S, E)
  <1> DEFINE active == CHOOSE f : Rule(f, S, E, N)
  <1>1. Rule(active, S, E, N)
    BY RuleExists
  <1>2. Reached(S, E) = {n \in Nodes : active[n]}
    BY DEF Reached, Rule, Nodes
  <1> HIDE DEF active
  <1>3. \A n \in Nodes : active[n] = (n \in S \/ \E e \in E : e.to = n /\ active[e.from])
    BY <1>1 DEF Rule, Nodes
  <1>4. \A e \in E : e.from \in Nodes
    BY DEF Forward, Edge
  <1> QED
    BY <1>2, <1>3, <1>4

\* What is reached up to a node depends on the edges up to it only.
LEMMA ReachedAgrees ==
    ASSUME NEW S, NEW D, NEW E \in SUBSET Forward, NEW F \in SUBSET Forward, NEW n \in Nodes,
           \A m \in Nodes : m <= n => (m \in S <=> m \in D),
           \A e \in Forward : e.to <= n => (e \in E <=> e \in F)
    PROVE  \A m \in Nodes : m <= n => (m \in Reached(S, E) <=> m \in Reached(D, F))
  <1> DEFINE T == {m \in Nodes : m <= n /\ ~(m \in Reached(S, E) <=> m \in Reached(D, F))}
  <1>1. SUFFICES ASSUME T # {} PROVE FALSE
    OBVIOUS
  <1>2. PICK m \in T : \A k \in T : m <= k
    <2>1. T \in SUBSET Nat
      BY DEF Nodes
    <2> HIDE DEF T
    <2> QED
      BY <1>1, <2>1, LeastNumber
  <1>3. \A e \in Forward : e.to = m => (e.from \in Reached(S, E) <=> e.from \in Reached(D, F))
    <2> SUFFICES ASSUME NEW e \in Forward, e.to = m
                 PROVE  e.from \in Reached(S, E) <=> e.from \in Reached(D, F)
      OBVIOUS
    <2>1. e.from \in Nodes /\ e.from < m /\ e.from <= n
      BY ConstantsAssumption DEF Forward, Edge, Nodes
    <2>2. e.from \notin T
      BY <2>1, <1>2, ConstantsAssumption DEF Nodes
    <2> QED
      BY <2>1, <2>2
  <1>4. m \in Nodes /\ m <= n /\ (m \in S <=> m \in D)
    OBVIOUS
  <1>5. \A e \in Forward : e.to = m => (e \in E <=> e \in F)
    BY <1>4
  <1>6. m \in Reached(S, E) <=> m \in Reached(D, F)
    BY <1>3, <1>4, <1>5, ReachedRule
  <1> QED
    BY <1>6

\* What is reached from nodes behind n is behind n.
LEMMA ReachedBehind ==
    ASSUME NEW S, NEW E \in SUBSET Forward, NEW n \in Nodes, \A m \in S : m \in Nodes /\ n < m
    PROVE  \A m \in Reached(S, E) : n < m
  <1> DEFINE T == {m \in Reached(S, E) : ~(n < m)}
  <1>0. Reached(S, E) \subseteq Nodes
    BY DEF Reached
  <1>1. SUFFICES ASSUME T # {} PROVE FALSE
    OBVIOUS
  <1>2. PICK m \in T : \A k \in T : m <= k
    <2>1. T \in SUBSET Nat
      BY <1>0, ConstantsAssumption DEF Nodes
    <2> HIDE DEF T
    <2> QED
      BY <1>1, <2>1, LeastNumber
  <1>3. m \in Nodes /\ m \notin S /\ m <= n
    BY <1>0, ConstantsAssumption DEF Nodes
  <1>4. PICK e \in E : e.to = m /\ e.from \in Reached(S, E)
    BY <1>3, ReachedRule
  <1>5. e.from \in Nodes /\ e.from < m
    BY <1>4 DEF Forward, Edge
  <1>6. e.from \in T
    BY <1>3, <1>4, <1>5, ConstantsAssumption DEF Nodes
  <1> QED
    BY <1>2, <1>3, <1>5, <1>6 DEF Nodes

\* While the run goes on, a node that waits or executes is the last that
\* started, and what a call of advance has still to do is behind all of them.
OrderInv ==
    /\ run \in RunActive =>
         \A m, n \in Nodes : status[n] \in Started /\ status[m] # "Pending" => m <= n
    /\ run = "Running" =>
         \A a \in Actors :
           /\ pc[a] \in Advancing /\ start[a] # 0 =>
                start[a] \in Nodes /\ status[start[a]] = "Succeeded"
           /\ pc[a] \in {"advance", "execute", "record"} =>
                \A n \in Todo(a), m \in Nodes : status[m] # "Pending" => m <= n

Usable == {e \in graph.edges : e.from \in Done /\ Selected(e)}

LEMMA GraphTypes ==
    ASSUME TypeOK
    PROVE  /\ graph.edges \subseteq Forward /\ Usable \subseteq Forward
           /\ \A e \in graph.edges : e.from \in Nodes /\ e.to \in Nodes /\ e.from < e.to
  BY DEF TypeOK, ValidGraph, Forward, Usable, Edge

\* What is activated up to a node depends on the nodes before it only.
LEMMA ActivatedAgrees ==
    ASSUME TypeOK, NEW a \in Actors, NEW n \in Nodes, graph' = graph, start'[a] = start[a],
           start[a] # 0 => out'[start[a]] = out[start[a]],
           \A m \in Nodes : m < n => /\ m \in Done' <=> m \in Done
                                     /\ m \in Done => out'[m] = out[m]
    PROVE  n \in Activated(a) <=> n \in Activated(a)'
  <1>1. ASSUME NEW e \in graph.edges, out'[e.from] = out[e.from]
        PROVE  Selected(e) <=> Selected(e)'
    BY <1>1 DEF Selected, From
  <1>2. StartNodes(a) = StartNodes(a)'
    BY <1>1 DEF StartNodes, Successors, From
  <1>3. \A e \in Forward : e.to <= n => (e \in Usable <=> e \in Usable')
    <2> SUFFICES ASSUME NEW e \in graph.edges, e.to <= n
                 PROVE  e.from \in Done /\ Selected(e) <=> e.from \in Done' /\ Selected(e)'
      BY DEF Usable
    <2>1. e.from \in Nodes /\ e.from < n
      BY GraphTypes, ConstantsAssumption DEF Nodes
    <2> QED
      BY <1>1, <2>1
  <1>4. Usable \in SUBSET Forward /\ Usable' \in SUBSET Forward
    BY GraphTypes DEF Usable
  <1>5. Activated(a) = Reached(StartNodes(a), Usable)
    BY DEF Activated, Usable
  <1>6. Activated(a)' = Reached(StartNodes(a)', Usable')
    BY DEF Activated, Usable
  <1>7. n \in Nodes /\ n <= n
    BY DEF Nodes
  <1> HIDE DEF Nodes, Usable
  <1> QED
    BY <1>2, <1>3, <1>4, <1>5, <1>6, <1>7, ReachedAgrees

\* What is activated behind the node a call resumes from is behind that node.
LEMMA ActivatedBehind ==
    ASSUME TypeOK', NEW a \in Actors, NEW n \in Nodes, start'[a] = n, n # 0
    PROVE  \A m \in Activated(a)' : n < m
  <1>1. /\ graph'.edges \subseteq Forward /\ Usable' \subseteq Forward
        /\ \A e \in graph'.edges : e.from \in Nodes /\ e.to \in Nodes /\ e.from < e.to
    BY DEF TypeOK, ValidGraph, Forward, Usable, Edge
  <1>2. \A m \in StartNodes(a)' : m \in Nodes /\ n < m
    BY <1>1 DEF StartNodes, Successors, From
  <1>3. Activated(a)' = Reached(StartNodes(a)', Usable')
    BY DEF Activated, Usable
  <1> HIDE DEF Usable
  <1> QED
    BY <1>1, <1>2, <1>3, ReachedBehind

\* A step that writes no node and sends no thread into advance.
LEMMA OrderKept ==
    ASSUME OrderInv, UNCHANGED <<graph, status, out, start>>,
           run' \in RunActive => run' = run,
           \A a \in Actors : /\ pc'[a] \in Advancing => pc[a] \in Advancing
                             /\ pc'[a] \in {"advance", "execute", "record"} =>
                                  pc[a] \in {"advance", "execute", "record"}
    PROVE  OrderInv'
  <1>1. \A a \in Actors : Todo(a)' = Todo(a)
    BY DEF Todo, Activated, StartNodes, Successors, From, Selected, Done
  <1> QED
    BY <1>1 DEF OrderInv, RunActive

LEMMA MarkRunningOrder ==
    ASSUME IInv, IInv', OrderInv, NEW a \in Actors, MarkRunning(a)
    PROVE  OrderInv'
  <1>1. PICK n \in Nodes :
          /\ IsFirst(n, Todo(a))
          /\ IF Swap(n, {"Running"}, {"Pending", "Running"}) /\ out[n] # "waitingAgent"
             THEN /\ SetNode(n, "Running", "none") /\ at' = [at EXCEPT ![a] = n]
                  /\ Goto(a, "execute")
             ELSE Goto(a, "idle") /\ UNCHANGED <<status, out, at>>
    BY DEF MarkRunning
  <1>2. pc[a] = "advance" /\ UNCHANGED <<graph, run, start>>
    BY DEF MarkRunning
  <1>3. CASE Goto(a, "idle") /\ UNCHANGED <<status, out>>
    BY <1>2, <1>3, OrderKept DEF Goto, Advancing, IInv, TypeOK
  <1>4. CASE run = "Running" /\ SetNode(n, "Running", "none") /\ Goto(a, "execute")
    <2>1. /\ n \notin Done /\ status'[n] = "Running"
          /\ \A m \in Nodes \ {n} : status'[m] = status[m] /\ out'[m] = out[m]
      BY <1>1, <1>4 DEF SetNode, IsFirst, Todo, IInv, TypeOK
    <2>2. n \in Todo(a) /\ \A m \in Todo(a) : n <= m
      BY <1>1 DEF IsFirst
    <2>3. \A m \in Nodes : status[m] # "Pending" => m <= n
      BY <1>2, <1>4, <2>2 DEF OrderInv
    <2>4. \A m \in Nodes : status[m] \notin Started
      BY <1>2, <1>4 DEF IInv, ThreadInv, Advancing
    <2>5. \A m \in Nodes : status'[m] # "Pending" => m <= n
      BY <2>1, <2>3 DEF Nodes
    <2>6. \A b \in Actors : pc'[b] \in Advancing => b = a
      BY <1>2, <1>4 DEF Goto, IInv, TypeOK, OneAtATime, Advancing
    <2>7. start[a] # 0 => start[a] \in Nodes \ {n} /\ status[start[a]] = "Succeeded"
      BY <1>2, <1>4, <2>1 DEF OrderInv, Advancing, Done
    <2>8. \A m \in Nodes : /\ m \in Done' <=> m \in Done
                           /\ m \in Done => out'[m] = out[m]
      BY <2>1 DEF Done
    <2>9. \A m \in Nodes : m \in Activated(a)' <=> m \in Activated(a)
      BY <1>2, <2>1, <2>7, <2>8, ActivatedAgrees DEF IInv
    <2>10. Todo(a)' = Todo(a)
      BY <2>8, <2>9 DEF Todo, Activated, Reached
    <2>11. \A m \in Nodes : status'[m] \in Started => m = n
      BY <2>1, <2>4
    <2>12. \A k \in Todo(a)', m \in Nodes : status'[m] # "Pending" => m <= k
      <3> SUFFICES ASSUME NEW k \in Todo(a), NEW m \in Nodes, status'[m] # "Pending"
                   PROVE  m <= k
        BY <2>10
      <3>1. k \in Nodes /\ n <= k /\ m <= n
        BY <2>2, <2>5 DEF Todo, Activated, Reached
      <3> QED
        BY <3>1 DEF Nodes
    <2> QED
      BY <1>2, <2>1, <2>5, <2>6, <2>7, <2>11, <2>12 DEF OrderInv, Advancing
  <1> QED
    BY <1>1, <1>3, <1>4 DEF Swap

LEMMA RecordOrder ==
    ASSUME IInv, IInv', OrderInv, NEW a \in Actors, Record(a)
    PROVE  OrderInv'
  <1> DEFINE n == at[a]
  <1>1. /\ pc[a] = "record" /\ n \in Nodes /\ run = "Running" /\ status[n] = "Running"
        /\ UNCHANGED <<graph, start>>
    BY DEF Record, Swap, IInv, ThreadInv, Advancing
  <1>2. \A m \in Nodes : status[m] # "Pending" => m <= n
    BY <1>1 DEF OrderInv, RunActive, Started
  <1>3. \A m \in Nodes : status[m] \in Started => m = n
    BY <1>1 DEF IInv, OneAtATime, Started
  <1>4. \A b \in Actors : pc[b] \in Advancing => b = a
    BY <1>1 DEF IInv, OneAtATime, Advancing
  <1>5. CASE RecordFailed(a)
    BY <1>5 DEF RecordFailed, OrderInv, RunActive
  <1>6. CASE RecordWaitingAgent(a) \/ RecordWaitingUser(a)
    <2>1. /\ \A m \in Nodes : status'[m] # "Pending" => m <= n
          /\ \A m \in Nodes : status'[m] \in Started => m = n
      BY <1>1, <1>2, <1>3, <1>6 DEF RecordWaitingAgent, RecordWaitingUser, SetNode, IInv, TypeOK,
         Nodes
    <2>2. \A b \in Actors : /\ pc'[b] \notin {"advance", "execute", "record"}
                            /\ pc'[b] \in Advancing => b = a
      BY <1>1, <1>4, <1>6 DEF RecordWaitingAgent, RecordWaitingUser, Goto, IInv, TypeOK, Advancing
    <2>3. start[a] # 0 => start[a] \in Nodes \ {n} /\ status'[start[a]] = "Succeeded"
      BY <1>1, <1>6 DEF RecordWaitingAgent, RecordWaitingUser, SetNode, OrderInv, Advancing, IInv,
         TypeOK
    <2> QED
      BY <1>1, <2>1, <2>2, <2>3 DEF OrderInv
  <1>7. CASE RecordSucceeded(a)
    <2>1. /\ status'[n] = "Succeeded" /\ run' = run
          /\ \A m \in Nodes \ {n} : status'[m] = status[m] /\ out'[m] = out[m]
      BY <1>1, <1>7 DEF RecordSucceeded, SetNode, IInv, TypeOK
    <2>2. \A m \in Nodes : status'[m] # "Pending" => m <= n
      BY <1>1, <1>2, <2>1 DEF Nodes
    <2>3. \A m \in Nodes : status'[m] \notin Started
      BY <1>3, <2>1 DEF Started
    <2>4. \A b \in Actors : pc'[b] \in Advancing => b = a
      BY <1>1, <1>4, <1>7 DEF RecordSucceeded, Goto, IInv, TypeOK
    <2>5. start[a] # 0 => start[a] \in Nodes \ {n} /\ status[start[a]] = "Succeeded"
      BY <1>1 DEF OrderInv, Advancing
    <2>6. ASSUME NEW k \in Todo(a)' PROVE n <= k
      <3>1. k \in Nodes /\ k \in Activated(a)' /\ k \notin Done'
        BY DEF Todo, Activated, Reached
      <3> SUFFICES ASSUME k < n PROVE FALSE
        BY <1>1, <3>1 DEF Nodes
      <3>2. k \notin Done
        BY <1>1, <2>1, <3>1 DEF Done, Nodes
      <3>3. \A m \in Nodes : m < k => m # n
        BY <1>1, <3>1 DEF Nodes
      <3>4. k \in Activated(a)
        BY <1>1, <2>1, <2>5, <3>1, <3>3, ActivatedAgrees DEF IInv, Done
      <3>5. k \in Todo(a)
        BY <3>2, <3>4 DEF Todo
      <3>6. n <= k
        BY <1>1, <3>5 DEF OrderInv
      <3> QED
        BY <1>1, <3>1, <3>6 DEF Nodes
    <2>7. \A k \in Todo(a)', m \in Nodes : status'[m] # "Pending" => m <= k
      <3> SUFFICES ASSUME NEW k \in Todo(a)', NEW m \in Nodes, status'[m] # "Pending"
                   PROVE  m <= k
        OBVIOUS
      <3>1. k \in Nodes /\ n <= k /\ m <= n
        BY <2>2, <2>6 DEF Todo, Activated, Reached
      <3> QED
        BY <1>1, <3>1 DEF Nodes
    <2> QED
      BY <1>1, <2>1, <2>3, <2>4, <2>5, <2>7 DEF OrderInv, Advancing
  <1> QED
    BY <1>5, <1>6, <1>7 DEF Record

\* A human or an agent answers, and its node's thread goes on behind it.
LEMMA ResumeOrder ==
    ASSUME IInv, IInv', OrderInv, NEW a \in Actors, NEW n \in Nodes,
           run \in RunActive, status[n] \in Started, SetNode(n, "Succeeded", "success"),
           Goto(a, "advance"), start' = [start EXCEPT ![a] = n]
    PROVE  OrderInv'
  <1>1. \A m \in Nodes : status[m] # "Pending" => m <= n
    BY DEF OrderInv
  <1>2. /\ status'[n] = "Succeeded"
        /\ \A m \in Nodes \ {n} : status'[m] = status[m]
    BY DEF SetNode, IInv, TypeOK
  <1>3. \A m \in Nodes : status'[m] \notin Started
    BY <1>2 DEF IInv, OneAtATime, Started
  <1>4. pc'[a] = "advance" /\ start'[a] = n /\ n # 0
    BY ConstantsAssumption DEF Goto, IInv, TypeOK, Nodes
  <1>5. \A b \in Actors : pc'[b] \in Advancing => b = a
    BY <1>4 DEF IInv, OneAtATime, Advancing
  <1>6. \A k \in Activated(a)' : n < k
    BY <1>4, ActivatedBehind DEF IInv
  <1>7. \A k \in Todo(a)', m \in Nodes : status'[m] # "Pending" => m <= k
    <2> SUFFICES ASSUME NEW k \in Todo(a)', NEW m \in Nodes, status'[m] # "Pending"
                 PROVE  m <= k
      OBVIOUS
    <2>1. k \in Nodes /\ n < k /\ m <= n
      BY <1>1, <1>2, <1>6 DEF Todo, Activated, Reached, Nodes
    <2> QED
      BY <2>1 DEF Nodes
  <1> QED
    BY <1>2, <1>3, <1>4, <1>5, <1>7 DEF OrderInv, Advancing

LEMMA OrderStep == IInv /\ IInv' /\ OrderInv /\ [Next]_vars => OrderInv'
  <1> SUFFICES ASSUME IInv, IInv', OrderInv, [Next]_vars PROVE OrderInv'
    OBVIOUS
  <1>1. CASE Begin
    <2>1. /\ \A n \in Nodes : status'[n] = "Pending"
          /\ \A a \in Actors : pc'[a] \in Advancing => start'[a] = 0
      BY <1>1, Ids DEF Begin, Goto, IInv, FreshInv, TypeOK, Advancing
    <2> QED
      BY <2>1 DEF OrderInv, Started
  <1>2. CASE CancelBegin \/ CancelTurn \/ CancelRead \/ Crash
    BY <1>2, OrderKept, Ids DEF CancelBegin, CancelTurn, CancelRead, Crash, Goto, store, Advancing,
       IInv, TypeOK
  <1>3. CASE CancelApply
    <2>1. CASE run' = "Cancelled"
      BY <2>1 DEF OrderInv, RunActive
    <2>2. CASE UNCHANGED <<run, status>>
      BY <1>3, <2>2, OrderKept, Ids DEF CancelApply, Goto, Advancing, IInv, TypeOK
    <2> QED
      BY <1>3, <2>1, <2>2 DEF CancelApply
  <1>4. ASSUME NEW a \in Actors, Execute(a) \/ RecordRefused(a) \/ StorageFails(a)
        PROVE  OrderInv'
    BY <1>4, OrderKept DEF Execute, RecordRefused, StorageFails, Goto, store, Advancing, IInv, TypeOK
  <1>5. ASSUME NEW a \in Actors, Activate(a) \/ Finish(a)
        PROVE  OrderInv'
    <2>1. CASE UNCHANGED store
      BY <1>5, <2>1, OrderKept DEF Activate, Finish, Goto, store, Advancing, IInv, TypeOK
    <2>2. CASE run' \in {"Failed", "Succeeded"}
      BY <2>2 DEF OrderInv, RunActive
    <2> QED
      BY <1>5, <2>1, <2>2 DEF Activate, Finish
  <1>6. ASSUME NEW n \in Nodes, TurnStarts(n) \/ TurnEnds(n) \/ ReportFails(n)
        PROVE  OrderInv'
    BY <1>6, OrderKept DEF TurnStarts, TurnEnds, ReportFails, store, threads
  <1>7. ASSUME NEW n \in Nodes, ResumeHuman(n)
        PROVE  OrderInv'
    BY <1>7, ResumeOrder, Ids DEF ResumeHuman, Swap, RunActive, Started
  <1>8. ASSUME NEW n \in Nodes, CompleteAgent(n)
        PROVE  OrderInv'
    <2>1. CASE UNCHANGED <<store, pc, start>>
      BY <1>8, <2>1, OrderKept DEF CompleteAgent, store
    <2>2. CASE run' = "Failed"
      BY <2>2 DEF OrderInv, RunActive
    <2>3. CASE /\ WaitsForAgent(n) /\ SetNode(n, "Succeeded", "success") /\ Goto(n, "advance")
               /\ start' = [start EXCEPT ![n] = n]
      BY <2>3, ResumeOrder, Ids DEF WaitsForAgent, RunActive, Started
    <2> QED
      BY <1>8, <2>1, <2>2, <2>3 DEF CompleteAgent
  <1>9. CASE UNCHANGED vars
    BY <1>9, OrderKept DEF vars, store, threads
  <1> QED
    BY <1>1, <1>2, <1>3, <1>4, <1>5, <1>6, <1>7, <1>8, <1>9, MarkRunningOrder, RecordOrder
       DEF Next, Step

\* A node starts, as Running, in MarkRunning only.
LEMMA StartStep ==
    ASSUME IInv, OrderInv, [Next]_vars, NEW n \in Nodes, status[n] = "Pending",
           status'[n] = "Running"
    PROVE  \A m \in Nodes : status[m] # "Pending" => m <= n
  <1>1. ASSUME NEW a \in Actors, MarkRunning(a)
        PROVE  \A m \in Nodes : status[m] # "Pending" => m <= n
    <2>1. n \in Todo(a) /\ run = "Running" /\ pc[a] = "advance"
      BY <1>1 DEF MarkRunning, IsFirst, Swap, SetNode, IInv, TypeOK
    <2> QED
      BY <2>1 DEF OrderInv
  <1>2. ASSUME NEW a \in Actors, Step(a) \/ StorageFails(a), ~MarkRunning(a)
        PROVE  FALSE
    BY <1>2 DEF Step, Execute, Record, RecordRefused, Activate, Finish, StorageFails, Swap, SetNode,
       RecordWaitingAgent, RecordWaitingUser, RecordFailed, RecordSucceeded, store, IInv, TypeOK, Done
  <1>3. ASSUME NEW m \in Nodes,
               ResumeHuman(m) \/ TurnStarts(m) \/ TurnEnds(m) \/ CompleteAgent(m) \/ ReportFails(m)
        PROVE  FALSE
    BY <1>3 DEF ResumeHuman, TurnStarts, TurnEnds, CompleteAgent, ReportFails,
       WaitsForAgent, Swap,
       SetNode, store, IInv, TypeOK
  <1>4. ~(Begin \/ CancelBegin \/ CancelTurn \/ CancelRead \/ CancelApply \/ Crash \/ UNCHANGED vars)
    BY DEF Begin, CancelBegin, CancelTurn, CancelRead, CancelApply, Crash, vars, store,
       IInv, TypeOK
  <1> QED
    BY <1>1, <1>2, <1>3, <1>4 DEF Next

\* Whatever the graph, the answers and the cancellations: by the time a node
\* starts, no node behind it has; advance never comes back to a predecessor
\* whose output the input of a later node should have had.
THEOREM InputsAreComplete == Spec => NoLateUpstream
  <1>1. Init => OrderInv
    <2> SUFFICES ASSUME Init PROVE OrderInv
      OBVIOUS
    <2>1. \A n \in Nodes : status[n] = "Pending"
      BY DEF Init
    <2>2. \A a \in Actors : pc[a] = "idle"
      BY DEF Init
    <2> QED
      BY <2>1, <2>2 DEF OrderInv, Started, Advancing
  <1>2. IInv /\ OrderInv /\ [Next]_vars =>
          [\A e \in graph.edges :
             status[e.to] # "Pending" => ~(status[e.from] = "Pending" /\ status'[e.from] = "Running")]_vars
    <2> SUFFICES ASSUME IInv, OrderInv, [Next]_vars, NEW e \in graph.edges,
                        status[e.to] # "Pending", status[e.from] = "Pending",
                        status'[e.from] = "Running"
                 PROVE  FALSE
      OBVIOUS
    <2>1. e.from \in Nodes /\ e.to \in Nodes /\ e.from < e.to
      BY GraphTypes DEF IInv
    <2>2. e.to <= e.from
      BY <2>1, StartStep
    <2> QED
      BY <2>1, <2>2 DEF Nodes
  <1> QED
    BY <1>1, <1>2, OrderStep, Invariance, PTL DEF Spec, NoLateUpstream

-----------------------------------------------------------------------------
(* Nodes and turns only move on.                                           *)

\* What the stages tell of a node and its turn.
LEMMA Stages ==
    ASSUME TypeOK, NEW n \in Nodes
    PROVE  /\ Stage(n) \in 0..3 /\ TurnStage(n) \in 0..4
           /\ Stage(n) = 0 <=> status[n] = "Pending"
           /\ Stage(n) = 1 <=> status[n] = "Running" /\ out[n] # "waitingAgent"
           /\ Stage(n) = 2 <=> \/ status[n] = "WaitingUser"
                               \/ status[n] = "Running" /\ out[n] = "waitingAgent"
           /\ Stage(n) = 3 <=> status[n] \in RunEnded \union {"Skipped"}
           /\ TurnStage(n) = 0 <=> turn[n] = "none"
           /\ TurnStage(n) = 1 <=> turn[n] \in {"prepared", "queued"}
           /\ TurnStage(n) = 2 <=> turn[n] = "running"
           /\ TurnStage(n) = 3 <=> turn[n] \in {"succeeded", "failed"}
           /\ TurnStage(n) = 4 <=> turn[n] \in {"ended", "cancelled", "lost"}
  BY DEF TypeOK, Stage, TurnStage, NodeActive, RunEnded, TurnStates, Outstanding

\* A step that moves a node and its turn on.
Onward(n) ==
    /\ \/ UNCHANGED <<status[n], out[n]>>
       \/ status[n] = "Pending" /\ status'[n] # "Pending"
       \/ status[n] = "Running" /\ out[n] # "waitingAgent" /\ status'[n] # "Pending"
       \/ status[n] \in Started /\ status'[n] \in RunEnded
    /\ \/ UNCHANGED turn[n]
       \/ turn[n] = "none"
       \/ turn[n] \in {"prepared", "queued"} /\ turn'[n] \notin {"none", "prepared", "queued"}
       \/ turn[n] = "running" /\ turn'[n] \notin {"none", "prepared", "queued", "running"}
       \/ turn[n] \in {"succeeded", "failed"} /\ turn'[n] = "ended"

LEMMA OnwardStages ==
    ASSUME TypeOK, TypeOK', NEW n \in Nodes, Onward(n)
    PROVE  /\ Stage(n) <= Stage(n)' /\ TurnStage(n) <= TurnStage(n)'
           /\ Stage(n) = 3 => UNCHANGED <<status[n], out[n]>>
  <1>1. /\ Stage(n)' \in 0..3 /\ TurnStage(n)' \in 0..4
        /\ Stage(n)' = 0 <=> status'[n] = "Pending"
        /\ Stage(n)' = 3 <=> status'[n] \in RunEnded \union {"Skipped"}
        /\ TurnStage(n)' = 0 <=> turn'[n] = "none"
        /\ TurnStage(n)' = 1 <=> turn'[n] \in {"prepared", "queued"}
        /\ TurnStage(n)' = 2 <=> turn'[n] = "running"
        /\ TurnStage(n)' = 4 <=> turn'[n] \in {"ended", "cancelled", "lost"}
    BY DEF TypeOK, Stage, TurnStage, NodeActive, RunEnded, TurnStates, Outstanding
  <1>2. UNCHANGED <<status[n], out[n]>> => Stage(n)' = Stage(n)
    BY DEF Stage
  <1>3. UNCHANGED turn[n] => TurnStage(n)' = TurnStage(n)
    BY DEF TurnStage
  <1>4. Stage(n) <= Stage(n)' /\ (Stage(n) = 3 => UNCHANGED <<status[n], out[n]>>)
    BY <1>1, <1>2, Stages DEF Onward, Started, RunEnded
  <1>5. TurnStage(n) <= TurnStage(n)'
    BY <1>1, <1>3, Stages DEF Onward
  <1> QED  BY <1>4, <1>5

\* Every step moves every node and its turn on, if it moves them at all.
LEMMA NextMovesOn ==
    ASSUME IInv, [Next]_vars, NEW n \in Nodes
    PROVE  Onward(n)
  <1> USE Ids DEF Onward, IInv, TypeOK, store, threads, counters
  <1>1. CASE Begin \/ CancelBegin \/ CancelRead
    BY <1>1 DEF Begin, CancelBegin, CancelRead
  <1>2. CASE CancelTurn
    BY <1>2 DEF CancelTurn, Outstanding
  <1>3. CASE CancelApply
    BY <1>3 DEF CancelApply, NodeActive, Started, RunEnded
  <1>4. CASE Crash
    BY <1>4 DEF Crash
  <1>5. ASSUME NEW a \in Actors, MarkRunning(a) PROVE Onward(n)
    BY <1>5 DEF MarkRunning, Swap, SetNode
  <1>6. ASSUME NEW a \in Actors, Execute(a) PROVE Onward(n)
    BY <1>6 DEF Execute, TurnInv
  <1>7. ASSUME NEW a \in Actors, Record(a) PROVE Onward(n)
    BY <1>7 DEF Record, Swap, SetNode, RecordWaitingAgent, RecordWaitingUser,
       RecordFailed, RecordSucceeded, ThreadInv, Advancing
  <1>8. ASSUME NEW a \in Actors, RecordRefused(a) \/ StorageFails(a) PROVE Onward(n)
    BY <1>8 DEF RecordRefused, StorageFails, Aborted
  <1>9. ASSUME NEW a \in Actors, Activate(a) PROVE Onward(n)
    BY <1>9 DEF Activate, Swap, SetNode, Started, RunEnded
  <1>10. ASSUME NEW a \in Actors, Finish(a) PROVE Onward(n)
    BY <1>10 DEF Finish, Done
  <1>11. ASSUME NEW m \in Nodes, ResumeHuman(m) PROVE Onward(n)
    BY <1>11 DEF ResumeHuman, Swap, SetNode, Started, RunEnded
  <1>12. ASSUME NEW m \in Nodes, TurnStarts(m) \/ TurnEnds(m) \/ ReportFails(m) PROVE Onward(n)
    BY <1>12 DEF TurnStarts, TurnEnds, ReportFails
  <1>13. ASSUME NEW m \in Nodes, CompleteAgent(m) PROVE Onward(n)
    BY <1>13 DEF CompleteAgent, WaitsForAgent, SetNode, Started, RunEnded
  <1>14. CASE UNCHANGED vars
    BY <1>14 DEF vars
  <1> QED
    BY <1>1, <1>2, <1>3, <1>4, <1>5, <1>6, <1>7, <1>8, <1>9, <1>10, <1>11,
       <1>12, <1>13, <1>14 DEF Next, Step

\* A thread comes to execute a node only when nobody executed it before.
LEMMA ExecutesFresh ==
    ASSUME IInv, [Next]_vars, NEW a \in Actors, pc[a] # "execute", pc'[a] = "execute"
    PROVE  at'[a] \in Nodes /\ status[at'[a]] = "Pending"
  <1> USE Ids DEF Goto, IInv, TypeOK, store, threads, counters
  <1>1. MarkRunning(a)
    <2>1. CASE Begin \/ CancelBegin \/ CancelTurn \/ CancelRead \/ CancelApply \/ Crash
      BY <2>1 DEF Begin, CancelBegin, CancelTurn, CancelRead, CancelApply, Crash
    <2>2. ASSUME NEW b \in Actors, Step(b) \/ StorageFails(b), ~MarkRunning(a) PROVE FALSE
      <3>1. CASE MarkRunning(b) BY <2>2, <3>1 DEF MarkRunning
      <3>2. CASE Execute(b) BY <2>2, <3>2 DEF Execute
      <3>3. CASE Record(b)
        BY <2>2, <3>3 DEF Record, RecordWaitingAgent, RecordWaitingUser, RecordFailed,
           RecordSucceeded
      <3>4. CASE RecordRefused(b) \/ StorageFails(b)
        BY <2>2, <3>4 DEF RecordRefused, StorageFails
      <3>5. CASE Activate(b) BY <2>2, <3>5 DEF Activate
      <3>6. CASE Finish(b) BY <2>2, <3>6 DEF Finish
      <3> QED  BY <2>2, <3>1, <3>2, <3>3, <3>4, <3>5, <3>6 DEF Step
    <2>3. ASSUME NEW m \in Nodes,
                 ResumeHuman(m) \/ TurnStarts(m) \/ TurnEnds(m) \/ CompleteAgent(m) \/ ReportFails(m)
          PROVE  FALSE
      BY <2>3 DEF ResumeHuman, TurnStarts, TurnEnds, CompleteAgent, ReportFails
    <2>4. CASE UNCHANGED vars
      BY <2>4 DEF vars
    <2> QED  BY <2>1, <2>2, <2>3, <2>4 DEF Next
  <1>2. PICK n \in Nodes : Swap(n, {"Running"}, {"Pending", "Running"}) /\ at' = [at EXCEPT ![a] = n]
    BY <1>1 DEF MarkRunning
  <1>3. pc[a] = "advance" /\ run = "Running"
    BY <1>1, <1>2 DEF MarkRunning, Swap
  <1>4. status[n] # "Running"
    BY <1>3 DEF ThreadInv, Advancing, Started
  <1> QED  BY <1>2, <1>4 DEF Swap

\* For any workflow, and whatever resumes, completions, cancellations, refused
\* transitions and crashes come in between: nodes and turns only move on, so a
\* node executes once and an agent node has one turn.
THEOREM NodesAlwaysMoveOn == Spec => NodesMoveOn
  <1> DEFINE Step1 ==
        /\ \A n \in Nodes : /\ Stage(n) <= Stage(n)' /\ TurnStage(n) <= TurnStage(n)'
                            /\ Stage(n) = 3 => UNCHANGED <<status[n], out[n]>>
        /\ \A a \in Actors : pc[a] # "execute" /\ pc'[a] = "execute" => Stage(at'[a]) = 0
  <1>1. ASSUME IInv, IInv', [Next]_vars
        PROVE  Step1
    <2>1. TypeOK /\ TypeOK'
      BY <1>1 DEF IInv
    <2>2. \A n \in Nodes : Onward(n)
      BY <1>1, NextMovesOn
    <2>3. \A a \in Actors : pc[a] # "execute" /\ pc'[a] = "execute" => Stage(at'[a]) = 0
      BY <1>1, ExecutesFresh DEF Stage
    <2> QED  BY <2>1, <2>2, <2>3, OnwardStages
  <1>2. IInv /\ IInv' /\ [Next]_vars => [Step1]_vars
    BY <1>1
  <1> QED
    BY <1>2, Invariance, PTL DEF Spec, NodesMoveOn

\* For any workflow, what has happened of a run stands: once it ended nothing
\* of it changes, and until then nodes and turns only move on.
THEOREM HistoryAlwaysStands == Spec => HistoryStands
  BY EndedRunStays, NodesAlwaysMoveOn DEF HistoryStands

-----------------------------------------------------------------------------
(* A running run is tended.  A cancellation that took a turn away must get  *)
(* through, so that what it read stays as it is; and the turn it takes away *)
(* is that of a node that waits, never one that a thread still records.     *)

\* Without faults nobody lets go of a running run.
TurnOfNode ==
    /\ \A n \in Nodes : /\ status[n] = "Pending" => out[n] = "none"
                        /\ turn[n] = "queued" => graph.busy
    /\ \A a \in Actors :
         /\ pc[a] = "record" /\ result[a] = "waitingAgent" =>
              turn[at[a]] # "cancelled" /\ (~graph.busy => turn[at[a]] = "prepared")
         /\ pc[a] = "activate" /\ run = "Running" => out[at[a]] = "waitingAgent"

\* The turn that a cancellation takes away belongs to a node that waits or
\* ended.
CancelInv ==
    /\ pc[UI] \in {"cancelTurn", "cancelRead", "cancelApply"} => run \notin {"none", "Cancelled"}
    /\ pc[UI] = "cancelTurn" =>
         /\ at[UI] \in Nodes
         /\ status[at[UI]] # "Pending"
         /\ status[at[UI]] = "Running" => out[at[UI]] = "waitingAgent"
    /\ pc[UI] = "cancelApply" /\ (\E n \in Nodes : WaitsForAgent(n) /\ turn[n] = "cancelled")
         => \A m \in seen : status[m] \in NodeActive

TendInv == RunIsTended /\ TurnOfNode /\ CancelInv

LEMMA BeginTends ==
    ASSUME IInv, TendInv, Begin
    PROVE  TendInv'
  <1> USE Ids DEF Begin, Goto, IInv, TypeOK, TendInv, store, threads, counters
  <1>1. TurnOfNode'
    BY DEF TurnOfNode, ThreadInv, TurnInv, OneAtATime, CancelInv, RunMatchesNodes,
       FreshInv, Advancing, Started
  <1>2. CancelInv'
    BY DEF CancelInv, WaitsForAgent, ThreadInv, TurnOfNode, SeenInv, RunMatchesNodes,
       OneAtATime, FreshInv, AliveInv, Advancing, Started, NodeActive, RunActive, RunEnded
  <1>3. RunIsTended'
    BY DEF RunIsTended, WaitsForAgent, ThreadInv, TurnOfNode, TurnInv, AliveInv,
       CancelInv, OneAtATime, FreshInv, Advancing, Started, NodeActive, RunActive, RunEnded
  <1> QED  BY <1>1, <1>2, <1>3

LEMMA ResumeHumanTends ==
    ASSUME NEW m \in Nodes, IInv, TendInv, ResumeHuman(m)
    PROVE  TendInv'
  <1> USE Ids DEF ResumeHuman, Swap, SetNode, Goto, IInv, TypeOK, TendInv, store, threads,
         counters
  <1>1. TurnOfNode'
    BY DEF TurnOfNode, ThreadInv, TurnInv, OneAtATime, CancelInv, RunMatchesNodes,
       FreshInv, Advancing, Started
  <1>2. CancelInv'
    BY DEF CancelInv, WaitsForAgent, ThreadInv, TurnOfNode, SeenInv, RunMatchesNodes,
       OneAtATime, FreshInv, AliveInv, Advancing, Started, NodeActive, RunActive, RunEnded
  <1>3. RunIsTended'
    BY DEF RunIsTended, WaitsForAgent, ThreadInv, TurnOfNode, TurnInv, AliveInv,
       CancelInv, OneAtATime, FreshInv, Advancing, Started, NodeActive, RunActive, RunEnded
  <1> QED  BY <1>1, <1>2, <1>3

LEMMA MarkRunningTends ==
    ASSUME NEW b \in Actors, IInv, TendInv, MarkRunning(b)
    PROVE  TendInv'
  <1> USE Ids DEF MarkRunning, Swap, SetNode, Todo, Done, Goto, IInv, TypeOK, TendInv,
         store, threads, counters
  <1>0. PICK n \in Nodes :
           /\ n \notin Done
           /\ \/ /\ Swap(n, {"Running"}, {"Pending", "Running"}) /\ out[n] # "waitingAgent"
                 /\ SetNode(n, "Running", "none") /\ Goto(b, "execute")
              \/ /\ ~(Swap(n, {"Running"}, {"Pending", "Running"}) /\ out[n] # "waitingAgent")
                 /\ Goto(b, "idle") /\ UNCHANGED <<status, out>>
    BY DEF IsFirst
  <1>4. run = "Running" => /\ \A m \in Nodes : status[m] \notin Started
                           /\ status[n] = "Pending" /\ out[n] = "none"
    BY <1>0 DEF ThreadInv, Advancing, AliveInv, TurnOfNode, Started, RunActive, NodeActive,
       RunEnded
  <1>1. TurnOfNode'
    BY DEF TurnOfNode, ThreadInv, TurnInv, OneAtATime, CancelInv, RunMatchesNodes,
       FreshInv, Advancing, Started
  <1>5. \A m \in Nodes : ~WaitsForAgent(m)'
    BY <1>0, <1>4 DEF WaitsForAgent, Started
  <1>2. CancelInv'
    <2>1. /\ CancelInv /\ pc[b] = "advance" /\ UNCHANGED <<run, seen, turn>>
          /\ pc'[UI] \in {"cancelTurn", "cancelRead", "cancelApply"} => UNCHANGED <<pc[UI], at[UI]>>
          /\ \A m \in Nodes : \/ UNCHANGED <<status[m], out[m]>>
                              \/ status'[m] = "Running" /\ status[m] = "Pending"
                              \/ status'[m] = "Running" /\ status[m] = "Running" /\ out[m] # "waitingAgent"
      BY <1>0 DEF Swap
    <2> HIDE DEF MarkRunning, Swap, SetNode, Todo, Done, Goto, IInv, TypeOK, TendInv
    <2> QED  BY <1>5, <2>1 DEF CancelInv
  <1>3. RunIsTended'
    BY <1>0, <1>4 DEF RunIsTended, Advancing
  <1> QED  BY <1>1, <1>2, <1>3

LEMMA ExecuteTends ==
    ASSUME NEW b \in Actors, IInv, TendInv, Execute(b)
    PROVE  TendInv'
  <1> USE Ids DEF Execute, Goto, IInv, TypeOK, TendInv, store, threads, counters
  <1>1. TurnOfNode'
    BY DEF TurnOfNode, ThreadInv, TurnInv, OneAtATime, CancelInv, RunMatchesNodes,
       FreshInv, Advancing, Started
  <1>2. CancelInv'
    BY DEF CancelInv, WaitsForAgent, ThreadInv, TurnOfNode, SeenInv, RunMatchesNodes,
       OneAtATime, FreshInv, AliveInv, Advancing, Started, NodeActive, RunActive, RunEnded
  <1>3. RunIsTended'
    BY DEF RunIsTended, WaitsForAgent, ThreadInv, TurnOfNode, TurnInv, AliveInv,
       CancelInv, OneAtATime, FreshInv, Advancing, Started, NodeActive, RunActive, RunEnded
  <1> QED  BY <1>1, <1>2, <1>3

LEMMA RecordTends ==
    ASSUME NEW b \in Actors, IInv, TendInv, Record(b)
    PROVE  TendInv'
  <1> USE Ids DEF Record, Swap, SetNode, RecordWaitingAgent, RecordWaitingUser,
         RecordFailed, RecordSucceeded, Goto, IInv, TypeOK, TendInv, store, threads, counters
  <1>1. TurnOfNode'
    BY DEF TurnOfNode, ThreadInv, TurnInv, OneAtATime, CancelInv, RunMatchesNodes,
       FreshInv, Advancing, Started
  <1>4. /\ at[b] \in Nodes /\ run = "Running" /\ status[at[b]] = "Running"
        /\ out[at[b]] # "waitingAgent"
        /\ \A m \in Nodes \ {at[b]} : status[m] \notin Started /\ status'[m] = status[m]
        /\ UNCHANGED <<turn, seen, at>>
    BY DEF ThreadInv, OneAtATime, Advancing, Started
  <1>5. \A m \in Nodes : WaitsForAgent(m)' => turn'[m] # "cancelled"
    BY <1>4 DEF WaitsForAgent, Started, TurnOfNode
  <1>6. pc'[UI] \in {"cancelTurn", "cancelRead", "cancelApply"} => UNCHANGED pc[UI]
    OBVIOUS
  <1>7. run' \notin {"none", "Cancelled"}
    BY <1>4
  <1>8. pc[UI] = "cancelTurn" => at[UI] # at[b] /\ UNCHANGED <<status[at[UI]], out[at[UI]]>>
    BY <1>4 DEF CancelInv
  <1>2. CancelInv'
    BY <1>4, <1>5, <1>6, <1>7, <1>8 DEF CancelInv
  <1>3. RunIsTended'
    BY DEF RunIsTended, WaitsForAgent, ThreadInv, TurnOfNode, TurnInv, AliveInv,
       CancelInv, OneAtATime, FreshInv, Advancing, Started, NodeActive, RunActive, RunEnded
  <1> QED  BY <1>1, <1>2, <1>3

LEMMA RecordRefusedTends ==
    ASSUME NEW b \in Actors, IInv, TendInv, RecordRefused(b)
    PROVE  TendInv'
  <1> USE Ids DEF RecordRefused, Swap, Aborted, Goto, IInv, TypeOK, TendInv, store, threads,
         counters
  <1>1. TurnOfNode'
    BY DEF TurnOfNode, ThreadInv, TurnInv, OneAtATime, CancelInv, RunMatchesNodes,
       FreshInv, Advancing, Started
  <1>2. CancelInv'
    BY DEF CancelInv, WaitsForAgent, ThreadInv, TurnOfNode, SeenInv, RunMatchesNodes,
       OneAtATime, FreshInv, AliveInv, Advancing, Started, NodeActive, RunActive, RunEnded
  <1>3. RunIsTended'
    BY DEF RunIsTended, WaitsForAgent, ThreadInv, TurnOfNode, TurnInv, AliveInv,
       CancelInv, OneAtATime, FreshInv, Advancing, Started, NodeActive, RunActive, RunEnded
  <1> QED  BY <1>1, <1>2, <1>3

LEMMA ActivateTends ==
    ASSUME NEW b \in Actors, IInv, TendInv, Activate(b)
    PROVE  TendInv'
  <1> USE Ids DEF Activate, Swap, SetNode, Goto, IInv, TypeOK, TendInv, store, threads,
         counters
  <1>1. TurnOfNode'
    BY DEF TurnOfNode, ThreadInv, TurnInv, OneAtATime, CancelInv, RunMatchesNodes,
       FreshInv, Advancing, Started
  <1>4. /\ at[b] \in Nodes
        /\ run = "Running" => status[at[b]] = "Running" /\ out[at[b]] = "waitingAgent"
    BY DEF ThreadInv, TurnOfNode, Advancing
  <1>5. ASSUME run' = "Failed", SetNode(at[b], "Failed", "waitingAgent")
        PROVE  CancelInv'
    <2>1. /\ CancelInv /\ UNCHANGED <<at, seen>>
          /\ pc'[UI] \in {"cancelTurn", "cancelRead", "cancelApply"} => UNCHANGED pc[UI]
          /\ \A m \in Nodes : UNCHANGED <<status[m], out[m]>> \/ status'[m] = "Failed"
      BY <1>4, <1>5
    <2> HIDE DEF Activate, Swap, SetNode, Goto, IInv, TypeOK, TendInv, store
    <2> QED  BY <1>5, <2>1 DEF CancelInv, WaitsForAgent
  <1>6. ASSUME UNCHANGED store
        PROVE  CancelInv'
    <2>1. \A m \in Nodes : WaitsForAgent(m)' /\ turn'[m] = "cancelled"
                             => WaitsForAgent(m) /\ turn[m] = "cancelled"
      BY <1>6 DEF WaitsForAgent
    <2>2. /\ UNCHANGED <<run, status, out, at, seen>>
          /\ pc'[UI] \in {"cancelTurn", "cancelRead", "cancelApply"} => UNCHANGED pc[UI]
          /\ CancelInv
      BY <1>6
    <2> HIDE DEF Activate, Swap, SetNode, Goto, IInv, TypeOK, TendInv, store
    <2> QED  BY <2>1, <2>2 DEF CancelInv
  <1>2. CancelInv'
    BY <1>5, <1>6
  <1>3. RunIsTended'
    <2>1. CASE run' = "Running" /\ turn[at[b]] = "prepared" /\ turn' = [turn EXCEPT ![at[b]] = "running"]
      BY <1>4, <2>1 DEF RunIsTended, WaitsForAgent
    <2>2. CASE run' = "Running" /\ ~Swap(at[b], {"Running"}, {"Running"})
      BY <1>4, <2>2
    <2>3. CASE run' # "Running"
      BY <2>3 DEF RunIsTended
    <2> QED  BY <2>1, <2>2, <2>3
  <1> QED  BY <1>1, <1>2, <1>3

LEMMA FinishTends ==
    ASSUME NEW b \in Actors, IInv, TendInv, Finish(b)
    PROVE  TendInv'
  <1> USE Ids DEF Finish, Done, Goto, IInv, TypeOK, TendInv, store, threads, counters
  <1>1. TurnOfNode'
    BY DEF TurnOfNode, ThreadInv, TurnInv, OneAtATime, CancelInv, RunMatchesNodes,
       FreshInv, Advancing, Started
  <1>4. ASSUME UNCHANGED store
        PROVE  CancelInv'
    <2>1. /\ CancelInv /\ UNCHANGED <<run, status, out, turn, at, seen>>
          /\ pc'[UI] \in {"cancelTurn", "cancelRead", "cancelApply"} => UNCHANGED pc[UI]
      BY <1>4
    <2> HIDE DEF Finish, Done, Goto, IInv, TypeOK, TendInv, store
    <2> QED  BY <2>1 DEF CancelInv, WaitsForAgent
  <1>5. ASSUME ~UNCHANGED store
        PROVE  CancelInv'
    <2>1. /\ run' = "Succeeded" /\ UNCHANGED at
          /\ \A n \in Nodes : status'[n] \notin {"Pending", "Running"}
          /\ pc'[UI] \in {"cancelTurn", "cancelRead", "cancelApply"} => UNCHANGED pc[UI]
          /\ CancelInv
      BY <1>5
    <2> HIDE DEF Finish, Done, Goto, IInv, TypeOK, TendInv, store
    <2> QED  BY <2>1 DEF CancelInv, WaitsForAgent
  <1>2. CancelInv'
    BY <1>4, <1>5
  <1>3. RunIsTended'
    BY DEF RunIsTended, WaitsForAgent, ThreadInv, TurnOfNode, TurnInv, AliveInv,
       CancelInv, OneAtATime, FreshInv, Advancing, Started, NodeActive, RunActive, RunEnded
  <1> QED  BY <1>1, <1>2, <1>3

LEMMA TurnStartsTends ==
    ASSUME NEW m \in Nodes, IInv, TendInv, TurnStarts(m)
    PROVE  TendInv'
  <1> USE Ids DEF TurnStarts, Goto, IInv, TypeOK, TendInv, store, threads, counters
  <1>1. TurnOfNode'
    BY DEF TurnOfNode, ThreadInv, TurnInv, OneAtATime, CancelInv, RunMatchesNodes,
       FreshInv, Advancing, Started
  <1>2. CancelInv'
    BY DEF CancelInv, WaitsForAgent, ThreadInv, TurnOfNode, SeenInv, RunMatchesNodes,
       OneAtATime, FreshInv, AliveInv, Advancing, Started, NodeActive, RunActive, RunEnded
  <1>3. RunIsTended'
    BY DEF RunIsTended, WaitsForAgent, ThreadInv, TurnOfNode, TurnInv, AliveInv,
       CancelInv, OneAtATime, FreshInv, Advancing, Started, NodeActive, RunActive, RunEnded
  <1> QED  BY <1>1, <1>2, <1>3

LEMMA TurnEndsTends ==
    ASSUME NEW m \in Nodes, IInv, TendInv, TurnEnds(m)
    PROVE  TendInv'
  <1> USE Ids DEF TurnEnds, Goto, IInv, TypeOK, TendInv, store, threads, counters
  <1>1. TurnOfNode'
    BY DEF TurnOfNode, ThreadInv, TurnInv, OneAtATime, CancelInv, RunMatchesNodes,
       FreshInv, Advancing, Started
  <1>2. CancelInv'
    BY DEF CancelInv, WaitsForAgent, ThreadInv, TurnOfNode, SeenInv, RunMatchesNodes,
       OneAtATime, FreshInv, AliveInv, Advancing, Started, NodeActive, RunActive, RunEnded
  <1>3. RunIsTended'
    BY DEF RunIsTended, WaitsForAgent, ThreadInv, TurnOfNode, TurnInv, AliveInv,
       CancelInv, OneAtATime, FreshInv, Advancing, Started, NodeActive, RunActive, RunEnded
  <1> QED  BY <1>1, <1>2, <1>3

LEMMA CompleteAgentTends ==
    ASSUME NEW m \in Nodes, IInv, TendInv, CompleteAgent(m)
    PROVE  TendInv'
  <1> USE Ids DEF CompleteAgent, SetNode, Goto, IInv, TypeOK, TendInv, store, threads,
         counters
  <1>0. \A a \in Actors : /\ pc[a] = "record" /\ result[a] = "waitingAgent" /\ ~graph.busy
                              => at[a] # m
                          /\ pc[a] = "activate" => at[a] # m
    BY DEF TurnOfNode, TurnInv
  <1>4. \A a \in Actors : pc'[a] \in {"record", "activate"} => UNCHANGED pc[a]
    OBVIOUS
  <1>5. \A a \in Actors : /\ pc'[a] = "record" /\ result'[a] = "waitingAgent" =>
                               turn'[at'[a]] # "cancelled" /\ (~graph.busy => turn'[at'[a]] = "prepared")
                          /\ pc'[a] = "activate" /\ run' = "Running" => out'[at'[a]] = "waitingAgent"
    <2> TAKE a \in Actors
    <2>1. CASE pc'[a] = "record"
      BY <1>0, <1>4, <2>1 DEF TurnOfNode
    <2>2. CASE pc'[a] = "activate" /\ run' = "Running"
      <3>0. UNCHANGED at /\ run = "Running"
        BY <2>2 DEF WaitsForAgent
      <3>1. run = "Running" /\ at[a] # m /\ UNCHANGED at /\ pc[a] = "activate"
        BY <1>0, <1>4, <2>2, <3>0
      <3>2. at[a] \in Nodes
        BY <3>1 DEF ThreadInv, Advancing
      <3>3. out'[at[a]] = out[at[a]]
        BY <3>1, <3>2
      <3> QED  BY <3>1, <3>3 DEF TurnOfNode
    <2> QED  BY <2>1, <2>2
  <1>8. UNCHANGED graph /\ \A n \in Nodes : status'[n] = "Pending" => out'[n] = "none"
    BY DEF TurnOfNode
  <1>9. \A n \in Nodes : turn'[n] = "queued" => graph.busy
    BY DEF TurnOfNode
  <1>1. TurnOfNode'
    <2> HIDE DEF CompleteAgent, SetNode, Goto, IInv, TypeOK, TendInv
    <2> QED  BY <1>5, <1>8, <1>9 DEF TurnOfNode
  <1>6. ASSUME WaitsForAgent(m)
        PROVE  CancelInv'
    <2>1. \A n \in Nodes : ~WaitsForAgent(n)'
      BY <1>6 DEF WaitsForAgent, OneAtATime, Started
    <2>2. /\ run' \in {"Running", "Failed"}
          /\ status'[m] \in {"Succeeded", "Failed"}
          /\ \A n \in Nodes \ {m} : UNCHANGED <<status[n], out[n]>>
          /\ UNCHANGED at
          /\ pc'[UI] \in {"cancelTurn", "cancelRead", "cancelApply"} => UNCHANGED pc[UI]
          /\ CancelInv
      BY <1>6 DEF WaitsForAgent
    <2> HIDE DEF CompleteAgent, SetNode, Goto, IInv, TypeOK, TendInv
    <2> QED  BY <2>1, <2>2 DEF CancelInv
  <1>7. ASSUME ~WaitsForAgent(m)
        PROVE  CancelInv'
    <2>1. /\ UNCHANGED <<run, status, out, at, seen, pc>> /\ CancelInv
          /\ \A n \in Nodes : turn'[n] = "cancelled" => turn[n] = "cancelled"
      BY <1>7
    <2> HIDE DEF CompleteAgent, SetNode, Goto, IInv, TypeOK, TendInv
    <2> QED  BY <2>1 DEF CancelInv, WaitsForAgent
  <1>2. CancelInv'
    BY <1>6, <1>7
  <1>3. RunIsTended'
    BY DEF RunIsTended, WaitsForAgent, ThreadInv, TurnOfNode, TurnInv, AliveInv,
       CancelInv, OneAtATime, FreshInv, Advancing, Started, NodeActive, RunActive, RunEnded
  <1> QED  BY <1>1, <1>2, <1>3

LEMMA CancelBeginTends ==
    ASSUME IInv, TendInv, CancelBegin
    PROVE  TendInv'
  <1> USE Ids DEF CancelBegin, Goto, IInv, TypeOK, TendInv, store, threads, counters
  <1>1. TurnOfNode'
    BY DEF TurnOfNode, ThreadInv, TurnInv, OneAtATime, CancelInv, RunMatchesNodes,
       FreshInv, Advancing, Started
  <1>2. CancelInv'
    BY DEF CancelInv, WaitsForAgent, ThreadInv, TurnOfNode, SeenInv, RunMatchesNodes,
       OneAtATime, FreshInv, AliveInv, Advancing, Started, NodeActive, RunActive, RunEnded
  <1>3. RunIsTended'
    BY DEF RunIsTended, WaitsForAgent, ThreadInv, TurnOfNode, TurnInv, AliveInv,
       CancelInv, OneAtATime, FreshInv, Advancing, Started, NodeActive, RunActive, RunEnded
  <1> QED  BY <1>1, <1>2, <1>3

LEMMA CancelTurnTends ==
    ASSUME IInv, TendInv, CancelTurn
    PROVE  TendInv'
  <1> USE Ids DEF CancelTurn, Outstanding, Goto, IInv, TypeOK, TendInv, store, threads,
         counters
  <1>4. /\ at[UI] \in Nodes /\ run \notin {"none", "Cancelled"}
        /\ status[at[UI]] = "Running" => out[at[UI]] = "waitingAgent"
    BY DEF CancelInv
  <1>5. \A a \in Actors : pc[a] = "record" => at[a] # at[UI]
    BY <1>4 DEF ThreadInv, Advancing
  <1>1. TurnOfNode'
    <2>1. /\ TurnOfNode /\ UNCHANGED <<run, status, out, at, result, graph>>
          /\ \A n \in Nodes : turn'[n] = "queued" => turn[n] = "queued"
          /\ \A a \in Actors : pc'[a] \in {"record", "activate"} => UNCHANGED pc[a]
          /\ \A k \in Nodes \ {at[UI]} : turn'[k] = turn[k]
      BY <1>4
    <2>2. ASSUME NEW a \in Actors, pc[a] = "record"
          PROVE  turn'[at[a]] = turn[at[a]]
    <3>1. at[a] \in Nodes
      BY <2>2 DEF ThreadInv, Advancing
    <3> QED  BY <1>5, <2>1, <2>2, <3>1
    <2> HIDE DEF CancelTurn, Outstanding, Goto, IInv, TypeOK, TendInv
    <2> QED  BY <2>1, <2>2 DEF TurnOfNode
  <1>2. CancelInv'
    BY DEF CancelInv, WaitsForAgent, ThreadInv, TurnOfNode, SeenInv, RunMatchesNodes,
       OneAtATime, FreshInv, AliveInv, Advancing, Started, NodeActive, RunActive, RunEnded
  <1>3. RunIsTended'
    BY DEF RunIsTended, WaitsForAgent, ThreadInv, TurnOfNode, TurnInv, AliveInv,
       CancelInv, OneAtATime, FreshInv, Advancing, Started, NodeActive, RunActive, RunEnded
  <1> QED  BY <1>1, <1>2, <1>3

LEMMA CancelReadTends ==
    ASSUME IInv, TendInv, CancelRead
    PROVE  TendInv'
  <1> USE Ids DEF CancelRead, Goto, IInv, TypeOK, TendInv, store, threads, counters
  <1>1. TurnOfNode'
    BY DEF TurnOfNode, ThreadInv, TurnInv, OneAtATime, CancelInv, RunMatchesNodes,
       FreshInv, Advancing, Started
  <1>2. CancelInv'
    BY DEF CancelInv, WaitsForAgent, ThreadInv, TurnOfNode, SeenInv, RunMatchesNodes,
       OneAtATime, FreshInv, AliveInv, Advancing, Started, NodeActive, RunActive, RunEnded
  <1>3. RunIsTended'
    BY DEF RunIsTended, WaitsForAgent, ThreadInv, TurnOfNode, TurnInv, AliveInv,
       CancelInv, OneAtATime, FreshInv, Advancing, Started, NodeActive, RunActive, RunEnded
  <1> QED  BY <1>1, <1>2, <1>3

LEMMA CancelApplyTends ==
    ASSUME IInv, TendInv, CancelApply
    PROVE  TendInv'
  <1> USE Ids DEF CancelApply, Goto, IInv, TypeOK, TendInv, store, threads, counters
  <1>1. TurnOfNode'
    BY DEF TurnOfNode, ThreadInv, TurnInv, OneAtATime, CancelInv, RunMatchesNodes,
       FreshInv, Advancing, Started
  <1>2. CancelInv'
    BY DEF CancelInv, WaitsForAgent, ThreadInv, TurnOfNode, SeenInv, RunMatchesNodes,
       OneAtATime, FreshInv, AliveInv, Advancing, Started, NodeActive, RunActive, RunEnded
  <1>3. RunIsTended'
    BY DEF RunIsTended, WaitsForAgent, ThreadInv, TurnOfNode, TurnInv, AliveInv,
       CancelInv, OneAtATime, FreshInv, Advancing, Started, NodeActive, RunActive, RunEnded
  <1> QED  BY <1>1, <1>2, <1>3

LEMMA StorageFailsTends ==
    ASSUME NEW b \in Actors, IInv, TendInv, StorageFails(b)
    PROVE  TendInv'
  <1> USE Ids DEF StorageFails, Aborted, Goto, IInv, TypeOK, TendInv, store, threads, counters
  <1>1. TurnOfNode'
    BY DEF TurnOfNode, ThreadInv, TurnInv, OneAtATime, CancelInv, RunMatchesNodes,
       FreshInv, Advancing, Started
  <1>2. CancelInv'
    BY DEF CancelInv, WaitsForAgent, ThreadInv, TurnOfNode, SeenInv, RunMatchesNodes,
       OneAtATime, FreshInv, AliveInv, Advancing, Started, NodeActive, RunActive, RunEnded
  <1>3. RunIsTended'
    BY DEF RunIsTended, WaitsForAgent, ThreadInv, TurnOfNode, TurnInv, AliveInv,
       CancelInv, OneAtATime, FreshInv, Advancing, Started, NodeActive, RunActive, RunEnded
  <1> QED  BY <1>1, <1>2, <1>3

LEMMA ReportFailsTends ==
    ASSUME NEW m \in Nodes, IInv, TendInv, ReportFails(m)
    PROVE  TendInv'
  <1> USE Ids DEF ReportFails, Goto, IInv, TypeOK, TendInv, store, threads, counters
  <1>1. TurnOfNode'
    BY DEF TurnOfNode, ThreadInv, TurnInv, OneAtATime, CancelInv, RunMatchesNodes,
       FreshInv, Advancing, Started
  <1>2. CancelInv'
    BY DEF CancelInv, WaitsForAgent, ThreadInv, TurnOfNode, SeenInv, RunMatchesNodes,
       OneAtATime, FreshInv, AliveInv, Advancing, Started, NodeActive, RunActive, RunEnded
  <1>3. RunIsTended'
    BY DEF RunIsTended, WaitsForAgent, ThreadInv, TurnOfNode, TurnInv, AliveInv,
       CancelInv, OneAtATime, FreshInv, Advancing, Started, NodeActive, RunActive, RunEnded
  <1> QED  BY <1>1, <1>2, <1>3

LEMMA CrashTends ==
    ASSUME IInv, TendInv, Crash
    PROVE  TendInv'
  <1> USE Ids DEF Crash, Goto, IInv, TypeOK, TendInv, store, threads, counters
  <1>1. TurnOfNode'
    BY DEF TurnOfNode, ThreadInv, TurnInv, OneAtATime, CancelInv, RunMatchesNodes,
       FreshInv, Advancing, Started
  <1>2. CancelInv'
    BY DEF CancelInv, WaitsForAgent, ThreadInv, TurnOfNode, SeenInv, RunMatchesNodes,
       OneAtATime, FreshInv, AliveInv, Advancing, Started, NodeActive, RunActive, RunEnded
  <1>3. RunIsTended'
    BY DEF RunIsTended, WaitsForAgent, ThreadInv, TurnOfNode, TurnInv, AliveInv,
       CancelInv, OneAtATime, FreshInv, Advancing, Started, NodeActive, RunActive, RunEnded
  <1> QED  BY <1>1, <1>2, <1>3

LEMMA StutterTends == IInv /\ TendInv /\ UNCHANGED vars => TendInv'
  BY DEF TendInv, RunIsTended, TurnOfNode, CancelInv, WaitsForAgent, vars, store, threads,
     counters

LEMMA NextTends == IInv /\ TendInv /\ [Next]_vars => TendInv'
  <1> SUFFICES ASSUME IInv, TendInv, [Next]_vars
               PROVE  TendInv'
    OBVIOUS
  <1>1. CASE Begin \/ CancelBegin \/ CancelTurn \/ CancelRead \/ CancelApply \/ Crash
    BY <1>1, BeginTends, CancelBeginTends, CancelTurnTends, CancelReadTends,
       CancelApplyTends, CrashTends
  <1>2. ASSUME NEW a \in Actors, Step(a) \/ StorageFails(a)
        PROVE  TendInv'
    BY <1>2, MarkRunningTends, ExecuteTends, RecordTends, RecordRefusedTends,
       ActivateTends, FinishTends, StorageFailsTends DEF Step
  <1>3. ASSUME NEW n \in Nodes,
               ResumeHuman(n) \/ TurnStarts(n) \/ TurnEnds(n) \/ CompleteAgent(n) \/ ReportFails(n)
        PROVE  TendInv'
    BY <1>3, ResumeHumanTends, TurnStartsTends, TurnEndsTends, CompleteAgentTends,
       ReportFailsTends
  <1>4. CASE UNCHANGED vars
    BY <1>4, StutterTends
  <1> QED
    BY <1>1, <1>2, <1>3, <1>4 DEF Next

LEMMA InitTends == Init => TendInv
  BY Ids DEF Init, TendInv, RunIsTended, TurnOfNode, CancelInv, TurnStates, WaitsForAgent

\* For any workflow: until a fault or a queue in front of a turn comes in
\* between, a running run has a thread or a turn that goes on with it, so that
\* it cannot stay running with nobody at work.
THEOREM RunAlwaysTended == Spec => []RunIsTended
  <1>1. TendInv => RunIsTended
    BY DEF TendInv
  <1> QED
    BY <1>1, InitTends, NextTends, Invariance, PTL DEF Spec

\* For any workflow, no turn and no run is left that nobody will end.
THEOREM NothingForgotten == Spec => []NothingIsForgotten
  <1>1. TurnsMatchNodes /\ RunIsTended => NothingIsForgotten
    BY DEF NothingIsForgotten
  <1> QED
    BY <1>1, NoTurnIsForgotten, RunAlwaysTended, PTL
=============================================================================

-------------------------- MODULE TaskTurnsProofs --------------------------
(***************************************************************************)
(* Proof that the turn queue implements TaskTurns: the turns of a task run *)
(* one at a time and in the order of their submission, and a turn that     *)
(* ended never runs again, through every failure of a hook, of a worker or *)
(* of a transaction, and through every crash.                              *)
(*                                                                         *)
(* Every step of the queue does one of four things to the open turns, the  *)
(* ones whose row is there and that have not ended: nothing, or a turn     *)
(* joins them, or the first of them starts, or the first of them leaves.   *)
(***************************************************************************)
EXTENDS TurnQueueProofs

\* The conditions of the proof: only the user sends turns, nothing is
\* cancelled, and no wait times out.
Undisturbed == AutoTurns = {} /\ NoCancels /\ NoDeadline

Open == {t \in Present(rows) : ~Ended(t)}
Least(t) == t \in Open /\ \A u \in Open : rows[t].id <= rows[u].id

\* Every turn in memory has its row.
HeldInv == In(queue) \union InHand \subseteq Present(rows)

\* The turn that the agent works on is the first of the open ones.
AgentInv == \A t \in AtAgent : Least(t)

\* What a step does to the open turns.
SameIdsOn(S) == \A t \in S : rows'[t].id = rows[t].id
Unmoved == /\ Open' = Open /\ SameIdsOn(Open) /\ AtAgent' = AtAgent
           /\ submitted' = submitted
Joins(t) == /\ t \in Turns \ submitted /\ submitted' = submitted \union {t}
            /\ Open' = Open \union {t} /\ SameIdsOn(Open) /\ AtAgent' = AtAgent
            /\ \A u \in Open : rows'[u].id < rows'[t].id
Starts(t) == /\ Least(t) /\ AtAgent = {} /\ AtAgent' = {t}
             /\ Open' = Open /\ SameIdsOn(Open) /\ submitted' = submitted
Leaves(t) == /\ Least(t) /\ AtAgent \subseteq {t} /\ AtAgent' = {}
             /\ Open' = Open \ {t} /\ SameIdsOn(Open') /\ submitted' = submitted

-----------------------------------------------------------------------------
(* What the invariant says of the open turns.                               *)

LEMMA Quiet ==
    ASSUME Undisturbed, IInv
    PROVE  /\ Steady /\ AutoTurns = {} /\ UserTurns = Turns
           /\ canceller = NoCancel /\ cancelReq = {} /\ detached = {}
           /\ finish.cancel = "none" /\ ~(cancels < MaxCancels)
  <1>1. /\ Steady /\ canceller = NoCancel /\ cancelReq = {} /\ detached = {}
        /\ finish.cancel = "none"
    BY DEF Undisturbed, IInv, QuietInv, Steady
  <1>2. ~(cancels < MaxCancels)
    BY DEF Undisturbed, IInv, TypeOK, NoCancels
  <1> QED
    BY <1>1, <1>2, TurnsAssumption DEF Undisturbed

LEMMA OpenRows ==
    ASSUME IInv
    PROVE  /\ rows \in [Turns -> Row] /\ nextId \in Nat /\ InShape(rows, nextId)
           /\ Present(rows) \subseteq Turns /\ Open \subseteq Turns /\ Open \subseteq submitted
           /\ NoTurn \notin Open /\ \A t \in Open : rows[t].id \in Nat
           /\ Numbered(Open, rows)
           /\ \A t, u : Least(t) /\ Least(u) => t = u
  <1>1. /\ rows \in [Turns -> Row] /\ nextId \in Nat /\ InShape(rows, nextId)
        /\ Present(rows) \subseteq Turns /\ Open \subseteq Turns /\ Open \subseteq submitted
        /\ NoTurn \notin Open
    BY NoTurnAssumption DEF IInv, TypeOK, RowsInv, Present, Open
  <1>2. \A t \in Open : rows[t].id \in Nat
    BY <1>1 DEF Row
  <1>3. Numbered(Open, rows)
    <2>1. Open \in SUBSET Present(rows)
      BY DEF Open
    <2> QED
      BY <1>1, <2>1, ShapeNumbers
  <1>4. ASSUME NEW t, NEW u, Least(t), Least(u)
        PROVE  t = u
    <2>1. /\ t \in Open /\ u \in Open /\ rows[t].id \in Nat /\ rows[u].id \in Nat
          /\ rows[t].id <= rows[u].id /\ rows[u].id <= rows[t].id
      BY <1>2, <1>4 DEF Least
    <2>2. rows[t].id = rows[u].id
      BY <2>1
    <2> QED
      BY <2>1, <2>2, <1>3 DEF Numbered
  <1> QED
    BY <1>1, <1>2, <1>3, <1>4

\* The turn in hand has the first row, and is the first open turn until it ends.
LEMMA InHandIsFirst ==
    ASSUME Undisturbed, IInv, active.submitted
    PROVE  /\ active.turn \in Turns /\ active.turn \in Present(rows)
           /\ IsFirst(rows, active.turn)
           /\ ~Ended(active.turn) => Least(active.turn)
  <1>1. active.turn \in Turns /\ rows[active.turn].state = "claimed"
    BY Quiet DEF IInv, TypeOK, BusyInv, OwnsInv, ActiveOwnsItsRow, OwnsClaim
  <1>2. active.turn \in Present(rows) /\ IsFirst(rows, active.turn)
    BY <1>1 DEF IInv, RowsInv, InShape, Present
  <1> QED
    BY <1>1, <1>2 DEF IsFirst, Least, Open

\* The turn that waits for the user has a row.
LEMMA WaitingIsOpen ==
    ASSUME Undisturbed, IInv
    PROVE  /\ AtAgent = {t \in Open : log[t] \in {"waiting", "running"}}
           /\ \A t \in Turns : log[t] = "waiting" => active.turn = t /\ active.submitted
  <1>1. \A t \in Turns : log[t] = "waiting" => active.turn = t /\ active.submitted
    BY DEF Undisturbed, IInv, WaitingInv
  <1>2. \A t \in Turns : log[t] = "waiting" => t \in Present(rows)
    BY <1>1, InHandIsFirst
  <1> QED
    BY <1>1, <1>2 DEF AtAgent, Open, Ended, Terminal, Present

\* The open turns after a step that leaves the logs alone.
LEMMA SameLogs ==
    ASSUME Undisturbed, IInv, log' = log, submitted' = submitted,
           Present(rows') = Present(rows), SameIdsOn(Present(rows))
    PROVE  Unmoved
  <1>1. Open' = Open
    BY DEF Open, Ended
  <1>2. AtAgent' = {t \in Open : log[t] \in {"waiting", "running"}}
    BY <1>1, WaitingIsOpen DEF AtAgent, Open, Ended, Terminal, Present
  <1> QED
    BY <1>1, <1>2, WaitingIsOpen DEF Unmoved, SameIdsOn, Open

-----------------------------------------------------------------------------
(* What each action does to them.                                           *)

Moves == Unmoved \/ \E t \in Turns : Joins(t) \/ Starts(t) \/ Leaves(t)

LEMMA Submitting ==
    ASSUME Undisturbed, IInv, NEW t \in UserTurns, StartTaskTurn(t)
    PROVE  Joins(t)
  <1>1. /\ t \in Turns \ submitted /\ t \notin Present(rows) /\ log[t] = "none"
        /\ log' = log /\ submitted' = submitted \union {t}
        /\ rows' = [rows EXCEPT ![t] = Queued(nextId)]
    BY TurnsAssumption, Enqueueing DEF StartTaskTurn, agentkit
  <1>2. /\ Present(rows') = Present(rows) \union {t} /\ rows'[t].id = nextId
        /\ \A u \in Turns \ {t} : rows'[u] = rows[u]
    <2>1. t \in Turns \ Present(rows)
      BY <1>1
    <2>2. /\ Present([rows EXCEPT ![t] = Queued(nextId)]) = Present(rows) \union {t}
          /\ [rows EXCEPT ![t] = Queued(nextId)][t].id = nextId
          /\ \A u \in Turns \ {t} : [rows EXCEPT ![t] = Queued(nextId)][u] = rows[u]
      BY <2>1, OpenRows, Inserting
    <2> QED
      BY <1>1, <2>2
  <1>3. Open' = Open \union {t}
    BY <1>1, <1>2 DEF Open, Ended, Terminal
  <1>4. AtAgent' = AtAgent
    BY <1>1, <1>2 DEF AtAgent
  <1>5. SameIdsOn(Open) /\ \A u \in Open : rows'[u].id < rows'[t].id
    <2>1. \A u \in Open : u \in Present(rows) /\ u \in Turns \ {t}
      BY <1>1, OpenRows DEF Open
    <2>2. \A u \in Present(rows) : rows[u].id < nextId
      BY OpenRows DEF InShape
    <2> QED
      BY <1>2, <2>1, <2>2 DEF SameIdsOn
  <1> QED
    BY <1>1, <1>3, <1>4, <1>5 DEF Joins

LEMMA ActivatingMoves ==
    ASSUME Undisturbed, IInv, HeldInv, NEW t \in Turns, ActivationEffect(t)
    PROVE  Unmoved /\ HeldInv'
  <1>1. InMemory(t) => t \in Present(rows)
    BY InMemoryIn, NoTurnAssumption DEF HeldInv, InHand
  <1>2. Present(rows') = Present(rows)
    BY <1>1 DEF ActivationEffect
  <1>3. Unmoved
    BY <1>2, SameLogs DEF ActivationEffect, SameIdsOn
  <1>4. CASE UNCHANGED <<active, queue, worker>>
    BY <1>2, <1>3, <1>4 DEF HeldInv, InHand
  <1>5. CASE TurnIsTaken(t)
    <2>1. InHand' = {t}
      BY <1>5, NoTurnAssumption DEF InHand, TurnIsTaken
    <2>2. In(queue') \subseteq In(queue) /\ InMemory(t)
      <3>1. queue \in Seq(Turns)
        BY DEF IInv, TypeOK
      <3>2. CASE active.turn = t /\ queue' = queue
        BY <3>2, InMemoryIn
      <3>3. CASE queue # <<>> /\ Head(queue) = t /\ queue' = Tail(queue)
        BY <3>1, <3>3, QueueMoves, InMemoryIn
      <3> QED
        BY <1>5, <3>2, <3>3 DEF TurnIsTaken
    <2> QED
      BY <1>1, <1>2, <1>3, <2>1, <2>2 DEF HeldInv
  <1> QED
    BY <1>3, <1>4, <1>5 DEF ActivationEffect

LEMMA AcknowledgingMoves ==
    ASSUME Undisturbed, IInv, HeldInv, AgentInv,
           NEW next \in Turns \union {NoTurn}, FinishAndActivateNext(next)
    PROVE  (Unmoved \/ Leaves(finish.turn)) /\ finish.turn \in Turns /\ HeldInv'
  <1> DEFINE f == finish.turn
  <1>1. /\ f \in Turns /\ worker[f] = "finishing" /\ active.turn = f /\ active.submitted
        /\ InHand = {f} /\ f \notin In(queue) /\ queue \in Seq(Turns)
    BY Acknowledging, Finisher DEF IInv, QueueInv
  <1>2. /\ Present(rows') = Present(rows) \ {f} /\ SameIdsOn(Present(rows'))
        /\ log' = log /\ submitted' = submitted
    BY Quiet, Acknowledging, AcknowledgedOrNext DEF SameIdsOn, SlotEmptied
  <1>3. SameIdsOn(Open')
    <2>1. Open' \subseteq Present(rows')
      BY DEF Open
    <2> QED
      BY <1>2, <2>1 DEF SameIdsOn
  <1>4. ASSUME Ended(f)
        PROVE  Unmoved
    <2>1. Open' = Open
      BY <1>2, <1>4 DEF Open, Ended
    <2>2. AtAgent' = AtAgent
      BY <1>2, <1>4 DEF AtAgent, Ended, Terminal
    <2> QED
      BY <1>2, <1>3, <2>1, <2>2 DEF Unmoved
  <1>5. ASSUME ~Ended(f)
        PROVE  Leaves(f)
    <2>1. Least(f)
      BY <1>1, <1>5, InHandIsFirst
    <2>2. AtAgent \subseteq {f}
      BY <2>1, OpenRows DEF AgentInv
    <2>3. log[f] # "waiting"
      BY <1>1 DEF Undisturbed, IInv, WaitingInv
    <2>4. AtAgent' = {}
      BY <1>1, <1>2, <2>2, <2>3 DEF AtAgent
    <2>5. Open' = Open \ {f}
      BY <1>2 DEF Open, Ended
    <2> QED
      BY <1>2, <1>3, <2>1, <2>2, <2>4, <2>5 DEF Leaves
  <1>6. HeldInv'
    <2>1. In(queue) \subseteq Present(rows')
      BY <1>1, <1>2 DEF HeldInv
    <2>2. CASE active' = NoActive /\ queue' = queue
      BY <2>1, <2>2 DEF HeldInv, InHand, NoActive
    <2>3. CASE NextTakesOver(next)
      <3>1. next \in In(queue) /\ In(queue') \subseteq In(queue)
        BY <1>1, <2>3, QueueMoves DEF NextTakesOver
      <3>2. InHand' \subseteq {next}
        BY <2>3 DEF InHand, NextTakesOver, Owned
      <3> QED
        BY <2>1, <3>1, <3>2 DEF HeldInv
    <2> QED
      BY <2>2, <2>3, AcknowledgedOrNext DEF SlotEmptied
  <1> QED
    BY <1>1, <1>4, <1>5, <1>6

LEMMA RestartingMoves ==
    ASSUME Undisturbed, IInv, CrashAndRestart
    PROVE  Unmoved /\ HeldInv'
  <1>1. RestartEffect /\ log' = log /\ submitted' = submitted
    BY Restarting DEF CrashAndRestart, agentkit
  <1>2. Present(rows') = Present(rows) \ Done /\ SameIdsOn(Present(rows'))
    BY <1>1 DEF RestartEffect, SameIdsOn
  <1>3. Open' = Open
    BY <1>1, <1>2 DEF Open, Ended, Done
  <1>4. AtAgent' = AtAgent
    BY <1>1, <1>2 DEF AtAgent, Done, Ended, Terminal
  <1>5. RestoredTurn # NoTurn => RestoredTurn \in Present(rows)
    BY WaitingIsOpen, InHandIsFirst DEF RestoredTurn, IInv, TypeOK
  <1>6. HeldInv'
    BY <1>1, <1>5 DEF RestartEffect, HeldInv, InHand
  <1> QED
    BY <1>1, <1>2, <1>3, <1>4, <1>6 DEF Unmoved, SameIdsOn, Open

\* The turn in hand changes its log, and the rows stay.
LEMMA Logging ==
    ASSUME Undisturbed, IInv, AgentInv, active.submitted, NEW s, Logged(active.turn, s),
           ~Ended(active.turn), UNCHANGED <<rows, submitted>>,
           s \in {"running", "waiting"} \union Terminal
    PROVE  \/ Unmoved /\ log[active.turn] \in {"running", "waiting"}
           \/ Starts(active.turn) /\ log[active.turn] = "none"
           \/ Leaves(active.turn)
  <1> DEFINE t == active.turn
  <1>1. /\ t \in Turns /\ t \in Present(rows) /\ Least(t) /\ AtAgent \subseteq {t}
    BY InHandIsFirst, OpenRows DEF AgentInv
  <1>2. log'[t] = s /\ \A u \in Turns \ {t} : log'[u] = log[u]
    BY <1>1 DEF Logged, IInv, TypeOK
  <1>3. SameIdsOn(Open) /\ SameIdsOn(Open')
    BY DEF SameIdsOn
  <1>4. CASE s \in Terminal
    <2>1. Open' = Open \ {t}
      BY <1>1, <1>2, <1>4 DEF Open, Ended, Present
    <2>2. AtAgent' = {}
      BY <1>1, <1>2, <1>4 DEF AtAgent, Terminal
    <2> QED
      BY <1>1, <1>3, <2>1, <2>2 DEF Leaves
  <1>5. CASE s \in {"running", "waiting"}
    <2>1. Open' = Open
      BY <1>1, <1>2, <1>5 DEF Open, Ended, Terminal, Present
    <2>2. AtAgent' = {t}
      BY <1>1, <1>2, <1>5 DEF AtAgent
    <2>3. CASE log[t] \in {"running", "waiting"}
      <3>1. AtAgent = {t}
        BY <1>1, <2>3 DEF AtAgent
      <3> QED
        BY <1>3, <2>1, <2>2, <2>3, <3>1 DEF Unmoved
    <2>4. CASE log[t] = "none"
      <3>1. AtAgent = {}
        BY <1>1, <2>4 DEF AtAgent
      <3> QED
        BY <1>1, <1>3, <2>1, <2>2, <2>4, <3>1 DEF Starts
    <2> QED
      BY <1>1, <2>3, <2>4 DEF Ended, IInv, TypeOK
  <1> QED
    BY <1>4, <1>5

LEMMA WorkingMoves ==
    ASSUME Undisturbed, IInv, AgentInv, NEW t \in Turns,
           SubmitToAgentKit(t) \/ AgentKitStops(t) \/ Resume(t)
    PROVE  Moves /\ UNCHANGED <<rows, active, queue>>
  <1>1. UNCHANGED <<rows, active, queue, submitted>>
    BY DEF SubmitToAgentKit, AgentKitStops, Resume, durable, memory
  <1>2. active.turn = t /\ active.submitted /\ cancelReq = {}
    BY Quiet DEF IInv, BusyInv, SubmitToAgentKit, AgentKitStops, Resume
  <1>3. CASE log' = log
    BY <1>1, <1>3, SameLogs DEF Moves, SameIdsOn
  <1>4. \/ log' = log
        \/ /\ ~Ended(t)
           /\ \E s \in {"running", "waiting"} \union Terminal : Logged(t, s)
    <2>1. CASE SubmitToAgentKit(t)
      BY <1>2, <2>1 DEF SubmitToAgentKit, agentkit, Ended, Terminal
    <2>2. CASE AgentKitStops(t)
      BY <1>2, <2>2, TurnsAssumption DEF AgentKitStops, agentkit, Ended, Terminal
    <2>3. CASE Resume(t)
      BY <1>2, <2>3 DEF Resume, agentkit, Ended, Terminal
    <2> QED
      BY <2>1, <2>2, <2>3
  <1> QED
    BY <1>1, <1>2, <1>3, <1>4, Logging DEF Moves

\* A step that keeps the rows, the logs and what memory holds.
LEMMA Resting ==
    ASSUME Undisturbed, IInv, HeldInv, UNCHANGED <<rows, log, submitted, queue>>,
           active'.turn \in {active.turn, NoTurn}
    PROVE  Moves /\ HeldInv'
  <1>1. Unmoved
    BY SameLogs DEF SameIdsOn
  <1>2. In(queue') = In(queue) /\ InHand' \subseteq InHand
    BY DEF InHand
  <1> QED
    BY <1>1, <1>2 DEF Moves, HeldInv

LEMMA EveryStepMoves ==
    ASSUME Undisturbed, IInv, HeldInv, AgentInv, [Next]_vars
    PROVE  Moves /\ HeldInv'
  <1>1. /\ AutoTurns = {} /\ UserTurns = Turns /\ canceller = NoCancel /\ detached = {}
        /\ finish.cancel = "none" /\ ~(cancels < MaxCancels)
    BY Quiet
  <1>2. ASSUME NEW t \in UserTurns, StartTaskTurn(t)
        PROVE  Moves /\ HeldInv'
    <2>1. Joins(t)
      BY <1>2, Submitting
    <2>2. In(queue') \union InHand' \subseteq In(queue) \union InHand \union {t}
      <3>1. t \in Turns \ submitted /\ MemoryEnqueue(t)
        BY <1>1, <1>2 DEF StartTaskTurn
      <3> QED
        BY <3>1, Enqueueing, EmptyQueue DEF InHand, Prepared, NoActive
    <2>3. Present(rows') = Present(rows) \union {t}
      <3>1. rows' = [rows EXCEPT ![t] = Queued(nextId)] /\ t \in Turns
        BY <1>1, <1>2 DEF StartTaskTurn
      <3> QED
        BY <3>1, OpenRows DEF Present, Queued
    <2> QED
      BY <1>1, <2>1, <2>2, <2>3 DEF Moves, HeldInv
  <1>3. ASSUME NEW t \in Turns, ActivateTurnWorker(t) \/ ActivationInterrupted(t)
        PROVE  Moves /\ HeldInv'
    BY <1>3, Activating, ActivationFailing, ActivatingMoves DEF Moves
  <1>4. ASSUME NEW next \in Turns \union {NoTurn}, FinishAndActivateNext(next)
        PROVE  Moves /\ HeldInv'
    BY <1>4, AcknowledgingMoves DEF Moves
  <1>5. ASSUME CrashAndRestart
        PROVE  Moves /\ HeldInv'
    BY <1>5, RestartingMoves DEF Moves
  <1>6. ASSUME NEW t \in Turns, SubmitToAgentKit(t) \/ AgentKitStops(t) \/ Resume(t)
        PROVE  Moves /\ HeldInv'
    BY <1>6, WorkingMoves DEF HeldInv, InHand
  <1>7. ASSUME NEW t \in Turns, NEW accepted \in BOOLEAN,
               \/ OpenSession(t) \/ BeginFinish(t) \/ ReportFinish \/ FinishUnacknowledged
               \/ RunFails(t) \/ RunTimesOut(t) \/ Respond(t, accepted) \/ UNCHANGED vars
        PROVE  Moves /\ HeldInv'
    <2>1. UNCHANGED <<rows, log, submitted, queue>>
      BY <1>7 DEF OpenSession, BeginFinish, ReportFinish, FinishUnacknowledged, Finished,
                  RunFails, RunTimesOut, Respond, vars, durable, agentkit, memory
    <2>2. active'.turn \in {active.turn, NoTurn}
      <3>1. active \in [turn : Turns \union {NoTurn}, token : Nat, session : BOOLEAN,
                         cancel : CancelModes, submitted : BOOLEAN, acked : BOOLEAN]
        BY DEF IInv, TypeOK
      <3>2. CASE OpenSession(t)
        BY <3>1, <3>2 DEF OpenSession
      <3>3. CASE BeginFinish(t)
        BY <3>1, <3>3 DEF BeginFinish
      <3>4. CASE FinishUnacknowledged
        BY <3>4 DEF FinishUnacknowledged, NoActive
      <3>5. CASE \/ ReportFinish \/ RunFails(t) \/ RunTimesOut(t) \/ Respond(t, accepted)
                 \/ UNCHANGED vars
        BY <3>5 DEF ReportFinish, RunFails, RunTimesOut, Respond, vars, memory
      <3> QED
        BY <1>7, <3>2, <3>3, <3>4, <3>5
    <2> QED
      BY <2>1, <2>2, Resting
  <1>8. /\ ~FinishCancelled /\ ~Interrupt /\ ~SnapshotSession /\ ~CancelSessionTurn
        /\ ~CheckWaiting /\ ~CancelNode /\ \A t \in Turns : ~DetachedRunStops(t)
    BY <1>1 DEF FinishCancelled, Interrupt, SnapshotSession, CancelSessionTurn, CheckWaiting,
                CancelNode, DetachedRunStops, NoCancel
  <1>9. CASE WorkerStep
    <2>1. CASE \E t \in Turns : SubmitToAgentKit(t) \/ AgentKitStops(t) \/ Resume(t)
      BY <1>6, <2>1
    <2>2. CASE (\E t \in Turns : OpenSession(t) \/ BeginFinish(t)) \/ ReportFinish \/ FinishUnacknowledged
      <3>1. TRUE \in BOOLEAN
        OBVIOUS
      <3>2. finish.turn \in Turns \/ ~(ReportFinish \/ FinishUnacknowledged)
        BY DEF ReportFinish, FinishUnacknowledged, Finishing, IInv, TypeOK
      <3> QED
        BY <1>7, <2>2, <3>1, <3>2
    <2> QED
      BY <1>4, <1>8, <1>9, <2>1, <2>2 DEF WorkerStep
  <1>10. CASE CallerStep
    BY <1>1, <1>3, <1>8, <1>10 DEF CallerStep
  <1>11. CASE UNCHANGED vars
    BY <1>11, Resting DEF vars, durable, agentkit, memory
  <1> QED
    BY <1>1, <1>2, <1>3, <1>5, <1>7, <1>8, <1>9, <1>10, <1>11 DEF Next

\* The agent stays on the first open turn.
LEMMA AgentStays ==
    ASSUME IInv, IInv', AgentInv, Moves
    PROVE  AgentInv'
  <1>1. /\ \A t \in Open : rows[t].id \in Nat
        /\ \A t \in Open' : rows'[t].id \in Nat
    <2>1. \A r : r \in [Turns -> Row] => \A t \in Turns : r[t].id \in Nat
      BY DEF Row
    <2> QED
      BY <2>1 DEF Open, Present, IInv, TypeOK
  <1>2. CASE Unmoved
    BY <1>1, <1>2 DEF Unmoved, SameIdsOn, AgentInv, Least
  <1>3. ASSUME NEW t \in Turns, Joins(t)
        PROVE  AgentInv'
    BY <1>1, <1>3 DEF Joins, SameIdsOn, AgentInv, Least
  <1>4. ASSUME NEW t \in Turns, Starts(t)
        PROVE  AgentInv'
    BY <1>1, <1>4 DEF Starts, SameIdsOn, AgentInv, Least
  <1>5. ASSUME NEW t \in Turns, Leaves(t)
        PROVE  AgentInv'
    BY <1>5 DEF Leaves, AgentInv
  <1> QED
    BY <1>2, <1>3, <1>4, <1>5 DEF Moves

-----------------------------------------------------------------------------
(* The refinement.                                                          *)

\* Pending lists the open turns, and Running is the one at the agent.
LEMMA PendingIsOpen ==
    ASSUME IInv, AgentInv
    PROVE  /\ Pending = InOrder(Open, rows) /\ Open \in SUBSET Turns /\ Numbered(Open, rows)
           /\ Pending \in Seq(Turns) /\ In(Pending) = Open /\ NoRepeats(Pending)
           /\ ById(Pending, rows)
           /\ {Pending[i] : i \in DOMAIN Pending} = Open
           /\ \A t : Least(t) => Pending # <<>> /\ Head(Pending) = t
           /\ AtAgent = {} => Running = NoTurn
           /\ \A t : AtAgent = {t} => Running = t
           /\ AtAgent = {} \/ \E t \in Turns : AtAgent = {t} /\ Least(t)
  <1>1. Pending = InOrder(Open, rows) /\ Open \in SUBSET Turns /\ Numbered(Open, rows)
    BY OpenRows DEF Pending, Open
  <1>2. /\ Pending \in Seq(Turns) /\ In(Pending) = Open /\ NoRepeats(Pending)
        /\ ById(Pending, rows)
    BY <1>1, QueueOfRows
  <1>3. ASSUME NEW t, Least(t)
        PROVE  Pending # <<>> /\ Head(Pending) = t
    <2>1. t \in In(Pending) /\ Pending # <<>>
      BY <1>2, <1>3, EmptyQueue DEF Least
    <2>2. /\ Head(Pending) \in Open /\ Open = In(Tail(Pending)) \union {Head(Pending)}
          /\ \A u \in In(Tail(Pending)) : rows[Head(Pending)].id < rows[u].id
      BY <1>2, <2>1, QueueMoves
    <2>3. /\ rows[t].id <= rows[Head(Pending)].id
          /\ rows[t].id \in Nat /\ rows[Head(Pending)].id \in Nat
      BY <1>3, <2>2, OpenRows DEF Least
    <2>4. t \notin In(Tail(Pending))
      BY <2>2, <2>3
    <2> QED
      BY <1>2, <2>1, <2>2, <2>4
  <1>4. /\ AtAgent = {} => Running = NoTurn
        /\ \A t : AtAgent = {t} => Running = t
    BY DEF Running
  <1>5. AtAgent = {} \/ \E t \in Turns : AtAgent = {t} /\ Least(t)
    <2>1. ASSUME NEW t \in AtAgent
          PROVE  t \in Turns /\ AtAgent = {t} /\ Least(t)
      BY <2>1, OpenRows DEF AgentInv, AtAgent
    <2> QED
      BY <2>1
  <1> QED
    BY <1>1, <1>2, <1>3, <1>4, <1>5 DEF In


\* Turns in the same order make the same list.
LEMMA PendingFrom ==
    ASSUME IInv, NEW q \in Seq(Turns), In(q) = Open', ById(q, rows'), IInv'
    PROVE  Pending' = q
  <1>1. Pending' = InOrder(Open', rows')
    BY DEF Pending, Open
  <1>2. rows' \in [Turns -> Row] /\ InShape(rows', nextId') /\ Open' \in SUBSET Present(rows')
    BY DEF IInv, TypeOK, RowsInv, Open
  <1>3. Numbered(Open', rows') /\ Open' \in SUBSET Turns
    BY <1>2, ShapeNumbers
  <1> QED
    BY <1>1, <1>3, QueueIsRows

\* The first open turn leaves the front of the list.
LEMMA PendingLeaves ==
    ASSUME IInv, AgentInv, IInv', NEW t, Leaves(t)
    PROVE  Pending' = Tail(Pending)
  <1>1. /\ Pending \in Seq(Turns) /\ In(Pending) = Open /\ NoRepeats(Pending)
        /\ ById(Pending, rows) /\ Pending # <<>> /\ Head(Pending) = t
    BY PendingIsOpen DEF Leaves
  <1>2. /\ Tail(Pending) \in Seq(Turns) /\ In(Tail(Pending)) = Open \ {t}
        /\ ById(Tail(Pending), rows)
    BY <1>1, QueueMoves
  <1>3. In(Tail(Pending)) = Open' /\ \A u \in Open' : rows'[u].id = rows[u].id
    BY <1>2 DEF Leaves, SameIdsOn
  <1>4. ById(Tail(Pending), rows')
    BY <1>2, <1>3, SameIds
  <1> QED
    BY <1>2, <1>3, <1>4, PendingFrom

LEMMA PendingStays ==
    ASSUME IInv, AgentInv, IInv', Open' = Open, SameIdsOn(Open)
    PROVE  Pending' = Pending
  <1>1. Pending \in Seq(Turns) /\ In(Pending) = Open /\ ById(Pending, rows)
    BY PendingIsOpen
  <1>2. ById(Pending, rows')
    BY <1>1, SameIds DEF SameIdsOn
  <1> QED
    BY <1>1, <1>2, PendingFrom

\* A turn that joins goes behind the others.
LEMMA PendingJoins ==
    ASSUME IInv, AgentInv, IInv', NEW t \in Turns, Joins(t)
    PROVE  Pending' = Append(Pending, t)
  <1>1. Pending \in Seq(Turns) /\ In(Pending) = Open /\ ById(Pending, rows)
    BY PendingIsOpen
  <1>2. ById(Pending, rows') /\ \A u \in In(Pending) : rows'[u].id < rows'[t].id
    BY <1>1, SameIds DEF Joins, SameIdsOn
  <1>3. /\ Append(Pending, t) \in Seq(Turns) /\ In(Append(Pending, t)) = Open'
        /\ ById(Append(Pending, t), rows')
    BY <1>1, <1>2, QueueGrows DEF Joins
  <1> QED
    BY <1>3, PendingFrom

TInv == IInv /\ HeldInv /\ AgentInv

LEMMA TInvHolds == Undisturbed => (Spec => []TInv)
  <1> SUFFICES ASSUME Undisturbed
               PROVE  Spec => []TInv
    OBVIOUS
  <1>1. Init => TInv
    <2> SUFFICES ASSUME Init
                 PROVE  TInv
      OBVIOUS
    <2>1. /\ In(queue) = {} /\ InHand = {} /\ AtAgent = {}
      BY EmptyQueue DEF Init, InHand, NoActive, AtAgent
    <2> QED
      BY <2>1, Inits DEF TInv, HeldInv, AgentInv
  <1>2. TInv /\ [Next]_vars => TInv'
    BY NextKeeps, EveryStepMoves, AgentStays DEF TInv
  <1> QED
    BY <1>1, <1>2, PTL DEF Spec

Over == submitted \ {Pending[i] : i \in DOMAIN Pending}

LEMMA MovesRefine ==
    ASSUME TInv, TInv', Moves
    PROVE  [Contract!Next]_(Contract!vars)
  <1>1. /\ {Pending[i] : i \in DOMAIN Pending} = Open /\ Over = submitted \ Open
        /\ Open \subseteq submitted /\ Contract!Members(Pending) = Open
    BY PendingIsOpen, OpenRows DEF TInv, Over, Contract!Members
  <1>2. Over' = submitted' \ Open'
    <2>1. \A q : {q[i] : i \in DOMAIN q} = In(q)
      BY DEF In
    <2>2. In(Pending') = Open'
      <3>1. Pending' = InOrder(Open', rows')
        BY DEF Pending, Open
      <3>2. rows' \in [Turns -> Row] /\ InShape(rows', nextId') /\ Open' \in SUBSET Present(rows')
        BY DEF TInv, IInv, TypeOK, RowsInv, Open
      <3>3. Numbered(Open', rows') /\ Open' \in SUBSET Turns
        BY <3>2, ShapeNumbers
      <3> QED
        BY <3>1, <3>3, QueueOfRows
    <2> QED
      BY <2>1, <2>2 DEF Over
  <1>3. CASE Unmoved
    <2>1. Pending' = Pending
      BY <1>3, PendingStays DEF TInv, Unmoved
    <2>2. Running' = Running /\ Over' = Over
      BY <1>1, <1>2, <1>3 DEF Unmoved, Running
    <2> QED
      BY <2>1, <2>2 DEF Contract!vars, Over
  <1>4. ASSUME NEW t \in Turns, Joins(t)
        PROVE  Contract!Submit(t)
    <2>1. Pending' = Append(Pending, t)
      BY <1>4, PendingJoins DEF TInv
    <2>2. Running' = Running /\ Over' = Over /\ t \notin Over \union Open
      BY <1>1, <1>2, <1>4 DEF Joins, Running
    <2> QED
      BY <1>1, <2>1, <2>2 DEF Contract!Submit, Over
  <1>5. ASSUME NEW t \in Turns, Starts(t)
        PROVE  Contract!Start
    <2>1. Pending' = Pending /\ Pending # <<>> /\ Head(Pending) = t /\ Running = NoTurn
      BY <1>5, PendingStays, PendingIsOpen DEF TInv, Starts
    <2>2. Running' = t
      BY <1>5 DEF Starts, Running
    <2>3. Over' = Over
      BY <1>1, <1>2, <1>5 DEF Starts
    <2> QED
      BY <2>1, <2>2, <2>3 DEF Contract!Start, Over
  <1>6. ASSUME NEW t \in Turns, Leaves(t)
        PROVE  Contract!End
    <2>1. Pending' = Tail(Pending) /\ Pending # <<>> /\ Head(Pending) = t
      BY <1>6, PendingLeaves, PendingIsOpen DEF TInv, Leaves
    <2>2. Running \in {NoTurn, t}
      BY <1>6, PendingIsOpen DEF TInv, Leaves
    <2>3. Running' = NoTurn
      BY <1>6 DEF Leaves, Running
    <2>4. Over' = Over \union {t}
      BY <1>1, <1>2, <1>6 DEF Leaves, Least
    <2> QED
      BY <2>1, <2>2, <2>3, <2>4 DEF Contract!End, Over
  <1> QED
    BY <1>3, <1>4, <1>5, <1>6 DEF Moves, Contract!Next

\* The turns of the task are an implementation of TaskTurns: one at a time,
\* in the order of submission, and once, through every failure of hooks,
\* workers and transactions and through crashes, if only the user sends turns,
\* nothing is cancelled and no wait times out.
THEOREM Implements == Undisturbed => (Spec => ImplementsTaskTurns)
  <1> SUFFICES ASSUME Undisturbed
               PROVE  Spec => ImplementsTaskTurns
    OBVIOUS
  <1>1. Init => Contract!Init
    <2> SUFFICES ASSUME Init
                 PROVE  Contract!Init
      OBVIOUS
    <2>1. Present(rows) = {} /\ AtAgent = {} /\ Open = {} /\ submitted = {}
      BY DEF Init, Present, Absent, AtAgent, Open
    <2>2. IInv /\ AgentInv
      BY <2>1, Inits DEF AgentInv
    <2>3. Pending = <<>> /\ Running = NoTurn
      BY <2>1, <2>2, PendingIsOpen, EmptyQueue
    <2> QED
      BY <2>1, <2>3 DEF Contract!Init
  <1>2. TInv /\ TInv' /\ [Next]_vars => [Contract!Next]_(Contract!vars)
    BY EveryStepMoves, MovesRefine DEF TInv
  <1> QED
    BY <1>1, <1>2, TInvHolds, PTL DEF Spec, ImplementsTaskTurns, Contract!Spec
=============================================================================

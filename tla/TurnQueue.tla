----------------------------- MODULE TurnQueue -----------------------------
(***************************************************************************)
(* The turns of one task in the desktop application: the in-memory slot    *)
(* and queue (DesktopAgentRuntime), the durable rows (TurnRows), the       *)
(* workers that carry a turn through AgentKit, the user's and the          *)
(* automations' calls, and a crash with the recovery that follows it.      *)
(*                                                                         *)
(* Everything the code does between taking and releasing turn_submission   *)
(* is one action.  AgentKit is external: its log keeps the last TurnState  *)
(* of every turn.                                                          *)
(***************************************************************************)
EXTENDS TurnRows, SequencesExt

CONSTANTS UserTurns,      \* turns sent with start_task_turn
          AutoTurns,      \* turns of automation agent nodes, one node each
          Outcomes,       \* how an AgentKit run may stop
          Faults,         \* "hook": a prompt hook or the set-up of a run fails
                          \* "executor": the worker cannot be started
                          \* "storage": a transaction on the rows fails
                          \* "deadline": the wait for a run times out
          MaxToken,       \* bound on claims
          MaxCrashes,     \* bound on crashes
          MaxCancels      \* bound on interrupts and cancelled runs

ASSUME TurnsAssumption == /\ Turns = UserTurns \union AutoTurns
                          /\ UserTurns \intersect AutoTurns = {}
                          /\ Outcomes \subseteq {"completed", "failed", "waiting"}
                          /\ Faults \subseteq {"hook", "executor", "storage", "deadline"}
                          /\ {MaxToken, MaxCrashes, MaxCancels} \subseteq Nat

VARIABLES
    \* survives a crash
    rows, nextId, nextToken,
    log,        \* AgentKit's last TurnState of each turn
    last,       \* the turn of the session's last TurnState
    node,       \* the agent node of each automation turn
    \* DesktopAgentRuntime
    active, queue,
    \* threads
    starting,   \* turns whose activate_turn_worker call is still to come
    worker,     \* where the worker of each turn is
    finish,     \* what begin_finish handed to finish_turn
    canceller,  \* an interrupt or a cancel_automation_agent_turn under way
    cancelReq,  \* pending_turn_cancellations of the native runtime
    detached,   \* AgentKit runs that nobody waits for any more
    \* for the properties and the bounds
    submitted,  \* turns ever accepted
    crashes, cancels

durable == <<rows, nextId, nextToken>>
agentkit == <<log, last>>
memory == <<active, queue>>
bounds == <<crashes, cancels>>
vars == <<durable, agentkit, node, memory, starting, worker, finish, canceller,
          cancelReq, detached, submitted, bounds>>

NoActive == [turn |-> NoTurn, token |-> 0, session |-> FALSE, cancel |-> "none",
             submitted |-> FALSE, acked |-> FALSE]
Prepared(t) == [NoActive EXCEPT !.turn = t]
Restored(t) == [NoActive EXCEPT !.turn = t, !.session = TRUE, !.submitted = TRUE]
Owned(t, k) == [NoActive EXCEPT !.turn = t, !.token = k, !.submitted = TRUE]

NoFinish == [turn |-> NoTurn, cancel |-> "none", token |-> 0, success |-> FALSE,
             reported |-> FALSE]
NoCancel == [turn |-> NoTurn, session |-> FALSE, waiting |-> FALSE, stage |-> "idle",
             mode |-> "none"]

CancelModes == {"none", "user", "automation"}
Terminal == {"completed", "failed", "cancelled"}
Ended(t) == log[t] \in Terminal
InMemory(t) == active.turn = t \/ \E i \in DOMAIN queue : queue[i] = t
PreparedActive(t) == active.turn = t /\ ~active.submitted
WaitingInCheckpoint(t) == last = t /\ log[t] = "waiting"

TypeOK ==
    /\ rows \in [Turns -> Row]
    /\ nextId \in Nat /\ nextToken \in Nat
    /\ log \in [Turns -> {"none", "running", "waiting"} \union Terminal]
    /\ last \in Turns \union {NoTurn}
    /\ node \in [AutoTurns -> {"pending", "running", "waiting", "aborting"}
                              \union {"succeeded", "failed", "cancelled", "orphaned"}]
    /\ active \in [turn : Turns \union {NoTurn}, token : Nat, session : BOOLEAN,
                   cancel : CancelModes, submitted : BOOLEAN, acked : BOOLEAN]
    /\ queue \in Seq(Turns)
    /\ starting \subseteq Turns
    /\ worker \in [Turns -> {"none", "claimed", "opened", "running", "resumed", "approving",
                             "denying", "returning", "finishing"}]
    /\ finish \in [turn : Turns \union {NoTurn}, cancel : CancelModes, token : Nat,
                   success : BOOLEAN, reported : BOOLEAN]
    /\ canceller \in [turn : Turns \union {NoTurn}, session : BOOLEAN, waiting : BOOLEAN,
                      stage : {"idle", "snapshot", "session", "check", "node"}, mode : CancelModes]
    /\ cancelReq \subseteq Turns /\ detached \subseteq Turns
    /\ submitted \subseteq Turns
    /\ crashes \in 0 .. MaxCrashes /\ cancels \in 0 .. MaxCancels

Init ==
    /\ rows = [t \in Turns |-> Absent] /\ nextId = 1 /\ nextToken = 1
    /\ log = [t \in Turns |-> "none"] /\ last = NoTurn
    /\ node = [t \in AutoTurns |-> "pending"]
    /\ active = NoActive /\ queue = <<>>
    /\ starting = {}
    /\ worker = [t \in Turns |-> "none"]
    /\ finish = NoFinish /\ canceller = NoCancel /\ cancelReq = {} /\ detached = {}
    /\ submitted = {}
    /\ crashes = 0 /\ cancels = 0

-----------------------------------------------------------------------------
(* Submission and activation.                                              *)

\* enqueue_with_turn_id for a new turn id: an idle task takes the turn as its
\* prepared active one, any other queues it.
Idle == active.turn = NoTurn /\ queue = <<>>

\* Mutant: a new turn goes to the front of the queue.
MemoryPush(t) ==
    \/ Idle /\ active' = Prepared(t) /\ UNCHANGED queue
    \/ ~Idle /\ queue' = <<t>> \o queue /\ UNCHANGED active

MemoryEnqueue(t) ==
    \/ Idle /\ active' = Prepared(t) /\ UNCHANGED queue
    \/ ~Idle /\ queue' = Append(queue, t) /\ UNCHANGED active

\* start_task_turn: the row first, then the memory, under turn_submission;
\* the caller goes on to activate_turn_worker if the task was idle.
StartTaskTurn(t) ==
    /\ t \in UserTurns \ submitted
    /\ rows' = [rows EXCEPT ![t] = Queued(nextId)]
    /\ nextId' = nextId + 1
    /\ MemoryEnqueue(t)
    /\ starting' = IF Idle THEN starting \union {t} ELSE starting
    /\ submitted' = submitted \union {t}
    /\ UNCHANGED <<nextToken, agentkit, node, worker, finish, canceller, cancelReq, detached,
                   bounds>>

\* start_task_turn_idempotent for an agent node: memory only, no row yet.
StartAgent(t) ==
    /\ node[t] = "pending"
    /\ node' = [node EXCEPT ![t] = "running"]
    /\ MemoryEnqueue(t)
    /\ starting' = IF Idle THEN starting \union {t} ELSE starting
    /\ submitted' = submitted \union {t}
    /\ UNCHANGED <<durable, agentkit, worker, finish, canceller, cancelReq, detached,
                   bounds>>

\* The run records that it waits for the agent.
PersistWaitingAgent(t) ==
    /\ node[t] = "running"
    /\ node' = [node EXCEPT ![t] = "waiting"]
    /\ UNCHANGED <<durable, agentkit, memory, starting, worker, finish, canceller, cancelReq,
                   detached, submitted, bounds>>

\* submit_claimed_turn: execute_turn hands the turn to a worker; when it
\* cannot, the caller goes straight to finish_turn(Failed).
SubmittedWorker == IF "executor" \in Faults THEN {"claimed", "returning"} ELSE {"claimed"}

\* activate_turn_worker, one critical section.  Without a prepared request it
\* is an error; otherwise the row is inserted if it is missing, a queued turn
\* at the head of an idle task is promoted, and the turn is claimed if it is
\* the first row.
ActivationRows(t) ==
    IF rows[t].state = "absent" THEN [rows EXCEPT ![t] = Queued(nextId)] ELSE rows

Promotable(t) == active.turn = NoTurn /\ queue # <<>> /\ Head(queue) = t

ActivationFails(t) ==
    \/ ~InMemory(t)
    \/ /\ active.turn = t \/ Promotable(t)
       /\ ~Claimable(ActivationRows(t), t)
       /\ active.token = 0

ActivateTurnWorker(t) ==
    /\ t \in starting
    /\ t \in AutoTurns => node[t] \notin {"running", "aborting"}
    /\ starting' = starting \ {t}
    /\ IF InMemory(t)
       THEN nextId' = IF rows[t].state = "absent" THEN nextId + 1 ELSE nextId
       ELSE UNCHANGED nextId
    /\ IF Promotable(t)
       THEN queue' = Tail(queue)
       ELSE UNCHANGED queue
    /\ IF InMemory(t) /\ (active.turn = t \/ Promotable(t)) /\ Claimable(ActivationRows(t), t)
       THEN /\ nextToken <= MaxToken
            /\ rows' = Claimed(ActivationRows(t), t, nextToken)
            /\ nextToken' = nextToken + 1
            /\ IF active.turn = t /\ active.submitted
               THEN UNCHANGED <<active, worker>>
               ELSE /\ active' = [Owned(t, nextToken) EXCEPT
                                    !.cancel = IF active.turn = t THEN active.cancel ELSE "none",
                                    !.session = active.turn = t /\ active.session]
                    /\ \E w \in SubmittedWorker : worker' = [worker EXCEPT ![t] = w]
       ELSE /\ rows' = IF InMemory(t) THEN ActivationRows(t) ELSE rows
            /\ active' = IF Promotable(t) THEN Prepared(t) ELSE active
            /\ UNCHANGED <<nextToken, worker>>
    /\ node' = IF t \in AutoTurns /\ ActivationFails(t) /\ node[t] = "waiting"
               THEN [node EXCEPT ![t] = "failed"] ELSE node
    /\ UNCHANGED <<agentkit, finish, canceller, cancelReq, detached, submitted, bounds>>

\* A transaction of activate_turn_worker fails: the insertion of the row, or
\* the claim after it.
ActivationInterrupted(t) ==
    /\ "storage" \in Faults
    /\ t \in starting /\ InMemory(t)
    /\ t \in AutoTurns => node[t] \notin {"running", "aborting"}
    /\ starting' = starting \ {t}
    /\ \/ UNCHANGED <<rows, nextId, memory>>
       \/ /\ rows' = ActivationRows(t)
          /\ nextId' = IF rows[t].state = "absent" THEN nextId + 1 ELSE nextId
          /\ IF Promotable(t)
             THEN active' = Prepared(t) /\ queue' = Tail(queue)
             ELSE UNCHANGED memory
    /\ node' = IF t \in AutoTurns /\ node[t] = "waiting"
               THEN [node EXCEPT ![t] = "failed"] ELSE node
    /\ UNCHANGED <<nextToken, agentkit, worker, finish, canceller, cancelReq, detached,
                   submitted, bounds>>

-----------------------------------------------------------------------------
(* The worker of a turn.                                                   *)

At(t, w) == worker' = [worker EXCEPT ![t] = w]

\* Mutant: attach_session's report of an earlier cancellation is dropped.
OpenSessionUncancelled(t) ==
    /\ worker[t] = "claimed"
    /\ active' = IF active.turn = t THEN [active EXCEPT !.session = TRUE] ELSE active
    /\ At(t, IF active.turn = t THEN "opened" ELSE "none")
    /\ UNCHANGED <<durable, agentkit, node, queue, starting, finish, canceller, cancelReq,
                   detached, submitted, bounds>>

\* run_prepared_turn up to attach_session; a cancellation that came first is
\* passed on to AgentKit, which keeps it until the run registers.
OpenSession(t) ==
    /\ worker[t] = "claimed"
    /\ IF active.turn = t
       THEN /\ active' = [active EXCEPT !.session = TRUE]
            /\ cancelReq' = IF active.cancel = "none" THEN cancelReq ELSE cancelReq \union {t}
            /\ At(t, "opened")
       ELSE At(t, "none") /\ UNCHANGED <<active, cancelReq>>
    /\ UNCHANGED <<durable, agentkit, node, queue, starting, finish, canceller, detached,
                   submitted, bounds>>

\* Setting up the run fails: run_turn_worker finishes the turn.
RunFails(t) ==
    /\ "hook" \in Faults
    /\ worker[t] \in {"claimed", "opened"}
    /\ At(t, "returning")
    /\ UNCHANGED <<durable, agentkit, node, memory, starting, finish, canceller, cancelReq,
                   detached, submitted, bounds>>

Logged(t, status) == /\ log' = [log EXCEPT ![t] = status]
                     /\ last' = t

\* submit_turn_with_context_streaming: a turn that already ended or waits is
\* answered from its transcript; a pending cancellation ends the run at once.
\* AgentKit may refuse a turn while another one of its session is open.
SubmitToAgentKit(t) ==
    /\ worker[t] = "opened"
    /\ \/ /\ Ended(t)
          /\ At(t, "returning")
          /\ UNCHANGED <<agentkit, cancelReq>>
       \/ /\ log[t] = "waiting"
          /\ At(t, "none")
          /\ UNCHANGED <<agentkit, cancelReq>>
       \/ /\ \E u \in Turns \ {t} : log[u] = "waiting" \/ u \in detached
          /\ At(t, "returning")
          /\ UNCHANGED <<agentkit, cancelReq>>
       \/ /\ log[t] \in {"none", "running"}
          /\ IF t \in cancelReq
             THEN Logged(t, "cancelled") /\ At(t, "returning")
             ELSE Logged(t, "running") /\ At(t, "running")
          /\ cancelReq' = cancelReq \ {t}
    /\ UNCHANGED <<durable, node, memory, starting, finish, canceller, detached, submitted,
                   bounds>>

\* The run stops and its page is handled: a waiting turn gives its worker
\* back, any other goes to finish_turn.
AgentKitStops(t) ==
    /\ worker[t] \in {"running", "resumed"}
    /\ \/ log[t] = "cancelled" /\ At(t, "returning") /\ UNCHANGED agentkit
       \/ /\ log[t] = "running"
          /\ \E o \in Outcomes : /\ Logged(t, o)
                                 /\ At(t, IF o = "waiting" THEN "none" ELSE "returning")
    /\ cancelReq' = cancelReq \ {t}
    /\ UNCHANGED <<durable, node, memory, starting, finish, canceller, detached, submitted,
                   bounds>>

\* TASK_TIMEOUT: the caller stops waiting, AgentKit goes on.  A submitted
\* turn fails; one that was resumed is only shown as waiting again.
RunTimesOut(t) ==
    /\ "deadline" \in Faults
    /\ worker[t] \in {"running", "resumed"}
    /\ At(t, IF worker[t] = "running" THEN "returning" ELSE "none")
    /\ detached' = IF log[t] = "running" THEN detached \union {t} ELSE detached
    /\ cancelReq' = cancelReq \ {t}
    /\ UNCHANGED <<durable, agentkit, node, memory, starting, finish, canceller, submitted,
                   bounds>>

DetachedRunStops(t) ==
    /\ t \in detached
    /\ detached' = detached \ {t}
    /\ \E o \in Outcomes : Logged(t, o)
    /\ UNCHANGED <<durable, node, memory, starting, worker, finish, canceller, cancelReq,
                   submitted, bounds>>

\* Mutant: the answer is taken for any waiting turn, active or not.
RespondToAny(t, accepted) ==
    /\ WaitingInCheckpoint(t)
    /\ worker[t] = "none"
    /\ At(t, IF accepted THEN "approving" ELSE "denying")
    /\ UNCHANGED <<durable, agentkit, node, memory, starting, finish, canceller, cancelReq,
                   detached, submitted, bounds>>

\* respond_task_approval / respond_task_interaction of a waiting turn
Respond(t, accepted) ==
    /\ WaitingInCheckpoint(t)
    /\ active.turn = t
    /\ worker[t] = "none"
    /\ At(t, IF accepted THEN "approving" ELSE "denying")
    /\ UNCHANGED <<durable, agentkit, node, memory, starting, finish, canceller, cancelReq,
                   detached, submitted, bounds>>

\* Mutant: an answer resumes its turn whether or not it still waits.
ResumeAnything(t) ==
    /\ worker[t] \in {"approving", "denying"}
    /\ \/ worker[t] = "approving" /\ Logged(t, "running") /\ At(t, "resumed")
       \/ worker[t] = "denying" /\ Logged(t, "cancelled") /\ At(t, "returning")
    /\ UNCHANGED <<durable, node, memory, starting, finish, canceller, cancelReq, detached,
                   submitted, bounds>>

\* run_approval_resume / run_interaction_resume: AgentKit refuses an answer
\* to a turn that no longer waits, and then nothing is finished.
Resume(t) ==
    /\ worker[t] \in {"approving", "denying"}
    /\ \/ log[t] # "waiting" /\ At(t, "none") /\ UNCHANGED agentkit
       \/ /\ log[t] = "waiting" /\ worker[t] = "approving"
          /\ IF t \in cancelReq
             THEN Logged(t, "cancelled") /\ At(t, "returning")
             ELSE Logged(t, "running") /\ At(t, "resumed")
       \/ /\ log[t] = "waiting" /\ worker[t] = "denying"
          /\ Logged(t, "cancelled") /\ At(t, "returning")
    /\ cancelReq' = IF log[t] = "waiting" THEN cancelReq \ {t} ELSE cancelReq
    /\ UNCHANGED <<durable, node, memory, starting, finish, canceller, detached, submitted,
                   bounds>>

-----------------------------------------------------------------------------
(* finish_turn.                                                            *)

\* begin_finish lets one caller through and takes a snapshot that the rest of
\* finish_turn works from; a turn that is not active any more is dropped.
BeginFinish(t) ==
    /\ worker[t] = "returning"
    /\ IF active.turn = t /\ ~active.acked
       THEN /\ active' = [active EXCEPT !.acked = TRUE]
            /\ \E success \in IF log[t] # "completed" THEN {FALSE}
                              ELSE IF active.cancel = "none" THEN {TRUE} ELSE BOOLEAN :
                  finish' = [turn |-> t, cancel |-> active.cancel, token |-> active.token,
                             success |-> success, reported |-> FALSE]
            /\ At(t, "finishing")
       ELSE At(t, "none") /\ UNCHANGED <<active, finish>>
    /\ UNCHANGED <<durable, agentkit, node, queue, starting, canceller, cancelReq, detached,
                   submitted, bounds>>

\* Stop hooks, then complete_automation_agent_turn unless the run itself is
\* being cancelled.  A node that does not wait yet is not found, and the
\* completion is lost.
ReportFinish ==
    /\ finish.turn # NoTurn
    /\ ~finish.reported
    /\ finish' = [finish EXCEPT !.reported = TRUE]
    /\ node' = IF /\ finish.turn \in AutoTurns
                  /\ finish.cancel # "automation"
                  /\ node[finish.turn] = "waiting"
               THEN [node EXCEPT ![finish.turn] =
                        IF finish.success THEN "succeeded" ELSE "failed"]
               ELSE node
    /\ UNCHANGED <<durable, agentkit, memory, starting, worker, canceller, cancelReq, detached,
                   submitted, bounds>>

Finishing == finish.turn # NoTurn /\ finish.reported

Finished == /\ finish' = NoFinish
            /\ UNCHANGED <<nextId, agentkit, node, starting, canceller, cancelReq, detached,
                           submitted, bounds>>

\* Mutant: the owner of the row is refused.
ClearsTaskOfNobody(t, k) == rows[t].state = "absent" /\ k = 0

\* A user cancelled the turn: every row of the task and the queue go.
\* cancel_claim_and_clear_task refuses a caller that lost the row, and then
\* only the slot is emptied.
ClearsTask(t, k) == IF rows[t].state = "absent" THEN k = 0
                    ELSE k # 0 /\ OwnsClaim(rows, t, k)

FinishCancelled ==
    /\ Finishing /\ finish.cancel = "user"
    /\ active' = NoActive
    /\ \/ /\ ClearsTask(finish.turn, finish.token)
          /\ rows' = Without(rows, Turns)
          /\ queue' = <<>>
       \/ /\ ~ClearsTask(finish.turn, finish.token) \/ "storage" \in Faults
          /\ UNCHANGED <<rows, queue>>
    /\ At(finish.turn, "none")
    /\ UNCHANGED nextToken
    /\ Finished

\* Mutant: the acknowledgement deletes every row.
RemainingNone == Without(rows, Turns)

\* The rows left when the finished one is acknowledged.
Remaining == IF finish.token = 0 THEN rows ELSE Without(rows, {finish.turn})
CanAck == /\ finish.token = 0 \/ OwnsClaim(rows, finish.turn, finish.token)
          /\ ~FirstIsClaimed(Remaining)

ExpectedNext == IF queue = <<>> THEN NoTurn ELSE Head(queue)

\* ack_and_claim_next fails: the slot is emptied and the queue stays.
FinishUnacknowledged ==
    /\ Finishing /\ finish.cancel # "user"
    /\ ~CanAck \/ "storage" \in Faults
    /\ active' = NoActive
    /\ At(finish.turn, "none")
    /\ UNCHANGED <<rows, nextToken, queue>>
    /\ Finished

\* The next turn is claimed and submitted, if memory and rows agree on it; if
\* they do not, the slot is emptied and the durable claim is left to nobody.
FinishAndActivateNext(next) ==
    /\ Finishing /\ finish.cancel # "user"
    /\ CanAck
    /\ nextToken <= MaxToken
    /\ ClaimsFirst(Remaining, nextToken, rows', next)
    /\ nextToken' = IF next = NoTurn THEN nextToken ELSE nextToken + 1
    /\ \/ /\ next # ExpectedNext
          /\ active' = NoActive
          /\ At(finish.turn, "none")
          /\ UNCHANGED queue
       \/ /\ next = ExpectedNext
          /\ next = NoTurn
          /\ active' = NoActive
          /\ At(finish.turn, "none")
          /\ UNCHANGED queue
       \/ /\ next = ExpectedNext
          /\ next # NoTurn
          /\ active' = Owned(next, nextToken)
          /\ queue' = Tail(queue)
          /\ \E w \in SubmittedWorker :
                worker' = [worker EXCEPT ![finish.turn] = "none", ![next] = w]
    /\ Finished

-----------------------------------------------------------------------------
(* Cancellation.                                                           *)

\* discard_prepared_turn.  Its transaction fails, and nothing changes, when
\* the turn is claimed or another turn is; and when memory and rows disagree
\* on the next turn, that turn is left prepared with nobody to start it.
DiscardFails(t) ==
    \/ rows[t].state = "claimed"
    \/ PreparedActive(t) /\ FirstIsClaimed(Without(rows, {t}))

\* The queue without t, which is in it at most once.
Dequeued(t) == IF \E i \in DOMAIN queue : queue[i] = t
               THEN RemoveAt(queue, CHOOSE i \in DOMAIN queue : queue[i] = t) ELSE queue

Discard(t) ==
    IF DiscardFails(t)
    THEN UNCHANGED <<rows, nextToken, memory, worker>>
    ELSE IF PreparedActive(t)
    THEN \E next \in Turns \union {NoTurn} :
            /\ nextToken <= MaxToken
            /\ ClaimsFirst(Without(rows, {t}), nextToken, rows', next)
            /\ nextToken' = IF next = NoTurn THEN nextToken ELSE nextToken + 1
            /\ queue' = IF queue = <<>> THEN queue ELSE Tail(queue)
            /\ IF next = ExpectedNext /\ next # NoTurn
               THEN /\ active' = Owned(next, nextToken)
                    /\ \E w \in SubmittedWorker : At(next, w)
               ELSE /\ active' = IF queue = <<>> THEN NoActive ELSE Prepared(Head(queue))
                    /\ UNCHANGED worker
    ELSE /\ rows' = Without(rows, {t})
         /\ queue' = Dequeued(t)
         /\ UNCHANGED <<nextToken, active, worker>>

\* interrupt_task_turn: request_cancel
Interrupt ==
    /\ cancels < MaxCancels
    /\ canceller = NoCancel
    /\ active.turn # NoTurn
    /\ cancels' = cancels + 1
    /\ active' = [active EXCEPT !.cancel = "user"]
    /\ canceller' = [turn |-> active.turn, session |-> active.session, waiting |-> FALSE,
                     stage |-> "snapshot", mode |-> "user"]
    /\ UNCHANGED <<durable, agentkit, node, queue, starting, worker, finish, cancelReq,
                   detached, submitted, crashes>>

\* cancel_automation_run up to the agent turn: a turn that is prepared or
\* queued is discarded, a submitted one is asked to stop.
CancelRun(t) ==
    /\ cancels < MaxCancels
    /\ canceller = NoCancel
    /\ cancels' = cancels + 1
    /\ \/ /\ node[t] = "running"          \* no waiting node to cancel yet
          /\ node' = [node EXCEPT ![t] = "aborting"]
          /\ UNCHANGED <<rows, nextToken, memory, worker, canceller>>
       \/ /\ node[t] = "waiting" /\ InMemory(t)
          /\ ~(active.turn = t /\ active.submitted)
          /\ Discard(t)
          /\ node' = IF DiscardFails(t) THEN node ELSE [node EXCEPT ![t] = "cancelled"]
          /\ UNCHANGED canceller
       \/ /\ node[t] = "waiting" /\ active.turn = t /\ active.submitted
          /\ active' = [active EXCEPT !.cancel = "automation"]
          /\ canceller' = [turn |-> t, session |-> active.session, waiting |-> FALSE,
                           stage |-> "snapshot", mode |-> "automation"]
          /\ UNCHANGED <<rows, nextToken, queue, node, worker>>
       \/ /\ node[t] = "waiting" /\ ~InMemory(t) /\ log[t] = "cancelled"
          /\ node' = [node EXCEPT ![t] = "cancelled"]
          /\ UNCHANGED <<rows, nextToken, memory, worker, canceller>>
    /\ UNCHANGED <<nextId, agentkit, starting, finish, cancelReq, detached, submitted,
                   crashes>>

\* The run was cancelled before it could record that it waits: abort_agent.
AbortAgent(t) ==
    /\ node[t] = "aborting"
    /\ node' = [node EXCEPT ![t] = "cancelled"]
    /\ starting' = starting \ {t}
    /\ \/ Discard(t)
       \/ "storage" \in Faults /\ UNCHANGED <<rows, nextToken, memory, worker>>
    /\ UNCHANGED <<nextId, agentkit, finish, canceller, cancelReq, detached, submitted,
                   bounds>>

\* cancel_session_turn, if the turn had a session, reads the log first ...
SnapshotSession ==
    /\ canceller.stage = "snapshot"
    /\ canceller' = [canceller EXCEPT !.stage = "session",
                                      !.waiting = log[canceller.turn] = "waiting"]
    /\ UNCHANGED <<durable, agentkit, node, memory, starting, worker, finish, cancelReq,
                   detached, submitted, bounds>>

\* ... and then acts on what it read: a registered run is
\* cancelled, a turn that was waiting in the snapshot is closed, any other
\* cancellation is kept for a run that registers later.
CancelSessionTurn ==
    /\ canceller.stage = "session"
    /\ canceller' = [canceller EXCEPT !.stage = "check"]
    /\ LET t == canceller.turn IN
       IF ~canceller.session THEN UNCHANGED <<agentkit, cancelReq>>
       ELSE IF worker[t] \in {"running", "resumed"} \/ canceller.waiting
            THEN /\ Logged(t, "cancelled")
                 /\ UNCHANGED cancelReq
            ELSE /\ cancelReq' = cancelReq \union {t}
                 /\ UNCHANGED agentkit
    /\ UNCHANGED <<durable, node, memory, starting, worker, finish, detached, submitted,
                   bounds>>

\* turn_is_waiting_in_checkpoint: only a turn that still waits is finished
\* here; any other is left to its worker.
CheckWaiting ==
    /\ canceller.stage = "check"
    /\ worker' = IF WaitingInCheckpoint(canceller.turn) /\ worker[canceller.turn] = "none"
                 THEN [worker EXCEPT ![canceller.turn] = "returning"] ELSE worker
    /\ canceller' = IF canceller.mode = "automation"
                    THEN [canceller EXCEPT !.stage = "node"] ELSE NoCancel
    /\ UNCHANGED <<durable, agentkit, node, memory, starting, finish, cancelReq, detached,
                   submitted, bounds>>

\* cancel_run: refused when the run already ended.
CancelNode ==
    /\ canceller.stage = "node"
    /\ canceller' = NoCancel
    /\ node' = IF node[canceller.turn] = "waiting"
               THEN [node EXCEPT ![canceller.turn] = "cancelled"] ELSE node
    /\ UNCHANGED <<durable, agentkit, memory, starting, worker, finish, cancelReq, detached,
                   submitted, bounds>>

-----------------------------------------------------------------------------
(* A crash loses the memory and every thread.  The next process restores   *)
(* the turn that waits in its session as the active one                    *)
(* (restore_task_runtime_from_projection) and requeues the other rows      *)
(* (restore_persisted_turn_queue).  Nothing resumes the automation runs    *)
(* that were executing.                                                    *)

\* Turns in the order of their rows' ids, ORDER BY id ASC
InOrder(S, r) == CHOOSE s \in [1 .. Cardinality(S) -> S] :
                   \A i, j \in DOMAIN s : i < j => r[s[i]].id < r[s[j]].id
ByOrder(r) == InOrder(Present(r), r)

RestoredTurn == IF last # NoTurn /\ log[last] = "waiting" THEN last ELSE NoTurn

\* Mutant: a turn that waits counts as ended.
DoneOrWaiting == {t \in Turns : log[t] \in Terminal \union {"waiting"}}

\* The rows of turns that ended are not requeued.
Done == {t \in Turns \ {RestoredTurn} : Ended(t)}

\* prepare_recovery, the removal of the rows that ended, and the claim of the
\* restored turn.
CrashAndRestart ==
    /\ crashes < MaxCrashes
    /\ nextToken <= MaxToken
    /\ crashes' = crashes + 1
    /\ Recoverable(rows, RestoredTurn)
    /\ LET recovered == Recovered(rows, RestoredTurn, nextToken)
           kept == Without(recovered, Done)
           claimed == RestoredTurn \in Present(rows)
           others == InOrder(Present(kept) \ {RestoredTurn}, kept)
       IN /\ rows' = kept
          /\ nextToken' = IF claimed THEN nextToken + 1 ELSE nextToken
          /\ IF RestoredTurn = NoTurn
             THEN IF others = <<>>
                  THEN active' = NoActive /\ queue' = <<>> /\ starting' = {}
                  ELSE /\ active' = Prepared(Head(others))
                       /\ queue' = Tail(others)
                       /\ starting' = {Head(others)}
             ELSE /\ active' = [Restored(RestoredTurn) EXCEPT
                                  !.token = IF claimed THEN nextToken ELSE 0]
                  /\ queue' = others
                  /\ starting' = {}
    /\ worker' = [t \in Turns |-> "none"]
    /\ finish' = NoFinish
    /\ canceller' = NoCancel
    /\ cancelReq' = {} /\ detached' = {}
    /\ node' = [t \in AutoTurns |-> CASE node[t] = "running" -> "orphaned"
                                      [] node[t] = "aborting" -> "cancelled"
                                      [] OTHER -> node[t]]
    /\ UNCHANGED <<nextId, agentkit, submitted, cancels>>

-----------------------------------------------------------------------------
WorkerStep ==
    \/ \E t \in Turns : \/ OpenSession(t)
                        \/ SubmitToAgentKit(t)
                        \/ AgentKitStops(t)
                        \/ Resume(t)
                        \/ BeginFinish(t)
    \/ ReportFinish
    \/ FinishCancelled
    \/ FinishUnacknowledged
    \/ \E next \in Turns \union {NoTurn} : FinishAndActivateNext(next)

CallerStep ==
    \/ \E t \in Turns : ActivateTurnWorker(t)
    \/ \E t \in AutoTurns : PersistWaitingAgent(t) \/ AbortAgent(t)
    \/ SnapshotSession
    \/ CancelSessionTurn
    \/ CheckWaiting
    \/ CancelNode

Next ==
    \/ WorkerStep
    \/ CallerStep
    \/ \E t \in UserTurns : StartTaskTurn(t)
    \/ \E t \in AutoTurns : StartAgent(t) \/ CancelRun(t)
    \/ \E t \in Turns : \/ RunFails(t)
                        \/ ActivationInterrupted(t)
                        \/ RunTimesOut(t)
                        \/ DetachedRunStops(t)
    \/ \E t \in Turns, accepted \in BOOLEAN : Respond(t, accepted)
    \/ Interrupt
    \/ CrashAndRestart

Spec == Init /\ [][Next]_vars

\* The threads that carry calls and turns keep running; users, automations
\* and crashes owe nothing.
Fairness == WF_vars(WorkerStep) /\ WF_vars(CallerStep)
FairSpec == Spec /\ Fairness

-----------------------------------------------------------------------------
(* Properties of a task that only its user sends turns to.                 *)

MemoryOrder == IF active.turn = NoTurn THEN queue ELSE <<active.turn>> \o queue

\* The two queues never diverge: the active turn and the in-memory queue are
\* the durable rows in the order of their ids, through submissions, failed
\* starts, cancellations, acknowledgements and recovery.
QueuesAgree == MemoryOrder = ByOrder(rows)

\* The submitted turn owns its row: the token the application will
\* acknowledge it with is the stored one.
ActiveOwnsItsRow ==
    active.submitted => OwnsClaim(rows, active.turn, active.token)

\* The memory of the application and the durable rows say the same.
MemoryMatchesRows == QueuesAgree /\ ActiveOwnsItsRow

\* AgentKit is never asked to work on two turns of the task at once, and the
\* turn it works on is the one in the active slot.  A late finish_turn of
\* another turn is possible; begin_finish drops it.
OneTurnAtATime ==
    \A t \in Turns : worker[t] \notin {"none", "returning"} => active.turn = t

\* The recovery at start-up never refuses the rows a crash left behind: a
\* turn that waits in its session still has its row, and it is the first.
RecoveryNeverRefuses ==
    RestoredTurn # NoTurn => IsFirst(rows, RestoredTurn)

\* Somebody is at a turn: the user is asked, a caller is about to start it, or
\* its worker has something to do.
Served(t) ==
    \/ log[t] = "waiting"
    \/ t \in starting
    \/ worker[t] \in {"claimed", "opened", "approving", "denying", "returning"}
    \/ worker[t] \in {"running", "resumed"} /\ log[t] = "running"
    \/ worker[t] = "finishing" /\ finish.turn = t

\* No row waits for nobody: while there are rows, one turn has the slot, and
\* somebody is at it.
QueueIsServed ==
    Present(rows) # {} => active.turn # NoTurn /\ Served(active.turn)

\* The queue of a task goes on, before a crash and after it.
QueueNeverStalls == RecoveryNeverRefuses /\ QueueIsServed

\* A turn that ended is never given to the agent again, not even by the
\* recovery after a crash between the end and its acknowledgement.
EndedTurnStaysEnded ==
    [][\A t \in Turns : Ended(t) => log'[t] \in Terminal]_vars

\* The turns of the task are an implementation of TaskTurns: one at a time,
\* in the order of submission.
Pending == InOrder({t \in Present(rows) : ~Ended(t)}, rows)
AtAgent == {t \in Turns : \/ log[t] = "waiting"
                          \/ log[t] = "running" /\ t \in Present(rows)}
Running == IF AtAgent = {} THEN NoTurn ELSE CHOOSE t \in AtAgent : TRUE
Contract == INSTANCE TaskTurns
                WITH Cancellable <- MaxCancels > 0, pending <- Pending, running <- Running,
                     ended <- submitted \ {Pending[i] : i \in DOMAIN Pending}
ImplementsTaskTurns == Contract!Spec

\* memory.md: a turn the user sends while another one runs is queued and then
\* started.  Every turn the user submits ends, or the task comes to wait for
\* the user.
TurnsEnd ==
    \A t \in UserTurns :
        t \in submitted ~> (t \notin Present(rows) \/ \E u \in Turns : log[u] = "waiting")

\* A turn whose automation node ended before the agent was asked to work on
\* it is not started by this process: a cancellation that races with the
\* activation, the opening of the session or the registration of the run
\* still wins.  A crash forgets the cancellations that wait in memory.
EndedNodeNeverStarts ==
    [][\A t \in AutoTurns :
          /\ node[t] \in {"succeeded", "failed", "cancelled"}
          /\ log[t] = "none"
          /\ crashes = 0
          => log'[t] # "running"]_vars

-----------------------------------------------------------------------------
(* What documents and comments say and the code does not do.  A run shows   *)
(* this of CancelledTurnEnds; the README says how the others fail.          *)

\* memory.md: when the current turn ends the scheduler starts the next one,
\* so an idle task has no queue.
IdleHasNoQueue == active.turn = NoTurn => queue = <<>>

\* interrupt_task_turn calls finish_turn for a turn that waits when it is
\* interrupted, so a turn that the user cancelled leaves the active slot.
CancelledTurnEnds ==
    \A t \in Turns : (active.turn = t /\ log[t] = "cancelled") ~> active.turn # t

\* agent-authority-gap.md: the next turn is submitted only after the previous
\* one reached its terminal event.
NextOnlyAfterTerminal ==
    \A t \in Turns : worker[t] = "opened" =>
        \A u \in Turns \ {t} : log[u] \notin {"running", "waiting"}
=============================================================================

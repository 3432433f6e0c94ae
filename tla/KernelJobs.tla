----------------------------- MODULE KernelJobs -----------------------------
(***************************************************************************)
(* Long work in the desktop application: Jobs of lilia-kernel on top of    *)
(* the LiliaJobRuntime of lilia-agent.  A job is submitted by a caller (the*)
(* thread of the user interface), executed by a task of the runtime, and   *)
(* followed by one worker thread that polls.  Every lock is a step of its  *)
(* own, and what a thread announces it announces after it has unlocked.    *)
(*                                                                         *)
(* A job and its ticket have the same number.  The jobs in flight are a    *)
(* set: a pass may poll them in any order, and a lane with several jobs in *)
(* flight gives up any one of them.  Progress reports are one value;       *)
(* outputs and messages are left out.                                      *)
(***************************************************************************)
EXTENDS Naturals, Sequences

CONSTANTS Callers,     \* threads that submit and cancel
          Worker,      \* lilia-kernel-jobs, the polling thread
          Slots, Keys, \* lanes and idempotency keys of a request
          None,        \* no slot, no key
          MaxJobs,     \* bound on submissions
          Retention    \* TERMINAL_RETENTION

ASSUME JobsAssumption == /\ Worker \notin Callers
                         /\ None \notin Slots \union Keys
                         /\ MaxJobs \in Nat /\ Retention \in Nat

VARIABLES
    \* JobsState
    inflight,   \* jobs in flight
    terminals,  \* terminal_order
    state,      \* the JobState of each job
    started,    \* worker_started
    shutdown,
    nextId,
    request,    \* slot and idempotency key of each job
    \* LiliaJobRuntime
    handles,    \* tickets, each with its handle and its JobContext
    flagged,    \* contexts that were asked to cancel
    task,       \* the outcome of each task in Mutsuki's runtime
    \* threads
    caller,     \* where each caller is
    pass,       \* the worker's pass over a snapshot of the jobs in flight
    say,        \* what a thread has still to announce
    said        \* the outcomes announced of each job, oldest first

jobsState == <<inflight, terminals, state, started, shutdown, nextId, request>>
runtime == <<handles, flagged, task>>
announcements == <<say, said>>
vars == <<jobsState, runtime, caller, pass, announcements>>

Jobs == 1 .. MaxJobs
NoJob == 0
Threads == Callers \union {Worker}
Outcomes == {"completed", "failed", "cancelled", "superseded"}
States == {"pending", "running"} \union Outcomes
Places == {"idle", "lane", "supersede", "cancelOld", "submit", "push", "wake", "stop", "settle"}
CallerRecords == [at : Places, job : Jobs \union {NoJob}, slot : Slots \union {None},
                  key : Keys \union {None}]
Silent == [job |-> NoJob, state |-> "pending"]
AtRest == [at |-> "idle", job |-> NoJob, slot |-> None, key |-> None]
NoPass == [todo |-> {}, job |-> NoJob, next |-> "pending"]

TypeOK ==
    /\ inflight \subseteq Jobs /\ terminals \in Seq(Jobs)
    /\ state \in [Jobs -> States \union {"unborn"}]
    /\ started \in BOOLEAN /\ shutdown \in BOOLEAN
    /\ nextId \in 1 .. MaxJobs + 1
    /\ request \in [Jobs -> [slot : Slots \union {None}, key : Keys \union {None}]]
    /\ flagged \subseteq handles /\ handles \subseteq Jobs
    /\ task \in [Jobs -> {"none", "open", "completed", "failed", "cancelled"}]
    /\ caller \in [Callers -> CallerRecords]
    /\ pass \in [todo : SUBSET [job : Jobs, was : States], job : Jobs \union {NoJob},
                 next : States]
    /\ say \in [Threads -> [job : Jobs \union {NoJob}, state : States]]
    /\ said \in [Jobs -> Seq(Outcomes)]

Init ==
    /\ inflight = {} /\ terminals = <<>>
    /\ state = [j \in Jobs |-> "unborn"]
    /\ started = FALSE /\ shutdown = FALSE /\ nextId = 1
    /\ request = [j \in Jobs |-> [slot |-> None, key |-> None]]
    /\ handles = {} /\ flagged = {}
    /\ task = [j \in Jobs |-> "none"]
    /\ caller = [c \in Callers |-> AtRest]
    /\ pass = NoPass
    /\ say = [t \in Threads |-> Silent]
    /\ said = [j \in Jobs |-> <<>>]

-----------------------------------------------------------------------------
(* Announcing and settling.                                                *)

\* announce: the journal record and the JobEvent
Announce(t) ==
    /\ say[t] # Silent
    /\ said' = IF say[t].state \in Outcomes
               THEN [said EXCEPT ![say[t].job] = Append(@, say[t].state)] ELSE said
    /\ say' = [say EXCEPT ![t] = Silent]
    /\ UNCHANGED <<jobsState, runtime, caller, pass>>

\* The thread has announced what it had to and is at a given place.
At(c, where) == caller[c].at = where /\ say[c] = Silent
GoTo(c, where) == caller' = [caller EXCEPT ![c].at = where]

Retained(s) == IF Len(s) > Retention THEN Tail(s) ELSE s

\* Mutant: the job is settled whether or not it is still in flight.
SettleAgain(t, j, s) ==
    /\ inflight' = inflight \ {j}
    /\ terminals' = Retained(Append(terminals, j))
    /\ state' = [state EXCEPT ![j] = s]
    /\ say' = [say EXCEPT ![t] = [job |-> j, state |-> s]]

\* Mutant: a settled job is not announced.
SettleSilently(t, j, s) ==
    /\ inflight' = inflight \ {j}
    /\ terminals' = IF j \in inflight THEN Retained(Append(terminals, j)) ELSE terminals
    /\ state' = IF j \in inflight THEN [state EXCEPT ![j] = s] ELSE state
    /\ UNCHANGED say /\ t \in Threads

\* settle: whoever takes the record out of the jobs in flight decides how the
\* job ended and announces it; anybody later changes nothing.
Settle(t, j, s) ==
    IF j \in inflight
    THEN /\ inflight' = inflight \ {j}
         /\ terminals' = Retained(Append(terminals, j))
         /\ state' = [state EXCEPT ![j] = s]
         /\ say' = [say EXCEPT ![t] = [job |-> j, state |-> s]]
    ELSE UNCHANGED <<inflight, terminals, state, say>>

-----------------------------------------------------------------------------
(* The task runtime.                                                       *)

\* submit: the task and the handle and context of its ticket.
RuntimeSubmit(j) ==
    /\ handles' = handles \union {j}
    /\ task' = [task EXCEPT ![j] = "open"]

\* Mutant: the task is not told.
RuntimeIgnores(j) == UNCHANGED <<handles, flagged, task>> /\ j \in Jobs

\* cancel: an unknown ticket is an error, which the callers ignore.
RuntimeCancel(j) ==
    /\ flagged' = IF j \in handles THEN flagged \union {j} ELSE flagged
    /\ UNCHANGED <<handles, task>>

\* poll: what the ticket is answered with.  A flagged task counts as
\* cancelled whatever its outcome is.
Progress(j) == IF j \notin handles THEN "failed"
               ELSE IF j \in flagged THEN "cancelled"
               ELSE IF task[j] = "open" THEN "running"
               ELSE task[j]

\* A ticket that was answered with an outcome is closed.
Close(j) ==
    IF Progress(j) \in Outcomes
    THEN /\ handles' = handles \ {j}
         /\ flagged' = flagged \ {j}
    ELSE UNCHANGED <<handles, flagged>>

\* The handler returns, fails or panics; a task that was cancelled may be
\* dropped.
TaskEnds(j) ==
    /\ task[j] = "open"
    /\ \E o \in {"completed", "failed"} \union IF j \in flagged THEN {"cancelled"} ELSE {} :
          task' = [task EXCEPT ![j] = o]
    /\ UNCHANGED <<jobsState, handles, flagged, caller, pass, announcements>>

-----------------------------------------------------------------------------
(* Jobs::submit.                                                           *)

InFlightWithKey(k) == \E j \in inflight : request[j].key = k

\* Mutant: the lane is never found occupied.
LaneIsFree(slot) == {j \in inflight : slot \notin Slots \union {None}}

\* slot_occupant
Occupants(slot) == {j \in inflight : slot # None /\ request[j].slot = slot}

\* find_inflight: a key that is in flight is answered with the job it has.
Submit(c, slot, key) ==
    /\ At(c, "idle")
    /\ nextId <= MaxJobs
    /\ key = None \/ ~InFlightWithKey(key)
    /\ caller' = [caller EXCEPT ![c] = [at |-> "lane", job |-> NoJob, slot |-> slot,
                                        key |-> key]]
    /\ UNCHANGED <<jobsState, runtime, pass, announcements>>

FindOccupant(c) ==
    /\ At(c, "lane")
    /\ \/ /\ Occupants(caller[c].slot) = {}
          /\ GoTo(c, "submit")
       \/ \E old \in Occupants(caller[c].slot) :
             caller' = [caller EXCEPT ![c].job = old, ![c].at = "supersede"]
    /\ UNCHANGED <<jobsState, runtime, pass, announcements>>

Supersede(c) ==
    /\ At(c, "supersede")
    /\ Settle(c, caller[c].job, "superseded")
    /\ GoTo(c, "cancelOld")
    /\ UNCHANGED <<started, shutdown, nextId, request, runtime, pass, said>>

CancelOld(c) ==
    /\ At(c, "cancelOld")
    /\ RuntimeCancel(caller[c].job)
    /\ GoTo(c, "submit")
    /\ UNCHANGED <<jobsState, pass, announcements>>

\* The id, and the task in the runtime, which may refuse it.
SubmitTask(c) ==
    /\ At(c, "submit")
    /\ nextId <= MaxJobs
    /\ nextId' = nextId + 1
    /\ \/ /\ RuntimeSubmit(nextId)
          /\ caller' = [caller EXCEPT ![c].at = "push", ![c].job = nextId]
       \/ /\ caller' = [caller EXCEPT ![c] = AtRest]
          /\ UNCHANGED <<handles, task>>
    /\ UNCHANGED <<inflight, terminals, state, started, shutdown, request, flagged, pass,
                   announcements>>

\* The record, which is then announced.
Push(c) ==
    /\ At(c, "push")
    /\ LET j == caller[c].job IN
       /\ inflight' = inflight \union {j}
       /\ state' = [state EXCEPT ![j] = "pending"]
       /\ request' = [request EXCEPT ![j] = [slot |-> caller[c].slot, key |-> caller[c].key]]
       /\ say' = [say EXCEPT ![c] = [job |-> j, state |-> "pending"]]
    /\ GoTo(c, "wake")
    /\ UNCHANGED <<terminals, started, shutdown, nextId, runtime, pass, said>>

EnsureWorker(c) ==
    /\ At(c, "wake")
    /\ started' = (started \/ ~shutdown)
    /\ caller' = [caller EXCEPT ![c] = AtRest]
    /\ UNCHANGED <<inflight, terminals, state, shutdown, nextId, request, runtime, pass,
                   announcements>>

-----------------------------------------------------------------------------
(* Jobs::cancel and Jobs::shutdown.                                        *)

Cancel(c, j) ==
    /\ At(c, "idle")
    /\ j \in inflight
    /\ caller' = [caller EXCEPT ![c] = [AtRest EXCEPT !.at = "stop", !.job = j]]
    /\ UNCHANGED <<jobsState, runtime, pass, announcements>>

CancelTask(c) ==
    /\ At(c, "stop")
    /\ RuntimeCancel(caller[c].job)
    /\ GoTo(c, "settle")
    /\ UNCHANGED <<jobsState, pass, announcements>>

SettleCancelled(c) ==
    /\ At(c, "settle")
    /\ Settle(c, caller[c].job, "cancelled")
    /\ caller' = [caller EXCEPT ![c] = AtRest]
    /\ UNCHANGED <<started, shutdown, nextId, request, runtime, pass, said>>

\* The tickets are cancelled after the unlock: a poll in between could as
\* well have come before, since only the start of a pass looks at shutdown.
Shutdown(c) ==
    /\ At(c, "idle")
    /\ ~shutdown
    /\ shutdown' = TRUE
    /\ flagged' = flagged \union (handles \intersect inflight)
    /\ UNCHANGED <<inflight, terminals, state, started, nextId, request, handles, task,
                   caller, pass, announcements>>

-----------------------------------------------------------------------------
(* The worker: poll_once over a snapshot.                                  *)

Resting == pass.todo = {} /\ pass.job = NoJob /\ say[Worker] = Silent

BeginPass ==
    /\ started /\ ~shutdown
    /\ Resting
    /\ inflight # {}
    /\ pass' = [NoPass EXCEPT !.todo = {[job |-> j, was |-> state[j]] : j \in inflight}]
    /\ UNCHANGED <<jobsState, runtime, caller, announcements>>

Poll(record) ==
    /\ record \in pass.todo /\ pass.job = NoJob /\ say[Worker] = Silent
    /\ LET next == Progress(record.job) IN
       /\ Close(record.job)
       /\ pass' = [NoPass EXCEPT !.todo = pass.todo \ {record},
                                 !.job = IF next = record.was THEN NoJob ELSE record.job,
                                 !.next = IF next = record.was THEN "pending" ELSE next]
    /\ UNCHANGED <<jobsState, task, caller, announcements>>

\* settle, or advance for a job that goes on and is still in flight
ApplyProgress ==
    /\ pass.job # NoJob
    /\ IF pass.next \in Outcomes
       THEN Settle(Worker, pass.job, pass.next)
       ELSE /\ IF pass.job \in inflight
               THEN /\ state' = [state EXCEPT ![pass.job] = pass.next]
                    /\ say' = [say EXCEPT ![Worker] = [job |-> pass.job, state |-> pass.next]]
               ELSE UNCHANGED <<state, say>>
            /\ UNCHANGED <<inflight, terminals>>
    /\ pass' = [pass EXCEPT !.job = NoJob, !.next = "pending"]
    /\ UNCHANGED <<started, shutdown, nextId, request, runtime, caller, said>>

-----------------------------------------------------------------------------
WorkerStep == BeginPass \/ (\E record \in pass.todo : Poll(record)) \/ ApplyProgress \/ Announce(Worker)

CallerStep(c) ==
    \/ FindOccupant(c) \/ Supersede(c) \/ CancelOld(c) \/ SubmitTask(c) \/ Push(c)
    \/ EnsureWorker(c) \/ CancelTask(c) \/ SettleCancelled(c)
    \/ Announce(c)

Next ==
    \/ WorkerStep
    \/ \E c \in Callers :
          \/ CallerStep(c)
          \/ \E s \in Slots \union {None}, k \in Keys \union {None} : Submit(c, s, k)
          \/ \E j \in Jobs : Cancel(c, j)
          \/ Shutdown(c)
    \/ \E j \in Jobs : TaskEnds(j)

Spec == Init /\ [][Next]_vars

\* Threads go on with the call they are in, the worker polls every 20 ms, and
\* handlers return.
Fairness == /\ WF_vars(WorkerStep)
            /\ \A c \in Callers : WF_vars(CallerStep(c))
            /\ \A j \in Jobs : WF_vars(TaskEnds(j))
FairSpec == Spec /\ Fairness

-----------------------------------------------------------------------------
\* One job of a lane and one of an idempotency key is in flight, as long as
\* one thread submits.
OneJobPerLane ==
    \A i, j \in inflight : i # j =>
        /\ request[i].slot = None \/ request[i].slot # request[j].slot
        /\ request[i].key = None \/ request[i].key # request[j].key

\* However a completion, a cancellation and a newer submission race, a job
\* ends once, one outcome is announced, and it is the one it ended with.
OneOutcome ==
    \A j \in Jobs :
        /\ Len(said[j]) <= 1
        /\ said[j] # <<>> => Head(said[j]) = state[j]

\* What a job is said to have come to is what its task came to.  A poll
\* closes the ticket that it answers with an outcome, and whoever asks again
\* is told that the ticket is unknown, which counts as a failure: nobody may
\* ask again before the outcome is the job's.
OutcomeIsTrue == \A j \in Jobs : state[j] \in {"completed", "failed"} => task[j] = state[j]

\* A job that a caller was given a handle of ended and was announced, or a
\* thread is about to announce its end, or it is in flight: then its ticket
\* is open, or the worker has the outcome in its hands, and there is a worker
\* or a caller that is about to start it.
JobsAreTended ==
    \A j \in Jobs : state[j] # "unborn" =>
        \/ said[j] # <<>>
        \/ \E t \in Threads : say[t].job = j /\ say[t].state \in Outcomes
        \/ /\ j \in inflight
           /\ j \in handles \/ (pass.job = j /\ pass.next \in Outcomes)
           /\ started \/ shutdown \/ \E c \in Callers : caller[c].at = "wake"

\* Every job that is accepted comes to one outcome, and to the right one.
JobsEndWell == OneOutcome /\ OutcomeIsTrue /\ JobsAreTended

\* A caller sees the outcome of every job it was given a handle of, unless
\* the kernel is shut down.
JobsSettle ==
    \A j \in Jobs : state[j] = "pending" ~> (said[j] # <<>> \/ shutdown)

\* A job that was cancelled, or lost its lane, does not run on unnoticed: its
\* task ended or was asked to stop, unless the thread that is about to ask
\* was interrupted just before.
LosersAreAskedToStop ==
    \A j \in Jobs :
        (state[j] \in {"cancelled", "superseded"} /\ task[j] = "open" /\ j \in handles)
            => j \in flagged \/ \E c \in Callers : caller[c].job = j /\ caller[c].at = "cancelOld"

\* Not so of the code, see the README, although job_runtime.rs says so:
\* a settled job leaves no handle behind while the kernel runs.
TicketsReleased ==
    \A j \in Jobs : state[j] \in Outcomes ~> (j \notin handles \/ shutdown)
=============================================================================

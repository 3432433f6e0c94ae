-------------------------- MODULE KernelJobsProofs --------------------------
(***************************************************************************)
(* A job ends once, for any number of callers, lanes, keys and jobs.       *)
(*                                                                         *)
(* The idea: being in flight is the right to decide how a job ends.        *)
(* Settle gives that right up in the step that decides, and the thread     *)
(* that took the step owes the one announcement of the outcome.            *)
(*                                                                         *)
(* Also: an accepted job comes to the outcome of its task (JobsEndWell;    *)
(* TInv adds what a ticket, a poll and a settled job have to do with each  *)
(* other), who lost a lane is asked to stop, and with one submitting       *)
(* thread a lane has one job.                                              *)
(***************************************************************************)
EXTENDS KernelJobs, TLAPS

\* Thread t owes the announcement of the outcome of job j.
Owes(t, j) == say[t].job = j /\ say[t].state \in Outcomes

\* Nothing of an end was said of j, and nobody is about to.
Quiet(j) == said[j] = <<>> /\ \A t \in Threads : ~Owes(t, j)
Fresh(j) == j \notin inflight /\ Quiet(j)

\* The callers that name a job, and the worker, are where they can be.
CallersName == \A c \in Callers :
    caller[c].at \in {"supersede", "cancelOld", "push", "stop", "settle"} => caller[c].job \in Jobs
WorkerIsSilent == pass.job # NoJob => say[Worker] = Silent

InFlightIsQuiet == \A j \in inflight : Quiet(j)

\* The debts: one thread, of a job that is no longer in flight and of which
\* no end was said, and of the outcome the job has.
DebtIsSound ==
    \A t \in Threads, j \in Jobs : Owes(t, j) =>
        /\ j \notin inflight
        /\ said[j] = <<>>
        /\ say[t].state = state[j]
        /\ \A u \in Threads : Owes(u, j) => u = t

\* A job that is still to be pushed belongs to the caller that submitted it.
NewIsFresh ==
    /\ \A j \in Jobs : j >= nextId => Fresh(j)
    /\ \A c \in Callers : caller[c].at = "push" =>
          /\ caller[c].job < nextId
          /\ Fresh(caller[c].job)
          /\ \A d \in Callers :
                (caller[d].at = "push" /\ caller[d].job = caller[c].job) => d = c

\* A job in flight was pushed.
InFlightWasPushed == \A j \in inflight : state[j] # "unborn"

\* The runtime has a task for every ticket it gave out.
HandlesHaveTasks == \A j \in handles : task[j] # "none"

IInv == /\ TypeOK /\ CallersName /\ WorkerIsSilent /\ HandlesHaveTasks /\ InFlightWasPushed
        /\ InFlightIsQuiet /\ DebtIsSound /\ NewIsFresh /\ OneOutcome

-----------------------------------------------------------------------------
(* What the steps do to the debts, whoever takes them.                     *)

\* A thread with nothing to announce owes nothing.
LEMMA SilentOwesNothing ==
    ASSUME NEW t \in Threads, say[t] = Silent
    PROVE  \A j \in Jobs : ~Owes(t, j)
    BY DEF Owes, Silent, Outcomes, NoJob, Jobs

\* The parts of the invariant that speak of debts.
Debts == InFlightIsQuiet /\ DebtIsSound /\ OneOutcome

\* A step that neither settles nor announces keeps the debts.
LEMMA NothingSaid ==
    ASSUME Debts, UNCHANGED <<inflight, state, say, said>>
    PROVE  /\ Debts'
           /\ \A k \in Jobs : Fresh(k) => Fresh(k)'
    BY DEF Debts, InFlightIsQuiet, DebtIsSound, OneOutcome, Quiet, Fresh, Owes

\* Settling turns the right to decide into the debt of the announcement.
LEMMA SettleKeeps ==
    ASSUME TypeOK, Debts,
           NEW t \in Threads, NEW j \in Jobs, NEW s \in Outcomes,
           say[t] = Silent, said' = said,
           Settle(t, j, s)
    PROVE  /\ Debts'
           /\ \A k \in Jobs : Fresh(k) => Fresh(k)'
           /\ inflight' \subseteq Jobs
           /\ state' \in [Jobs -> States \union {"unborn"}]
           /\ say' \in [Threads -> [job : Jobs \union {NoJob}, state : States]]
           /\ \A u \in Threads : u # t => say'[u] = say[u]
<1>1. CASE j \notin inflight
  <2>1. UNCHANGED <<inflight, state, say, said>>
    BY <1>1 DEF Settle
  <2> QED
    BY <2>1, NothingSaid DEF TypeOK
<1>2. CASE j \in inflight
  <2>1. /\ inflight' = inflight \ {j}
        /\ state' = [state EXCEPT ![j] = s]
        /\ say' = [say EXCEPT ![t] = [job |-> j, state |-> s]]
    BY <1>2 DEF Settle
  <2>2. Quiet(j)
    BY <1>2 DEF Debts, InFlightIsQuiet
  <2>3. \A u \in Threads, k \in Jobs : Owes(u, k)' <=> (u = t /\ k = j) \/ Owes(u, k)
    BY <2>1, SilentOwesNothing DEF Owes, TypeOK
  <2>4. InFlightIsQuiet'
    BY <2>1, <2>3 DEF Debts, InFlightIsQuiet, Quiet, TypeOK
  <2>5. DebtIsSound'
    <3> SUFFICES ASSUME NEW u \in Threads, NEW k \in Jobs, Owes(u, k)'
                 PROVE  /\ k \notin inflight'
                        /\ said'[k] = <<>>
                        /\ say'[u].state = state'[k]
                        /\ \A v \in Threads : Owes(v, k)' => v = u
      BY DEF DebtIsSound
    <3>1. CASE k = j
      <4>1. u = t
        BY <3>1, <2>2, <2>3 DEF Quiet
      <4> QED
        BY <3>1, <4>1, <2>1, <2>2, <2>3 DEF Quiet, TypeOK
    <3>2. CASE k # j
      <4>1. Owes(u, k) /\ u # t
        BY <3>2, <2>3, SilentOwesNothing
      <4> QED
        BY <3>2, <4>1, <2>1, <2>3 DEF Debts, DebtIsSound, TypeOK
    <3> QED
      BY <3>1, <3>2
  <2>6. OneOutcome'
    BY <2>1, <2>2 DEF Debts, OneOutcome, Quiet, TypeOK
  <2>7. \A k \in Jobs : Fresh(k) => Fresh(k)'
    BY <1>2, <2>1, <2>3 DEF Fresh, Quiet
  <2>8. [job |-> j, state |-> s] \in [job : Jobs \union {NoJob}, state : States]
    BY DEF States, Outcomes
  <2> QED
    BY <2>1, <2>4, <2>5, <2>6, <2>7, <2>8 DEF Debts, TypeOK, States, Outcomes
<1> QED
  BY <1>1, <1>2

\* A job that is pushed, or goes on, owes nothing yet.
LEMMA ProgressKeeps ==
    ASSUME TypeOK, Debts,
           NEW t \in Threads, NEW j \in Jobs, NEW s \in {"pending", "running"},
           say[t] = Silent, said' = said, Quiet(j),
           inflight' = inflight \union {j},
           state' = [state EXCEPT ![j] = s],
           say' = [say EXCEPT ![t] = [job |-> j, state |-> s]]
    PROVE  /\ Debts'
           /\ \A k \in Jobs : (Fresh(k) /\ k # j) => Fresh(k)'
           /\ inflight' \subseteq Jobs
           /\ state' \in [Jobs -> States \union {"unborn"}]
           /\ say' \in [Threads -> [job : Jobs \union {NoJob}, state : States]]
<1>1. \A u \in Threads, k \in Jobs : Owes(u, k)' <=> Owes(u, k)
  <2>1. s \notin Outcomes
    BY DEF Outcomes
  <2> QED
    BY <2>1, SilentOwesNothing DEF Owes, TypeOK
<1>2. InFlightIsQuiet'
  BY <1>1 DEF Debts, InFlightIsQuiet, Quiet, TypeOK
<1>3. DebtIsSound'
  <2> SUFFICES ASSUME NEW u \in Threads, NEW k \in Jobs, Owes(u, k)'
               PROVE  /\ k \notin inflight'
                      /\ said'[k] = <<>>
                      /\ say'[u].state = state'[k]
                      /\ \A v \in Threads : Owes(v, k)' => v = u
    BY DEF DebtIsSound
  <2>1. Owes(u, k) /\ u # t /\ k # j
    BY <1>1, SilentOwesNothing DEF Quiet
  <2> QED
    BY <2>1, <1>1 DEF Debts, DebtIsSound, TypeOK
<1>4. OneOutcome'
  BY DEF Debts, OneOutcome, Quiet, TypeOK
<1>5. \A k \in Jobs : (Fresh(k) /\ k # j) => Fresh(k)'
  BY <1>1 DEF Fresh, Quiet
<1>6. [job |-> j, state |-> s] \in [job : Jobs \union {NoJob}, state : States]
  BY DEF States
<1> QED
  BY <1>2, <1>3, <1>4, <1>5, <1>6 DEF Debts, TypeOK, States

\* Announcing pays the debt.
LEMMA AnnounceKeeps ==
    ASSUME TypeOK, Debts, NEW t \in Threads, Announce(t)
    PROVE  /\ Debts'
           /\ \A k \in Jobs : Fresh(k) => Fresh(k)'
           /\ say' \in [Threads -> [job : Jobs \union {NoJob}, state : States]]
           /\ said' \in [Jobs -> Seq(Outcomes)]
           /\ say'[t] = Silent
           /\ \A u \in Threads : u # t => say'[u] = say[u]
<1> DEFINE j == say[t].job
           s == say[t].state
<1>1. /\ say' = [say EXCEPT ![t] = Silent]
      /\ UNCHANGED <<inflight, state>>
  BY DEF Announce, jobsState
<1>2. /\ say' \in [Threads -> [job : Jobs \union {NoJob}, state : States]]
      /\ say'[t] = Silent
      /\ \A u \in Threads : u # t => say'[u] = say[u]
  BY <1>1 DEF TypeOK, Silent, States
<1>3. \A u \in Threads, k \in Jobs : Owes(u, k)' <=> u # t /\ Owes(u, k)
  BY <1>2, SilentOwesNothing DEF Owes, Silent, Outcomes
<1>4. CASE s \in Outcomes /\ j \in Jobs
  <2>1. Owes(t, j) /\ j \notin inflight /\ said[j] = <<>> /\ s = state[j]
    BY <1>4 DEF Owes, Debts, DebtIsSound
  <2>2. \A u \in Threads : Owes(u, j) => u = t
    BY <1>4, <2>1 DEF Debts, DebtIsSound
  <2>3. said' = [said EXCEPT ![j] = Append(@, s)]
    BY <1>4 DEF Announce
  <2>4. said' \in [Jobs -> Seq(Outcomes)]
    BY <1>4, <2>3 DEF TypeOK
  <2>5. said'[j] = <<s>> /\ \A k \in Jobs : k # j => said'[k] = said[k]
    BY <1>4, <2>1, <2>3 DEF TypeOK
  <2>6. InFlightIsQuiet'
    BY <1>1, <1>3, <2>1, <2>5 DEF Debts, InFlightIsQuiet, Quiet, TypeOK
  <2>7. DebtIsSound'
    <3> SUFFICES ASSUME NEW u \in Threads, NEW k \in Jobs, Owes(u, k)'
                 PROVE  /\ k \notin inflight'
                        /\ said'[k] = <<>>
                        /\ say'[u].state = state'[k]
                        /\ \A v \in Threads : Owes(v, k)' => v = u
      BY DEF DebtIsSound
    <3>1. Owes(u, k) /\ u # t /\ k # j
      BY <1>3, <2>2
    <3> QED
      BY <3>1, <1>1, <1>2, <1>3, <2>5 DEF Debts, DebtIsSound
  <2>8. OneOutcome'
    <3> SUFFICES ASSUME NEW k \in Jobs
                 PROVE  /\ Len(said'[k]) <= 1
                        /\ said'[k] # <<>> => Head(said'[k]) = state'[k]
      BY DEF OneOutcome
    <3>1. CASE k = j
      BY <3>1, <1>1, <2>1, <2>5
    <3>2. CASE k # j
      BY <3>2, <1>1, <2>5 DEF Debts, OneOutcome
    <3> QED
      BY <3>1, <3>2
  <2>9. \A k \in Jobs : Fresh(k) => Fresh(k)'
    BY <1>1, <1>3, <2>1, <2>5 DEF Fresh, Quiet
  <2> QED
    BY <1>2, <2>4, <2>6, <2>7, <2>8, <2>9 DEF Debts
<1>5. CASE ~(s \in Outcomes /\ j \in Jobs)
  <2>1. said' = said
    <3>1. CASE s \notin Outcomes
      BY <3>1 DEF Announce
    <3>2. CASE j \notin Jobs
      BY <3>2 DEF Announce, TypeOK
    <3> QED
      BY <1>5, <3>1, <3>2
  <2>2. \A k \in Jobs : ~Owes(t, k)
    BY <1>5 DEF Owes
  <2>3. \A u \in Threads, k \in Jobs : Owes(u, k)' <=> Owes(u, k)
    BY <1>3, <2>2
  <2>4. InFlightIsQuiet'
    BY <1>1, <2>1, <2>3 DEF Debts, InFlightIsQuiet, Quiet, TypeOK
  <2>5. DebtIsSound'
    BY <1>1, <1>2, <2>1, <2>2, <2>3 DEF Debts, DebtIsSound
  <2>6. OneOutcome'
    BY <1>1, <2>1 DEF Debts, OneOutcome
  <2>7. \A k \in Jobs : Fresh(k) => Fresh(k)'
    BY <1>1, <2>1, <2>3 DEF Fresh, Quiet
  <2> QED
    BY <1>2, <2>1, <2>4, <2>5, <2>6, <2>7 DEF Debts, TypeOK
<1> QED
  BY <1>4, <1>5

\* Callers that start or finish a call, and those that go on, leave the jobs
\* that are still to be pushed alone.
LEMMA NewKept ==
    ASSUME CallersName, NewIsFresh,
           \A k \in Jobs : Fresh(k) => Fresh(k)',
           nextId' = nextId,
           \A c \in Callers : caller'[c].at = "push" =>
               caller[c].at = "push" /\ caller'[c].job = caller[c].job
    PROVE  NewIsFresh'
    BY DEF NewIsFresh, CallersName
-----------------------------------------------------------------------------
(* The invariant is inductive.                                             *)


\* Nothing was submitted and nothing said.
LEMMA InitIInv == Init => IInv
<1> SUFFICES ASSUME Init PROVE IInv
  OBVIOUS
<1>1. TypeOK
  <2>1. /\ terminals \in Seq(Jobs) /\ said \in [Jobs -> Seq(Outcomes)]
        /\ nextId \in 1 .. MaxJobs + 1
    BY JobsAssumption DEF Init
  <2>2. caller \in [Callers -> CallerRecords]
    BY DEF Init, AtRest, Places, CallerRecords
  <2>3. pass \in [todo : SUBSET [job : Jobs, was : States], job : Jobs \union {NoJob},
                 next : States]
    BY DEF Init, NoPass, States
  <2>4. say \in [Threads -> [job : Jobs \union {NoJob}, state : States]]
    BY DEF Init, Silent, States
  <2>5. request \in [Jobs -> [slot : Slots \union {None}, key : Keys \union {None}]]
    BY DEF Init
  <2> QED
    BY <2>1, <2>2, <2>3, <2>4, <2>5 DEF Init, TypeOK
<1>2. CallersName /\ WorkerIsSilent /\ HandlesHaveTasks /\ InFlightWasPushed
  BY DEF Init, CallersName, WorkerIsSilent, HandlesHaveTasks, InFlightWasPushed, AtRest, NoPass
<1>3. \A j \in Jobs : Fresh(j)
  BY DEF Init, Fresh, Quiet, Owes, Silent, Outcomes
<1>4. NewIsFresh
  BY <1>3 DEF Init, NewIsFresh, AtRest
<1>5. InFlightIsQuiet /\ OneOutcome
  BY DEF Init, InFlightIsQuiet, OneOutcome
<1>6. DebtIsSound
  BY <1>3 DEF DebtIsSound, Fresh, Quiet
<1> QED
  BY <1>1, <1>2, <1>4, <1>5, <1>6 DEF IInv

\* Settling keeps the record of what ended, and every variable in its type.
LEMMA SettleTypes ==
    ASSUME TypeOK, NEW t \in Threads, NEW j \in Jobs, NEW s \in Outcomes, Settle(t, j, s)
    PROVE  /\ inflight' \subseteq Jobs /\ terminals' \in Seq(Jobs)
           /\ state' \in [Jobs -> States \union {"unborn"}]
           /\ say' \in [Threads -> [job : Jobs \union {NoJob}, state : States]]
<1>1. ASSUME NEW q \in Seq(Jobs) PROVE Retained(q) \in Seq(Jobs)
  <2>1. CASE Len(q) > Retention
    <3>1. q # <<>>
      BY <2>1, JobsAssumption
    <3> QED
      BY <2>1, <3>1 DEF Retained
  <2>2. CASE ~(Len(q) > Retention)
    BY <2>2 DEF Retained
  <2> QED
    BY <2>1, <2>2
<1>2. Retained(Append(terminals, j)) \in Seq(Jobs)
  <2>1. terminals \in Seq(Jobs)
    BY DEF TypeOK
  <2>2. Append(terminals, j) \in Seq(Jobs)
    BY <2>1
  <2> QED
    BY <1>1, <2>2
<1>3. s \in States /\ [job |-> j, state |-> s] \in [job : Jobs \union {NoJob}, state : States]
  BY DEF States
<1>4. CASE j \in inflight
  <2>1. /\ inflight' = inflight \ {j}
        /\ terminals' = Retained(Append(terminals, j))
        /\ state' = [state EXCEPT ![j] = s]
        /\ say' = [say EXCEPT ![t] = [job |-> j, state |-> s]]
    BY <1>4 DEF Settle
  <2> QED
    BY <1>2, <1>3, <2>1 DEF TypeOK
<1>5. CASE j \notin inflight
  BY <1>5 DEF Settle, TypeOK
<1> QED
  BY <1>4, <1>5

\* A ticket is answered with a state.
LEMMA ProgressType ==
    ASSUME TypeOK, HandlesHaveTasks, NEW j \in Jobs
    PROVE  Progress(j) \in States
    BY DEF TypeOK, HandlesHaveTasks, Progress, States, Outcomes
-----------------------------------------------------------------------------
(* Types.                                                                  *)

\* A caller that goes elsewhere, with its own record or a new one.
LEMMA Moves ==
    ASSUME TypeOK, NEW c \in Callers
    PROVE  /\ AtRest \in CallerRecords
           /\ \A where \in Places : GoTo(c, where) => caller' \in [Callers -> CallerRecords]
           /\ \A r \in CallerRecords :
                 caller' = [caller EXCEPT ![c] = r] => caller' \in [Callers -> CallerRecords]
<1>1. AtRest \in CallerRecords
  BY DEF AtRest, CallerRecords, Places
<1>2. ASSUME NEW where \in Places, GoTo(c, where) PROVE caller' \in [Callers -> CallerRecords]
  <2>1. caller' = [caller EXCEPT ![c].at = where]
    BY <1>2 DEF GoTo
  <2>2. caller \in [Callers -> CallerRecords]
    BY DEF TypeOK
  <2> QED
    BY <2>1, <2>2 DEF CallerRecords
<1>3. ASSUME NEW r \in CallerRecords, caller' = [caller EXCEPT ![c] = r]
      PROVE  caller' \in [Callers -> CallerRecords]
  BY <1>3 DEF TypeOK
<1> QED
  BY <1>1, <1>2, <1>3

\* What a caller does leaves every variable in its type.
LEMMA CallerTypes ==
    ASSUME TypeOK, CallersName, NEW c \in Callers,
           \/ \E slot \in Slots \union {None}, key \in Keys \union {None} : Submit(c, slot, key)
           \/ FindOccupant(c) \/ Supersede(c) \/ CancelOld(c)
           \/ SubmitTask(c) \/ Push(c) \/ EnsureWorker(c) \/ CancelTask(c)
           \/ SettleCancelled(c) \/ Shutdown(c)
           \/ \E j \in Jobs : Cancel(c, j)
    PROVE  TypeOK'
<1> USE DEF jobsState, runtime, announcements
<1>1. c \in Threads
  BY DEF Threads
<1>2. ASSUME NEW slot \in Slots \union {None}, NEW key \in Keys \union {None}, Submit(c, slot, key)
      PROVE  TypeOK'
  <2>1. [at |-> "lane", job |-> NoJob, slot |-> slot, key |-> key] \in CallerRecords
    BY DEF CallerRecords, Places
  <2>2. caller' \in [Callers -> CallerRecords]
    BY <1>2, <2>1, Moves DEF Submit
  <2> QED
    BY <1>2, <2>2 DEF TypeOK, Submit
<1>3. CASE FindOccupant(c)
  <2>1. CASE GoTo(c, "submit")
    <3>1. caller' \in [Callers -> CallerRecords]
      BY <2>1, Moves DEF Places
    <3> QED
      BY <1>3, <3>1 DEF TypeOK, FindOccupant
  <2>2. CASE \E old \in Occupants(caller[c].slot) :
                caller' = [caller EXCEPT ![c].job = old, ![c].at = "supersede"]
    <3>1. PICK old \in Occupants(caller[c].slot) :
                caller' = [caller EXCEPT ![c].job = old, ![c].at = "supersede"]
      BY <2>2
    <3>2. old \in Jobs
      BY <3>1 DEF Occupants, TypeOK
    <3>3. caller \in [Callers -> CallerRecords]
      BY DEF TypeOK
    <3>4. caller' \in [Callers -> CallerRecords]
      BY <3>1, <3>2, <3>3 DEF CallerRecords, Places
    <3> QED
      BY <1>3, <3>4 DEF TypeOK, FindOccupant
  <2> QED
    BY <1>3, <2>1, <2>2 DEF FindOccupant
<1>4. CASE Supersede(c)
  <2>1. caller[c].job \in Jobs
    BY <1>4 DEF CallersName, Supersede, At
  <2>2. "superseded" \in Outcomes
    BY DEF Outcomes
  <2>3. Settle(c, caller[c].job, "superseded")
    BY <1>4 DEF Supersede
  <2>4. /\ inflight' \subseteq Jobs /\ terminals' \in Seq(Jobs)
        /\ state' \in [Jobs -> States \union {"unborn"}]
        /\ say' \in [Threads -> [job : Jobs \union {NoJob}, state : States]]
    BY <1>1, <2>1, <2>2, <2>3, SettleTypes
  <2>5. caller' \in [Callers -> CallerRecords]
    BY <1>4, Moves DEF Supersede, Places
  <2> QED
    BY <1>4, <2>4, <2>5 DEF TypeOK, Supersede
<1>5. CASE CancelOld(c)
  <2>1. caller' \in [Callers -> CallerRecords]
    BY <1>5, Moves DEF CancelOld, Places
  <2> QED
    BY <1>5, <2>1 DEF TypeOK, CancelOld, RuntimeCancel
<1>6. CASE SubmitTask(c)
  <2>1. nextId \in Jobs /\ nextId' \in 1 .. MaxJobs + 1
    BY <1>6, JobsAssumption DEF TypeOK, SubmitTask, RuntimeSubmit, Jobs
  <2>2. handles' \subseteq Jobs /\ handles \subseteq handles'
    BY <1>6, <2>1 DEF TypeOK, SubmitTask, RuntimeSubmit
  <2>3. task' \in [Jobs -> {"none", "open", "completed", "failed", "cancelled"}]
    BY <1>6, <2>1 DEF TypeOK, SubmitTask, RuntimeSubmit
  <2>4. caller' \in [Callers -> CallerRecords]
    <3>1. CASE caller' = [caller EXCEPT ![c].at = "push", ![c].job = nextId]
      <4>1. caller \in [Callers -> CallerRecords]
        BY DEF TypeOK
      <4> QED
        BY <2>1, <3>1, <4>1 DEF CallerRecords, Places
    <3>2. CASE caller' = [caller EXCEPT ![c] = AtRest]
      BY <3>2, Moves
    <3> QED
      BY <1>6, <3>1, <3>2 DEF SubmitTask, RuntimeSubmit
  <2> QED
    BY <1>6, <2>1, <2>2, <2>3, <2>4 DEF TypeOK, SubmitTask, RuntimeSubmit
<1>7. CASE Push(c)
  <2>1. caller[c].job \in Jobs
    BY <1>7 DEF CallersName, Push, At
  <2>2. [job |-> caller[c].job, state |-> "pending"] \in [job : Jobs \union {NoJob}, state : States]
    BY <2>1 DEF States
  <2>3. [slot |-> caller[c].slot, key |-> caller[c].key]
            \in [slot : Slots \union {None}, key : Keys \union {None}]
    BY DEF TypeOK, CallerRecords
  <2>4. say' \in [Threads -> [job : Jobs \union {NoJob}, state : States]]
    BY <1>1, <1>7, <2>2 DEF TypeOK, Push
  <2>5. request' \in [Jobs -> [slot : Slots \union {None}, key : Keys \union {None}]]
    BY <1>7, <2>1, <2>3 DEF TypeOK, Push
  <2>6. state' \in [Jobs -> States \union {"unborn"}] /\ inflight' \subseteq Jobs
    BY <1>7, <2>1 DEF TypeOK, Push, States
  <2>7. caller' \in [Callers -> CallerRecords]
    BY <1>7, Moves DEF Push, Places
  <2> QED
    BY <1>7, <2>4, <2>5, <2>6, <2>7 DEF TypeOK, Push
<1>8. CASE EnsureWorker(c)
  <2>1. caller' \in [Callers -> CallerRecords]
    BY <1>8, Moves DEF EnsureWorker
  <2> QED
    BY <1>8, <2>1 DEF TypeOK, EnsureWorker
<1>9. ASSUME NEW j \in Jobs, Cancel(c, j) PROVE TypeOK'
  <2>1. [AtRest EXCEPT !.at = "stop", !.job = j] \in CallerRecords
    BY DEF AtRest, CallerRecords, Places
  <2>2. caller' \in [Callers -> CallerRecords]
    BY <1>9, <2>1, Moves DEF Cancel
  <2> QED
    BY <1>9, <2>2 DEF TypeOK, Cancel
<1>10. CASE CancelTask(c)
  <2>1. caller' \in [Callers -> CallerRecords]
    BY <1>10, Moves DEF CancelTask, Places
  <2> QED
    BY <1>10, <2>1 DEF TypeOK, CancelTask, RuntimeCancel
<1>11. CASE SettleCancelled(c)
  <2>1. caller[c].job \in Jobs
    BY <1>11 DEF CallersName, SettleCancelled, At
  <2>2. "cancelled" \in Outcomes
    BY DEF Outcomes
  <2>3. Settle(c, caller[c].job, "cancelled")
    BY <1>11 DEF SettleCancelled
  <2>4. /\ inflight' \subseteq Jobs /\ terminals' \in Seq(Jobs)
        /\ state' \in [Jobs -> States \union {"unborn"}]
        /\ say' \in [Threads -> [job : Jobs \union {NoJob}, state : States]]
    BY <1>1, <2>1, <2>2, <2>3, SettleTypes
  <2>5. caller' \in [Callers -> CallerRecords]
    BY <1>11, Moves DEF SettleCancelled
  <2> QED
    BY <1>11, <2>4, <2>5 DEF TypeOK, SettleCancelled
<1>12. CASE Shutdown(c)
  BY <1>12 DEF TypeOK, Shutdown
<1> QED
  BY <1>2, <1>3, <1>4, <1>5, <1>6, <1>7, <1>8, <1>9, <1>10, <1>11, <1>12
\* The snapshot a pass starts with.
LEMMA BeginPassType ==
    ASSUME TypeOK, InFlightWasPushed, BeginPass
    PROVE  pass' \in [todo : SUBSET [job : Jobs, was : States], job : Jobs \union {NoJob},
                      next : States]
<1>1. \A j \in inflight : j \in Jobs /\ state[j] \in States
  BY DEF TypeOK, InFlightWasPushed
<1>2. {[job |-> j, was |-> state[j]] : j \in inflight} \in SUBSET [job : Jobs, was : States]
  BY <1>1
<1> QED
  BY <1>2 DEF BeginPass, NoPass, States

\* What the worker, the runtime and an announcement do leaves every variable
\* in its type.
LEMMA WorkerTypes ==
    ASSUME IInv,
           \/ BeginPass \/ (\E record \in pass.todo : Poll(record)) \/ ApplyProgress
           \/ (\E t \in Threads : Announce(t))
           \/ \E j \in Jobs : TaskEnds(j)
    PROVE  TypeOK'
<1> USE DEF jobsState, runtime, announcements
<1>0. TypeOK
  BY DEF IInv
<1>1. pass.job \in Jobs \union {NoJob} /\ pass.next \in States
      /\ pass.todo \subseteq [job : Jobs, was : States]
  BY <1>0 DEF TypeOK
<1>2. CASE BeginPass
  BY <1>2, BeginPassType DEF IInv, TypeOK, BeginPass
<1>3. CASE \E record \in pass.todo : Poll(record)
  <2>0. PICK record \in pass.todo : Poll(record)
    BY <1>3
  <2>1. record.job \in Jobs
    BY <1>1
  <2>2. Progress(record.job) \in States
    BY <2>1, ProgressType DEF IInv
  <2>3. pass' \in [todo : SUBSET [job : Jobs, was : States], job : Jobs \union {NoJob},
                   next : States]
    BY <1>1, <2>0, <2>1, <2>2 DEF Poll, NoPass, States
  <2>4. flagged' \subseteq handles' /\ handles' \subseteq Jobs
    BY <1>0, <2>0 DEF TypeOK, Poll, Close
  <2> QED
    BY <1>0, <2>0, <2>3, <2>4 DEF TypeOK, Poll
<1>4. CASE ApplyProgress
  <2>1. pass.job \in Jobs
    BY <1>1, <1>4 DEF ApplyProgress
  <2>2. Worker \in Threads
    BY DEF Threads
  <2>3. pass' \in [todo : SUBSET [job : Jobs, was : States], job : Jobs \union {NoJob},
                   next : States]
    BY <1>0, <1>4 DEF TypeOK, ApplyProgress, States
  <2>4. /\ inflight' \subseteq Jobs /\ terminals' \in Seq(Jobs)
        /\ state' \in [Jobs -> States \union {"unborn"}]
        /\ say' \in [Threads -> [job : Jobs \union {NoJob}, state : States]]
    <3>1. CASE pass.next \in Outcomes
      <4>1. Settle(Worker, pass.job, pass.next)
        BY <1>4, <3>1 DEF ApplyProgress
      <4> QED
        BY <1>0, <2>1, <2>2, <3>1, <4>1, SettleTypes
    <3>2. CASE pass.next \notin Outcomes
      <4>1. [job |-> pass.job, state |-> pass.next] \in [job : Jobs \union {NoJob}, state : States]
        BY <1>1
      <4>2. UNCHANGED <<inflight, terminals>>
        BY <1>4, <3>2 DEF ApplyProgress
      <4>3. CASE pass.job \in inflight
        <5>1. /\ state' = [state EXCEPT ![pass.job] = pass.next]
              /\ say' = [say EXCEPT ![Worker] = [job |-> pass.job, state |-> pass.next]]
          BY <1>4, <3>2, <4>3 DEF ApplyProgress
        <5> QED
          BY <1>0, <1>1, <2>1, <2>2, <4>1, <4>2, <5>1 DEF TypeOK
      <4>4. CASE pass.job \notin inflight
        <5>1. UNCHANGED <<state, say>>
          BY <1>4, <3>2, <4>4 DEF ApplyProgress
        <5> QED
          BY <1>0, <4>2, <5>1 DEF TypeOK
      <4> QED
        BY <4>3, <4>4
    <3> QED
      BY <3>1, <3>2
  <2> QED
    BY <1>0, <1>4, <2>3, <2>4 DEF TypeOK, ApplyProgress
<1>5. ASSUME NEW t \in Threads, Announce(t) PROVE TypeOK'
  <2>1. Debts
    BY DEF IInv, Debts
  <2>2. /\ say' \in [Threads -> [job : Jobs \union {NoJob}, state : States]]
        /\ said' \in [Jobs -> Seq(Outcomes)]
    BY <1>0, <1>5, <2>1, AnnounceKeeps
  <2> QED
    BY <1>0, <1>5, <2>2 DEF TypeOK, Announce
<1>6. ASSUME NEW j \in Jobs, TaskEnds(j) PROVE TypeOK'
  <2>1. task' \in [Jobs -> {"none", "open", "completed", "failed", "cancelled"}]
    BY <1>0, <1>6 DEF TypeOK, TaskEnds
  <2> QED
    BY <1>0, <1>6, <2>1 DEF TypeOK, TaskEnds
<1> QED
  BY <1>2, <1>3, <1>4, <1>5, <1>6
-----------------------------------------------------------------------------
(* One step of each kind keeps the invariant.                              *)

\* A caller that moves without a word: it may come to name a job in flight,
\* and it does not come to push one.
LEMMA QuietMoves ==
    ASSUME IInv, TypeOK', NEW c \in Callers,
           UNCHANGED <<inflight, state, nextId, pass, say, said>>,
           \A d \in Callers : d # c => caller'[d] = caller[d],
           caller'[c].at # "push",
           caller'[c].at \in {"supersede", "cancelOld", "stop", "settle"} => caller'[c].job \in Jobs,
           UNCHANGED <<handles, task>>
    PROVE  IInv'
<1>1. Debts' /\ \A k \in Jobs : Fresh(k) => Fresh(k)'
  BY NothingSaid DEF IInv, Debts
<1>2. CallersName' /\ WorkerIsSilent' /\ HandlesHaveTasks' /\ InFlightWasPushed'
  BY DEF IInv, CallersName, WorkerIsSilent, HandlesHaveTasks, InFlightWasPushed
<1>3. NewIsFresh'
  BY <1>1, NewKept DEF IInv
<1> QED
  BY <1>1, <1>2, <1>3 DEF IInv, Debts

\* The steps of a call in which the caller settles and says nothing.
LEMMA CallerKeeps ==
    ASSUME IInv, TypeOK', NEW c \in Callers,
           \/ \E slot \in Slots \union {None}, key \in Keys \union {None} : Submit(c, slot, key)
           \/ FindOccupant(c) \/ CancelOld(c)
           \/ EnsureWorker(c) \/ CancelTask(c) \/ Shutdown(c)
           \/ \E j \in Jobs : Cancel(c, j)
    PROVE  IInv'
<1> USE DEF jobsState, runtime, announcements
<1>0. caller \in [Callers -> CallerRecords]
  BY DEF IInv, TypeOK
<1>1. ASSUME NEW slot \in Slots \union {None}, NEW key \in Keys \union {None}, Submit(c, slot, key)
      PROVE  IInv'
  <2>1. caller'[c].at = "lane" /\ \A d \in Callers : d # c => caller'[d] = caller[d]
    BY <1>0, <1>1 DEF Submit
  <2> QED
    BY <1>1, <2>1, QuietMoves DEF Submit
<1>2. CASE FindOccupant(c)
  <2>1. /\ caller'[c].at = "submit" \/ (caller'[c].at = "supersede" /\ caller'[c].job \in Jobs)
        /\ \A d \in Callers : d # c => caller'[d] = caller[d]
    <3>1. inflight \subseteq Jobs
      BY DEF IInv, TypeOK
    <3> QED
      BY <1>0, <1>2, <3>1 DEF FindOccupant, GoTo, CallerRecords, Occupants
  <2> QED
    BY <1>2, <2>1, QuietMoves DEF FindOccupant
<1>3. CASE CancelOld(c)
  <2>1. caller'[c].at = "submit" /\ \A d \in Callers : d # c => caller'[d] = caller[d]
    BY <1>0, <1>3 DEF CancelOld, GoTo, CallerRecords
  <2> QED
    BY <1>3, <2>1, QuietMoves DEF CancelOld, RuntimeCancel
<1>4. CASE EnsureWorker(c)
  <2>1. caller'[c].at = "idle" /\ \A d \in Callers : d # c => caller'[d] = caller[d]
    BY <1>0, <1>4 DEF EnsureWorker, AtRest
  <2> QED
    BY <1>4, <2>1, QuietMoves DEF EnsureWorker
<1>5. ASSUME NEW j \in Jobs, Cancel(c, j) PROVE IInv'
  <2>1. /\ caller'[c].at = "stop" /\ caller'[c].job = j
        /\ \A d \in Callers : d # c => caller'[d] = caller[d]
    BY <1>0, <1>5 DEF Cancel, AtRest
  <2> QED
    BY <1>5, <2>1, QuietMoves DEF Cancel
<1>6. CASE CancelTask(c)
  <2>1. /\ caller'[c].at = "settle" /\ caller'[c].job = caller[c].job
        /\ \A d \in Callers : d # c => caller'[d] = caller[d]
    BY <1>0, <1>6 DEF CancelTask, GoTo, CallerRecords
  <2>2. caller[c].job \in Jobs
    BY <1>6 DEF IInv, CallersName, CancelTask, At
  <2> QED
    BY <1>6, <2>1, <2>2, QuietMoves DEF CancelTask, RuntimeCancel
<1>7. CASE Shutdown(c)
  <2>1. caller'[c].at = "idle" /\ \A d \in Callers : d # c => caller'[d] = caller[d]
    BY <1>7 DEF Shutdown, At
  <2> QED
    BY <1>7, <2>1, QuietMoves DEF Shutdown
<1> QED
  BY <1>1, <1>2, <1>3, <1>4, <1>5, <1>6, <1>7

\* Supersede and the end of cancel: the caller settles the job it names.
LEMMA CallerSettles ==
    ASSUME IInv, TypeOK', NEW c \in Callers, Supersede(c) \/ SettleCancelled(c)
    PROVE  IInv'
<1> USE DEF jobsState, runtime, announcements
<1> DEFINE j == caller[c].job
<1>0. TypeOK /\ Debts /\ caller \in [Callers -> CallerRecords]
  BY DEF IInv, Debts, TypeOK
<1>1. j \in Jobs /\ say[c] = Silent /\ c \in Threads /\ c # Worker /\ Worker \in Threads
  BY JobsAssumption DEF IInv, CallersName, Supersede, SettleCancelled, At, Threads
<1>2. PICK s \in Outcomes : Settle(c, j, s)
  BY DEF Supersede, SettleCancelled, Outcomes
<1>3. said' = said
  BY DEF Supersede, SettleCancelled
<1>4. /\ Debts' /\ \A k \in Jobs : Fresh(k) => Fresh(k)'
      /\ \A u \in Threads : u # c => say'[u] = say[u]
  BY <1>0, <1>1, <1>2, <1>3, SettleKeeps
<1>5. /\ caller'[c].at \in {"cancelOld", "idle"}
      /\ caller'[c].at = "cancelOld" => caller'[c].job = j
      /\ \A d \in Callers : d # c => caller'[d] = caller[d]
  BY <1>0 DEF Supersede, SettleCancelled, GoTo, AtRest, CallerRecords
<1>6. UNCHANGED <<nextId, pass, handles, task>>
  BY DEF Supersede, SettleCancelled
<1>7. CallersName' /\ WorkerIsSilent' /\ HandlesHaveTasks'
  BY <1>1, <1>4, <1>5, <1>6 DEF IInv, CallersName, WorkerIsSilent, HandlesHaveTasks
<1>8. InFlightWasPushed'
  BY <1>0, <1>2 DEF IInv, InFlightWasPushed, Settle, TypeOK
<1>9. NewIsFresh'
  BY <1>4, <1>5, <1>6, NewKept DEF IInv
<1> QED
  BY <1>4, <1>7, <1>8, <1>9 DEF IInv, Debts

\* The ticket is that of a new job.
LEMMA SubmitTaskKeeps ==
    ASSUME IInv, TypeOK', NEW c \in Callers, SubmitTask(c)
    PROVE  IInv'
<1> USE DEF jobsState, runtime, announcements
<1>0. caller \in [Callers -> CallerRecords] /\ nextId \in Jobs
      /\ task \in [Jobs -> {"none", "open", "completed", "failed", "cancelled"}]
  BY JobsAssumption DEF IInv, TypeOK, SubmitTask, RuntimeSubmit, Jobs
<1>1. Debts' /\ \A k \in Jobs : Fresh(k) => Fresh(k)'
  BY NothingSaid DEF IInv, Debts, SubmitTask, RuntimeSubmit
<1>2. /\ \A d \in Callers : d # c => caller'[d] = caller[d]
      /\ caller'[c].at \in {"push", "idle"}
      /\ caller'[c].at = "push" => caller'[c].job = nextId
  BY <1>0 DEF SubmitTask, RuntimeSubmit, AtRest, CallerRecords
<1>3. CallersName' /\ WorkerIsSilent' /\ InFlightWasPushed'
  BY <1>0, <1>2 DEF IInv, CallersName, WorkerIsSilent, InFlightWasPushed, SubmitTask, RuntimeSubmit
<1>4. HandlesHaveTasks'
  <2>1. handles \subseteq Jobs
    BY DEF IInv, TypeOK
  <2> QED
    BY <1>0, <2>1 DEF IInv, HandlesHaveTasks, SubmitTask, RuntimeSubmit
<1>5. NewIsFresh'
  <2>1. nextId' = nextId + 1 /\ nextId \in Nat /\ \A k \in Jobs : k \in Nat
    BY <1>0 DEF SubmitTask, RuntimeSubmit, Jobs
  <2>2. \A k \in Jobs : k >= nextId => Fresh(k)'
    BY <1>1 DEF IInv, NewIsFresh
  <2>3. ASSUME NEW d \in Callers, caller'[d].at = "push"
        PROVE  /\ caller'[d].job \in Jobs /\ caller'[d].job < nextId'
               /\ \A k \in Jobs : k = caller'[d].job => Fresh(k)'
               /\ \A e \in Callers :
                     (caller'[e].at = "push" /\ caller'[e].job = caller'[d].job) => e = d
    <3>1. \A e \in Callers : e # c /\ caller'[e].at = "push" =>
                /\ caller'[e] = caller[e] /\ caller[e].at = "push"
                /\ caller[e].job \in Jobs /\ caller[e].job < nextId /\ Fresh(caller[e].job)
      BY <1>2 DEF IInv, NewIsFresh, CallersName
    <3>2. CASE d = c
      BY <1>0, <1>2, <2>1, <2>2, <2>3, <3>1, <3>2
    <3>3. CASE d # c
      <4>1. caller'[d] = caller[d] /\ caller[d].at = "push"
            /\ caller[d].job \in Jobs /\ caller[d].job < nextId /\ Fresh(caller[d].job)
        BY <2>3, <3>1, <3>3
      <4>2. \A e \in Callers :
               (caller'[e].at = "push" /\ caller'[e].job = caller'[d].job) => e = d
        BY <1>2, <2>1, <3>1, <4>1 DEF IInv, NewIsFresh
      <4> QED
        BY <1>1, <2>1, <4>1, <4>2
    <3> QED
      BY <3>2, <3>3
  <2>4. \A k \in Jobs : k >= nextId' => Fresh(k)'
    BY <2>1, <2>2
  <2> QED
    BY <2>3, <2>4 DEF NewIsFresh
<1> QED
  BY <1>1, <1>3, <1>4, <1>5 DEF IInv, Debts
\* The record of the caller's own job, which nobody has settled.
LEMMA PushKeeps ==
    ASSUME IInv, TypeOK', NEW c \in Callers, Push(c)
    PROVE  IInv'
<1> USE DEF jobsState, runtime, announcements
<1> DEFINE j == caller[c].job
<1>0. TypeOK /\ Debts /\ caller \in [Callers -> CallerRecords]
  BY DEF IInv, Debts, TypeOK
<1>1. /\ j \in Jobs /\ Fresh(j) /\ j < nextId
      /\ say[c] = Silent /\ c \in Threads /\ c # Worker /\ caller[c].at = "push"
  BY JobsAssumption DEF IInv, CallersName, NewIsFresh, Push, At, Threads
<1>2. /\ inflight' = inflight \union {j}
      /\ state' = [state EXCEPT ![j] = "pending"]
      /\ say' = [say EXCEPT ![c] = [job |-> j, state |-> "pending"]]
      /\ UNCHANGED <<said, nextId, pass, handles, task>>
  BY DEF Push
<1>3. Debts' /\ \A k \in Jobs : (Fresh(k) /\ k # j) => Fresh(k)'
  <2>1. Quiet(j) /\ "pending" \in {"pending", "running"}
    BY <1>1 DEF Fresh
  <2> HIDE DEF j
  <2> QED
    BY <1>0, <1>1, <1>2, <2>1, ProgressKeeps
<1>4. caller'[c].at = "wake" /\ \A d \in Callers : d # c => caller'[d] = caller[d]
  BY <1>0 DEF Push, GoTo, CallerRecords
<1>5. CallersName' /\ WorkerIsSilent' /\ HandlesHaveTasks'
  BY <1>0, <1>1, <1>2, <1>4 DEF IInv, CallersName, WorkerIsSilent, HandlesHaveTasks, TypeOK, Threads
<1>6. InFlightWasPushed'
  BY <1>0, <1>1, <1>2 DEF IInv, InFlightWasPushed, TypeOK
<1>7. NewIsFresh'
  <2>1. nextId \in Nat /\ \A k \in Jobs : k \in Nat
    BY <1>0, JobsAssumption DEF TypeOK, Jobs
  <2>2. \A k \in Jobs : k >= nextId' => Fresh(k)'
    BY <1>1, <1>2, <1>3, <2>1 DEF IInv, NewIsFresh
  <2>3. \A d \in Callers : caller'[d].at = "push" =>
            /\ d # c /\ caller'[d] = caller[d] /\ caller[d].at = "push"
            /\ caller[d].job \in Jobs /\ caller[d].job < nextId
            /\ Fresh(caller[d].job) /\ caller[d].job # j
    BY <1>1, <1>4 DEF IInv, NewIsFresh, CallersName
  <2>4. \A d \in Callers : caller'[d].at = "push" =>
            \A k \in Jobs : k = caller'[d].job => Fresh(k)'
    BY <1>3, <2>3
  <2>5. \A d, e \in Callers :
            (caller'[d].at = "push" /\ caller'[e].at = "push" /\ caller'[e].job = caller'[d].job)
                => e = d
    BY <2>3 DEF IInv, NewIsFresh
  <2> QED
    BY <1>2, <2>2, <2>3, <2>4, <2>5 DEF NewIsFresh
<1> QED
  BY <1>3, <1>5, <1>6, <1>7 DEF IInv, Debts

\* The worker looks: nothing is decided.
LEMMA WorkerLooks ==
    ASSUME IInv, TypeOK', BeginPass \/ \E record \in pass.todo : Poll(record)
    PROVE  IInv'
<1> USE DEF jobsState, runtime, announcements
<1>1. UNCHANGED <<inflight, state, say, said, nextId, caller, task>> /\ handles' \subseteq handles
  BY DEF BeginPass, Poll, Close
<1>2. Debts' /\ \A k \in Jobs : Fresh(k) => Fresh(k)'
  BY <1>1, NothingSaid DEF IInv, Debts
<1>3. say[Worker] = Silent
  BY DEF BeginPass, Poll, Resting
<1>4. CallersName' /\ WorkerIsSilent' /\ HandlesHaveTasks' /\ InFlightWasPushed'
  BY <1>1, <1>3 DEF IInv, CallersName, WorkerIsSilent, HandlesHaveTasks, InFlightWasPushed
<1>5. NewIsFresh'
  BY <1>1, <1>2, NewKept DEF IInv
<1> QED
  BY <1>2, <1>4, <1>5 DEF IInv, Debts

\* The worker settles the job it polled, or lets it go on.
LEMMA ApplyProgressKeeps ==
    ASSUME IInv, TypeOK', ApplyProgress
    PROVE  IInv'
<1> USE DEF jobsState, runtime, announcements
<1> DEFINE j == pass.job
<1>0. /\ TypeOK /\ Debts /\ j \in Jobs /\ pass.next \in States
      /\ say[Worker] = Silent /\ Worker \in Threads
  BY DEF IInv, Debts, TypeOK, ApplyProgress, WorkerIsSilent, Threads
<1>1. UNCHANGED <<said, nextId, caller, handles, task>> /\ pass'.job = NoJob
  BY <1>0 DEF ApplyProgress, TypeOK
<1>2. Debts' /\ (\A k \in Jobs : Fresh(k) => Fresh(k)') /\ InFlightWasPushed'
  <2>1. CASE pass.next \in Outcomes
    <3>1. Settle(Worker, j, pass.next)
      BY <2>1 DEF ApplyProgress
    <3>2. Debts' /\ \A k \in Jobs : Fresh(k) => Fresh(k)'
      BY <1>0, <1>1, <2>1, <3>1, SettleKeeps
    <3>3. InFlightWasPushed'
      BY <1>0, <3>1 DEF IInv, InFlightWasPushed, Settle, TypeOK
    <3> QED
      BY <3>2, <3>3
  <2>2. CASE pass.next \notin Outcomes /\ j \in inflight
    <3>1. /\ inflight' = inflight \union {j}
          /\ state' = [state EXCEPT ![j] = pass.next]
          /\ say' = [say EXCEPT ![Worker] = [job |-> j, state |-> pass.next]]
      BY <2>2 DEF ApplyProgress
    <3>2. Quiet(j) /\ ~Fresh(j)
      BY <2>2 DEF IInv, InFlightIsQuiet, Fresh
    <3>3. pass.next \in {"pending", "running"}
      BY <1>0, <2>2 DEF States
    <3>4. Debts' /\ \A k \in Jobs : (Fresh(k) /\ k # j) => Fresh(k)'
      <4> HIDE DEF j
      <4> QED
        BY <1>0, <1>1, <3>1, <3>2, <3>3, ProgressKeeps
    <3>5. InFlightWasPushed'
      BY <1>0, <3>1, <3>3 DEF IInv, InFlightWasPushed, TypeOK
    <3> QED
      BY <3>2, <3>4, <3>5
  <2>3. CASE pass.next \notin Outcomes /\ j \notin inflight
    <3>1. UNCHANGED <<inflight, state, say, said>>
      BY <1>1, <2>3 DEF ApplyProgress
    <3> QED
      BY <1>0, <3>1, NothingSaid DEF IInv, InFlightWasPushed
  <2> QED
    BY <2>1, <2>2, <2>3
<1>3. CallersName' /\ WorkerIsSilent' /\ HandlesHaveTasks'
  BY <1>1 DEF IInv, CallersName, WorkerIsSilent, HandlesHaveTasks
<1>4. NewIsFresh'
  BY <1>1, <1>2, NewKept DEF IInv
<1> QED
  BY <1>2, <1>3, <1>4 DEF IInv, Debts

\* An announcement, and the end of a task.
LEMMA OthersKeep ==
    ASSUME IInv, TypeOK', (\E t \in Threads : Announce(t)) \/ \E j \in Jobs : TaskEnds(j)
    PROVE  IInv'
<1> USE DEF jobsState, runtime, announcements
<1>1. UNCHANGED <<inflight, state, nextId, caller, pass, handles>>
  BY DEF Announce, TaskEnds
<1>2. Debts' /\ (\A k \in Jobs : Fresh(k) => Fresh(k)') /\ WorkerIsSilent'
  <2>0. TypeOK /\ Debts /\ Worker \in Threads
    BY DEF IInv, Debts, Threads
  <2>1. ASSUME NEW t \in Threads, Announce(t)
        PROVE  Debts' /\ (\A k \in Jobs : Fresh(k) => Fresh(k)') /\ WorkerIsSilent'
    <3>1. /\ Debts' /\ \A k \in Jobs : Fresh(k) => Fresh(k)'
          /\ say'[t] = Silent
          /\ \A u \in Threads : u # t => say'[u] = say[u]
      BY <2>0, <2>1, AnnounceKeeps
    <3> QED
      BY <1>1, <2>0, <3>1 DEF IInv, WorkerIsSilent
  <2>2. ASSUME NEW j \in Jobs, TaskEnds(j)
        PROVE  Debts' /\ (\A k \in Jobs : Fresh(k) => Fresh(k)') /\ WorkerIsSilent'
    <3>1. UNCHANGED <<say, said>>
      BY <2>2 DEF TaskEnds
    <3> QED
      BY <1>1, <2>0, <3>1, NothingSaid DEF IInv, WorkerIsSilent
  <2> QED
    BY <2>1, <2>2
<1>3. CallersName' /\ InFlightWasPushed'
  BY <1>1 DEF IInv, CallersName, InFlightWasPushed
<1>4. HandlesHaveTasks'
  <2>1. CASE \E t \in Threads : Announce(t)
    BY <1>1, <2>1 DEF IInv, HandlesHaveTasks, Announce
  <2>2. ASSUME NEW j \in Jobs, TaskEnds(j) PROVE HandlesHaveTasks'
    <3>1. PICK o \in {"completed", "failed", "cancelled"} : task' = [task EXCEPT ![j] = o]
      BY <2>2 DEF TaskEnds
    <3> QED
      BY <1>1, <3>1 DEF IInv, HandlesHaveTasks, TypeOK
  <2> QED
    BY <2>1, <2>2
<1>5. NewIsFresh'
  BY <1>1, <1>2, NewKept DEF IInv
<1> QED
  BY <1>2, <1>3, <1>4, <1>5 DEF IInv, Debts
\* Every step keeps the invariant.
LEMMA NextKeeps == IInv /\ [Next]_vars => IInv'
<1> SUFFICES ASSUME IInv, [Next]_vars PROVE IInv'
  OBVIOUS
<1>0. TypeOK /\ CallersName /\ Worker \in Threads /\ Callers \subseteq Threads
  BY DEF IInv, Threads
<1>1. ASSUME \E t \in Threads : Announce(t) PROVE IInv'
  <2>1. TypeOK'
    BY <1>1, WorkerTypes
  <2> QED
    BY <1>1, <2>1, OthersKeep
<1>2. CASE WorkerStep
  <2>1. CASE BeginPass \/ \E record \in pass.todo : Poll(record)
    <3>1. TypeOK'
      BY <2>1, WorkerTypes
    <3> QED
      BY <2>1, <3>1, WorkerLooks
  <2>2. CASE ApplyProgress
    <3>1. TypeOK'
      BY <2>2, WorkerTypes
    <3> QED
      BY <2>2, <3>1, ApplyProgressKeeps
  <2> QED
    BY <1>0, <1>1, <1>2, <2>1, <2>2 DEF WorkerStep
<1>3. ASSUME NEW c \in Callers, CallerStep(c) PROVE IInv'
  <2>1. CASE Announce(c)
    BY <1>0, <1>1, <2>1
  <2>2. CASE ~Announce(c)
    <3>1. TypeOK'
      BY <1>0, <1>3, <2>2, CallerTypes DEF CallerStep
    <3> QED
      BY <1>3, <2>2, <3>1, CallerKeeps, CallerSettles, SubmitTaskKeeps, PushKeeps
         DEF CallerStep
  <2> QED
    BY <2>1, <2>2
<1>4. ASSUME NEW c \in Callers,
             \/ \E s \in Slots \union {None}, k \in Keys \union {None} : Submit(c, s, k)
             \/ \E j \in Jobs : Cancel(c, j)
             \/ Shutdown(c)
      PROVE  IInv'
  <2>1. TypeOK'
    BY <1>0, <1>4, CallerTypes
  <2> QED
    BY <1>4, <2>1, CallerKeeps
<1>5. CASE \E j \in Jobs : TaskEnds(j)
  <2>1. TypeOK'
    BY <1>5, WorkerTypes
  <2> QED
    BY <1>5, <2>1, OthersKeep
<1>6. CASE UNCHANGED vars
  <2> USE <1>6 DEF vars, jobsState, runtime, announcements
  <2>1. Debts' /\ \A k \in Jobs : Fresh(k) => Fresh(k)'
    BY NothingSaid DEF IInv, Debts
  <2>2. TypeOK'
    BY <1>0 DEF TypeOK
  <2>3. CallersName' /\ WorkerIsSilent' /\ HandlesHaveTasks' /\ InFlightWasPushed'
    BY DEF IInv, CallersName, WorkerIsSilent, HandlesHaveTasks, InFlightWasPushed
  <2>4. NewIsFresh'
    BY <2>1, NewKept DEF IInv
  <2> QED
    BY <2>1, <2>2, <2>3, <2>4 DEF IInv, Debts
<1> QED
  BY <1>2, <1>3, <1>4, <1>5, <1>6 DEF Next

-----------------------------------------------------------------------------
(* A job that was cancelled or lost its lane is asked to stop.             *)
(*                                                                         *)
(* The caller that is about to settle a cancelled job has asked, and a     *)
(* poll that says "cancelled" has closed the ticket.  Neither is undone,   *)
(* since only a new job gets a ticket.                                     *)

Asked(j) == (j \in handles /\ task[j] = "open") => j \in flagged
Asking(j) == \E c \in Callers : caller[c].job = j /\ caller[c].at = "cancelOld"
LoserIsAsked(j) == state[j] \in {"cancelled", "superseded"} => Asked(j) \/ Asking(j)

NewIsUnborn == \A j \in Jobs : j >= nextId => state[j] = "unborn"
PolledIsKnown == pass.job < nextId /\ \A record \in pass.todo : record.job < nextId
PolledIsClosed == (pass.job # NoJob /\ pass.next \in Outcomes) => pass.job \notin handles
CancelledIsKnown == \A c \in Callers : caller[c].at \in {"stop", "settle"} => caller[c].job < nextId
CancelledIsAsked == \A c \in Callers : caller[c].at = "settle" => Asked(caller[c].job)

LInv == /\ NewIsUnborn /\ PolledIsKnown /\ PolledIsClosed
        /\ CancelledIsKnown /\ CancelledIsAsked
        /\ \A j \in Jobs : LoserIsAsked(j)

\* No ticket of a job that has one is opened again, no request to stop is
\* taken back while its ticket is open, and no task starts again.
Lasting == \A j \in Jobs : (j < nextId /\ j \in handles') =>
                /\ j \in handles
                /\ j \in flagged => j \in flagged'
                /\ task'[j] = "open" => task[j] = "open"

\* Who was asked to stop stays asked.
LEMMA AskedLasts ==
    ASSUME Lasting, NEW j \in Jobs, j < nextId, Asked(j)
    PROVE  Asked(j)'
    BY DEF Lasting, Asked

\* Types in the form these proofs need.
LEMMA Shapes ==
    ASSUME IInv
    PROVE  /\ caller \in [Callers -> CallerRecords]
           /\ state \in [Jobs -> States \union {"unborn"}]
           /\ task \in [Jobs -> {"none", "open", "completed", "failed", "cancelled"}]
           /\ handles \subseteq Jobs /\ flagged \subseteq handles /\ inflight \subseteq Jobs
           /\ nextId \in Nat /\ nextId >= 1 /\ \A j \in Jobs : j \in Nat \ {0}
           /\ \A j \in inflight : j < nextId
<1>1. /\ inflight \subseteq Jobs /\ nextId \in Nat /\ nextId >= 1
      /\ \A j \in Jobs : j \in Nat \ {0}
  BY JobsAssumption DEF IInv, TypeOK, Jobs
<1>2. \A j \in inflight : j < nextId
  BY <1>1 DEF IInv, NewIsFresh, Fresh
<1> QED
  BY <1>1, <1>2 DEF IInv, TypeOK

\* A step that settles nothing: the callers that come to settle have asked,
\* and those that were about to ask still are, or have.
LEMMA NothingSettled ==
    ASSUME IInv, LInv, IInv', Lasting, nextId' >= nextId, UNCHANGED pass,
           \A j \in Jobs : state'[j] = state[j] \/ (j < nextId /\ state'[j] \in {"pending", "running"}),
           \A c \in Callers : caller'[c].at \in {"stop", "settle"} =>
               \/ caller[c].at = caller'[c].at /\ caller'[c].job = caller[c].job
               \/ caller'[c].at = "stop" /\ caller'[c].job < nextId
               \/ /\ caller[c].at = "stop" /\ caller'[c].job = caller[c].job
                  /\ \A j \in Jobs : j = caller[c].job => Asked(j)',
           \A c \in Callers : caller[c].at = "cancelOld" =>
               \/ caller'[c].at = "cancelOld" /\ caller'[c].job = caller[c].job
               \/ \A j \in Jobs : j = caller[c].job => Asked(j)'
    PROVE  LInv'
<1>0. (\A j \in Jobs : j \in Nat) /\ nextId \in Nat /\ nextId' \in Nat
  BY Shapes, JobsAssumption DEF IInv, TypeOK
<1>1. NewIsUnborn'
  BY <1>0 DEF LInv, NewIsUnborn
<1>2. PolledIsKnown'
  <2>1. pass.job \in Nat /\ \A record \in pass.todo : record.job \in Nat
    BY <1>0 DEF IInv, TypeOK, NoJob
  <2> QED
    BY <1>0, <2>1 DEF LInv, PolledIsKnown
<1>3. PolledIsClosed'
  <2>1. pass.job # NoJob => pass.job \in Jobs
    BY DEF IInv, TypeOK
  <2> QED
    BY <2>1 DEF LInv, PolledIsClosed, PolledIsKnown, Lasting
<1>4. \A c \in Callers : /\ caller[c].at \in {"stop", "settle"} => caller[c].job \in Jobs
                         /\ caller'[c].at \in {"stop", "settle"} => caller'[c].job \in Jobs
  BY DEF IInv, CallersName
<1>5. CancelledIsKnown'
  <2>1. \A c \in Callers : caller'[c].at \in {"stop", "settle"} => caller'[c].job < nextId
    BY DEF LInv, CancelledIsKnown
  <2> QED
    BY <1>0, <1>4, <2>1 DEF CancelledIsKnown
<1>6. CancelledIsAsked'
  <2>1. ASSUME NEW c \in Callers, caller'[c].at = "settle", NEW j \in Jobs, j = caller'[c].job
        PROVE  Asked(j)'
    <3>1. CASE caller[c].at = "settle" /\ caller'[c].job = caller[c].job
      <4>1. Asked(j) /\ j < nextId
        BY <2>1, <3>1 DEF LInv, CancelledIsAsked, CancelledIsKnown
      <4> QED
        BY <4>1, AskedLasts
    <3>2. CASE caller[c].job = j
      BY <2>1, <3>1, <3>2
    <3> QED
      BY <2>1, <3>1, <3>2
  <2> QED
    BY <1>4, <2>1 DEF CancelledIsAsked, Asked
<1>7. ASSUME NEW j \in Jobs PROVE LoserIsAsked(j)'
  <2>1. CASE state'[j] = state[j] /\ state[j] \in {"cancelled", "superseded"}
    <3>1. j < nextId
      BY <1>0, <2>1 DEF LInv, NewIsUnborn
    <3>2. Asked(j) \/ Asking(j)
      BY <2>1 DEF LInv, LoserIsAsked
    <3>3. Asked(j) => Asked(j)'
      BY <3>1, AskedLasts
    <3>4. Asking(j) => Asked(j)' \/ Asking(j)'
      BY DEF Asking
    <3> QED
      BY <3>2, <3>3, <3>4 DEF LoserIsAsked
  <2>2. CASE state'[j] \notin {"cancelled", "superseded"}
    BY <2>2 DEF LoserIsAsked
  <2> QED
    BY <2>1, <2>2
<1> QED
  BY <1>1, <1>2, <1>3, <1>5, <1>6, <1>7 DEF LInv

\* Nothing was submitted.
LEMMA InitLInv == Init => LInv
  BY DEF Init, LInv, NewIsUnborn, PolledIsKnown, PolledIsClosed, CancelledIsKnown,
         CancelledIsAsked, LoserIsAsked, NoPass, NoJob, AtRest
\* The steps of a caller that settles nothing.
LEMMA CallerLInv ==
    ASSUME IInv, LInv, IInv', NEW c \in Callers,
           \/ \E slot \in Slots \union {None}, key \in Keys \union {None} : Submit(c, slot, key)
           \/ FindOccupant(c) \/ CancelOld(c) \/ SubmitTask(c) \/ Push(c)
           \/ EnsureWorker(c) \/ CancelTask(c) \/ Shutdown(c)
           \/ \E j \in Jobs : Cancel(c, j)
    PROVE  LInv'
<1> USE DEF jobsState, runtime, announcements
<1>0. /\ caller \in [Callers -> CallerRecords]
      /\ state \in [Jobs -> States \union {"unborn"}]
      /\ task \in [Jobs -> {"none", "open", "completed", "failed", "cancelled"}]
      /\ handles \subseteq Jobs /\ flagged \subseteq handles
      /\ nextId \in Nat /\ \A j \in Jobs : j \in Nat
      /\ \A j \in inflight : j \in Jobs /\ j < nextId
  BY Shapes
<1>1. ASSUME NEW slot \in Slots \union {None}, NEW key \in Keys \union {None}, Submit(c, slot, key)
      PROVE  LInv'
  <2>1. caller'[c].at = "lane" /\ caller[c].at = "idle"
        /\ \A d \in Callers : d # c => caller'[d] = caller[d]
    BY <1>0, <1>1 DEF Submit, At
  <2>2. Lasting /\ UNCHANGED <<state, pass, nextId>>
    BY <1>1 DEF Submit, Lasting
  <2> QED
    BY <1>0, <2>1, <2>2, NothingSettled
<1>2. CASE FindOccupant(c)
  <2>1. caller'[c].at \in {"submit", "supersede"} /\ caller[c].at = "lane"
        /\ \A d \in Callers : d # c => caller'[d] = caller[d]
    BY ZenonT(60), <1>0, <1>2 DEF FindOccupant, At, GoTo, CallerRecords
  <2>2. Lasting /\ UNCHANGED <<state, pass, nextId>>
    BY <1>2 DEF FindOccupant, Lasting
  <2> QED
    BY <1>0, <2>1, <2>2, NothingSettled
<1>3. CASE CancelOld(c)
  <2>1. caller'[c].at = "submit" /\ \A d \in Callers : d # c => caller'[d] = caller[d]
    BY <1>0, <1>3 DEF CancelOld, GoTo, CallerRecords
  <2>2. Lasting /\ UNCHANGED <<state, pass, nextId>>
    BY <1>3 DEF CancelOld, RuntimeCancel, Lasting
  <2>3. \A j \in Jobs : j = caller[c].job => Asked(j)'
    BY <1>3 DEF CancelOld, RuntimeCancel, Asked
  <2> QED
    BY <1>0, <2>1, <2>2, <2>3, NothingSettled
<1>4. CASE SubmitTask(c)
  <2>1. caller'[c].at \in {"push", "idle"} /\ caller[c].at = "submit"
        /\ \A d \in Callers : d # c => caller'[d] = caller[d]
    BY <1>0, <1>4 DEF SubmitTask, At, AtRest, CallerRecords
  <2>2. Lasting /\ UNCHANGED <<state, pass>> /\ nextId' >= nextId
    BY <1>0, <1>4 DEF SubmitTask, RuntimeSubmit, Lasting
  <2> QED
    BY <1>0, <2>1, <2>2, NothingSettled
<1>5. CASE Push(c)
  <2>1. caller'[c].at = "wake" /\ caller[c].at = "push"
        /\ \A d \in Callers : d # c => caller'[d] = caller[d]
    BY <1>0, <1>5 DEF Push, At, GoTo, CallerRecords
  <2>2. Lasting /\ UNCHANGED <<pass, nextId>>
    BY <1>5 DEF Push, Lasting
  <2>3. caller[c].job < nextId
    BY <2>1 DEF IInv, NewIsFresh
  <2>4. \A j \in Jobs : state'[j] = state[j] \/ (j < nextId /\ state'[j] \in {"pending", "running"})
    BY <1>0, <1>5, <2>3 DEF Push
  <2> QED
    BY <1>0, <2>1, <2>2, <2>4, NothingSettled
<1>6. CASE EnsureWorker(c)
  <2>1. caller'[c].at = "idle" /\ caller[c].at = "wake"
        /\ \A d \in Callers : d # c => caller'[d] = caller[d]
    BY <1>0, <1>6 DEF EnsureWorker, At, AtRest
  <2>2. Lasting /\ UNCHANGED <<state, pass, nextId>>
    BY <1>6 DEF EnsureWorker, Lasting
  <2> QED
    BY <1>0, <2>1, <2>2, NothingSettled
<1>7. CASE CancelTask(c)
  <2>1. /\ caller'[c].at = "settle" /\ caller'[c].job = caller[c].job /\ caller[c].at = "stop"
        /\ \A d \in Callers : d # c => caller'[d] = caller[d]
    BY <1>0, <1>7 DEF CancelTask, At, GoTo, CallerRecords
  <2>2. Lasting /\ UNCHANGED <<state, pass, nextId>>
    BY <1>7 DEF CancelTask, RuntimeCancel, Lasting
  <2>3. \A j \in Jobs : j = caller[c].job => Asked(j)'
    BY <1>7 DEF CancelTask, RuntimeCancel, Asked
  <2> QED
    BY <1>0, <2>1, <2>2, <2>3, NothingSettled
<1>8. CASE Shutdown(c)
  <2>1. Lasting /\ UNCHANGED <<state, pass, nextId, caller>>
    BY <1>8 DEF Shutdown, Lasting
  <2> QED
    BY <1>0, <2>1, NothingSettled
<1>9. ASSUME NEW j \in Jobs, Cancel(c, j) PROVE LInv'
  <2>1. /\ caller'[c].at = "stop" /\ caller'[c].job = j /\ caller[c].at = "idle"
        /\ \A d \in Callers : d # c => caller'[d] = caller[d]
    BY <1>0, <1>9 DEF Cancel, At, AtRest
  <2>2. j < nextId
    BY <1>0, <1>9 DEF Cancel
  <2>3. Lasting /\ UNCHANGED <<state, pass, nextId>>
    BY <1>9 DEF Cancel, Lasting
  <2> QED
    BY <1>0, <2>1, <2>2, <2>3, NothingSettled
<1> QED
  BY <1>1, <1>2, <1>3, <1>4, <1>5, <1>6, <1>7, <1>8, <1>9

\* An announcement and the end of a task.
LEMMA OthersLInv ==
    ASSUME IInv, LInv, IInv', (\E t \in Threads : Announce(t)) \/ \E j \in Jobs : TaskEnds(j)
    PROVE  LInv'
<1> USE DEF jobsState, runtime, announcements
<1>1. UNCHANGED <<state, nextId, caller, pass, handles, flagged>>
  BY DEF Announce, TaskEnds
<1>2. \A j \in Jobs : task'[j] = "open" => task[j] = "open"
  BY Shapes DEF Announce, TaskEnds
<1>3. Lasting
  BY <1>1, <1>2 DEF Lasting
<1> QED
  BY <1>1, <1>3, Shapes, NothingSettled

\* The caller that settles a cancelled job has asked; the one that gives a
\* lane up is about to.
LEMMA SettlingLInv ==
    ASSUME IInv, LInv, IInv', NEW c \in Callers, Supersede(c) \/ SettleCancelled(c)
    PROVE  LInv'
<1> USE DEF jobsState, runtime, announcements
<1> DEFINE j == caller[c].job
<1>0. /\ caller \in [Callers -> CallerRecords]
      /\ state \in [Jobs -> States \union {"unborn"}]
      /\ nextId \in Nat /\ \A k \in Jobs : k \in Nat
      /\ \A k \in inflight : k \in Jobs /\ k < nextId
  BY Shapes
<1>1. UNCHANGED <<nextId, pass, handles, flagged, task>>
  BY DEF Supersede, SettleCancelled
<1>2. /\ caller'[c].at \in {"cancelOld", "idle"} /\ caller[c].at \notin {"stop", "cancelOld"}
      /\ \A d \in Callers : d # c => caller'[d] = caller[d]
  BY <1>0 DEF Supersede, SettleCancelled, At, GoTo, AtRest, CallerRecords
<1>3. \A k \in Jobs : k # j \/ k \notin inflight => state'[k] = state[k]
  BY <1>0 DEF Supersede, SettleCancelled, Settle
<1>4. NewIsUnborn' /\ PolledIsKnown' /\ PolledIsClosed' /\ CancelledIsKnown' /\ CancelledIsAsked'
  <2>1. NewIsUnborn'
    BY <1>0, <1>1, <1>3 DEF LInv, NewIsUnborn
  <2>2. PolledIsKnown' /\ PolledIsClosed'
    BY <1>1 DEF LInv, PolledIsKnown, PolledIsClosed
  <2>3. CancelledIsKnown' /\ CancelledIsAsked'
    BY <1>1, <1>2 DEF LInv, CancelledIsKnown, CancelledIsAsked, Asked
  <2> QED
    BY <2>1, <2>2, <2>3
<1>5. ASSUME NEW k \in Jobs PROVE LoserIsAsked(k)'
  <2>1. CASE k = j
    <3>1. CASE Supersede(c)
      <4>1. caller'[c].at = "cancelOld" /\ caller'[c].job = k
        BY <1>0, <2>1, <3>1 DEF Supersede, GoTo, CallerRecords
      <4> QED
        BY <4>1 DEF LoserIsAsked, Asking
    <3>2. CASE SettleCancelled(c)
      <4>1. Asked(k)
        BY <2>1, <3>2 DEF LInv, CancelledIsAsked, SettleCancelled, At
      <4> QED
        BY <1>1, <4>1 DEF LoserIsAsked, Asked
    <3> QED
      BY <3>1, <3>2
  <2>2. CASE k # j
    <3>1. state'[k] = state[k]
      BY <1>3, <2>2
    <3>2. Asking(k) => Asking(k)'
      BY <1>2 DEF Asking
    <3> QED
      BY <1>1, <3>1, <3>2 DEF LInv, LoserIsAsked, Asked
  <2> QED
    BY <2>1, <2>2
<1> QED
  BY <1>4, <1>5 DEF LInv
\* The snapshot holds jobs that have their ticket.
LEMMA BeginPassLInv ==
    ASSUME IInv, LInv, IInv', BeginPass
    PROVE  LInv'
<1> USE DEF jobsState, runtime, announcements
<1>1. UNCHANGED <<state, nextId, caller, handles, flagged, task>>
  BY DEF BeginPass
<1>2. pass'.job = NoJob /\ pass'.todo = {[job |-> j, was |-> state[j]] : j \in inflight}
  BY DEF BeginPass, NoPass
<1>3. PolledIsKnown'
  BY <1>1, <1>2, Shapes DEF PolledIsKnown, NoJob
<1>4. PolledIsClosed'
  BY <1>2 DEF PolledIsClosed
<1>5. NewIsUnborn' /\ CancelledIsKnown' /\ CancelledIsAsked' /\ \A j \in Jobs : LoserIsAsked(j)'
  BY <1>1 DEF LInv, NewIsUnborn, CancelledIsKnown, CancelledIsAsked, LoserIsAsked, Asked, Asking
<1> QED
  BY <1>3, <1>4, <1>5 DEF LInv

\* A ticket that is answered with an outcome is closed in the same step.
LEMMA PollLInv ==
    ASSUME IInv, LInv, IInv', NEW record \in pass.todo, Poll(record)
    PROVE  LInv'
<1> USE DEF jobsState, runtime, announcements
<1> DEFINE j == record.job
           next == Progress(j)
<1>1. UNCHANGED <<state, nextId, caller, task>>
  BY DEF Poll
<1>2. /\ handles' \subseteq handles
      /\ \A k \in Jobs : (k \in handles' /\ k \in flagged) => k \in flagged'
      /\ next \in Outcomes => j \notin handles'
  BY DEF Poll, Close
<1>3. /\ pass'.todo = pass.todo \ {record}
      /\ pass'.job = (IF next = record.was THEN NoJob ELSE j)
      /\ pass'.next = (IF next = record.was THEN "pending" ELSE next)
  BY DEF Poll, NoPass
<1>4. PolledIsKnown'
  BY <1>1, <1>3, Shapes DEF LInv, PolledIsKnown, NoJob
<1>5. PolledIsClosed'
  <2>1. "pending" \notin Outcomes
    BY DEF Outcomes
  <2> HIDE DEF next
  <2> QED
    BY <1>2, <1>3, <2>1 DEF PolledIsClosed
<1>6. \A k \in Jobs : Asked(k) => Asked(k)'
  BY <1>1, <1>2 DEF Asked
<1>7. NewIsUnborn' /\ CancelledIsKnown'
  BY <1>1 DEF LInv, NewIsUnborn, CancelledIsKnown
<1>8. CancelledIsAsked'
  <2>1. \A c \in Callers : caller[c].at = "settle" => caller[c].job \in Jobs
    BY DEF IInv, CallersName
  <2>2. ASSUME NEW c \in Callers, caller[c].at = "settle", NEW k \in Jobs, k = caller[c].job
        PROVE  Asked(k)'
    BY <1>6, <2>2 DEF LInv, CancelledIsAsked
  <2> QED
    BY <1>1, <2>1, <2>2 DEF CancelledIsAsked, Asked
<1>9. \A k \in Jobs : LoserIsAsked(k)'
  BY <1>1, <1>6 DEF LInv, LoserIsAsked, Asking
<1> QED
  BY <1>4, <1>5, <1>7, <1>8, <1>9 DEF LInv

\* The worker settles a job whose ticket is closed.
LEMMA ApplyProgressLInv ==
    ASSUME IInv, LInv, IInv', ApplyProgress
    PROVE  LInv'
<1> USE DEF jobsState, runtime, announcements
<1> DEFINE j == pass.job
<1>0. /\ state \in [Jobs -> States \union {"unborn"}]
      /\ nextId \in Nat /\ nextId >= 1 /\ \A k \in Jobs : k \in Nat
      /\ j \in Jobs /\ pass.next \in States
      /\ \A k \in inflight : k \in Jobs /\ k < nextId
  BY Shapes DEF IInv, TypeOK, ApplyProgress
<1>1. UNCHANGED <<nextId, caller, handles, flagged, task>>
  BY DEF ApplyProgress
<1>2. pass'.job = NoJob /\ pass'.todo = pass.todo
  BY DEF ApplyProgress, IInv, TypeOK
<1>3. \A k \in Jobs : k # j \/ k \notin inflight => state'[k] = state[k]
  BY <1>0 DEF ApplyProgress, Settle
<1>4. PolledIsKnown' /\ PolledIsClosed'
  BY <1>0, <1>1, <1>2 DEF LInv, PolledIsKnown, PolledIsClosed, NoJob
<1>5. NewIsUnborn'
  BY <1>0, <1>1, <1>3 DEF LInv, NewIsUnborn
<1>6. CancelledIsKnown' /\ CancelledIsAsked'
  BY <1>1 DEF LInv, CancelledIsKnown, CancelledIsAsked, Asked
<1>7. ASSUME NEW k \in Jobs PROVE LoserIsAsked(k)'
  <2>1. CASE state'[k] = state[k]
    BY <1>1, <2>1 DEF LInv, LoserIsAsked, Asked, Asking
  <2>2. CASE state'[k] # state[k]
    <3>1. k = j /\ state'[k] = pass.next
      BY <1>0, <1>3, <2>2 DEF ApplyProgress, Settle
    <3>2. CASE pass.next \in Outcomes
      <4>1. k \notin handles
        BY <3>1, <3>2 DEF LInv, PolledIsClosed, ApplyProgress
      <4> QED
        BY <1>1, <4>1 DEF LoserIsAsked, Asked
    <3>3. CASE pass.next \notin Outcomes
      BY <3>1, <3>3 DEF LoserIsAsked, Outcomes
    <3> QED
      BY <3>2, <3>3
  <2> QED
    BY <2>1, <2>2
<1> QED
  BY <1>4, <1>5, <1>6, <1>7 DEF LInv

\* Every step keeps the promise to the losers.
LEMMA NextKeepsLInv == IInv /\ LInv /\ [Next]_vars => LInv'
<1> SUFFICES ASSUME IInv, LInv, [Next]_vars PROVE LInv'
  OBVIOUS
<1>0. IInv' /\ Worker \in Threads /\ Callers \subseteq Threads
  BY NextKeeps DEF Threads
<1>1. CASE WorkerStep
  BY <1>0, <1>1, BeginPassLInv, PollLInv, ApplyProgressLInv, OthersLInv DEF WorkerStep
<1>2. ASSUME NEW c \in Callers, CallerStep(c) PROVE LInv'
  <2>1. CASE Announce(c)
    BY <1>0, <2>1, OthersLInv
  <2>2. CASE Supersede(c) \/ SettleCancelled(c)
    BY <1>0, <2>2, SettlingLInv
  <2>3. CASE ~(Announce(c) \/ Supersede(c) \/ SettleCancelled(c))
    BY <1>0, <1>2, <2>3, CallerLInv DEF CallerStep
  <2> QED
    BY <2>1, <2>2, <2>3
<1>3. ASSUME NEW c \in Callers,
             \/ \E s \in Slots \union {None}, k \in Keys \union {None} : Submit(c, s, k)
             \/ \E j \in Jobs : Cancel(c, j)
             \/ Shutdown(c)
      PROVE  LInv'
  BY <1>0, <1>3, CallerLInv
<1>4. CASE \E j \in Jobs : TaskEnds(j)
  BY <1>0, <1>4, OthersLInv
<1>5. CASE UNCHANGED vars
  BY <1>5 DEF vars, jobsState, runtime, LInv, NewIsUnborn, PolledIsKnown, PolledIsClosed,
              CancelledIsKnown, CancelledIsAsked, LoserIsAsked, Asked, Asking
<1> QED
  BY <1>1, <1>2, <1>3, <1>4, <1>5 DEF Next

-----------------------------------------------------------------------------
(* A lane and a key have one job in flight, as long as one thread submits:  *)
(* what it found out of them stays so until its own job is pushed.          *)

OneCaller == \A c, d \in Callers : c = d

\* The jobs in flight that a request of this lane, or this key, would meet.
Meets(c, j) == \/ caller[c].slot # None /\ request[j].slot = caller[c].slot
               \/ caller[c].key # None /\ request[j].key = caller[c].key

\* From the look-up of the key to the push nobody has the key, and from the
\* settling of the occupant to the push nobody has the lane; in between the
\* lane has no job but the one that is to be superseded.
LookedUp ==
    \A c \in Callers :
        /\ caller[c].at \in {"lane", "supersede", "cancelOld", "submit", "push"} =>
              \A j \in inflight : caller[c].key = None \/ request[j].key # caller[c].key
        /\ caller[c].at = "supersede" =>
              \A j \in inflight : j # caller[c].job => ~Meets(c, j)
        /\ caller[c].at \in {"cancelOld", "submit", "push"} =>
              \A j \in inflight : ~Meets(c, j)

LaneInv == OneJobPerLane /\ LookedUp

\* Steps that add no job, change no request and leave the callers where they
\* are, or where they look up nothing.
LEMMA FewerInFlight ==
    ASSUME LaneInv, inflight' \subseteq inflight, request' = request,
           \A c \in Callers : \/ caller'[c] = caller[c]
                              \/ caller'[c].at \in {"idle", "wake", "stop", "settle"}
    PROVE  LaneInv'
  BY DEF LaneInv, OneJobPerLane, LookedUp, Meets

\* What a caller does on its way from the look-up of the key to the push.
LEMMA LookingUp ==
    ASSUME IInv, LaneInv, NEW c \in Callers, OneCaller,
           \/ FindOccupant(c) \/ Supersede(c) \/ CancelOld(c) \/ SubmitTask(c)
           \/ \E s \in Slots \union {None}, k \in Keys \union {None} : Submit(c, s, k)
    PROVE  LaneInv'
  <1> USE DEF jobsState, runtime, announcements, CallerRecords
  <1>1. inflight' \subseteq inflight /\ request' = request
    BY DEF FindOccupant, Supersede, CancelOld, SubmitTask, Submit, RuntimeCancel, Settle
  <1>2. OneJobPerLane'
    BY <1>1 DEF LaneInv, OneJobPerLane
  <1>3. caller \in [Callers -> CallerRecords] /\ \A d \in Callers : d = c
    BY DEF IInv, TypeOK, OneCaller
  <1>4. CASE FindOccupant(c)
    <2>1. CASE caller'[c].at = "submit"
      <3>1. Occupants(caller[c].slot) = {} /\ caller' = [caller EXCEPT ![c].at = "submit"]
        BY ZenonT(60), <1>3, <1>4, <2>1 DEF FindOccupant, GoTo
      <3>2. \A j \in inflight : caller[c].key = None \/ request[j].key # caller[c].key
        BY <1>4 DEF FindOccupant, At, LaneInv, LookedUp
      <3>3. LookedUp'
        <4>1. \A j \in inflight : caller[c].slot = None \/ request[j].slot # caller[c].slot
          BY <3>1 DEF Occupants
        <4> QED
          BY <1>1, <1>3, <3>1, <3>2, <4>1 DEF LookedUp, Meets
      <3> QED
        BY <1>2, <3>3 DEF LaneInv
    <2>2. CASE caller'[c].at # "submit"
      <3>1. PICK old \in Occupants(caller[c].slot) :
               caller' = [caller EXCEPT ![c].job = old, ![c].at = "supersede"]
        BY <1>3, <1>4, <2>2 DEF FindOccupant, GoTo
      <3>2. old \in inflight /\ caller[c].slot # None /\ request[old].slot = caller[c].slot
        BY <3>1 DEF Occupants
      <3>3. \A j \in inflight : j # old => request[j].slot # caller[c].slot
        BY <3>2 DEF LaneInv, OneJobPerLane
      <3>4. \A j \in inflight : caller[c].key = None \/ request[j].key # caller[c].key
        BY <1>4 DEF FindOccupant, At, LaneInv, LookedUp
      <3> QED
        BY <1>1, <1>2, <1>3, <3>1, <3>3, <3>4 DEF LaneInv, LookedUp, Meets
    <2> QED
      BY <2>1, <2>2
  <1>5. CASE Supersede(c)
    <2>1. caller[c].at = "supersede" /\ caller' = [caller EXCEPT ![c].at = "cancelOld"]
      BY <1>5 DEF Supersede, At, GoTo
    <2>2. inflight' = inflight \ {caller[c].job}
      BY <1>5 DEF Supersede, Settle
    <2> QED
      BY <1>1, <1>2, <1>3, <2>1, <2>2 DEF LaneInv, LookedUp, Meets
  <1>6. CASE CancelOld(c)
    BY <1>1, <1>2, <1>3, <1>6 DEF CancelOld, At, GoTo, LaneInv, LookedUp, Meets
  <1>7. CASE SubmitTask(c)
    BY <1>1, <1>2, <1>3, <1>7 DEF SubmitTask, At, AtRest, LaneInv, LookedUp, Meets
  <1>8. ASSUME NEW s \in Slots \union {None}, NEW k \in Keys \union {None}, Submit(c, s, k)
        PROVE  LookedUp'
    BY <1>1, <1>3, <1>8 DEF Submit, InFlightWithKey, LookedUp, Meets
  <1> QED
    BY <1>2, <1>4, <1>5, <1>6, <1>7, <1>8 DEF LaneInv

\* The job that is pushed meets none of its lane and its key.
LEMMA PushInLane ==
    ASSUME IInv, LaneInv, NEW c \in Callers, OneCaller, Push(c)
    PROVE  LaneInv'
  <1> DEFINE new == caller[c].job
  <1>1. /\ caller \in [Callers -> CallerRecords] /\ \A d \in Callers : d = c
        /\ new \in Jobs /\ inflight \subseteq Jobs
        /\ request \in [Jobs -> [slot : Slots \union {None}, key : Keys \union {None}]]
    BY DEF IInv, TypeOK, OneCaller, CallersName, Push, At
  <1>2. /\ caller[c].at = "push" /\ caller'[c].at = "wake"
        /\ inflight' = inflight \union {new}
        /\ request' = [request EXCEPT ![new] = [slot |-> caller[c].slot, key |-> caller[c].key]]
    BY <1>1 DEF Push, At, GoTo, CallerRecords
  <1>3. new \notin inflight
    BY <1>2 DEF IInv, NewIsFresh, Fresh
  <1>4. \A j \in inflight : request'[j] = request[j] /\ ~Meets(c, j)
    BY <1>1, <1>2, <1>3 DEF LaneInv, LookedUp
  <1>5. request'[new].slot = caller[c].slot /\ request'[new].key = caller[c].key
    BY <1>1, <1>2
  <1>6. OneJobPerLane'
    BY <1>2, <1>4, <1>5 DEF LaneInv, OneJobPerLane, Meets
  <1>7. LookedUp'
    BY <1>1, <1>2 DEF LookedUp
  <1> QED
    BY <1>6, <1>7 DEF LaneInv

LEMMA NextKeepsLanes ==
    ASSUME IInv, LaneInv, OneCaller, [Next]_vars
    PROVE  LaneInv'
  <1> USE DEF jobsState, runtime, announcements
  <1>0. caller \in [Callers -> CallerRecords] /\ TypeOK
    BY DEF IInv, TypeOK
  <1>1. CASE WorkerStep
    <2>1. inflight' \subseteq inflight /\ UNCHANGED <<request, caller>>
      BY <1>1 DEF WorkerStep, BeginPass, Poll, ApplyProgress, Settle, Announce
    <2> QED
      BY <2>1, FewerInFlight
  <1>2. ASSUME NEW c \in Callers, CallerStep(c)
        PROVE  LaneInv'
    <2>1. CASE EnsureWorker(c) \/ CancelTask(c) \/ SettleCancelled(c) \/ Announce(c)
      <3>1. inflight' \subseteq inflight /\ UNCHANGED request
        BY <2>1 DEF EnsureWorker, CancelTask, SettleCancelled, Announce, RuntimeCancel, Settle
      <3>2. \A d \in Callers : \/ caller'[d] = caller[d]
                               \/ caller'[d].at \in {"idle", "wake", "stop", "settle"}
        BY <1>0, <2>1 DEF EnsureWorker, CancelTask, SettleCancelled, Announce, At, GoTo, AtRest, CallerRecords
      <3> QED
        BY <3>1, <3>2, FewerInFlight
    <2>2. CASE Push(c)
      BY <2>2, PushInLane
    <2> QED
      BY <1>2, <2>1, <2>2, LookingUp DEF CallerStep
  <1>3. ASSUME NEW c \in Callers, NEW s \in Slots \union {None}, NEW k \in Keys \union {None},
               Submit(c, s, k)
        PROVE  LaneInv'
    BY <1>3, LookingUp
  <1>4. ASSUME NEW c \in Callers, (\E j \in Jobs : Cancel(c, j)) \/ Shutdown(c)
        PROVE  LaneInv'
    <2>1. inflight' \subseteq inflight /\ UNCHANGED request
      BY <1>4 DEF Cancel, Shutdown
    <2>2. \A d \in Callers : \/ caller'[d] = caller[d]
                             \/ caller'[d].at \in {"idle", "wake", "stop", "settle"}
      BY <1>0, <1>4 DEF Cancel, Shutdown, AtRest
    <2> QED
      BY <2>1, <2>2, FewerInFlight
  <1>5. CASE (\E j \in Jobs : TaskEnds(j)) \/ UNCHANGED vars
    <2>1. UNCHANGED <<inflight, request, caller>>
      BY <1>5 DEF TaskEnds, vars
    <2> QED
      BY <2>1, FewerInFlight
  <1> QED
    BY <1>1, <1>2, <1>3, <1>4, <1>5 DEF Next

-----------------------------------------------------------------------------
(* Every job that is accepted comes to the outcome of its task.  The ticket *)
(* of a job in flight is closed only by the poll that takes its outcome,    *)
(* which is the job's before the next pass; so nobody polls a closed ticket *)
(* and takes the error for a failure.  Who takes a job out of flight owes   *)
(* its announcement.                                                        *)

\* A pass polls every ticket once, while it is open.
TodoInv ==
    \A r \in pass.todo : /\ r.job \in handles /\ state[r.job] # "unborn"
                         /\ r.was \in {"pending", "running"}
                         /\ \A q \in pass.todo : q.job = r.job => q = r

\* The ticket of a job in flight is open, or its outcome is taken.
TicketInv ==
    \A j \in inflight : /\ state[j] \in {"pending", "running"}
                        /\ j \in handles \/ (pass.job = j /\ pass.next \in Outcomes)

\* A job that is still to be pushed has its ticket.
NewTicketInv ==
    \A c \in Callers : caller[c].at = "push" =>
        state[caller[c].job] = "unborn" /\ caller[c].job \in handles

\* What the worker took is the outcome of the task.
TakenInv == pass.job # NoJob /\ pass.next \in {"completed", "failed"}
                => task[pass.job] = pass.next

\* A job that left was announced, or somebody owes that.
SaidInv == \A j \in Jobs : state[j] # "unborn" =>
               \/ said[j] # <<>>
               \/ \E t \in Threads : Owes(t, j)
               \/ j \in inflight

\* There is a worker for the jobs in flight, or somebody is about to start it.
AboutToWake == \E c \in Callers : caller[c].at = "wake"
WakeInv == inflight # {} => started \/ shutdown \/ AboutToWake

TInv == TodoInv /\ TicketInv /\ NewTicketInv /\ TakenInv /\ SaidInv /\ WakeInv /\ OutcomeIsTrue

LEMMA InitTInv == Init => TInv
  BY DEF Init, TInv, TodoInv, TicketInv, NewTicketInv, TakenInv, SaidInv, WakeInv, OutcomeIsTrue,
         NoPass, AtRest, NoJob

\* Types in the form these proofs need.
LEMMA PassShapes ==
    ASSUME IInv
    PROVE  /\ pass.todo \subseteq [job : Jobs, was : States]
           /\ pass.job \in Jobs \union {NoJob} /\ pass.next \in States
           /\ NoJob \notin Jobs
           /\ say \in [Threads -> [job : Jobs \union {NoJob}, state : States]]
           /\ Worker \in Threads /\ Callers \subseteq Threads
  BY DEF IInv, TypeOK, NoJob, Jobs, Threads

\* A step that touches neither jobs nor tickets nor the pass.
LEMMA QuietTInv ==
    ASSUME IInv, TInv, UNCHANGED <<inflight, state, say, said, handles, task, pass>>,
           started => started', shutdown => shutdown',
           \A c \in Callers : caller'[c].at = "push" => UNCHANGED caller[c],
           AboutToWake => AboutToWake' \/ started' \/ shutdown'
    PROVE  TInv'
<1>1. TodoInv' /\ TicketInv' /\ TakenInv' /\ OutcomeIsTrue'
  BY DEF TInv, TodoInv, TicketInv, TakenInv, OutcomeIsTrue
<1>2. NewTicketInv'
  BY DEF TInv, NewTicketInv
<1>3. SaidInv' /\ WakeInv'
  BY DEF TInv, SaidInv, WakeInv, Owes
<1> QED
  BY <1>1, <1>2, <1>3 DEF TInv

\* A caller looks a job up that it is about to cancel.
LEMMA CancelTInv ==
    ASSUME IInv, TInv, NEW c \in Callers, NEW j \in Jobs, Cancel(c, j)
    PROVE  TInv'
<1>1. /\ caller[c].at = "idle" /\ caller'[c].at = "stop"
      /\ \A d \in Callers : d # c => caller'[d] = caller[d]
  BY Shapes DEF Cancel, At, AtRest
<1>2. UNCHANGED <<inflight, state, say, said, handles, task, pass, started, shutdown>>
  BY DEF Cancel, jobsState, runtime, announcements
<1> QED
  BY <1>1, <1>2, QuietTInv DEF AboutToWake

\* The steps of a caller that only move it on.
LEMMA CallerTInv ==
    ASSUME IInv, TInv, NEW c \in Callers,
           \/ \E slot \in Slots \union {None}, key \in Keys \union {None} : Submit(c, slot, key)
           \/ FindOccupant(c) \/ CancelOld(c) \/ CancelTask(c) \/ Shutdown(c) \/ EnsureWorker(c)
           \/ \E j \in Jobs : Cancel(c, j)
    PROVE  TInv'
<1> USE DEF jobsState, runtime, announcements
<1>1. CASE EnsureWorker(c)
  <2>1. /\ UNCHANGED <<inflight, state, say, said, handles, task, pass, shutdown>>
        /\ \A d \in Callers : d # c => UNCHANGED caller[d]
        /\ caller'[c].at # "push" /\ (started => started') /\ (started' \/ shutdown')
    BY <1>1, Shapes DEF EnsureWorker, AtRest
  <2> QED
    BY <2>1, QuietTInv
<1>2. CASE CancelOld(c) \/ CancelTask(c)
  <2>1. /\ UNCHANGED <<inflight, state, say, said, handles, task, pass, started, shutdown>>
        /\ \A d \in Callers : d # c => UNCHANGED caller[d]
        /\ caller[c].at # "wake" /\ caller'[c].at # "push"
    BY <1>2, Shapes DEF CancelOld, CancelTask, RuntimeCancel, At, GoTo, CallerRecords
  <2> QED
    BY <2>1, QuietTInv DEF AboutToWake
<1>3. CASE FindOccupant(c)
  <2>1. /\ UNCHANGED <<inflight, state, say, said, handles, task, pass, started, shutdown>>
        /\ \A d \in Callers : d # c => UNCHANGED caller[d]
        /\ caller[c].at # "wake" /\ caller'[c].at # "push"
    BY <1>3, ZenonT(60), Shapes DEF FindOccupant, At, GoTo, CallerRecords
  <2> QED
    BY <2>1, QuietTInv DEF AboutToWake
<1>4. CASE Shutdown(c)
  <2>1. UNCHANGED <<inflight, state, say, said, handles, task, pass, started, caller>> /\ shutdown'
    BY <1>4 DEF Shutdown
  <2> QED
    BY <2>1, QuietTInv
<1>5. ASSUME NEW j \in Jobs, Cancel(c, j) PROVE TInv'
  BY <1>5, CancelTInv
<1>6. ASSUME NEW slot \in Slots \union {None}, NEW key \in Keys \union {None},
             Submit(c, slot, key)
      PROVE  TInv'
  <2>1. caller[c].at = "idle" /\ caller'[c].at = "lane"
        /\ \A d \in Callers : d # c => caller'[d] = caller[d]
    BY <1>6, Shapes DEF Submit, At
  <2>2. UNCHANGED <<inflight, state, say, said, handles, task, pass, started, shutdown>>
    BY <1>6 DEF Submit
  <2> QED
    BY <2>1, <2>2, QuietTInv DEF AboutToWake
<1> QED
  BY <1>1, <1>2, <1>3, <1>4, <1>5, <1>6

\* Whoever settles a job owes its announcement.
LEMMA SettlesTInv ==
    ASSUME IInv, TInv, NEW t \in Threads, NEW j \in Jobs, NEW s \in Outcomes,
           say[t] = Silent, Settle(t, j, s), UNCHANGED <<said, handles, task, started, shutdown>>,
           s \in {"completed", "failed"} => task[j] = s,
           pass'.todo = pass.todo, pass'.job \in {pass.job, NoJob},
           pass'.job = pass.job => pass'.next = pass.next,
           pass'.job # pass.job => pass.job = j,
           \A c \in Callers : /\ caller'[c].at = "push" => UNCHANGED caller[c]
                              /\ caller[c].at = "wake" => caller'[c].at = "wake"
    PROVE  TInv'
<1>0. \A k \in inflight : k \in Jobs
  BY Shapes
<1>1. inflight' = inflight \ {j}
  BY DEF Settle
<1>2. /\ \A k \in Jobs : k # j => state'[k] = state[k]
      /\ j \notin inflight => UNCHANGED state
      /\ j \in inflight => state'[j] = s
  BY Shapes DEF Settle
<1>3. \A k \in Jobs : (state'[k] = "unborn") <=> (state[k] = "unborn")
  BY <1>2 DEF Outcomes, TInv, TicketInv
<1>4. TodoInv'
  BY <1>3, PassShapes DEF TInv, TodoInv
<1>5. TicketInv'
  BY <1>0, <1>1, <1>2, PassShapes DEF TInv, TicketInv
<1>6. NewTicketInv'
  BY <1>3 DEF TInv, NewTicketInv, IInv, CallersName
<1>7. TakenInv'
  BY DEF TInv, TakenInv
<1>8. SaidInv'
  <2>1. ASSUME NEW k \in Jobs, state'[k] # "unborn", k \notin inflight', said'[k] = <<>>
        PROVE  \E u \in Threads : Owes(u, k)'
    <3>1. CASE k \in inflight
      <4>1. k = j /\ say'[t] = [job |-> j, state |-> s]
        BY <1>1, <2>1, <3>1, PassShapes DEF Settle
      <4> QED
        BY <4>1 DEF Owes
    <3>2. CASE k \notin inflight
      <4>1. PICK u \in Threads : Owes(u, k)
        BY <1>3, <2>1, <3>2 DEF TInv, SaidInv
      <4>2. u # t
        BY <4>1, SilentOwesNothing
      <4>3. say'[u] = say[u]
        BY <4>2, PassShapes DEF Settle
      <4> QED
        BY <4>1, <4>3 DEF Owes
    <3> QED
      BY <3>1, <3>2
  <2> QED
    BY <2>1 DEF SaidInv
<1>9. WakeInv'
  BY <1>1 DEF TInv, WakeInv, AboutToWake
<1>10. OutcomeIsTrue'
  BY <1>2 DEF TInv, OutcomeIsTrue
<1> QED
  BY <1>4, <1>5, <1>6, <1>7, <1>8, <1>9, <1>10 DEF TInv

LEMMA CallerSettlesTInv ==
    ASSUME IInv, TInv, NEW c \in Callers, Supersede(c) \/ SettleCancelled(c)
    PROVE  TInv'
<1> USE DEF jobsState, runtime, announcements
<1>1. PICK s \in {"superseded", "cancelled"} : Settle(c, caller[c].job, s)
  BY DEF Supersede, SettleCancelled
<1>2. caller[c].job \in Jobs
  BY DEF IInv, CallersName, Supersede, SettleCancelled, At
<1>3. say[c] = Silent /\ UNCHANGED <<said, handles, task, started, shutdown, pass>>
  BY DEF Supersede, SettleCancelled, At
<1>4. /\ \A d \in Callers : d # c => UNCHANGED caller[d]
      /\ caller[c].at # "wake" /\ caller'[c].at # "push"
  BY Shapes DEF Supersede, SettleCancelled, At, GoTo, AtRest, CallerRecords
<1>5. \A d \in Callers : /\ caller'[d].at = "push" => UNCHANGED caller[d]
                         /\ caller[d].at = "wake" => caller'[d].at = "wake"
  BY <1>4
<1>6. s \in Outcomes /\ s \notin {"completed", "failed"} /\ c \in Threads
  BY PassShapes DEF Outcomes
<1> QED
  BY <1>1, <1>2, <1>3, <1>5, <1>6, SettlesTInv

\* A new job gets its ticket before it can be polled.
LEMMA SubmitTaskTInv ==
    ASSUME IInv, LInv, TInv, NEW c \in Callers, SubmitTask(c)
    PROVE  TInv'
<1> USE DEF jobsState, runtime, announcements
<1>1. UNCHANGED <<inflight, state, started, shutdown, pass, say, said>>
  BY DEF SubmitTask
<1>2. nextId \in Jobs /\ state[nextId] = "unborn" /\ handles \subseteq handles'
  <2>1. nextId \in Jobs
    BY Shapes, JobsAssumption DEF SubmitTask, Jobs
  <2> QED
    BY <2>1, Shapes DEF LInv, NewIsUnborn, SubmitTask, RuntimeSubmit
<1>3. \A k \in Jobs : k # nextId => task'[k] = task[k]
  BY Shapes DEF SubmitTask, RuntimeSubmit
<1>4. \A d \in Callers : d # c => UNCHANGED caller[d]
  BY Shapes DEF SubmitTask
<1>5. /\ caller[c].at # "wake"
      /\ caller'[c].at = "push" => caller'[c].job = nextId /\ nextId \in handles'
  BY Shapes DEF SubmitTask, RuntimeSubmit, At, AtRest, CallerRecords
<1>6. TodoInv' /\ TicketInv'
  BY <1>1, <1>2 DEF TInv, TodoInv, TicketInv
<1>7. NewTicketInv'
  BY <1>1, <1>2, <1>4, <1>5 DEF TInv, NewTicketInv
<1>8. TakenInv' /\ OutcomeIsTrue'
  <2>1. pass.job # nextId
    BY Shapes, PassShapes DEF LInv, PolledIsKnown
  <2> QED
    BY <1>1, <1>2, <1>3, <2>1, PassShapes DEF TInv, TakenInv, OutcomeIsTrue
<1>9. SaidInv' /\ WakeInv'
  BY <1>1, <1>4, <1>5 DEF TInv, SaidInv, WakeInv, AboutToWake, Owes
<1> QED
  BY <1>6, <1>7, <1>8, <1>9 DEF TInv

\* A job comes into flight with its ticket, and its caller goes on to start
\* the worker.
LEMMA PushTInv ==
    ASSUME IInv, LInv, TInv, NEW c \in Callers, Push(c)
    PROVE  TInv'
<1> USE DEF jobsState, runtime, announcements
<1> DEFINE j == caller[c].job
<1>1. UNCHANGED <<started, shutdown, pass, said, handles, task>> /\ say[c] = Silent
  BY DEF Push, At
<1>2. j \in Jobs /\ state[j] = "unborn" /\ j \in handles /\ caller[c].at = "push"
  BY DEF IInv, CallersName, TInv, NewTicketInv, Push, At
<1>3. /\ inflight' = inflight \union {j}
      /\ state' = [state EXCEPT ![j] = "pending"]
      /\ say' = [say EXCEPT ![c] = [job |-> j, state |-> "pending"]]
  BY DEF Push
<1>4. /\ \A d \in Callers : d # c => UNCHANGED caller[d]
      /\ caller'[c].at = "wake"
  BY Shapes DEF Push, GoTo, CallerRecords
<1>5. \A k \in Jobs : state'[k] = IF k = j THEN "pending" ELSE state[k]
  BY <1>2, <1>3, Shapes
<1>6. TodoInv'
  BY <1>1, <1>5, PassShapes DEF TInv, TodoInv
<1>7. TicketInv'
  BY <1>1, <1>2, <1>3, <1>5, Shapes DEF TInv, TicketInv
<1>8. NewTicketInv'
  <2>1. \A d \in Callers : d # c /\ caller[d].at = "push" => caller[d].job # j /\ caller[d].job \in Jobs
    BY <1>2 DEF IInv, NewIsFresh, CallersName
  <2> QED
    BY <1>1, <1>4, <1>5, <2>1 DEF TInv, NewTicketInv
<1>9. TakenInv' /\ OutcomeIsTrue'
  BY <1>1, <1>5 DEF TInv, TakenInv, OutcomeIsTrue
<1>10. SaidInv'
  <2>1. \A u \in Threads, k \in Jobs : Owes(u, k) => Owes(u, k)'
    BY <1>1, <1>3, SilentOwesNothing, PassShapes DEF Owes
  <2> QED
    BY <1>1, <1>3, <1>5, <2>1 DEF TInv, SaidInv
<1>11. WakeInv'
  BY <1>4 DEF WakeInv, AboutToWake
<1> QED
  BY <1>6, <1>7, <1>8, <1>9, <1>10, <1>11 DEF TInv

\* What is announced is no longer owed, but said.
LEMMA AnnounceTInv ==
    ASSUME IInv, TInv, NEW t \in Threads, Announce(t)
    PROVE  TInv'
<1> USE DEF jobsState, runtime, announcements
<1>1. UNCHANGED <<inflight, state, started, shutdown, handles, task, pass, caller>>
  BY DEF Announce
<1>2. TodoInv' /\ TicketInv' /\ NewTicketInv' /\ TakenInv' /\ WakeInv' /\ OutcomeIsTrue'
  BY <1>1 DEF TInv, TodoInv, TicketInv, NewTicketInv, TakenInv, WakeInv, AboutToWake, OutcomeIsTrue
<1>3. ASSUME NEW j \in Jobs, state[j] # "unborn", j \notin inflight PROVE
         said'[j] # <<>> \/ \E u \in Threads : Owes(u, j)'
  <2>0. said \in [Jobs -> Seq(Outcomes)]
    BY DEF IInv, TypeOK
  <2>1. CASE said[j] # <<>>
    <3>1. CASE say[t].state \in Outcomes /\ say[t].job = j
      <4>1. said'[j] = Append(said[j], say[t].state)
        BY <2>0, <3>1 DEF Announce
      <4> QED
        BY <2>0, <3>1, <4>1
    <3>2. CASE ~(say[t].state \in Outcomes /\ say[t].job = j)
      <4>1. said'[j] = said[j]
        BY <2>0, <3>2 DEF Announce
      <4> QED
        BY <2>1, <4>1
    <3> QED
      BY <3>1, <3>2
  <2>2. CASE said[j] = <<>>
    <3>1. PICK u \in Threads : Owes(u, j)
      BY <1>3, <2>2 DEF TInv, SaidInv
    <3>2. CASE u = t
      <4>1. said'[j] = Append(said[j], say[t].state)
        BY <2>0, <3>1, <3>2 DEF Announce, Owes
      <4> QED
        BY <2>2, <3>1, <3>2, <4>1 DEF Owes
    <3>3. CASE u # t
      <4>1. say'[u] = say[u]
        BY <3>3, PassShapes DEF Announce
      <4> QED
        BY <3>1, <4>1 DEF Owes
    <3> QED
      BY <3>2, <3>3
  <2> QED
    BY <2>1, <2>2
<1>4. SaidInv'
  BY <1>1, <1>3 DEF SaidInv
<1> QED
  BY <1>2, <1>4 DEF TInv

\* A task that came to an outcome keeps it.
LEMMA TaskEndsTInv ==
    ASSUME IInv, TInv, NEW j \in Jobs, TaskEnds(j)
    PROVE  TInv'
<1> USE DEF jobsState, runtime, announcements
<1>1. UNCHANGED <<inflight, state, started, shutdown, handles, say, said, pass, caller>>
  BY DEF TaskEnds
<1>2. \A k \in Jobs : task[k] # "open" => task'[k] = task[k]
  BY Shapes DEF TaskEnds
<1>3. TodoInv' /\ TicketInv' /\ NewTicketInv' /\ WakeInv' /\ SaidInv'
  BY <1>1 DEF TInv, TodoInv, TicketInv, NewTicketInv, WakeInv, AboutToWake, SaidInv, Owes
<1>4. TakenInv' /\ OutcomeIsTrue'
  BY <1>1, <1>2, PassShapes DEF TInv, TakenInv, OutcomeIsTrue
<1> QED
  BY <1>3, <1>4 DEF TInv

\* A pass begins when the outcomes of the one before are the jobs'.
LEMMA BeginPassTInv ==
    ASSUME IInv, TInv, BeginPass
    PROVE  TInv'
<1> USE DEF jobsState, runtime, announcements
<1>1. UNCHANGED <<inflight, state, started, shutdown, handles, task, say, said, caller>>
  BY DEF BeginPass
<1>2. pass.job = NoJob /\ pass'.job = NoJob
      /\ pass'.todo = {[job |-> j, was |-> state[j]] : j \in inflight}
  BY DEF BeginPass, NoPass, Resting
<1>3. \A j \in inflight : j \in Jobs /\ j \in handles /\ state[j] \in {"pending", "running"}
  BY <1>2, Shapes, PassShapes DEF TInv, TicketInv
<1>4. TodoInv'
  BY <1>1, <1>2, <1>3 DEF TodoInv
<1>5. TicketInv' /\ TakenInv'
  BY <1>1, <1>2, <1>3 DEF TicketInv, TakenInv
<1>6. NewTicketInv' /\ WakeInv' /\ SaidInv' /\ OutcomeIsTrue'
  BY <1>1 DEF TInv, NewTicketInv, WakeInv, AboutToWake, SaidInv, Owes, OutcomeIsTrue
<1> QED
  BY <1>4, <1>5, <1>6 DEF TInv

\* A poll that closes a ticket takes the outcome of its task, and no other
\* poll of the pass is of this ticket.
LEMMA PollTInv ==
    ASSUME IInv, TInv, NEW r \in pass.todo, Poll(r)
    PROVE  TInv'
<1> USE DEF jobsState, runtime, announcements
<1> DEFINE j == r.job
           next == Progress(j)
<1>1. UNCHANGED <<inflight, state, started, shutdown, task, say, said, caller>> /\ pass.job = NoJob
  BY DEF Poll
<1>2. j \in Jobs /\ j \in handles /\ r.was \in {"pending", "running"} /\ state[j] # "unborn"
  BY PassShapes DEF TInv, TodoInv
<1>3. /\ handles' = IF next \in Outcomes THEN handles \ {j} ELSE handles
      /\ pass'.todo = pass.todo \ {r}
      /\ pass'.job = (IF next = r.was THEN NoJob ELSE j)
      /\ pass'.next = (IF next = r.was THEN "pending" ELSE next)
  BY DEF Poll, Close, NoPass
<1>4. next \in {"completed", "failed"} => task[j] = next
  BY <1>2 DEF Progress
<1>5. next \in Outcomes => next # r.was
  BY <1>2 DEF Outcomes
<1> HIDE DEF next
<1>6. TodoInv'
  BY <1>1, <1>2, <1>3, PassShapes DEF TInv, TodoInv
<1>7. TicketInv'
  BY <1>1, <1>3, <1>5, Shapes, PassShapes DEF TInv, TicketInv
<1>8. NewTicketInv'
  <2>1. \A c \in Callers : caller[c].at = "push" => caller[c].job # j
    BY <1>2 DEF TInv, NewTicketInv
  <2> QED
    BY <1>1, <1>3, <2>1 DEF TInv, NewTicketInv
<1>9. TakenInv'
  BY <1>1, <1>3, <1>4 DEF TakenInv
<1>10. WakeInv' /\ SaidInv' /\ OutcomeIsTrue'
  BY <1>1 DEF TInv, WakeInv, AboutToWake, SaidInv, Owes, OutcomeIsTrue
<1> QED
  BY <1>6, <1>7, <1>8, <1>9, <1>10 DEF TInv

\* What the poll took becomes the job's.
LEMMA ApplyProgressTInv ==
    ASSUME IInv, TInv, ApplyProgress
    PROVE  TInv'
<1> USE DEF jobsState, runtime, announcements
<1> DEFINE j == pass.job
<1>1. UNCHANGED <<started, shutdown, handles, task, said, caller>>
      /\ j \in Jobs /\ say[Worker] = Silent
  BY PassShapes DEF ApplyProgress, IInv, WorkerIsSilent
<1>2. pass'.todo = pass.todo /\ pass'.job = NoJob
  BY DEF ApplyProgress, IInv, TypeOK
<1>3. CASE pass.next \in Outcomes
  <2>1. Settle(Worker, j, pass.next)
    BY <1>3 DEF ApplyProgress
  <2>2. pass.next \in {"completed", "failed"} => task[j] = pass.next
    BY <1>1, PassShapes DEF TInv, TakenInv
  <2>3. pass'.job # j
    BY <1>1, <1>2, PassShapes
  <2> QED
    BY <1>1, <1>2, <1>3, <2>1, <2>2, <2>3, SettlesTInv, PassShapes
<1>4. CASE pass.next \notin Outcomes
  <2>1. UNCHANGED inflight
    BY <1>4 DEF ApplyProgress
  <2>2. pass.next \in {"pending", "running"}
    BY <1>4, PassShapes DEF States, Outcomes
  <2>3. \A k \in Jobs : /\ k # j \/ k \notin inflight => state'[k] = state[k]
                        /\ k = j /\ k \in inflight => state'[k] = pass.next
    BY <1>1, <1>4, Shapes DEF ApplyProgress
  <2>4. \A k \in Jobs : (state'[k] = "unborn") <=> (state[k] = "unborn")
    BY <2>2, <2>3 DEF TInv, TicketInv
  <2>5. TodoInv' /\ NewTicketInv'
    BY <1>1, <1>2, <2>4, PassShapes DEF TInv, TodoInv, NewTicketInv, IInv, CallersName
  <2>6. TicketInv'
    BY <1>1, <1>4, <2>1, <2>2, <2>3, Shapes DEF TInv, TicketInv
  <2>7. TakenInv'
    BY <1>2 DEF TakenInv
  <2>8. SaidInv'
    <3>1. \A u \in Threads, k \in Jobs : Owes(u, k) => Owes(u, k)'
      BY <1>1, <1>4, SilentOwesNothing, PassShapes DEF Owes, ApplyProgress
    <3> QED
      BY <1>1, <2>1, <2>4, <3>1 DEF TInv, SaidInv
  <2>9. WakeInv' /\ OutcomeIsTrue'
    BY <1>1, <2>1, <2>2, <2>3 DEF TInv, WakeInv, AboutToWake, OutcomeIsTrue
  <2> QED
    BY <2>5, <2>6, <2>7, <2>8, <2>9 DEF TInv
<1> QED
  BY <1>3, <1>4

LEMMA NextKeepsTInv == IInv /\ LInv /\ TInv /\ [Next]_vars => TInv'
<1> SUFFICES ASSUME IInv, LInv, TInv, [Next]_vars PROVE TInv'
  OBVIOUS
<1>0. Worker \in Threads /\ Callers \subseteq Threads
  BY DEF Threads
<1>1. CASE WorkerStep
  BY <1>0, <1>1, BeginPassTInv, PollTInv, ApplyProgressTInv, AnnounceTInv DEF WorkerStep
<1>2. ASSUME NEW c \in Callers, CallerStep(c) PROVE TInv'
  BY <1>0, <1>2, CallerTInv, CallerSettlesTInv, SubmitTaskTInv, PushTInv, AnnounceTInv
     DEF CallerStep
<1>3. ASSUME NEW c \in Callers,
             \/ \E s \in Slots \union {None}, k \in Keys \union {None} : Submit(c, s, k)
             \/ \E j \in Jobs : Cancel(c, j)
             \/ Shutdown(c)
      PROVE  TInv'
  BY <1>3, CallerTInv
<1>4. CASE \E j \in Jobs : TaskEnds(j)
  BY <1>4, TaskEndsTInv
<1>5. CASE UNCHANGED vars
  <2>1. UNCHANGED <<inflight, state, say, said, handles, task, pass, started, shutdown, caller>>
    BY <1>5 DEF vars, jobsState, runtime, announcements
  <2>2. AboutToWake => AboutToWake'
    BY <2>1 DEF AboutToWake
  <2> QED
    BY <2>1, <2>2, QuietTInv
<1> QED
  BY <1>1, <1>2, <1>3, <1>4, <1>5 DEF Next

-----------------------------------------------------------------------------
\* Every variable of Jobs and of the task runtime keeps its type.
THEOREM KernelJobsTypes == Spec => []TypeOK
<1>1. IInv => TypeOK
  BY DEF IInv
<1> QED
  BY InitIInv, NextKeeps, <1>1, PTL DEF Spec

\* A job ends once and one outcome is announced, the one it ended with, for
\* any number of threads that submit, supersede and cancel beside the worker.
THEOREM OneOutcomeAlways == Spec => []OneOutcome
<1>1. IInv => OneOutcome
  BY DEF IInv
<1> QED
  BY InitIInv, NextKeeps, <1>1, PTL DEF Spec

\* A job that was cancelled or gave its lane up does not run on unnoticed,
\* however many threads submit and cancel: its task ended, or was asked to
\* stop, or is about to be.
THEOREM LosersAlwaysAsked == Spec => []LosersAreAskedToStop
<1>1. Init => IInv /\ LInv
  BY InitIInv, InitLInv
<1>2. IInv /\ LInv /\ [Next]_vars => (IInv /\ LInv)'
  BY NextKeeps, NextKeepsLInv
<1>3. LInv => LosersAreAskedToStop
  BY DEF LInv, LoserIsAsked, Asked, Asking, LosersAreAskedToStop
<1> QED
  BY <1>1, <1>2, <1>3, PTL DEF Spec

\* Every job that is accepted comes to one outcome, the one of its task, and
\* it is announced: for any number of threads, a job is never lost between
\* the lock of the kernel and that of the task runtime, and no poll of a
\* closed ticket makes a failure of a success.
THEOREM JobsAlwaysEndWell == Spec => []JobsEndWell
<1>1. Init => IInv /\ LInv /\ TInv
  BY InitIInv, InitLInv, InitTInv
<1>2. IInv /\ LInv /\ TInv /\ [Next]_vars => (IInv /\ LInv /\ TInv)'
  BY NextKeeps, NextKeepsLInv, NextKeepsTInv
<1>3. IInv /\ TInv => JobsEndWell
  <2> SUFFICES ASSUME IInv, TInv PROVE JobsEndWell
    OBVIOUS
  <2>1. OneOutcome /\ OutcomeIsTrue
    BY DEF IInv, TInv
  <2>2. JobsAreTended
    BY DEF TInv, SaidInv, TicketInv, WakeInv, AboutToWake, Owes, JobsAreTended
  <2> QED
    BY <2>1, <2>2 DEF JobsEndWell
<1> QED
  BY <1>1, <1>2, <1>3, PTL DEF Spec

\* As long as one thread submits, as the user interface does, a lane and an
\* idempotency key have one job in flight, for any number of lanes, keys and
\* jobs: what the thread looked up stays true until it pushes.  With two
\* threads it does not, see the README.
THEOREM OneJobPerLaneAlways == OneCaller => (Spec => []OneJobPerLane)
<1> SUFFICES ASSUME OneCaller PROVE Spec => []OneJobPerLane
  OBVIOUS
<1>1. Init => IInv /\ LaneInv
  BY InitIInv DEF Init, LaneInv, OneJobPerLane, LookedUp, AtRest
<1>2. IInv /\ LaneInv /\ [Next]_vars => (IInv /\ LaneInv)'
  BY NextKeeps, NextKeepsLanes
<1>3. LaneInv => OneJobPerLane
  BY DEF LaneInv
<1> QED
  BY <1>1, <1>2, <1>3, PTL DEF Spec
=============================================================================

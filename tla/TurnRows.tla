------------------------------ MODULE TurnRows ------------------------------
(***************************************************************************)
(* The rows of desktop_pending_turns that belong to one task, and what the *)
(* SQL statements of DesktopTurnQueueStore do to them.  A turn that has no *)
(* row maps to Absent.  Token 0 and epoch 0 stand for NULL.                *)
(***************************************************************************)
EXTENDS Naturals

CONSTANTS Turns,   \* turn ids
          NoTurn   \* stands for Option::None where a turn is expected

ASSUME NoTurnAssumption == NoTurn \notin Turns

Row == [state : {"absent", "queued", "claimed"},
        id    : Nat,     \* the AUTOINCREMENT key: the order of submission
        token : Nat,     \* claim_token
        epoch : Nat]     \* claim_epoch, the bound session version

Absent == [state |-> "absent", id |-> 0, token |-> 0, epoch |-> 0]
\* Mutant: a state that nothing reads.
QueuedAsPending(i) == [state |-> "pending", id |-> i, token |-> 0, epoch |-> 0]

Queued(i) == [state |-> "queued", id |-> i, token |-> 0, epoch |-> 0]

Present(rows) == {t \in Turns : rows[t].state # "absent"}

\* ORDER BY id ASC LIMIT 1
IsFirst(rows, t) == /\ t \in Present(rows)
                    /\ \A u \in Present(rows) : rows[t].id <= rows[u].id

\* Mutant: any queued row may be claimed.
ClaimableAnywhere(rows, t) == rows[t].state = "queued"

\* claim(): a queued row, and the first of its task
Claimable(rows, t) == /\ rows[t].state = "queued"
                      /\ IsFirst(rows, t)

\* UPDATE ... SET state = 'claimed', claim_token = k, claim_epoch = NULL
Claimed(rows, t, k) ==
    [rows EXCEPT ![t] = [state |-> "claimed", id |-> @.id, token |-> k, epoch |-> 0]]

\* Mutant: the token is not compared.
OwnsAnyClaim(rows, t, k) == rows[t].state = "claimed" /\ k \in Nat

\* WHERE state = 'claimed' AND claim_token = k
OwnsClaim(rows, t, k) == /\ rows[t].state = "claimed"
                         /\ rows[t].token = k

Without(rows, gone) == [t \in Turns |-> IF t \in gone THEN Absent ELSE rows[t]]

\* claim_first_in_transaction(): `after' and `next' are what it leaves and
\* returns when the token it mints is k.  It has no result, and the
\* transaction around it rolls back, when the first row is already claimed.
ClaimsFirst(rows, k, after, next) ==
    \/ /\ Present(rows) = {}
       /\ next = NoTurn
       /\ after = rows
    \/ /\ next \in Turns
       /\ Claimable(rows, next)
       /\ after = Claimed(rows, next, k)

FirstIsClaimed(rows) == \E t \in Turns : /\ IsFirst(rows, t)
                                         /\ rows[t].state = "claimed"

\* Mutant: the claims of the previous process are kept.
ReleasedNone(rows) == rows

\* prepare_recovery(): claims of the previous process go back to the queue
\* with their epoch kept, and the projected active turn, if it still has a
\* row, is claimed under a fresh token.
Released(rows) ==
    [t \in Turns |-> IF rows[t].state = "claimed"
                     THEN [rows[t] EXCEPT !.state = "queued", !.token = 0]
                     ELSE rows[t]]

Recoverable(rows, act) == act \in Present(rows) => IsFirst(rows, act)

\* Mutant: the active turn keeps the claim of the previous process.
RecoveredOldToken(rows, act, k) ==
    [t \in Turns |-> IF t = act /\ k \in Nat THEN rows[t] ELSE Released(rows)[t]]

Recovered(rows, act, k) ==
    IF act \in Present(rows)
    THEN [Released(rows) EXCEPT ![act].state = "claimed", ![act].token = k]
    ELSE Released(rows)
=============================================================================

----------------------------- MODULE TurnStore -----------------------------
(***************************************************************************)
(* DesktopTurnQueueStore: the durable turn queue of one task.  Every       *)
(* operation is one SQLite transaction, so it is one action.  Its callers  *)
(* are left arbitrary: any of them may call any operation at any time, and *)
(* a caller that was ever handed a claim token may still use it after a    *)
(* restart gave the turn to somebody else.                                 *)
(***************************************************************************)
EXTENDS TurnRows

CONSTANTS MaxId,        \* bound on enqueues
          MaxToken,     \* bound on claims
          Versions      \* AgentKit session versions a worker may bind

ASSUME BoundsAssumption == /\ MaxId \in Nat
                           /\ MaxToken \in Nat
                           /\ Versions \subseteq Nat \ {0}

VARIABLES
    rows,       \* desktop_pending_turns
    nextId,     \* the next AUTOINCREMENT id
    nextToken,  \* the next claim token (a fresh UUID in the code)
    held,       \* every <<turn, token>> handed to a caller, stale ones included
    acked,      \* the <<turn, token>> whose holder retired the turn
    lastAcked   \* id of the row retired last

vars == <<rows, nextId, nextToken, held, acked, lastAcked>>

TypeOK == /\ rows \in [Turns -> Row]
          /\ nextId \in Nat \ {0}
          /\ nextToken \in Nat \ {0}
          /\ held \in SUBSET (Turns \X Nat)
          /\ acked \in SUBSET (Turns \X Nat)
          /\ lastAcked \in Nat

Init == /\ rows = [t \in Turns |-> Absent]
        /\ nextId = 1
        /\ nextToken = 1
        /\ held = {}
        /\ acked = {}
        /\ lastAcked = 0

-----------------------------------------------------------------------------
\* `next' was claimed with the fresh token, or nothing was.
Handed(next) ==
    IF next = NoTurn
    THEN UNCHANGED <<nextToken, held>>
    ELSE /\ nextToken' = nextToken + 1
         /\ held' = held \union {<<next, nextToken>>}

Retired(t, k) == /\ acked' = acked \union {<<t, k>>}
                 /\ lastAcked' = rows[t].id

\* enqueue() and enqueue_idempotent(); on a turn that has a row the first
\* fails and the second changes nothing.
Enqueue(t) ==
    /\ nextId <= MaxId
    /\ rows[t].state = "absent"
    /\ rows' = [rows EXCEPT ![t] = Queued(nextId)]
    /\ nextId' = nextId + 1
    /\ UNCHANGED <<nextToken, held, acked, lastAcked>>

Claim(t) ==
    /\ nextToken <= MaxToken
    /\ Claimable(rows, t)
    /\ rows' = Claimed(rows, t, nextToken)
    /\ Handed(t)
    /\ UNCHANGED <<nextId, acked, lastAcked>>

ClaimFirst(next) ==
    /\ nextToken <= MaxToken
    /\ next # NoTurn
    /\ ClaimsFirst(rows, nextToken, rows', next)
    /\ Handed(next)
    /\ UNCHANGED <<nextId, acked, lastAcked>>

\* expected = 0 is the None every caller of the application passes.
EpochAccepted(t, expected) == \/ expected = 0
                              \/ rows[t].epoch = 0
                              \/ rows[t].epoch = expected

AckAndClaimNext(t, k, expected, next) ==
    /\ nextToken <= MaxToken
    /\ OwnsClaim(rows, t, k)
    /\ EpochAccepted(t, expected)
    /\ ClaimsFirst(Without(rows, {t}), nextToken, rows', next)
    /\ Handed(next)
    /\ Retired(t, k)
    /\ UNCHANGED nextId

CancelClaimAndClearTask(t, k) ==
    /\ OwnsClaim(rows, t, k)
    /\ rows' = Without(rows, Turns)
    /\ Retired(t, k)
    /\ UNCHANGED <<nextId, nextToken, held>>

\* The same call for a turn that has no row and whose caller has no token.
ClearTask ==
    /\ Present(rows) # {}
    /\ rows' = Without(rows, Turns)
    /\ UNCHANGED <<nextId, nextToken, held, acked, lastAcked>>

DiscardQueuedAndClaimNext(t, next) ==
    /\ nextToken <= MaxToken
    /\ rows[t].state = "queued"
    /\ ClaimsFirst(Without(rows, {t}), nextToken, rows', next)
    /\ Handed(next)
    /\ UNCHANGED <<nextId, acked, lastAcked>>

DiscardQueued(t) ==
    /\ rows[t].state = "queued"
    /\ rows' = Without(rows, {t})
    /\ UNCHANGED <<nextId, nextToken, held, acked, lastAcked>>

\* remove(), and quarantine_invalid_rows() for the rows it moves away
Remove(gone) ==
    /\ gone # {}
    /\ gone \subseteq Present(rows)
    /\ rows' = Without(rows, gone)
    /\ UNCHANGED <<nextId, nextToken, held, acked, lastAcked>>

PrepareRecovery(act) ==
    /\ nextToken <= MaxToken
    /\ Recoverable(rows, act)
    /\ rows' = Recovered(rows, act, nextToken)
    /\ Handed(IF act \in Present(rows) THEN act ELSE NoTurn)
    /\ UNCHANGED <<nextId, acked, lastAcked>>

\* Not fenced by the token: whoever calls it last sets the epoch.
BindSessionVersion(t, version) ==
    /\ rows[t].state = "claimed"
    /\ rows' = [rows EXCEPT ![t].epoch = version]
    /\ UNCHANGED <<nextId, nextToken, held, acked, lastAcked>>

Next ==
    \/ \E t \in Turns : \/ Enqueue(t)
                        \/ Claim(t)
                        \/ DiscardQueued(t)
    \/ \E next \in Turns : ClaimFirst(next)
    \/ \E h \in held, expected \in Versions \union {0}, next \in Turns \union {NoTurn} :
          AckAndClaimNext(h[1], h[2], expected, next)
    \/ \E h \in held : CancelClaimAndClearTask(h[1], h[2])
    \/ ClearTask
    \/ \E t \in Turns, next \in Turns \union {NoTurn} : DiscardQueuedAndClaimNext(t, next)
    \/ \E gone \in SUBSET Turns : Remove(gone)
    \/ \E act \in Turns \union {NoTurn} : PrepareRecovery(act)
    \/ \E t \in Turns, version \in Versions : BindSessionVersion(t, version)

Spec == Init /\ [][Next]_vars

-----------------------------------------------------------------------------
\* A claimed row is the first of its task, whatever is discarded, recovered
\* or enqueued around it: the head of the FIFO is the turn that runs, and
\* prepare_recovery() never finds the turn that was running out of place.
ClaimedIsFirst ==
    \A t \in Turns : rows[t].state = "claimed" => IsFirst(rows, t)

\* The unique partial index idx_desktop_pending_turns_one_claim never has
\* anything to reject: no sequence of calls leads to two claims in a task.
OneClaim ==
    \A t, u \in Turns :
        (rows[t].state = "claimed" /\ rows[u].state = "claimed") => t = u

\* The stored token is the newest one handed out for its turn, so that every
\* older holder of the turn fails the ownership test of ack and cancel.
NewestHolderOwns ==
    \A t \in Turns : rows[t].state = "claimed" =>
        /\ <<t, rows[t].token>> \in held
        /\ \A h \in held : h[1] = t => h[2] <= rows[t].token

\* A worker whose turn was handed to somebody else after a restart never
\* retires it: only the newest holder of a turn does.
StaleHolderNeverRetires ==
    [][\A h \in acked' \ acked : \A g \in held : g[1] = h[1] => g[2] <= h[2]]_vars

\* Turns are retired in the order they were submitted: a row older than the
\* one retired last cannot still be waiting.
NothingOlderIsLeft ==
    \A t \in Present(rows) : rows[t].id > lastAcked

-----------------------------------------------------------------------------
(* The inductive strengthening of the invariants above.                    *)

\* What the rows promise together with the counters: ids are positive,
\* distinct, below the next one and above the id retired last; a claimed row
\* is the first one and holds the newest token of its turn.
RowsInv(r, ni, h, last) ==
    /\ r \in [Turns -> Row]
    /\ \A t \in Turns : r[t].state # "absent" =>
          last < r[t].id /\ r[t].id < ni
    /\ \A t, u \in Turns :
          (r[t].state # "absent" /\ r[u].state # "absent" /\ r[t].id = r[u].id) => t = u
    /\ \A t, u \in Turns :
          (r[t].state = "claimed" /\ r[u].state # "absent") => r[t].id <= r[u].id
    /\ \A t \in Turns : r[t].state = "claimed" =>
          /\ <<t, r[t].token>> \in h
          /\ \A g \in h : g[1] = t => g[2] <= r[t].token

CountersInv(ni, nt, h, last) ==
    /\ ni \in Nat \ {0}
    /\ nt \in Nat \ {0}
    /\ last \in Nat /\ last < ni
    /\ h \in SUBSET (Turns \X Nat)
    /\ \A g \in h : g[2] < nt

\* The invariants above in the form that every operation preserves: what the
\* rows promise holds of any rows obtained by deleting some of them, which is
\* how a turn is retired before the next one is claimed.
IInv == /\ RowsInv(rows, nextId, held, lastAcked)
        /\ CountersInv(nextId, nextToken, held, lastAcked)
        /\ acked \in SUBSET (Turns \X Nat)
=============================================================================

--------------------------- MODULE TurnStoreProofs ---------------------------
(***************************************************************************)
(* The safety of the durable turn queue, for any set of turns, any bounds  *)
(* and any callers.                                                        *)
(***************************************************************************)
EXTENDS TurnStore, TLAPS

-----------------------------------------------------------------------------
\* The empty table satisfies the invariant.
LEMMA InitIInv == Init => IInv
  BY DEF Init, IInv, RowsInv, CountersInv, Absent, Row

\* Deleting rows keeps every promise.
LEMMA WithoutKeeps ==
    ASSUME NEW r, NEW ni, NEW h, NEW last, NEW gone,
           RowsInv(r, ni, h, last)
    PROVE  RowsInv(Without(r, gone), ni, h, last)
  BY DEF RowsInv, Without, Absent, Row

\* Retiring the claimed row lets lastAcked rise to its id: every other row is
\* younger.
LEMMA RetireKeeps ==
    ASSUME NEW r, NEW ni \in Nat, NEW h, NEW last \in Nat, NEW t \in Turns, NEW gone,
           RowsInv(r, ni, h, last),
           r[t].state = "claimed",
           t \in gone
    PROVE  RowsInv(Without(r, gone), ni, h, r[t].id)
  BY DEF RowsInv, Without, Absent, Row

\* Claiming the first row under a fresh token keeps every promise.
LEMMA ClaimKeeps ==
    ASSUME NEW r, NEW ni \in Nat, NEW nt \in Nat, NEW h, NEW last \in Nat, NEW t \in Turns,
           RowsInv(r, ni, h, last),
           CountersInv(ni, nt, h, last),
           Claimable(r, t)
    PROVE  RowsInv(Claimed(r, t, nt), ni, h \union {<<t, nt>>}, last)
  <1> DEFINE r2 == Claimed(r, t, nt)
             h2 == h \union {<<t, nt>>}
  <1>1. /\ r2 \in [Turns -> Row]
        /\ r2[t] = [state |-> "claimed", id |-> r[t].id, token |-> nt, epoch |-> 0]
        /\ \A u \in Turns : u # t => r2[u] = r[u]
        /\ \A u \in Turns : r2[u].id = r[u].id
    BY DEF Claimed, RowsInv, Row
  <1> HIDE DEF r2
  <1>2. \A u \in Turns : (r2[u].state # "absent") <=> (r[u].state # "absent")
    <2>1. r2[t].state = "claimed" /\ r[t].state = "queued"
      BY <1>1 DEF Claimable
    <2> QED
      BY <1>1, <2>1
  <1>3. \A u \in Turns : r[u].state # "absent" => r[t].id <= r[u].id
    BY DEF Claimable, IsFirst, Present
  <1>4. \A u \in Turns : u # t => r[u].state # "claimed"
    <2> SUFFICES ASSUME NEW u \in Turns, u # t, r[u].state = "claimed"
                 PROVE  FALSE
      OBVIOUS
    <2>1. r[u].id <= r[t].id /\ r[t].id <= r[u].id
      BY <1>3 DEF RowsInv, Claimable
    <2>2. r[u].id = r[t].id
      BY <2>1 DEF RowsInv, Row
    <2> QED
      BY <2>2 DEF RowsInv, Claimable
  <1>5. \A u \in Turns : r2[u].state # "absent" => last < r2[u].id /\ r2[u].id < ni
    BY <1>1, <1>2 DEF RowsInv
  <1>6. \A u, v \in Turns :
           (r2[u].state # "absent" /\ r2[v].state # "absent" /\ r2[u].id = r2[v].id) => u = v
    BY <1>1, <1>2 DEF RowsInv
  <1>7. \A u, v \in Turns :
           (r2[u].state = "claimed" /\ r2[v].state # "absent") => r2[u].id <= r2[v].id
    BY <1>1, <1>2, <1>3, <1>4
  <1>8. \A u \in Turns : r2[u].state = "claimed" =>
           /\ <<u, r2[u].token>> \in h2
           /\ \A g \in h2 : g[1] = u => g[2] <= r2[u].token
    <2> SUFFICES ASSUME NEW u \in Turns, r2[u].state = "claimed"
                 PROVE  /\ <<u, r2[u].token>> \in h2
                        /\ \A g \in h2 : g[1] = u => g[2] <= r2[u].token
      OBVIOUS
    <2>1. u = t /\ r2[u].token = nt
      BY <1>1, <1>4
    <2> QED
      BY <2>1 DEF CountersInv
  <1>9. RowsInv(r2, ni, h2, last)
    BY <1>1, <1>5, <1>6, <1>7, <1>8 DEF RowsInv
  <1> QED
    BY <1>9 DEF r2

\* The counters after a claim.
LEMMA CountersAfterClaim ==
    ASSUME NEW ni, NEW nt, NEW h, NEW last, NEW t \in Turns,
           CountersInv(ni, nt, h, last)
    PROVE  CountersInv(ni, nt + 1, h \union {<<t, nt>>}, last)
  BY DEF CountersInv

\* claim_first_in_transaction() after any deletion, with what it hands out.
LEMMA ClaimsFirstKeeps ==
    ASSUME NEW r, NEW last \in Nat, NEW next \in Turns \union {NoTurn},
           RowsInv(r, nextId, held, last),
           CountersInv(nextId, nextToken, held, last),
           ClaimsFirst(r, nextToken, rows', next),
           Handed(next),
           UNCHANGED nextId
    PROVE  /\ RowsInv(rows', nextId', held', last)
           /\ CountersInv(nextId', nextToken', held', last)
  <1>1. CASE next = NoTurn
    <2>1. rows' = r /\ nextToken' = nextToken /\ held' = held
      BY <1>1, NoTurnAssumption DEF ClaimsFirst, Handed
    <2> QED
      BY <2>1
  <1>2. CASE next # NoTurn
    <2>1. /\ next \in Turns
          /\ Claimable(r, next)
          /\ rows' = Claimed(r, next, nextToken)
          /\ nextToken' = nextToken + 1
          /\ held' = held \union {<<next, nextToken>>}
      BY <1>2 DEF ClaimsFirst, Handed
    <2>2. nextId \in Nat /\ nextToken \in Nat
      BY DEF CountersInv
    <2>3. RowsInv(Claimed(r, next, nextToken), nextId,
                  held \union {<<next, nextToken>>}, last)
      BY <2>1, <2>2, ClaimKeeps
    <2>4. CountersInv(nextId, nextToken + 1, held \union {<<next, nextToken>>}, last)
      BY <2>1, CountersAfterClaim
    <2> QED
      BY <2>1, <2>3, <2>4
  <1> QED
    BY <1>1, <1>2

-----------------------------------------------------------------------------
(* One lemma per operation.                                                *)

\* A new row is the youngest and carries no claim.
LEMMA EnqueueKeeps ==
    ASSUME IInv, NEW t \in Turns, Enqueue(t)
    PROVE  IInv'
  <1> USE DEF IInv, Enqueue, Queued
  <1>1. rows'[t] = Queued(nextId) /\ \A u \in Turns : u # t => rows'[u] = rows[u]
    BY DEF RowsInv, Row
  <1>2. RowsInv(rows', nextId', held', lastAcked')
    BY <1>1 DEF RowsInv, Row, CountersInv
  <1>3. CountersInv(nextId', nextToken', held', lastAcked')
    BY DEF CountersInv
  <1> QED
    BY <1>2, <1>3

\* A claim by turn id.
LEMMA ClaimStepKeeps ==
    ASSUME IInv, NEW t \in Turns, Claim(t)
    PROVE  IInv'
  <1>1. ClaimsFirst(rows, nextToken, rows', t) /\ Handed(t) /\ UNCHANGED nextId
    BY DEF Claim, ClaimsFirst
  <1>2. /\ RowsInv(rows', nextId', held', lastAcked)
        /\ CountersInv(nextId', nextToken', held', lastAcked)
    BY <1>1, ClaimsFirstKeeps DEF IInv, CountersInv
  <1> QED
    BY <1>2 DEF IInv, Claim

\* A claim of the head of the FIFO.
LEMMA ClaimFirstKeeps ==
    ASSUME IInv, NEW next \in Turns, ClaimFirst(next)
    PROVE  IInv'
  <1>1. /\ RowsInv(rows', nextId', held', lastAcked)
        /\ CountersInv(nextId', nextToken', held', lastAcked)
    BY ClaimsFirstKeeps DEF IInv, CountersInv, ClaimFirst
  <1> QED
    BY <1>1 DEF IInv, ClaimFirst

\* Acknowledging retires the head before the next row is claimed.
LEMMA AckAndClaimNextKeeps ==
    ASSUME IInv, NEW t \in Turns, NEW k \in Nat, NEW expected,
           NEW next \in Turns \union {NoTurn}, AckAndClaimNext(t, k, expected, next)
    PROVE  IInv'
  <1> DEFINE r == Without(rows, {t})
             last == rows[t].id
  <1>1. /\ last \in Nat
        /\ CountersInv(nextId, nextToken, held, last)
    BY DEF IInv, RowsInv, Row, CountersInv, AckAndClaimNext, OwnsClaim
  <1>2. RowsInv(r, nextId, held, last)
    BY RetireKeeps DEF IInv, CountersInv, AckAndClaimNext, OwnsClaim
  <1>3. /\ ClaimsFirst(r, nextToken, rows', next)
        /\ Handed(next)
        /\ UNCHANGED nextId
        /\ lastAcked' = last
        /\ acked' = acked \union {<<t, k>>}
    BY DEF AckAndClaimNext, Retired
  <1> HIDE DEF r, last
  <1>4. /\ RowsInv(rows', nextId', held', last)
        /\ CountersInv(nextId', nextToken', held', last)
    BY <1>1, <1>2, <1>3, ClaimsFirstKeeps
  <1> QED
    BY <1>3, <1>4 DEF IInv

\* A cancellation retires the head and drops the rest.
LEMMA CancelClaimKeeps ==
    ASSUME IInv, NEW t \in Turns, NEW k \in Nat, CancelClaimAndClearTask(t, k)
    PROVE  IInv'
  <1>1. RowsInv(Without(rows, Turns), nextId, held, rows[t].id)
    BY RetireKeeps DEF IInv, CountersInv, CancelClaimAndClearTask, OwnsClaim
  <1>2. CountersInv(nextId, nextToken, held, rows[t].id)
    BY DEF IInv, RowsInv, Row, CountersInv, CancelClaimAndClearTask, OwnsClaim
  <1> QED
    BY <1>1, <1>2 DEF IInv, CancelClaimAndClearTask, Retired

\* DiscardQueued, Remove and ClearTask only delete rows.
LEMMA DeletionKeeps ==
    ASSUME IInv, NEW gone, rows' = Without(rows, gone),
           UNCHANGED <<nextId, nextToken, held, acked, lastAcked>>
    PROVE  IInv'
  BY WithoutKeeps DEF IInv

\* A discarded row is deleted in the transaction that claims the next.
LEMMA DiscardAndClaimKeeps ==
    ASSUME IInv, NEW t \in Turns, NEW next \in Turns \union {NoTurn},
           DiscardQueuedAndClaimNext(t, next)
    PROVE  IInv'
  <1> DEFINE r == Without(rows, {t})
  <1>1. RowsInv(r, nextId, held, lastAcked)
    BY WithoutKeeps DEF IInv
  <1>2. ClaimsFirst(r, nextToken, rows', next) /\ Handed(next)
        /\ UNCHANGED <<nextId, acked, lastAcked>>
    BY DEF DiscardQueuedAndClaimNext
  <1> HIDE DEF r
  <1>3. /\ RowsInv(rows', nextId', held', lastAcked)
        /\ CountersInv(nextId', nextToken', held', lastAcked)
    BY <1>1, <1>2, ClaimsFirstKeeps DEF IInv, CountersInv
  <1> QED
    BY <1>2, <1>3 DEF IInv

\* Recovery releases every claim and then claims the first row, if it is the
\* active one, under a fresh token.
LEMMA PrepareRecoveryKeeps ==
    ASSUME IInv, NEW act \in Turns \union {NoTurn}, PrepareRecovery(act)
    PROVE  IInv'
  <1> DEFINE r == Released(rows)
  <1>1. RowsInv(r, nextId, held, lastAcked)
    BY ZenonT(60) DEF IInv, RowsInv, Released, Row
  <1>2. CASE act \notin Present(rows)
    <2>1. rows' = r /\ UNCHANGED <<nextId, nextToken, held, acked, lastAcked>>
      BY <1>2 DEF PrepareRecovery, Recovered, Handed
    <2> QED
      BY <1>1, <2>1 DEF IInv
  <1>3. CASE act \in Present(rows)
    <2>1. /\ act \in Turns
          /\ rows[act].state # "absent"
          /\ \A u \in Turns : rows[u].state # "absent" => rows[act].id <= rows[u].id
          /\ rows' = [r EXCEPT ![act].state = "claimed", ![act].token = nextToken]
      BY <1>3 DEF PrepareRecovery, Recovered, Recoverable, IsFirst, Present
    <2>2. /\ nextToken' = nextToken + 1
          /\ held' = held \union {<<act, nextToken>>}
          /\ UNCHANGED <<nextId, acked, lastAcked>>
      BY <1>3, <2>1, NoTurnAssumption DEF PrepareRecovery, Handed
    <2>r. /\ r \in [Turns -> Row]
          /\ \A u \in Turns : r[u].state # "claimed" /\ r[u].id = rows[u].id
          /\ \A u \in Turns : (r[u].state # "absent") <=> (rows[u].state # "absent")
      BY DEF IInv, RowsInv, Released, Row
    <2> HIDE DEF r
    <2>c. nextToken \in Nat
      BY DEF IInv, CountersInv
    <2>3. /\ rows' \in [Turns -> Row]
          /\ rows'[act].state = "claimed"
          /\ rows'[act].token = nextToken
          /\ \A u \in Turns : rows'[u].id = rows[u].id
          /\ \A u \in Turns : (rows'[u].state # "absent") <=> (rows[u].state # "absent")
          /\ \A u \in Turns : u # act => rows'[u].state # "claimed"
      BY <2>1, <2>r, <2>c DEF Row
    <2>4. \A u \in Turns : rows'[u].state = "claimed" =>
              /\ <<u, rows'[u].token>> \in held'
              /\ \A g \in held' : g[1] = u => g[2] <= rows'[u].token
      BY <2>2, <2>3 DEF IInv, CountersInv
    <2>5. RowsInv(rows', nextId', held', lastAcked')
      <3>1. \A u \in Turns : rows'[u].state # "absent" =>
                lastAcked < rows'[u].id /\ rows'[u].id < nextId
        BY <2>3 DEF IInv, RowsInv
      <3>2. \A u, v \in Turns :
                (rows'[u].state # "absent" /\ rows'[v].state # "absent"
                    /\ rows'[u].id = rows'[v].id) => u = v
        BY <2>3 DEF IInv, RowsInv
      <3>3. \A u, v \in Turns :
                (rows'[u].state = "claimed" /\ rows'[v].state # "absent")
                    => rows'[u].id <= rows'[v].id
        BY <2>1, <2>3
      <3> QED
        BY <2>2, <2>3, <2>4, <3>1, <3>2, <3>3 DEF RowsInv
    <2>6. CountersInv(nextId', nextToken', held', lastAcked')
      BY <2>1, <2>2, CountersAfterClaim DEF IInv
    <2> QED
      BY <2>2, <2>5, <2>6 DEF IInv
  <1> QED
    BY <1>2, <1>3

\* Binding a session version writes the epoch only.
LEMMA BindKeeps ==
    ASSUME IInv, NEW t \in Turns, NEW version \in Versions, BindSessionVersion(t, version)
    PROVE  IInv'
  <1>1. version \in Nat
    BY BoundsAssumption
  <1>2. /\ rows' \in [Turns -> Row]
        /\ \A u \in Turns : /\ rows'[u].state = rows[u].state
                            /\ rows'[u].id = rows[u].id
                            /\ rows'[u].token = rows[u].token
    BY <1>1 DEF IInv, RowsInv, BindSessionVersion, Row
  <1> QED
    BY <1>2 DEF IInv, RowsInv, BindSessionVersion

\* Every operation keeps the invariant.
LEMMA NextKeeps == IInv /\ [Next]_vars => IInv'
  <1> SUFFICES ASSUME IInv, [Next]_vars PROVE IInv'
    OBVIOUS
  <1>1. ASSUME NEW t \in Turns, Enqueue(t) PROVE IInv'
    BY <1>1, EnqueueKeeps
  <1>2. ASSUME NEW t \in Turns, Claim(t) PROVE IInv'
    BY <1>2, ClaimStepKeeps
  <1>3. ASSUME NEW next \in Turns, ClaimFirst(next) PROVE IInv'
    BY <1>3, ClaimFirstKeeps
  <1>4. ASSUME NEW h \in held, NEW expected \in Versions \union {0},
               NEW next \in Turns \union {NoTurn},
               AckAndClaimNext(h[1], h[2], expected, next)
        PROVE  IInv'
    <2>1. h[1] \in Turns /\ h[2] \in Nat
      BY DEF IInv, CountersInv
    <2> QED
      BY <1>4, <2>1, AckAndClaimNextKeeps
  <1>5. ASSUME NEW h \in held, CancelClaimAndClearTask(h[1], h[2]) PROVE IInv'
    <2>1. h[1] \in Turns /\ h[2] \in Nat
      BY DEF IInv, CountersInv
    <2> QED
      BY <1>5, <2>1, CancelClaimKeeps
  <1>6. CASE ClearTask
    BY <1>6, DeletionKeeps DEF ClearTask
  <1>7. ASSUME NEW t \in Turns, DiscardQueued(t) PROVE IInv'
    BY <1>7, DeletionKeeps DEF DiscardQueued
  <1>8. ASSUME NEW gone \in SUBSET Turns, Remove(gone) PROVE IInv'
    BY <1>8, DeletionKeeps DEF Remove
  <1>9. ASSUME NEW t \in Turns, NEW next \in Turns \union {NoTurn},
               DiscardQueuedAndClaimNext(t, next)
        PROVE  IInv'
    BY <1>9, DiscardAndClaimKeeps
  <1>10. ASSUME NEW act \in Turns \union {NoTurn}, PrepareRecovery(act) PROVE IInv'
    BY <1>10, PrepareRecoveryKeeps
  <1>11. ASSUME NEW t \in Turns, NEW version \in Versions, BindSessionVersion(t, version)
         PROVE  IInv'
    BY <1>11, BindKeeps
  <1>12. CASE UNCHANGED vars
    BY <1>12 DEF vars, IInv
  <1> QED
    BY <1>1, <1>2, <1>3, <1>4, <1>5, <1>6, <1>7, <1>8, <1>9, <1>10, <1>11, <1>12 DEF Next

\* The strengthening is an invariant of every behaviour of the store.
THEOREM Inductive == Spec => []IInv
  BY InitIInv, NextKeeps, PTL DEF Spec

\* The variables keep their types, whatever the callers do.
THEOREM TypeCorrect == Spec => []TypeOK
  <1>1. IInv => TypeOK
    BY DEF IInv, RowsInv, CountersInv, TypeOK
  <1> QED
    BY <1>1, Inductive, PTL

\* The head of the FIFO is the only row a claim can be on: a claimed row is
\* the first of its task, and no second one is ever claimed beside it.
THEOREM ClaimsAtTheHead == Spec => [](ClaimedIsFirst /\ OneClaim)
  <1>1. IInv => ClaimedIsFirst
    BY DEF IInv, RowsInv, ClaimedIsFirst, IsFirst, Present
  <1>2. IInv => OneClaim
    <2> SUFFICES ASSUME IInv, NEW t \in Turns, NEW u \in Turns,
                        rows[t].state = "claimed", rows[u].state = "claimed"
                 PROVE  t = u
      BY DEF OneClaim
    <2>1. rows[t].id <= rows[u].id /\ rows[u].id <= rows[t].id
      BY DEF IInv, RowsInv
    <2>2. rows[t].id = rows[u].id
      BY <2>1 DEF IInv, RowsInv, Row
    <2> QED
      BY <2>2 DEF IInv, RowsInv
  <1> QED
    BY <1>1, <1>2, Inductive, PTL

\* Fencing: the token stored with a claimed turn is the newest one handed
\* out for it, so the older holders fail the ownership test.
THEOREM Fenced == Spec => []NewestHolderOwns
  <1>1. IInv => NewestHolderOwns
    BY DEF IInv, RowsInv, NewestHolderOwns
  <1> QED
    BY <1>1, Inductive, PTL

\* The turns of a task are retired in the order of their submission.
THEOREM RetiredInOrder == Spec => []NothingOlderIsLeft
  <1>1. IInv => NothingOlderIsLeft
    BY DEF IInv, RowsInv, NothingOlderIsLeft, Present
  <1> QED
    BY <1>1, Inductive, PTL

\* No stale worker retires a turn that was handed to somebody else: a step
\* that retires a turn is taken by the newest holder of it.
THEOREM OnlyNewestRetires == Spec => StaleHolderNeverRetires
  <1> DEFINE Good == \A h \in acked' \ acked : \A g \in held : g[1] = h[1] => g[2] <= h[2]
  <1>1. IInv /\ [Next]_vars => Good \/ UNCHANGED vars
    <2> SUFFICES ASSUME IInv, Next, NEW h \in acked' \ acked, NEW g \in held, g[1] = h[1]
                 PROVE  g[2] <= h[2]
      OBVIOUS
    <2>1. PICK f \in held : OwnsClaim(rows, f[1], f[2]) /\ acked' = acked \union {<<f[1], f[2]>>}
      BY DEF Next, Enqueue, Claim, DiscardQueued, ClaimFirst, AckAndClaimNext,
             CancelClaimAndClearTask, ClearTask, DiscardQueuedAndClaimNext, Remove,
             PrepareRecovery, BindSessionVersion, Retired
    <2>2. h = <<f[1], f[2]>>
      BY <2>1
    <2>3. f[1] \in Turns /\ rows[f[1]].state = "claimed" /\ rows[f[1]].token = f[2]
      BY <2>1 DEF OwnsClaim, IInv, CountersInv
    <2>4. g[1] = f[1]
      BY <2>2
    <2>5. g[2] <= rows[f[1]].token
      BY <2>3, <2>4 DEF IInv, RowsInv
    <2> QED
      BY <2>2, <2>3, <2>5
  <1>2. IInv /\ [Next]_vars => [Good]_vars
    BY <1>1
  <1> QED
    BY <1>2, Inductive, PTL DEF Spec, StaleHolderNeverRetires
=============================================================================

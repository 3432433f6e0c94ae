-------------------------- MODULE TurnQueueProofs --------------------------
(***************************************************************************)
(* Proofs about TurnQueue, for any turns, faults and bounds.               *)
(*                                                                         *)
(* The idea: there is one place from which a turn can be worked on, the    *)
(* submitted active slot.  BusyInv ties every worker and the thread inside *)
(* finish_turn to it, and from that follows OneTurnAtATime.  The other     *)
(* parts of the invariant say what the slot and the queue have to do with  *)
(* the rows: RowsInv and QueueInv of the shape of each, OwnsInv and        *)
(* OrderInv of both together.                                              *)
(*                                                                         *)
(* Two disturbances break the tie between memory and rows in the program   *)
(* itself, so what depends on it is stated without them (NoCancels,        *)
(* NoDeadline, Steady, UserOnly below): a cancellation leaves a turn that  *)
(* waits without a process, and a wait that times out leaves a run without *)
(* a waiter.  Each theorem has the weakest of these conditions for which   *)
(* the model checker finds no counterexample.                              *)
(*                                                                         *)
(* The steps are grouped by what they do: taking a turn, passing the slot  *)
(* on, discarding a turn, recovering.  An Effect names what the steps of a *)
(* group have in common, and a lemma shows once that it keeps the          *)
(* invariant.                                                              *)
(*                                                                         *)
(* That no row waits for nobody (NeverStalls) needs more than this tie: a  *)
(* turn is prepared exactly while a caller is about to start it, and the   *)
(* submitted turn is always in a place from which it goes on (StallInv).   *)
(***************************************************************************)
EXTENDS TurnQueue, FiniteSetTheorems, SequenceTheorems, TLAPS

\* A non-empty set of numbers has a least one.
LEMMA LeastNumber ==
    ASSUME NEW T \in SUBSET Nat, T # {}
    PROVE  \E n \in T : \A m \in T : n <= m
  <1> DEFINE R == {ss \in Nat \X Nat : ss[1] < ss[2]}
  <1>1. IsWellFoundedOn(R, Nat)
    BY NatLessThanWellFounded DEF OpToRel
  <1>2. PICK n \in T : \A m \in T : ~ (<<m, n>> \in R)
    <2> HIDE DEF R
    <2> QED
      BY <1>1, WFMin
  <1>3. ASSUME NEW m \in T
        PROVE  n <= m
    <2>1. m < n => <<m, n>> \in R
      OBVIOUS
    <2> QED
      BY <2>1, <1>2
  <1> QED
    BY <1>3

\* s lists the turns of S in the order of the ids of r.
Lists(s, S, r) ==
    /\ s \in [1 .. Cardinality(S) -> S]
    /\ \A i, j \in DOMAIN s : i < j => r[s[i]].id < r[s[j]].id

\* Turns that r gives different ids.
Numbered(S, r) ==
    /\ IsFiniteSet(S)
    /\ \A t \in S : r[t].id \in Nat
    /\ \A t, u \in S : r[t].id = r[u].id => t = u

\* Finitely many rows can be read in the order of their ids.
LEMMA ListsExist ==
    ASSUME NEW F, NEW r, Numbered(F, r)
    PROVE  \E s : Lists(s, F, r)
  <1> DEFINE Bad == {n \in Nat : \E S \in SUBSET F : /\ Cardinality(S) = n
                                                     /\ \A s : ~Lists(s, S, r)}
  <1>1. SUFFICES ASSUME Bad # {}
                 PROVE  FALSE
    <2>1. Cardinality(F) \in Nat
      BY FS_CardinalityType DEF Numbered
    <2>2. Cardinality(F) \notin Bad
      OBVIOUS
    <2> QED
      BY <2>1, <2>2
  <1>2. PICK n \in Bad : \A m \in Bad : n <= m
    <2> HIDE DEF Bad
    <2>1. Bad \in SUBSET Nat
      BY DEF Bad
    <2> QED
      BY <1>1, <2>1, LeastNumber
  <1>3. PICK S \in SUBSET F : Cardinality(S) = n /\ \A s : ~Lists(s, S, r)
    OBVIOUS
  <1>4. IsFiniteSet(S) /\ n \in Nat
    BY FS_Subset DEF Numbered
  <1>5. S # {}
    <2> SUFFICES ASSUME S = {}
                 PROVE  FALSE
      OBVIOUS
    <2>1. Cardinality(S) = 0
      BY FS_EmptySet
    <2>2. Lists([i \in 1 .. 0 |-> i], S, r)
      BY <2>1 DEF Lists
    <2> QED
      BY <2>2, <1>3
  <1>6. PICK t \in S : \A u \in S : r[t].id <= r[u].id
    <2> DEFINE Ids == {r[u].id : u \in S}
    <2>1. Ids \in SUBSET Nat /\ Ids # {}
      BY <1>5 DEF Numbered
    <2>2. PICK least \in Ids : \A m \in Ids : least <= m
      <3> HIDE DEF Ids
      <3> QED
        BY <2>1, LeastNumber
    <2> QED
      BY <2>2
  <1> DEFINE Rest == S \ {t}
  <1>7. IsFiniteSet(Rest) /\ Cardinality(Rest) = n - 1 /\ n - 1 \in Nat
    <2>1. IsFiniteSet(Rest) /\ Cardinality(Rest) = n - 1
      BY <1>4, <1>3, FS_RemoveElement
    <2>2. Cardinality(Rest) \in Nat
      BY <2>1, FS_CardinalityType
    <2> QED
      BY <2>1, <2>2
  <1>8. PICK s : Lists(s, Rest, r)
    <2>1. n - 1 \notin Bad
      BY <1>2, <1>4
    <2>2. Rest \in SUBSET F
      OBVIOUS
    <2> HIDE DEF Rest
    <2> QED
      BY <2>1, <2>2, <1>7
  <1> DEFINE longer == [i \in 1 .. n |-> IF i = 1 THEN t ELSE s[i - 1]]
  <1>9. /\ s \in [1 .. n - 1 -> Rest]
        /\ \A i, j \in 1 .. n - 1 : i < j => r[s[i]].id < r[s[j]].id
    BY <1>7, <1>8 DEF Lists
  <1>10. longer \in [1 .. n -> S]
    BY <1>9, <1>4
  <1>11. ASSUME NEW i \in 1 .. n, NEW j \in 1 .. n, i < j
         PROVE  r[longer[i]].id < r[longer[j]].id
    <2>1. CASE i = 1
      <3>1. longer[i] = t /\ longer[j] = s[j - 1] /\ s[j - 1] \in Rest
        BY <2>1, <1>9, <1>11, <1>4
      <3>2. r[t].id # r[s[j - 1]].id
        BY <3>1, <1>6 DEF Numbered
      <3>3. r[t].id \in Nat /\ r[s[j - 1]].id \in Nat
        BY <3>1 DEF Numbered
      <3> HIDE DEF longer
      <3> QED
        BY <3>1, <3>2, <3>3, <1>6
    <2>2. CASE i # 1
      BY <2>2, <1>9, <1>11, <1>4
    <2> QED
      BY <2>1, <2>2
  <1>12. Lists(longer, S, r)
    BY <1>10, <1>11, <1>3 DEF Lists
  <1> QED
    BY <1>12, <1>3

\* ... and in one way only.
LEMMA ListsAgree ==
    ASSUME NEW S, NEW r, Numbered(S, r), NEW s, NEW q, Lists(s, S, r), Lists(q, S, r)
    PROVE  s = q
  <1> DEFINE n == Cardinality(S)
             Differ == {i \in 1 .. n : s[i] # q[i]}
  <1>1. n \in Nat /\ IsFiniteSet(1 .. n) /\ Cardinality(1 .. n) = n
    <2>1. n \in Nat
      BY FS_CardinalityType DEF Numbered
    <2> QED
      BY <2>1, FS_Interval
  <1>2. ASSUME NEW f, Lists(f, S, r)
        PROVE  /\ f \in [1 .. n -> S]
               /\ \A i, j \in 1 .. n : i < j => r[f[i]].id < r[f[j]].id
               /\ \A i, j \in 1 .. n : f[i] = f[j] => i = j
               /\ \A t \in S : \E i \in 1 .. n : f[i] = t
    <2>1. /\ f \in [1 .. n -> S]
          /\ \A i, j \in 1 .. n : i < j => r[f[i]].id < r[f[j]].id
      BY <1>2 DEF Lists
    <2>2. \A i, j \in 1 .. n : f[i] = f[j] => i = j
      <3> SUFFICES ASSUME NEW i \in 1 .. n, NEW j \in 1 .. n, f[i] = f[j], i # j
                   PROVE  FALSE
        OBVIOUS
      <3>1. r[f[i]].id \in Nat
        BY <2>1 DEF Numbered
      <3> QED
        BY <3>1, <2>1, <1>1
    <2>3. f \in Injection(1 .. n, S)
      BY <2>1, <2>2 DEF Injection, IsInjective
    <2>4. f \in Surjection(1 .. n, S)
      BY <2>3, <1>1, FS_Injection DEF Numbered
    <2> QED
      BY <2>1, <2>2, <2>4 DEF Surjection
  <1>3. Differ = {} => s = q
    <2>1. s \in [1 .. n -> S] /\ q \in [1 .. n -> S]
      BY <1>2
    <2>2. SUFFICES ASSUME \A i \in 1 .. n : s[i] = q[i]
                   PROVE  s = q
      OBVIOUS
    <2>3. s = [i \in 1 .. n |-> s[i]] /\ q = [i \in 1 .. n |-> q[i]]
      BY <2>1
    <2>4. [i \in 1 .. n |-> s[i]] = [i \in 1 .. n |-> q[i]]
      BY <2>2
    <2> QED
      BY <2>3, <2>4
  <1>4. SUFFICES ASSUME Differ # {}
                 PROVE  FALSE
    BY <1>3
  <1>5. PICK k \in Differ : \A m \in Differ : k <= m
    <2> HIDE DEF Differ
    <2>1. Differ \in SUBSET Nat
      BY <1>1 DEF Differ
    <2> QED
      BY <1>4, <2>1, LeastNumber
  <1>6. \A i \in 1 .. n : i < k => s[i] = q[i]
    BY <1>5, <1>1
  <1>7. k \in 1 .. n /\ s[k] # q[k]
    OBVIOUS
  <1>8. ASSUME NEW f, NEW g, Lists(f, S, r), Lists(g, S, r),
               \A i \in 1 .. n : i < k => f[i] = g[i], f[k] # g[k]
        PROVE  r[f[k]].id < r[g[k]].id
    <2>1. PICK j \in 1 .. n : f[j] = g[k]
      BY ZenonT(60), <1>2, <1>7, <1>8
    <2>2. j # k
      BY <2>1, <1>8
    <2>3. ~(j < k)
      <3> SUFFICES ASSUME j < k
                   PROVE  FALSE
        OBVIOUS
      <3>1. g[j] = g[k]
        BY <2>1, <1>8
      <3> QED
        BY <3>1, <2>2, <1>2, <1>7, <1>8
    <2>4. k < j
      BY <2>2, <2>3, <1>7, <1>1
    <2>5. \A i, m \in 1 .. n : i < m => r[f[i]].id < r[f[m]].id
      BY <1>2, <1>8
    <2> HIDE DEF Differ
    <2> QED
      BY <2>1, <2>4, <2>5, <1>7
  <1>9. r[s[k]].id < r[q[k]].id /\ r[q[k]].id < r[s[k]].id
    BY <1>6, <1>7, <1>8
  <1>10. r[s[k]].id \in Nat /\ r[q[k]].id \in Nat
    BY <1>2, <1>7 DEF Numbered
  <1> QED
    BY <1>9, <1>10

\* What a query returns: every row once, in the order of the ids.
LEMMA InOrderLists ==
    ASSUME NEW S, NEW r, Numbered(S, r)
    PROVE  /\ Lists(InOrder(S, r), S, r)
           /\ \A s : Lists(s, S, r) => s = InOrder(S, r)
  <1>1. \E s : Lists(s, S, r)
    BY ListsExist
  <1>2. Lists(InOrder(S, r), S, r)
    BY <1>1 DEF Lists, InOrder
  <1> QED
    BY <1>2, ListsAgree

\* A sequence whose ids grow is the list of its members.
LEMMA Listed ==
    ASSUME NEW S, NEW r, Numbered(S, r), NEW s \in Seq(S),
           \A t \in S : \E i \in DOMAIN s : s[i] = t,
           \A i, j \in DOMAIN s : i < j => r[s[i]].id < r[s[j]].id
    PROVE  s = InOrder(S, r)
  <1>1. /\ Len(s) \in Nat /\ DOMAIN s = 1 .. Len(s) /\ s \in [1 .. Len(s) -> S]
    OBVIOUS
  <1>2. \A i, j \in 1 .. Len(s) : s[i] = s[j] => i = j
    <2> SUFFICES ASSUME NEW i \in 1 .. Len(s), NEW j \in 1 .. Len(s), s[i] = s[j], i # j
                 PROVE  FALSE
      OBVIOUS
    <2>1. r[s[i]].id \in Nat
      BY <1>1 DEF Numbered
    <2> QED
      BY <2>1, <1>1
  <1>3. s \in Bijection(1 .. Len(s), S)
    BY <1>1, <1>2 DEF Bijection, Injection, Surjection, IsInjective
  <1>4. Cardinality(S) = Len(s)
    BY <1>3, <1>1, FS_CountingElements DEF ExistsBijection
  <1>5. Lists(s, S, r)
    BY <1>1, <1>4 DEF Lists
  <1> QED
    BY <1>5, InOrderLists

\* ... and a list is such a sequence.
LEMMA InOrderSorts ==
    ASSUME NEW S, NEW r, Numbered(S, r)
    PROVE  /\ InOrder(S, r) \in Seq(S)
           /\ \A t \in S : \E i \in DOMAIN InOrder(S, r) : InOrder(S, r)[i] = t
           /\ \A i, j \in DOMAIN InOrder(S, r) :
                 i < j => r[InOrder(S, r)[i]].id < r[InOrder(S, r)[j]].id
           /\ \A i, j \in DOMAIN InOrder(S, r) :
                 InOrder(S, r)[i] = InOrder(S, r)[j] => i = j
  <1> DEFINE n == Cardinality(S)
             s == InOrder(S, r)
  <1>1. n \in Nat /\ IsFiniteSet(1 .. n) /\ Cardinality(1 .. n) = n
    BY FS_CardinalityType, FS_Interval DEF Numbered
  <1>2. /\ s \in [1 .. n -> S]
        /\ \A i, j \in 1 .. n : i < j => r[s[i]].id < r[s[j]].id
    <2>1. Lists(s, S, r)
      BY InOrderLists
    <2> HIDE DEF s
    <2> QED
      BY <2>1 DEF Lists
  <1> HIDE DEF s
  <1>3. \A i, j \in 1 .. n : s[i] = s[j] => i = j
    <2> SUFFICES ASSUME NEW i \in 1 .. n, NEW j \in 1 .. n, s[i] = s[j], i # j
                 PROVE  FALSE
      OBVIOUS
    <2>1. r[s[i]].id \in Nat
      BY <1>2 DEF Numbered
    <2> QED
      BY <2>1, <1>1, <1>2
  <1>4. s \in Injection(1 .. n, S)
    BY <1>2, <1>3 DEF Injection, IsInjective
  <1>5. s \in Surjection(1 .. n, S)
    BY <1>4, <1>1, FS_Injection DEF Numbered
  <1>6. s \in Seq(S) /\ DOMAIN s = 1 .. n
    BY <1>1, <1>2
  <1>7. \A t \in S : \E i \in 1 .. n : s[i] = t
    BY <1>5 DEF Surjection
  <1> QED
    BY <1>2, <1>3, <1>6, <1>7 DEF s
-----------------------------------------------------------------------------
(* The queue in memory.                                                     *)

\* The turns of a queue; a queue that holds each of them once, and one that
\* holds them in the order of the ids of r.
In(q) == {q[i] : i \in DOMAIN q}
NoRepeats(q) == \A i, j \in DOMAIN q : q[i] = q[j] => i = j
ById(q, r) == \A i, j \in DOMAIN q : i < j => r[q[i]].id < r[q[j]].id

LEMMA EmptyQueue ==
    /\ <<>> \in Seq(Turns) /\ In(<<>>) = {} /\ NoRepeats(<<>>) /\ \A r : ById(<<>>, r)
    /\ \A q \in Seq(Turns) : In(q) \subseteq Turns /\ (q = <<>> <=> In(q) = {})
  <1>1. /\ <<>> \in Seq(Turns) /\ In(<<>>) = {} /\ NoRepeats(<<>>) /\ \A r : ById(<<>>, r)
    BY DEF In, NoRepeats, ById
  <1>2. ASSUME NEW q \in Seq(Turns)
        PROVE  In(q) \subseteq Turns /\ (q # <<>> => In(q) # {})
    <2>1. In(q) \subseteq Turns
      BY DEF In
    <2>2. q # <<>> => 1 \in DOMAIN q
      OBVIOUS
    <2> QED
      BY <2>1, <2>2 DEF In
  <1> QED
    BY <1>1, <1>2

LEMMA QueueGrows ==
    ASSUME NEW q \in Seq(Turns), NEW t \in Turns
    PROVE  /\ Append(q, t) \in Seq(Turns)
           /\ In(Append(q, t)) = In(q) \union {t}
           /\ NoRepeats(q) /\ t \notin In(q) => NoRepeats(Append(q, t))
           /\ \A r : ById(q, r) /\ (\A u \in In(q) : r[u].id < r[t].id)
                      => ById(Append(q, t), r)
  <1>1. /\ Append(q, t) \in Seq(Turns) /\ Len(q) \in Nat
        /\ DOMAIN q = 1 .. Len(q) /\ DOMAIN Append(q, t) = 1 .. Len(q) + 1
        /\ \A i \in 1 .. Len(q) : Append(q, t)[i] = q[i]
        /\ Append(q, t)[Len(q) + 1] = t
    OBVIOUS
  <1> DEFINE s == Append(q, t)
  <1> HIDE DEF s
  <1>2. \A i \in DOMAIN s : (i \in DOMAIN q /\ s[i] = q[i]) \/ (i = Len(q) + 1 /\ s[i] = t)
    BY <1>1 DEF s
  <1>3. In(s) = In(q) \union {t}
    <2>1. In(s) \subseteq In(q) \union {t}
      BY <1>2 DEF In
    <2>2. In(q) \subseteq In(s) /\ t \in In(s)
      BY <1>1 DEF In, s
    <2> QED
      BY <2>1, <2>2
  <1>4. NoRepeats(q) /\ t \notin In(q) => NoRepeats(s)
    BY <1>2 DEF NoRepeats, In
  <1>5. ASSUME NEW r, ById(q, r), \A u \in In(q) : r[u].id < r[t].id
        PROVE  ById(s, r)
    <2> SUFFICES ASSUME NEW i \in DOMAIN s, NEW j \in DOMAIN s, i < j
                 PROVE  r[s[i]].id < r[s[j]].id
      BY DEF ById
    <2>1. i \in DOMAIN q /\ s[i] = q[i]
      BY <1>1, <1>2 DEF s
    <2>2. CASE j \in DOMAIN q /\ s[j] = q[j]
      BY <2>1, <2>2, <1>5 DEF ById
    <2>3. CASE s[j] = t
      BY <2>1, <2>3, <1>5 DEF In
    <2> QED
      BY <2>2, <2>3, <1>2
  <1> QED
    BY <1>1, <1>3, <1>4, <1>5 DEF s

LEMMA QueueMoves ==
    ASSUME NEW q \in Seq(Turns), q # <<>>
    PROVE  /\ Head(q) \in In(q) /\ Head(q) \in Turns
           /\ Tail(q) \in Seq(Turns)
           /\ In(Tail(q)) \subseteq In(q) /\ In(q) = In(Tail(q)) \union {Head(q)}
           /\ NoRepeats(q) => NoRepeats(Tail(q)) /\ Head(q) \notin In(Tail(q))
           /\ \A r : ById(q, r) => /\ ById(Tail(q), r)
                                   /\ \A u \in In(Tail(q)) : r[Head(q)].id < r[u].id
  <1> DEFINE s == Tail(q)
  <1>1. /\ s \in Seq(Turns) /\ Len(q) \in Nat /\ Len(q) > 0
        /\ DOMAIN q = 1 .. Len(q) /\ DOMAIN s = 1 .. Len(q) - 1
        /\ \A i \in 1 .. Len(q) - 1 : s[i] = q[i + 1]
        /\ Head(q) = q[1] /\ Head(q) \in Turns
    OBVIOUS
  <1> HIDE DEF s
  <1>2. \A i \in DOMAIN s : i + 1 \in DOMAIN q /\ i \in Nat /\ i > 0 /\ s[i] = q[i + 1]
    BY <1>1
  <1>3. 1 \in DOMAIN q /\ Head(q) \in In(q)
    BY <1>1 DEF In
  <1>4. In(q) = In(s) \union {Head(q)}
    <2>1. In(s) \union {Head(q)} \subseteq In(q)
      BY <1>2, <1>3 DEF In
    <2>2. ASSUME NEW i \in DOMAIN q
          PROVE  q[i] \in In(s) \union {Head(q)}
      <3>1. CASE i = 1
        BY <3>1, <1>1
      <3>2. CASE i # 1
        <4>1. i - 1 \in DOMAIN s /\ s[i - 1] = q[i]
          BY <3>2, <1>1
        <4> QED
          BY <4>1 DEF In
      <3> QED
        BY <3>1, <3>2
    <2> QED
      BY <2>1, <2>2 DEF In
  <1>5. NoRepeats(q) => NoRepeats(s)
    BY <1>2 DEF NoRepeats
  <1>6. NoRepeats(q) => Head(q) \notin In(s)
    <2> SUFFICES ASSUME NoRepeats(q), NEW i \in DOMAIN s, s[i] = q[1]
                 PROVE  FALSE
      BY <1>1 DEF In
    <2>1. i + 1 \in DOMAIN q /\ q[i + 1] = q[1] /\ i + 1 # 1
      BY <1>2
    <2> QED
      BY <2>1, <1>3 DEF NoRepeats
  <1>7. ASSUME NEW r, ById(q, r)
        PROVE  ById(s, r)
    <2> SUFFICES ASSUME NEW i \in DOMAIN s, NEW j \in DOMAIN s, i < j
                 PROVE  r[s[i]].id < r[s[j]].id
      BY DEF ById
    <2>1. i + 1 \in DOMAIN q /\ j + 1 \in DOMAIN q /\ i + 1 < j + 1
      BY <1>2
    <2> QED
      BY <2>1, <1>2, <1>7 DEF ById
  <1>8. ASSUME NEW r, ById(q, r), NEW u \in In(s)
        PROVE  r[Head(q)].id < r[u].id
    <2>1. PICK i \in DOMAIN s : u = s[i]
      BY DEF In
    <2>2. i + 1 \in DOMAIN q /\ 1 < i + 1 /\ s[i] = q[i + 1]
      BY <1>2
    <2> QED
      BY <2>1, <2>2, <1>1, <1>3, <1>8 DEF ById
  <1> QED
    BY <1>1, <1>3, <1>4, <1>5, <1>6, <1>7, <1>8 DEF s

LEMMA QueueShrinks ==
    ASSUME queue \in Seq(Turns), NoRepeats(queue), NEW t
    PROVE  /\ Dequeued(t) \in Seq(Turns)
           /\ In(Dequeued(t)) = In(queue) \ {t}
           /\ NoRepeats(Dequeued(t))
           /\ \A r : ById(queue, r) => ById(Dequeued(t), r)
  <1>1. CASE t \notin In(queue)
    <2>1. Dequeued(t) = queue
      BY <1>1 DEF Dequeued, In
    <2> QED
      BY <2>1, <1>1
  <1>2. CASE t \in In(queue)
    <2> DEFINE n == Len(queue)
               k == CHOOSE i \in DOMAIN queue : queue[i] = t
               s == Dequeued(t)
    <2>1. k \in 1 .. n /\ queue[k] = t /\ n \in Nat /\ DOMAIN queue = 1 .. n
      <3>1. \E i \in DOMAIN queue : queue[i] = t
        BY <1>2 DEF In
      <3> QED
        BY <3>1
    <2>2. s = SubSeq(queue, 1, k - 1) \o SubSeq(queue, k + 1, n)
      BY <1>2 DEF Dequeued, In, RemoveAt
    <2> HIDE DEF k, s, n
    <2>3. /\ SubSeq(queue, 1, k - 1) \in Seq(Turns) /\ Len(SubSeq(queue, 1, k - 1)) = k - 1
          /\ \A i \in 1 .. k - 1 : SubSeq(queue, 1, k - 1)[i] = queue[i]
      BY <2>1 DEF n
    <2>4. /\ SubSeq(queue, k + 1, n) \in Seq(Turns) /\ Len(SubSeq(queue, k + 1, n)) = n - k
          /\ \A i \in 1 .. n - k : SubSeq(queue, k + 1, n)[i] = queue[k + i]
      <3>1. \A i \in k + 1 .. n : queue[i] \in Turns
        BY <2>1 DEF n
      <3>2. /\ SubSeq(queue, k + 1, n) \in Seq(Turns)
            /\ Len(SubSeq(queue, k + 1, n)) = IF k + 1 <= n THEN n - (k + 1) + 1 ELSE 0
            /\ \A i \in 1 .. n - (k + 1) + 1 :
                  SubSeq(queue, k + 1, n)[i] = queue[k + 1 + i - 1]
        <4>1. k + 1 \in Int /\ n \in Int
          BY <2>1
        <4> QED
          BY <4>1, <3>1, SubSeqProperties
      <3>3. n - (k + 1) + 1 = n - k /\ \A i \in 1 .. n - k : k + 1 + i - 1 = k + i
        BY <2>1
      <3> QED
        BY <3>2, <3>3, <2>1
    <2>5. /\ s \in Seq(Turns) /\ DOMAIN s = 1 .. n - 1
          /\ \A i \in 1 .. n - 1 : s[i] = IF i < k THEN queue[i] ELSE queue[i + 1]
      <3> DEFINE a == SubSeq(queue, 1, k - 1)
                 b == SubSeq(queue, k + 1, n)
      <3> HIDE DEF a, b
      <3>1. /\ a \in Seq(Turns) /\ Len(a) = k - 1 /\ \A i \in 1 .. k - 1 : a[i] = queue[i]
            /\ b \in Seq(Turns) /\ Len(b) = n - k /\ \A i \in 1 .. n - k : b[i] = queue[k + i]
        BY <2>3, <2>4 DEF a, b
      <3>2. /\ a \o b \in Seq(Turns) /\ Len(a \o b) = n - 1
            /\ \A i \in 1 .. n - 1 : (a \o b)[i] = IF i <= k - 1 THEN a[i] ELSE b[i - (k - 1)]
        <4>1. /\ a \o b \in Seq(Turns) /\ Len(a \o b) = Len(a) + Len(b)
              /\ \A i \in 1 .. Len(a) + Len(b) :
                    (a \o b)[i] = IF i <= Len(a) THEN a[i] ELSE b[i - Len(a)]
          BY <3>1, ConcatProperties
        <4>2. Len(a) + Len(b) = n - 1
          BY <3>1, <2>1
        <4> QED
          BY <4>1, <4>2, <3>1
      <3>3. s = a \o b
        BY <2>2 DEF a, b
      <3>4. ASSUME NEW i \in 1 .. n - 1
            PROVE  s[i] = IF i < k THEN queue[i] ELSE queue[i + 1]
        <4>1. CASE i < k
          <5>1. i \in 1 .. k - 1 /\ i <= k - 1
            BY <4>1, <2>1
          <5> QED
            BY <5>1, <4>1, <3>1, <3>2, <3>3
        <4>2. CASE ~(i < k)
          <5>1. i - (k - 1) \in 1 .. n - k /\ ~(i <= k - 1) /\ k + (i - (k - 1)) = i + 1
            BY <4>2, <2>1
          <5> QED
            BY <5>1, <4>2, <3>1, <3>2, <3>3
        <4> QED
          BY <4>1, <4>2
      <3>5. s \in Seq(Turns) /\ DOMAIN s = 1 .. n - 1
        BY <3>2, <3>3
      <3> QED
        BY <3>4, <3>5
    <2> DEFINE h(i) == IF i < k THEN i ELSE i + 1
    <2>6. /\ \A i \in DOMAIN s : h(i) \in DOMAIN queue \ {k} /\ s[i] = queue[h(i)]
          /\ \A i, j \in DOMAIN s : (i < j => h(i) < h(j)) /\ (h(i) = h(j) => i = j)
          /\ \A i \in DOMAIN queue \ {k} : \E j \in DOMAIN s : h(j) = i
      <3>1. /\ \A i \in DOMAIN s : h(i) \in DOMAIN queue \ {k} /\ s[i] = queue[h(i)]
            /\ \A i, j \in DOMAIN s : (i < j => h(i) < h(j)) /\ (h(i) = h(j) => i = j)
        BY <2>1, <2>5
      <3>2. ASSUME NEW i \in DOMAIN queue \ {k}
            PROVE  \E j \in DOMAIN s : h(j) = i
        <4>1. CASE i < k
          <5>1. i \in DOMAIN s /\ h(i) = i
            BY <4>1, <2>1, <2>5
          <5> QED
            BY <5>1
        <4>2. CASE ~(i < k)
          <5>1. i - 1 \in DOMAIN s /\ h(i - 1) = i
            BY <4>2, <2>1, <2>5
          <5> QED
            BY <5>1
        <4> QED
          BY <4>1, <4>2
      <3> QED
        BY <3>1, <3>2
    <2> HIDE DEF h
    <2>7. In(s) = In(queue) \ {t}
      <3>1. In(s) \subseteq In(queue) \ {t}
        BY <2>1, <2>6 DEF In, NoRepeats
      <3>2. In(queue) \ {t} \subseteq In(s)
        BY <2>1, <2>6 DEF In
      <3> QED
        BY <3>1, <3>2
    <2>8. NoRepeats(s)
      BY <2>6 DEF NoRepeats
    <2>9. ASSUME NEW r, ById(queue, r)
          PROVE  ById(s, r)
      BY <2>6, <2>9 DEF ById
    <2> QED
      BY <2>5, <2>7, <2>8, <2>9 DEF s
  <1> QED
    BY <1>1, <1>2

\* Only the ids of the rows matter to the order of a queue.
LEMMA SameIds ==
    ASSUME NEW q, NEW r, NEW p, ById(q, r), \A t \in In(q) : p[t].id = r[t].id
    PROVE  ById(q, p)
  BY DEF ById, In

\* A list of rows as a queue.
LEMMA QueueOfRows ==
    ASSUME NEW S \in SUBSET Turns, NEW r, Numbered(S, r)
    PROVE  /\ InOrder(S, r) \in Seq(Turns)
           /\ In(InOrder(S, r)) = S
           /\ NoRepeats(InOrder(S, r))
           /\ ById(InOrder(S, r), r)
  <1> DEFINE s == InOrder(S, r)
  <1>1. /\ s \in Seq(S)
        /\ \A t \in S : \E i \in DOMAIN s : s[i] = t
        /\ \A i, j \in DOMAIN s : i < j => r[s[i]].id < r[s[j]].id
        /\ \A i, j \in DOMAIN s : s[i] = s[j] => i = j
    BY InOrderSorts
  <1> HIDE DEF s
  <1>2. s \in Seq(Turns) /\ \A i \in DOMAIN s : s[i] \in S
    BY <1>1
  <1> QED
    BY <1>1, <1>2 DEF In, NoRepeats, ById, s

LEMMA QueueIsRows ==
    ASSUME NEW S \in SUBSET Turns, NEW r, Numbered(S, r),
           NEW q \in Seq(Turns), In(q) = S, ById(q, r)
    PROVE  q = InOrder(S, r)
  <1>1. q \in Seq(S)
    BY DEF In
  <1>2. \A t \in S : \E i \in DOMAIN q : q[i] = t
    BY DEF In
  <1> QED
    BY <1>1, <1>2, Listed DEF ById

-----------------------------------------------------------------------------
(* The rows of the task.                                                    *)

\* Finitely many rows, their ids below n, and only the first is ever claimed.
InShape(r, n) ==
    /\ IsFiniteSet(Present(r))
    /\ \A t \in Present(r) : r[t].id < n
    /\ \A t, u \in Present(r) : r[t].id = r[u].id => t = u
    /\ \A t \in Turns : r[t].state = "claimed" => IsFirst(r, t) /\ r[t].token # 0

\* A row is inserted under the next id.
LEMMA Inserting ==
    ASSUME NEW r \in [Turns -> Row], NEW n \in Nat, InShape(r, n),
           NEW t \in Turns \ Present(r)
    PROVE  LET p == [r EXCEPT ![t] = Queued(n)]
           IN  /\ p \in [Turns -> Row] /\ InShape(p, n + 1)
               /\ Present(p) = Present(r) \union {t}
               /\ \A u \in Turns \ {t} : p[u] = r[u]
               /\ p[t].state = "queued" /\ p[t].id = n
  <1> DEFINE p == [r EXCEPT ![t] = Queued(n)]
  <1>1. /\ p \in [Turns -> Row] /\ p[t].state = "queued" /\ p[t].id = n
        /\ \A u \in Turns \ {t} : p[u] = r[u]
    BY DEF Row, Queued
  <1> HIDE DEF p
  <1>2. Present(p) = Present(r) \union {t}
    BY <1>1 DEF Present
  <1>3. IsFiniteSet(Present(p))
    BY <1>2, FS_AddElement DEF InShape
  <1>4. \A u \in Present(r) : p[u] = r[u] /\ r[u].id \in Nat /\ r[u].id < n /\ u \in Turns
    BY <1>1 DEF InShape, Present, Row
  <1>5. /\ \A u \in Present(p) : p[u].id < n + 1
        /\ \A u, v \in Present(p) : p[u].id = p[v].id => u = v
    BY <1>1, <1>2, <1>4 DEF InShape
  <1>6. ASSUME NEW u \in Turns, p[u].state = "claimed"
        PROVE  IsFirst(p, u) /\ p[u].token # 0
    <2>1. u # t /\ p[u] = r[u] /\ u \in Present(r) /\ r[u].state = "claimed"
      BY <1>1, <1>6 DEF Present
    <2>2. IsFirst(r, u) /\ r[u].token # 0
      BY <2>1 DEF InShape
    <2> QED
      BY <2>1, <2>2, <1>1, <1>2, <1>4 DEF IsFirst
  <1> QED
    BY <1>1, <1>2, <1>3, <1>5, <1>6 DEF InShape, p

\* The first row is claimed.
LEMMA Claiming ==
    ASSUME NEW r \in [Turns -> Row], NEW n \in Nat, InShape(r, n),
           NEW t \in Turns, Claimable(r, t), NEW k \in Nat \ {0}
    PROVE  LET p == Claimed(r, t, k)
           IN  /\ p \in [Turns -> Row] /\ InShape(p, n)
               /\ Present(p) = Present(r) /\ t \in Present(r)
               /\ \A u \in Turns : p[u].id = r[u].id
               /\ \A u \in Turns \ {t} : p[u] = r[u]
               /\ OwnsClaim(p, t, k)
  <1> DEFINE p == Claimed(r, t, k)
  <1>1. /\ p \in [Turns -> Row] /\ p[t].state = "claimed" /\ p[t].token = k
        /\ p[t].id = r[t].id /\ \A u \in Turns \ {t} : p[u] = r[u]
    BY DEF Claimed, Row
  <1> HIDE DEF p
  <1>2. r[t].state = "queued" /\ IsFirst(r, t) /\ t \in Present(r)
    BY DEF Claimable, IsFirst
  <1>3. Present(p) = Present(r) /\ \A u \in Turns : p[u].id = r[u].id
    BY <1>1, <1>2 DEF Present
  <1>4. \A u \in Turns : IsFirst(r, u) => IsFirst(p, u)
    BY <1>3 DEF IsFirst, Present
  <1>5. \A u \in Turns : p[u].state = "claimed" => IsFirst(p, u) /\ p[u].token # 0
    BY <1>1, <1>2, <1>4 DEF InShape
  <1>6. InShape(p, n)
    <2>1. \A u \in Present(p) : u \in Turns
      BY DEF Present
    <2> QED
      BY <2>1, <1>3, <1>5 DEF InShape
  <1> QED
    BY <1>1, <1>2, <1>3, <1>6 DEF OwnsClaim, p

\* Rows are deleted.
LEMMA Removing ==
    ASSUME NEW r \in [Turns -> Row], NEW n \in Nat, InShape(r, n), NEW S
    PROVE  LET p == Without(r, S)
           IN  /\ p \in [Turns -> Row] /\ InShape(p, n)
               /\ Present(p) = Present(r) \ S
               /\ \A u \in Turns \ S : p[u] = r[u]
  <1> DEFINE p == Without(r, S)
  <1>1. /\ p \in [Turns -> Row]
        /\ \A u \in Turns \ S : p[u] = r[u]
        /\ \A u \in Turns : u \in S => p[u].state = "absent"
    BY DEF Without, Row, Absent
  <1> HIDE DEF p
  <1>2. Present(p) = Present(r) \ S
    BY <1>1 DEF Present
  <1>3. IsFiniteSet(Present(p))
    BY <1>2, FS_Subset DEF InShape
  <1>4. \A u \in Present(p) : u \in Present(r) /\ p[u] = r[u] /\ u \in Turns
    BY <1>1, <1>2 DEF Present
  <1>5. ASSUME NEW u \in Turns, p[u].state = "claimed"
        PROVE  IsFirst(p, u) /\ p[u].token # 0
    <2>1. u \in Present(p) /\ p[u] = r[u]
      BY <1>5, <1>4 DEF Present
    <2>2. IsFirst(r, u) /\ r[u].token # 0
      BY <2>1, <1>5 DEF InShape
    <2> QED
      BY <2>1, <2>2, <1>4 DEF IsFirst
  <1> QED
    BY <1>1, <1>2, <1>3, <1>4, <1>5 DEF InShape, p

\* The recovery releases every claim and claims the restored turn again.
LEMMA Recovering ==
    ASSUME NEW r \in [Turns -> Row], NEW n \in Nat, InShape(r, n),
           NEW a, Recoverable(r, a), NEW k \in Nat \ {0}
    PROVE  LET p == Recovered(r, a, k)
           IN  /\ p \in [Turns -> Row] /\ InShape(p, n)
               /\ Present(p) = Present(r)
               /\ \A u \in Turns : p[u].id = r[u].id
               /\ a \in Present(r) => OwnsClaim(p, a, k) /\ IsFirst(r, a)
  <1> DEFINE p == Recovered(r, a, k)
             q == Released(r)
  <1>1. /\ q \in [Turns -> Row]
        /\ \A u \in Turns : q[u].id = r[u].id /\ q[u].state # "claimed"
        /\ \A u \in Turns : q[u].state = "absent" <=> r[u].state = "absent"
    BY DEF Released, Row
  <1>2. /\ p \in [Turns -> Row]
        /\ \A u \in Turns \ {a} : p[u] = q[u]
        /\ a \notin Present(r) => p = q
        /\ a \in Present(r) => /\ a \in Turns /\ p[a].state = "claimed"
                               /\ p[a].token = k /\ p[a].id = r[a].id
    <2> HIDE DEF q
    <2>1. p = IF a \in Present(r)
              THEN [q EXCEPT ![a].state = "claimed", ![a].token = k] ELSE q
      BY DEF Recovered, q
    <2> HIDE DEF p
    <2>2. CASE a \in Present(r)
      <3>1. a \in Turns /\ r[a] \in Row
        BY <2>2 DEF Present
      <3>2. p = [q EXCEPT ![a].state = "claimed", ![a].token = k]
        BY <2>1, <2>2
      <3>3. /\ DOMAIN p = Turns /\ p = [u \in Turns |-> p[u]]
            /\ p[a] = [[q[a] EXCEPT !.state = "claimed"] EXCEPT !.token = k]
            /\ \A u \in Turns \ {a} : p[u] = q[u]
        BY <3>1, <3>2, <1>1
      <3>4. /\ p[a] \in Row /\ p[a].state = "claimed" /\ p[a].token = k /\ p[a].id = q[a].id
        <4>1. ASSUME NEW x \in Row
              PROVE  LET y == [[x EXCEPT !.state = "claimed"] EXCEPT !.token = k]
                     IN  /\ y \in Row /\ y.state = "claimed" /\ y.token = k /\ y.id = x.id
          BY <4>1 DEF Row
        <4>2. q[a] \in Row
          BY <3>1, <1>1
        <4> QED
          BY <4>1, <4>2, <3>3
      <3> QED
        BY <3>1, <3>3, <3>4, <2>2, <1>1
    <2> QED
      BY <2>1, <2>2, <1>1
  <1> HIDE DEF p, q
  <1>3. Present(p) = Present(r) /\ \A u \in Turns : p[u].id = r[u].id
    BY <1>1, <1>2 DEF Present
  <1>4. \A u \in Turns : IsFirst(r, u) => IsFirst(p, u)
    BY <1>3 DEF IsFirst, Present
  <1>5. \A u \in Turns : p[u].state = "claimed" => u = a /\ a \in Present(r)
    BY <1>1, <1>2
  <1>6. a \in Present(r) => IsFirst(r, a)
    BY DEF Recoverable
  <1>7. InShape(p, n)
    <2>1. \A u \in Present(p) : u \in Turns
      BY DEF Present
    <2>2. \A u \in Turns : p[u].state = "claimed" => IsFirst(p, u) /\ p[u].token # 0
      BY <1>2, <1>4, <1>5, <1>6
    <2> QED
      BY <2>1, <2>2, <1>3 DEF InShape
  <1> QED
    BY <1>2, <1>3, <1>6, <1>7 DEF OwnsClaim, p

\* The first row is one row.
LEMMA OneFirst ==
    ASSUME NEW r \in [Turns -> Row], NEW n \in Nat, InShape(r, n),
           NEW t, NEW u, IsFirst(r, t), IsFirst(r, u)
    PROVE  t = u
  <1>1. /\ t \in Present(r) /\ u \in Present(r)
        /\ r[t].id \in Nat /\ r[u].id \in Nat
        /\ r[t].id <= r[u].id /\ r[u].id <= r[t].id
    BY DEF IsFirst, Present, Row
  <1>2. r[t].id = r[u].id
    BY <1>1
  <1> QED
    BY <1>1, <1>2 DEF InShape

LEMMA ShapeNumbers ==
    ASSUME NEW r \in [Turns -> Row], NEW n, InShape(r, n), NEW S \in SUBSET Present(r)
    PROVE  Numbered(S, r) /\ S \in SUBSET Turns
  <1>1. IsFiniteSet(S)
    BY FS_Subset DEF InShape
  <1> QED
    BY <1>1 DEF Numbered, InShape, Present, Row

\* A claim of the first row, or nothing to claim.
LEMMA ClaimingNext ==
    ASSUME NEW r \in [Turns -> Row], NEW n \in Nat, InShape(r, n),
           NEW k \in Nat \ {0}, NEW after, NEW next, ClaimsFirst(r, k, after, next)
    PROVE  /\ after \in [Turns -> Row] /\ InShape(after, n)
           /\ Present(after) = Present(r)
           /\ \A u \in Turns : after[u].id = r[u].id
           /\ next = NoTurn => Present(r) = {}
           /\ next # NoTurn => /\ next \in Turns /\ IsFirst(r, next)
                              /\ OwnsClaim(after, next, k)
  <1>1. CASE Present(r) = {} /\ next = NoTurn /\ after = r
    BY <1>1
  <1>2. CASE next \in Turns /\ Claimable(r, next) /\ after = Claimed(r, next, k)
    <2>1. IsFirst(r, next) /\ next # NoTurn
      BY <1>2, NoTurnAssumption DEF Claimable
    <2> QED
      BY <1>2, <2>1, Claiming
  <1> QED
    BY <1>1, <1>2 DEF ClaimsFirst

-----------------------------------------------------------------------------
(* The invariant.                                                           *)

\* Rows are in shape, belong to submitted turns, and NULL is no token.
RowsInv == /\ InShape(rows, nextId)
           /\ Present(rows) \subseteq submitted
           /\ nextToken # 0

\* A worker that has its turn in hand has the active one, and so has the
\* thread inside finish_turn.
BusyInv ==
    /\ \A t \in Turns : worker[t] \notin {"none", "returning"} =>
                          active.turn = t /\ active.submitted
    /\ finish.turn # NoTurn => /\ worker[finish.turn] = "finishing"
                               /\ finish.token = active.token
    /\ active.submitted => active.turn # NoTurn

\* A turn that waits in memory to be started is in nobody's hands.
Waits(t) == PreparedActive(t) \/ t \in In(queue)
WaitsInv ==
    \A t \in Turns : Waits(t) =>
        worker[t] = "none" /\ t \notin detached /\ ~WaitingInCheckpoint(t)

\* The queue holds a turn once, and not the active one.
QueueInv == NoRepeats(queue) /\ active.turn \notin In(queue)

\* A turn that was not submitted yet is nowhere.
NewInv ==
    /\ \A t \in Turns \ submitted :
          /\ worker[t] = "none" /\ t \notin detached /\ log[t] = "none"
          /\ active.turn # t /\ t \notin In(queue)
    /\ \A t \in AutoTurns : node[t] = "pending" => t \notin submitted
    /\ canceller # NoCancel => canceller.turn \in submitted

\* What follows holds under conditions: when nothing is cancelled, when no
\* wait times out, and, of recovered rows, when both are so.
NoCancels == MaxCancels = 0
NoDeadline == "deadline" \notin Faults
Steady == MaxCrashes = 0 \/ (NoCancels /\ NoDeadline)
UserOnly == AutoTurns = {} /\ "storage" \notin Faults /\ Steady

QuietInv ==
    /\ NoCancels => /\ canceller = NoCancel /\ cancelReq = {}
                    /\ active.cancel = "none" /\ finish.cancel = "none"
    /\ NoDeadline => detached = {}

\* A run that nobody waits for is the last word on its turn.
DetachedInv ==
    NoCancels \/ NoDeadline =>
      \A t \in detached : /\ log[t] = "running"
                          /\ worker[t] \in {"none", "returning", "finishing"}

\* The turn that waits for the user is the active one.
WaitingInv ==
    NoCancels /\ NoDeadline =>
      \A t \in Turns : log[t] = "waiting" =>
        /\ last = t /\ active.turn = t /\ active.submitted
        /\ worker[t] \in {"none", "approving", "denying"}

OwnsInv == Steady => ActiveOwnsItsRow

\* Memory and rows hold the same turns in the same order.
InHand == IF active.turn = NoTurn THEN {} ELSE {active.turn}
OrderInv ==
    UserOnly =>
      /\ In(queue) \union InHand = Present(rows)
      /\ ById(queue, rows)
      /\ \A t \in InHand, u \in In(queue) : rows[t].id < rows[u].id

IInv == /\ TypeOK /\ RowsInv /\ BusyInv /\ WaitsInv /\ QueueInv /\ NewInv
        /\ QuietInv /\ DetachedInv /\ WaitingInv /\ OwnsInv /\ OrderInv

-----------------------------------------------------------------------------
(* Every action keeps the invariant.                                        *)

LEMMA InMemoryIn == \A t : InMemory(t) <=> active.turn = t \/ t \in In(queue)
  BY DEF InMemory, In

\* The values of the record variables.
Slots == [turn : Turns \union {NoTurn}, token : Nat, session : BOOLEAN,
          cancel : CancelModes, submitted : BOOLEAN, acked : BOOLEAN]
Finishes == [turn : Turns \union {NoTurn}, cancel : CancelModes, token : Nat,
             success : BOOLEAN, reported : BOOLEAN]
Cancellers == [turn : Turns \union {NoTurn}, session : BOOLEAN, waiting : BOOLEAN,
               stage : {"idle", "snapshot", "session", "check", "node"}, mode : CancelModes]
WorkerPlaces == {"none", "claimed", "opened", "running", "resumed", "approving",
                 "denying", "returning", "finishing"}

LEMMA RecordTypes ==
    /\ NoActive \in Slots /\ NoFinish \in Finishes
    /\ \A t \in Turns : Prepared(t) \in Slots /\ Restored(t) \in Slots
    /\ \A t \in Turns, k \in Nat : Owned(t, k) \in Slots
    /\ \A a \in Slots : /\ [a EXCEPT !.session = TRUE] \in Slots
                         /\ [a EXCEPT !.acked = TRUE] \in Slots
                         /\ [a EXCEPT !.cancel = "user"] \in Slots
                         /\ [a EXCEPT !.cancel = "automation"] \in Slots
    /\ \A f \in Finishes : [f EXCEPT !.reported = TRUE] \in Finishes
    /\ NoCancel \in Cancellers
    /\ \A c \in Cancellers : /\ \A b \in BOOLEAN :
                                [c EXCEPT !.stage = "session", !.waiting = b] \in Cancellers
                            /\ [c EXCEPT !.stage = "check"] \in Cancellers
                            /\ [c EXCEPT !.stage = "node"] \in Cancellers
    /\ IInv => active \in Slots /\ finish \in Finishes /\ canceller \in Cancellers
  <1>1. NoActive \in Slots /\ NoFinish \in Finishes
    BY DEF NoActive, NoFinish, Slots, Finishes, CancelModes
  <1>2. \A t \in Turns : Prepared(t) \in Slots /\ Restored(t) \in Slots
    BY DEF NoActive, Prepared, Restored, Slots, CancelModes
  <1>3. \A t \in Turns, k \in Nat : Owned(t, k) \in Slots
    BY DEF NoActive, Owned, Slots, CancelModes
  <1>4. ASSUME NEW a \in Slots
        PROVE  /\ [a EXCEPT !.session = TRUE] \in Slots
               /\ [a EXCEPT !.acked = TRUE] \in Slots
               /\ [a EXCEPT !.cancel = "user"] \in Slots
               /\ [a EXCEPT !.cancel = "automation"] \in Slots
    BY DEF Slots, CancelModes
  <1>5. \A f \in Finishes : [f EXCEPT !.reported = TRUE] \in Finishes
    BY DEF Finishes
  <1>6. NoCancel \in Cancellers
    BY DEF NoCancel, Cancellers, CancelModes
  <1>7. ASSUME NEW c \in Cancellers
        PROVE  /\ \A b \in BOOLEAN :
                     [c EXCEPT !.stage = "session", !.waiting = b] \in Cancellers
               /\ [c EXCEPT !.stage = "check"] \in Cancellers
               /\ [c EXCEPT !.stage = "node"] \in Cancellers
    BY DEF Cancellers
  <1>8. IInv => active \in Slots /\ finish \in Finishes /\ canceller \in Cancellers
    BY DEF IInv, TypeOK, Slots, Finishes, Cancellers
  <1> QED
    BY <1>1, <1>2, <1>3, <1>4, <1>5, <1>6, <1>7, <1>8

LEMMA Inits == ASSUME Init PROVE IInv
  <1>1. TypeOK
    BY TurnsAssumption, EmptyQueue DEF Init, TypeOK, Row, Absent, NoActive, NoFinish, NoCancel, CancelModes
  <1>2. Present(rows) = {} /\ IsFiniteSet(Present(rows)) /\ In(queue) = {} /\ NoRepeats(queue) /\ ById(queue, rows)
    BY EmptyQueue, FS_EmptySet DEF Init, Present, Absent
  <1>3. RowsInv
    BY <1>2 DEF Init, RowsInv, InShape, Absent
  <1>4. BusyInv /\ WaitsInv /\ QueueInv /\ NewInv
    BY <1>2, NoTurnAssumption, TurnsAssumption DEF Init, BusyInv, WaitsInv, QueueInv, NewInv, Waits, PreparedActive, NoActive, NoFinish, NoCancel
  <1>5. QuietInv /\ DetachedInv /\ WaitingInv /\ OwnsInv /\ OrderInv
    BY <1>2 DEF Init, QuietInv, DetachedInv, WaitingInv, OwnsInv, ActiveOwnsItsRow, OrderInv, InHand, NoActive, NoFinish
  <1> QED
    BY <1>1, <1>3, <1>4, <1>5 DEF IInv

LEMMA PersistWaitingAgentKeeps ==
    ASSUME NEW t \in AutoTurns, IInv, PersistWaitingAgent(t)
    PROVE  IInv'
  <1>1. TypeOK'
    BY TurnsAssumption, NoTurnAssumption DEF PersistWaitingAgent, IInv,
         TypeOK, durable, agentkit, memory, bounds, CancelModes, Terminal
  <1>2. RowsInv'
    BY TurnsAssumption, NoTurnAssumption DEF PersistWaitingAgent, IInv,
         RowsInv, TypeOK, durable, agentkit, memory, bounds, CancelModes,
         Terminal
  <1>3. BusyInv'
    BY TurnsAssumption, NoTurnAssumption DEF PersistWaitingAgent, IInv,
         BusyInv, TypeOK, durable, agentkit, memory, bounds, CancelModes,
         Terminal
  <1>4. WaitsInv'
    BY TurnsAssumption, NoTurnAssumption DEF PersistWaitingAgent, IInv,
         WaitsInv, TypeOK, BusyInv, QueueInv, NewInv, durable, agentkit,
         memory, bounds, PreparedActive, WaitingInCheckpoint, NoCancel,
         CancelModes, Terminal, Waits
  <1>5. QueueInv'
    BY TurnsAssumption, NoTurnAssumption DEF PersistWaitingAgent, IInv,
         QueueInv, TypeOK, durable, agentkit, memory, bounds, CancelModes,
         Terminal
  <1>6. NewInv'
    BY TurnsAssumption, NoTurnAssumption DEF PersistWaitingAgent, IInv,
         NewInv, TypeOK, BusyInv, durable, agentkit, memory, bounds,
         NoCancel, CancelModes, Terminal
  <1>7. QuietInv'
    BY TurnsAssumption, NoTurnAssumption DEF PersistWaitingAgent, IInv,
         QuietInv, TypeOK, durable, agentkit, memory, bounds, NoCancel,
         CancelModes, Terminal, NoCancels, NoDeadline
  <1>8. DetachedInv'
    BY TurnsAssumption, NoTurnAssumption DEF PersistWaitingAgent, IInv,
         DetachedInv, TypeOK, BusyInv, QuietInv, durable, agentkit, memory,
         bounds, NoCancel, CancelModes, Terminal, NoCancels, NoDeadline
  <1>9. WaitingInv'
    BY TurnsAssumption, NoTurnAssumption DEF PersistWaitingAgent, IInv,
         WaitingInv, TypeOK, BusyInv, QuietInv, durable, agentkit, memory,
         bounds, NoCancel, CancelModes, Terminal, NoCancels, NoDeadline
  <1>10. OwnsInv'
    BY TurnsAssumption, NoTurnAssumption DEF PersistWaitingAgent, IInv,
         OwnsInv, TypeOK, BusyInv, RowsInv, ActiveOwnsItsRow, durable,
         agentkit, memory, bounds, CancelModes, Terminal
  <1>11. OrderInv'
    BY TurnsAssumption, NoTurnAssumption DEF PersistWaitingAgent, IInv,
         OrderInv, TypeOK, BusyInv, OwnsInv, InHand, ActiveOwnsItsRow,
         durable, agentkit, memory, bounds, CancelModes, Terminal, UserOnly
  <1> QED
    BY <1>1, <1>2, <1>3, <1>4, <1>5, <1>6, <1>7, <1>8, <1>9, <1>10, <1>11 DEF
         IInv

LEMMA OpenSessionKeeps ==
    ASSUME NEW t \in Turns, IInv, OpenSession(t)
    PROVE  IInv'
  <1>1. TypeOK'
    <2>1. active' \in Slots
      BY RecordTypes DEF OpenSession
    <2>2. worker' \in [Turns -> WorkerPlaces]
      BY TurnsAssumption DEF OpenSession, IInv, TypeOK, At, WorkerPlaces,
           Logged
    <2> QED
      BY <2>1, <2>2, TurnsAssumption, NoTurnAssumption DEF OpenSession, IInv,
           TypeOK, At, Logged, durable, agentkit, memory, bounds, Ended,
           WaitingInCheckpoint, Terminal, Slots, Finishes, Cancellers,
           WorkerPlaces, Finished
  <1>2. RowsInv'
    BY TurnsAssumption, NoTurnAssumption DEF OpenSession, IInv, RowsInv,
         TypeOK, At, durable, agentkit, bounds, CancelModes, Terminal
  <1>3. BusyInv'
    BY SMTT(30), TurnsAssumption, NoTurnAssumption DEF OpenSession, IInv, BusyInv,
         TypeOK, At, durable, agentkit, bounds, CancelModes, Terminal
  <1>4. WaitsInv'
    BY TurnsAssumption, NoTurnAssumption DEF OpenSession, IInv, WaitsInv,
         TypeOK, BusyInv, QueueInv, NewInv, At, durable, agentkit, bounds,
         PreparedActive, WaitingInCheckpoint, NoCancel, CancelModes,
         Terminal, Waits
  <1>5. QueueInv'
    BY TurnsAssumption, NoTurnAssumption DEF OpenSession, IInv, QueueInv,
         TypeOK, At, durable, agentkit, bounds, CancelModes, Terminal
  <1>6. NewInv'
    BY TurnsAssumption, NoTurnAssumption DEF OpenSession, IInv, NewInv,
         TypeOK, BusyInv, At, durable, agentkit, bounds, NoCancel,
         CancelModes, Terminal
  <1>7. QuietInv'
    BY TurnsAssumption, NoTurnAssumption DEF OpenSession, IInv, QuietInv,
         TypeOK, At, durable, agentkit, bounds, NoCancel, CancelModes,
         Terminal, NoCancels, NoDeadline
  <1>8. DetachedInv'
    BY TurnsAssumption, NoTurnAssumption DEF OpenSession, IInv, DetachedInv,
         TypeOK, BusyInv, QuietInv, At, durable, agentkit, bounds, NoCancel,
         CancelModes, Terminal, NoCancels, NoDeadline
  <1>9. WaitingInv'
    BY TurnsAssumption, NoTurnAssumption DEF OpenSession, IInv, WaitingInv,
         TypeOK, BusyInv, QuietInv, At, durable, agentkit, bounds, NoCancel,
         CancelModes, Terminal, NoCancels, NoDeadline
  <1>10. OwnsInv'
    BY TurnsAssumption, NoTurnAssumption DEF OpenSession, IInv, OwnsInv,
         TypeOK, BusyInv, RowsInv, ActiveOwnsItsRow, At, durable, agentkit,
         bounds, CancelModes, Terminal
  <1>11. OrderInv'
    BY TurnsAssumption, NoTurnAssumption DEF OpenSession, IInv, OrderInv,
         TypeOK, BusyInv, OwnsInv, InHand, ActiveOwnsItsRow, At, durable,
         agentkit, bounds, CancelModes, Terminal, UserOnly
  <1> QED
    BY <1>1, <1>2, <1>3, <1>4, <1>5, <1>6, <1>7, <1>8, <1>9, <1>10, <1>11 DEF
         IInv

LEMMA RunFailsKeeps ==
    ASSUME NEW t \in Turns, IInv, RunFails(t)
    PROVE  IInv'
  <1>1. TypeOK'
    BY TurnsAssumption, NoTurnAssumption DEF RunFails, IInv, TypeOK, At,
         durable, agentkit, memory, bounds, CancelModes, Terminal
  <1>2. RowsInv'
    BY TurnsAssumption, NoTurnAssumption DEF RunFails, IInv, RowsInv, TypeOK,
         At, durable, agentkit, memory, bounds, CancelModes, Terminal
  <1>3. BusyInv'
    BY TurnsAssumption, NoTurnAssumption DEF RunFails, IInv, BusyInv, TypeOK,
         At, durable, agentkit, memory, bounds, CancelModes, Terminal
  <1>4. WaitsInv'
    BY TurnsAssumption, NoTurnAssumption DEF RunFails, IInv, WaitsInv,
         TypeOK, BusyInv, QueueInv, NewInv, At, durable, agentkit, memory,
         bounds, PreparedActive, WaitingInCheckpoint, NoCancel, CancelModes,
         Terminal, Waits
  <1>5. QueueInv'
    BY TurnsAssumption, NoTurnAssumption DEF RunFails, IInv, QueueInv,
         TypeOK, At, durable, agentkit, memory, bounds, CancelModes, Terminal
  <1>6. NewInv'
    BY TurnsAssumption, NoTurnAssumption DEF RunFails, IInv, NewInv, TypeOK,
         BusyInv, At, durable, agentkit, memory, bounds, NoCancel,
         CancelModes, Terminal
  <1>7. QuietInv'
    BY TurnsAssumption, NoTurnAssumption DEF RunFails, IInv, QuietInv,
         TypeOK, At, durable, agentkit, memory, bounds, NoCancel,
         CancelModes, Terminal, NoCancels, NoDeadline
  <1>8. DetachedInv'
    BY TurnsAssumption, NoTurnAssumption DEF RunFails, IInv, DetachedInv,
         TypeOK, BusyInv, QuietInv, At, durable, agentkit, memory, bounds,
         NoCancel, CancelModes, Terminal, NoCancels, NoDeadline
  <1>9. WaitingInv'
    BY TurnsAssumption, NoTurnAssumption DEF RunFails, IInv, WaitingInv,
         TypeOK, BusyInv, QuietInv, At, durable, agentkit, memory, bounds,
         NoCancel, CancelModes, Terminal, NoCancels, NoDeadline
  <1>10. OwnsInv'
    BY TurnsAssumption, NoTurnAssumption DEF RunFails, IInv, OwnsInv, TypeOK,
         BusyInv, RowsInv, ActiveOwnsItsRow, At, durable, agentkit, memory,
         bounds, CancelModes, Terminal
  <1>11. OrderInv'
    BY TurnsAssumption, NoTurnAssumption DEF RunFails, IInv, OrderInv,
         TypeOK, BusyInv, OwnsInv, InHand, ActiveOwnsItsRow, At, durable,
         agentkit, memory, bounds, CancelModes, Terminal, UserOnly
  <1> QED
    BY <1>1, <1>2, <1>3, <1>4, <1>5, <1>6, <1>7, <1>8, <1>9, <1>10, <1>11 DEF
         IInv

LEMMA SubmitToAgentKitKeeps ==
    ASSUME NEW t \in Turns, IInv, SubmitToAgentKit(t)
    PROVE  IInv'
  <1>1. TypeOK'
    BY TurnsAssumption, NoTurnAssumption DEF SubmitToAgentKit, IInv, TypeOK,
         At, Logged, durable, agentkit, memory, bounds, Ended, CancelModes,
         Terminal
  <1>2. RowsInv'
    BY TurnsAssumption, NoTurnAssumption DEF SubmitToAgentKit, IInv, RowsInv,
         TypeOK, At, Logged, durable, agentkit, memory, bounds, Ended,
         CancelModes, Terminal
  <1>3. BusyInv'
    BY TurnsAssumption, NoTurnAssumption DEF SubmitToAgentKit, IInv, BusyInv,
         TypeOK, At, Logged, durable, agentkit, memory, bounds, Ended,
         CancelModes, Terminal
  <1>4. WaitsInv'
    BY TurnsAssumption, NoTurnAssumption DEF SubmitToAgentKit, IInv,
         WaitsInv, TypeOK, BusyInv, QueueInv, NewInv, At, Logged, durable,
         agentkit, memory, bounds, Ended, PreparedActive,
         WaitingInCheckpoint, NoCancel, CancelModes, Terminal, Waits
  <1>5. QueueInv'
    BY TurnsAssumption, NoTurnAssumption DEF SubmitToAgentKit, IInv,
         QueueInv, TypeOK, At, Logged, durable, agentkit, memory, bounds,
         Ended, CancelModes, Terminal
  <1>6. NewInv'
    BY TurnsAssumption, NoTurnAssumption DEF SubmitToAgentKit, IInv, NewInv,
         TypeOK, BusyInv, At, Logged, durable, agentkit, memory, bounds,
         Ended, NoCancel, CancelModes, Terminal
  <1>7. QuietInv'
    BY TurnsAssumption, NoTurnAssumption DEF SubmitToAgentKit, IInv,
         QuietInv, TypeOK, At, Logged, durable, agentkit, memory, bounds,
         Ended, NoCancel, CancelModes, Terminal, NoCancels, NoDeadline
  <1>8. DetachedInv'
    BY TurnsAssumption, NoTurnAssumption DEF SubmitToAgentKit, IInv,
         DetachedInv, TypeOK, BusyInv, QuietInv, At, Logged, durable,
         agentkit, memory, bounds, Ended, NoCancel, CancelModes, Terminal,
         NoCancels, NoDeadline
  <1>9. WaitingInv'
    BY TurnsAssumption, NoTurnAssumption DEF SubmitToAgentKit, IInv,
         WaitingInv, TypeOK, BusyInv, QuietInv, At, Logged, durable,
         agentkit, memory, bounds, Ended, NoCancel, CancelModes, Terminal,
         NoCancels, NoDeadline
  <1>10. OwnsInv'
    BY TurnsAssumption, NoTurnAssumption DEF SubmitToAgentKit, IInv, OwnsInv,
         TypeOK, BusyInv, RowsInv, ActiveOwnsItsRow, At, Logged, durable,
         agentkit, memory, bounds, Ended, CancelModes, Terminal
  <1>11. OrderInv'
    BY TurnsAssumption, NoTurnAssumption DEF SubmitToAgentKit, IInv,
         OrderInv, TypeOK, BusyInv, OwnsInv, InHand, ActiveOwnsItsRow, At,
         Logged, durable, agentkit, memory, bounds, Ended, CancelModes,
         Terminal, UserOnly
  <1> QED
    BY <1>1, <1>2, <1>3, <1>4, <1>5, <1>6, <1>7, <1>8, <1>9, <1>10, <1>11 DEF
         IInv

LEMMA AgentKitStopsKeeps ==
    ASSUME NEW t \in Turns, IInv, AgentKitStops(t)
    PROVE  IInv'
  <1>1. TypeOK'
    <2>1. log' \in [Turns -> {"none", "running", "waiting"} \union Terminal] /\ last' \in Turns \union {NoTurn}
      BY TurnsAssumption DEF AgentKitStops, IInv, TypeOK, At, Logged,
           agentkit, Terminal, Ended
    <2>2. worker' \in [Turns -> WorkerPlaces]
      BY TurnsAssumption DEF AgentKitStops, IInv, TypeOK, At, WorkerPlaces,
           Logged
    <2> QED
      BY <2>1, <2>2, TurnsAssumption, NoTurnAssumption DEF AgentKitStops,
           IInv, TypeOK, At, Logged, durable, agentkit, memory, bounds,
           Ended, WaitingInCheckpoint, Terminal, Slots, Finishes, Cancellers,
           WorkerPlaces, Finished
  <1>2. RowsInv'
    BY TurnsAssumption, NoTurnAssumption DEF AgentKitStops, IInv, RowsInv,
         TypeOK, At, Logged, durable, agentkit, memory, bounds, CancelModes,
         Terminal
  <1>3. BusyInv'
    BY SMTT(30), TurnsAssumption, NoTurnAssumption DEF AgentKitStops, IInv, BusyInv,
         TypeOK, At, Logged, durable, agentkit, memory, bounds, CancelModes,
         Terminal
  <1>4. WaitsInv'
    BY TurnsAssumption, NoTurnAssumption DEF AgentKitStops, IInv, WaitsInv,
         TypeOK, BusyInv, QueueInv, NewInv, At, Logged, durable, agentkit,
         memory, bounds, PreparedActive, WaitingInCheckpoint, NoCancel,
         CancelModes, Terminal, Waits
  <1>5. QueueInv'
    BY TurnsAssumption, NoTurnAssumption DEF AgentKitStops, IInv, QueueInv,
         TypeOK, At, Logged, durable, agentkit, memory, bounds, CancelModes,
         Terminal
  <1>6. NewInv'
    BY TurnsAssumption, NoTurnAssumption DEF AgentKitStops, IInv, NewInv,
         TypeOK, BusyInv, At, Logged, durable, agentkit, memory, bounds,
         NoCancel, CancelModes, Terminal
  <1>7. QuietInv'
    BY TurnsAssumption, NoTurnAssumption DEF AgentKitStops, IInv, QuietInv,
         TypeOK, At, Logged, durable, agentkit, memory, bounds, NoCancel,
         CancelModes, Terminal, NoCancels, NoDeadline
  <1>8. DetachedInv'
    BY TurnsAssumption, NoTurnAssumption DEF AgentKitStops, IInv,
         DetachedInv, TypeOK, BusyInv, QuietInv, At, Logged, durable,
         agentkit, memory, bounds, NoCancel, CancelModes, Terminal,
         NoCancels, NoDeadline
  <1>9. WaitingInv'
    BY TurnsAssumption, NoTurnAssumption DEF AgentKitStops, IInv, WaitingInv,
         TypeOK, BusyInv, QuietInv, At, Logged, durable, agentkit, memory,
         bounds, NoCancel, CancelModes, Terminal, NoCancels, NoDeadline
  <1>10. OwnsInv'
    BY TurnsAssumption, NoTurnAssumption DEF AgentKitStops, IInv, OwnsInv,
         TypeOK, BusyInv, RowsInv, ActiveOwnsItsRow, At, Logged, durable,
         agentkit, memory, bounds, CancelModes, Terminal
  <1>11. OrderInv'
    BY TurnsAssumption, NoTurnAssumption DEF AgentKitStops, IInv, OrderInv,
         TypeOK, BusyInv, OwnsInv, InHand, ActiveOwnsItsRow, At, Logged,
         durable, agentkit, memory, bounds, CancelModes, Terminal, UserOnly
  <1> QED
    BY <1>1, <1>2, <1>3, <1>4, <1>5, <1>6, <1>7, <1>8, <1>9, <1>10, <1>11 DEF
         IInv

LEMMA RunTimesOutKeeps ==
    ASSUME NEW t \in Turns, IInv, RunTimesOut(t)
    PROVE  IInv'
  <1>1. TypeOK'
    BY TurnsAssumption, NoTurnAssumption DEF RunTimesOut, IInv, TypeOK, At,
         durable, agentkit, memory, bounds, CancelModes, Terminal
  <1>2. RowsInv'
    BY TurnsAssumption, NoTurnAssumption DEF RunTimesOut, IInv, RowsInv,
         TypeOK, At, durable, agentkit, memory, bounds, CancelModes, Terminal
  <1>3. BusyInv'
    BY TurnsAssumption, NoTurnAssumption DEF RunTimesOut, IInv, BusyInv,
         TypeOK, At, durable, agentkit, memory, bounds, CancelModes, Terminal
  <1>4. WaitsInv'
    BY TurnsAssumption, NoTurnAssumption DEF RunTimesOut, IInv, WaitsInv,
         TypeOK, BusyInv, QueueInv, NewInv, At, durable, agentkit, memory,
         bounds, PreparedActive, WaitingInCheckpoint, NoCancel, CancelModes,
         Terminal, Waits
  <1>5. QueueInv'
    BY TurnsAssumption, NoTurnAssumption DEF RunTimesOut, IInv, QueueInv,
         TypeOK, At, durable, agentkit, memory, bounds, CancelModes, Terminal
  <1>6. NewInv'
    BY TurnsAssumption, NoTurnAssumption DEF RunTimesOut, IInv, NewInv,
         TypeOK, BusyInv, At, durable, agentkit, memory, bounds, NoCancel,
         CancelModes, Terminal
  <1>7. QuietInv'
    BY TurnsAssumption, NoTurnAssumption DEF RunTimesOut, IInv, QuietInv,
         TypeOK, At, durable, agentkit, memory, bounds, NoCancel,
         CancelModes, Terminal, NoCancels, NoDeadline
  <1>8. DetachedInv'
    BY TurnsAssumption, NoTurnAssumption DEF RunTimesOut, IInv, DetachedInv,
         TypeOK, BusyInv, QuietInv, At, durable, agentkit, memory, bounds,
         NoCancel, CancelModes, Terminal, NoCancels, NoDeadline
  <1>9. WaitingInv'
    BY TurnsAssumption, NoTurnAssumption DEF RunTimesOut, IInv, WaitingInv,
         TypeOK, BusyInv, QuietInv, At, durable, agentkit, memory, bounds,
         NoCancel, CancelModes, Terminal, NoCancels, NoDeadline
  <1>10. OwnsInv'
    BY TurnsAssumption, NoTurnAssumption DEF RunTimesOut, IInv, OwnsInv,
         TypeOK, BusyInv, RowsInv, ActiveOwnsItsRow, At, durable, agentkit,
         memory, bounds, CancelModes, Terminal
  <1>11. OrderInv'
    BY TurnsAssumption, NoTurnAssumption DEF RunTimesOut, IInv, OrderInv,
         TypeOK, BusyInv, OwnsInv, InHand, ActiveOwnsItsRow, At, durable,
         agentkit, memory, bounds, CancelModes, Terminal, UserOnly
  <1> QED
    BY <1>1, <1>2, <1>3, <1>4, <1>5, <1>6, <1>7, <1>8, <1>9, <1>10, <1>11 DEF
         IInv

LEMMA DetachedRunStopsKeeps ==
    ASSUME NEW t \in Turns, IInv, DetachedRunStops(t)
    PROVE  IInv'
  <1>1. TypeOK'
    BY TurnsAssumption, NoTurnAssumption DEF DetachedRunStops, IInv, TypeOK,
         Logged, durable, memory, bounds, CancelModes, Terminal
  <1>2. RowsInv'
    BY TurnsAssumption, NoTurnAssumption DEF DetachedRunStops, IInv, RowsInv,
         TypeOK, Logged, durable, memory, bounds, CancelModes, Terminal
  <1>3. BusyInv'
    BY TurnsAssumption, NoTurnAssumption DEF DetachedRunStops, IInv, BusyInv,
         TypeOK, Logged, durable, memory, bounds, CancelModes, Terminal
  <1>4. WaitsInv'
    BY TurnsAssumption, NoTurnAssumption DEF DetachedRunStops, IInv,
         WaitsInv, TypeOK, BusyInv, QueueInv, NewInv, Logged, durable,
         memory, bounds, PreparedActive, WaitingInCheckpoint, NoCancel,
         CancelModes, Terminal, Waits
  <1>5. QueueInv'
    BY TurnsAssumption, NoTurnAssumption DEF DetachedRunStops, IInv,
         QueueInv, TypeOK, Logged, durable, memory, bounds, CancelModes,
         Terminal
  <1>6. NewInv'
    BY TurnsAssumption, NoTurnAssumption DEF DetachedRunStops, IInv, NewInv,
         TypeOK, BusyInv, Logged, durable, memory, bounds, NoCancel,
         CancelModes, Terminal
  <1>7. QuietInv'
    BY TurnsAssumption, NoTurnAssumption DEF DetachedRunStops, IInv,
         QuietInv, TypeOK, Logged, durable, memory, bounds, NoCancel,
         CancelModes, Terminal, NoCancels, NoDeadline
  <1>8. DetachedInv'
    BY TurnsAssumption, NoTurnAssumption DEF DetachedRunStops, IInv,
         DetachedInv, TypeOK, BusyInv, QuietInv, Logged, durable, memory,
         bounds, NoCancel, CancelModes, Terminal, NoCancels, NoDeadline
  <1>9. WaitingInv'
    BY TurnsAssumption, NoTurnAssumption DEF DetachedRunStops, IInv,
         WaitingInv, TypeOK, BusyInv, QuietInv, Logged, durable, memory,
         bounds, NoCancel, CancelModes, Terminal, NoCancels, NoDeadline
  <1>10. OwnsInv'
    BY TurnsAssumption, NoTurnAssumption DEF DetachedRunStops, IInv, OwnsInv,
         TypeOK, BusyInv, RowsInv, ActiveOwnsItsRow, Logged, durable, memory,
         bounds, CancelModes, Terminal
  <1>11. OrderInv'
    BY TurnsAssumption, NoTurnAssumption DEF DetachedRunStops, IInv,
         OrderInv, TypeOK, BusyInv, OwnsInv, InHand, ActiveOwnsItsRow,
         Logged, durable, memory, bounds, CancelModes, Terminal, UserOnly
  <1> QED
    BY <1>1, <1>2, <1>3, <1>4, <1>5, <1>6, <1>7, <1>8, <1>9, <1>10, <1>11 DEF
         IInv

LEMMA RespondKeeps ==
    ASSUME NEW t \in Turns, NEW accepted \in BOOLEAN, IInv, Respond(t, accepted)
    PROVE  IInv'
  <1>1. TypeOK'
    BY TurnsAssumption, NoTurnAssumption DEF Respond, IInv, TypeOK, At,
         durable, agentkit, memory, bounds, WaitingInCheckpoint, CancelModes,
         Terminal
  <1>2. RowsInv'
    BY TurnsAssumption, NoTurnAssumption DEF Respond, IInv, RowsInv, TypeOK,
         At, durable, agentkit, memory, bounds, WaitingInCheckpoint,
         CancelModes, Terminal
  <1>3. BusyInv'
    <2>1. active.submitted
      BY DEF Respond, IInv, WaitsInv, Waits, PreparedActive
    <2> QED
      BY <2>1, TurnsAssumption, NoTurnAssumption DEF Respond, IInv, BusyInv,
           TypeOK, At, durable, agentkit, memory, bounds
  <1>4. WaitsInv'
    BY TurnsAssumption, NoTurnAssumption DEF Respond, IInv, WaitsInv, TypeOK,
         BusyInv, QueueInv, NewInv, At, durable, agentkit, memory, bounds,
         PreparedActive, WaitingInCheckpoint, NoCancel, CancelModes,
         Terminal, Waits
  <1>5. QueueInv'
    BY TurnsAssumption, NoTurnAssumption DEF Respond, IInv, QueueInv, TypeOK,
         At, durable, agentkit, memory, bounds, WaitingInCheckpoint,
         CancelModes, Terminal
  <1>6. NewInv'
    BY TurnsAssumption, NoTurnAssumption DEF Respond, IInv, NewInv, TypeOK,
         BusyInv, At, durable, agentkit, memory, bounds, WaitingInCheckpoint,
         NoCancel, CancelModes, Terminal
  <1>7. QuietInv'
    BY TurnsAssumption, NoTurnAssumption DEF Respond, IInv, QuietInv, TypeOK,
         At, durable, agentkit, memory, bounds, WaitingInCheckpoint,
         NoCancel, CancelModes, Terminal, NoCancels, NoDeadline
  <1>8. DetachedInv'
    BY TurnsAssumption, NoTurnAssumption DEF Respond, IInv, DetachedInv,
         TypeOK, BusyInv, QuietInv, At, durable, agentkit, memory, bounds,
         WaitingInCheckpoint, NoCancel, CancelModes, Terminal, NoCancels,
         NoDeadline
  <1>9. WaitingInv'
    BY TurnsAssumption, NoTurnAssumption DEF Respond, IInv, WaitingInv,
         TypeOK, BusyInv, QuietInv, At, durable, agentkit, memory, bounds,
         WaitingInCheckpoint, NoCancel, CancelModes, Terminal, NoCancels,
         NoDeadline
  <1>10. OwnsInv'
    BY TurnsAssumption, NoTurnAssumption DEF Respond, IInv, OwnsInv, TypeOK,
         BusyInv, RowsInv, ActiveOwnsItsRow, At, durable, agentkit, memory,
         bounds, WaitingInCheckpoint, CancelModes, Terminal
  <1>11. OrderInv'
    BY TurnsAssumption, NoTurnAssumption DEF Respond, IInv, OrderInv, TypeOK,
         BusyInv, OwnsInv, InHand, ActiveOwnsItsRow, At, durable, agentkit,
         memory, bounds, WaitingInCheckpoint, CancelModes, Terminal, UserOnly
  <1> QED
    BY <1>1, <1>2, <1>3, <1>4, <1>5, <1>6, <1>7, <1>8, <1>9, <1>10, <1>11 DEF
         IInv

LEMMA ResumeKeeps ==
    ASSUME NEW t \in Turns, IInv, Resume(t)
    PROVE  IInv'
  <1>1. TypeOK'
    <2>1. log' \in [Turns -> {"none", "running", "waiting"} \union Terminal] /\ last' \in Turns \union {NoTurn}
      BY SMTT(30), TurnsAssumption DEF Resume, IInv, TypeOK, At, Logged, agentkit,
           Terminal, Ended
    <2>2. worker' \in [Turns -> WorkerPlaces]
      BY DEF Resume, IInv, TypeOK, At, WorkerPlaces
    <2> QED
      BY <2>1, <2>2, TurnsAssumption, NoTurnAssumption DEF Resume, IInv,
           TypeOK, At, Logged, durable, agentkit, memory, bounds, Ended,
           WaitingInCheckpoint, Terminal, Slots, Finishes, Cancellers,
           WorkerPlaces, Finished
  <1>2. RowsInv'
    BY TurnsAssumption, NoTurnAssumption DEF Resume, IInv, RowsInv, TypeOK,
         At, Logged, durable, agentkit, memory, bounds, CancelModes, Terminal
  <1>3. BusyInv'
    BY TurnsAssumption, NoTurnAssumption DEF Resume, IInv, BusyInv, TypeOK,
         At, Logged, durable, agentkit, memory, bounds, CancelModes, Terminal
  <1>4. WaitsInv'
    BY TurnsAssumption, NoTurnAssumption DEF Resume, IInv, WaitsInv, TypeOK,
         BusyInv, QueueInv, NewInv, At, Logged, durable, agentkit, memory,
         bounds, PreparedActive, WaitingInCheckpoint, NoCancel, CancelModes,
         Terminal, Waits
  <1>5. QueueInv'
    BY TurnsAssumption, NoTurnAssumption DEF Resume, IInv, QueueInv, TypeOK,
         At, Logged, durable, agentkit, memory, bounds, CancelModes, Terminal
  <1>6. NewInv'
    BY TurnsAssumption, NoTurnAssumption DEF Resume, IInv, NewInv, TypeOK,
         BusyInv, At, Logged, durable, agentkit, memory, bounds, NoCancel,
         CancelModes, Terminal
  <1>7. QuietInv'
    BY TurnsAssumption, NoTurnAssumption DEF Resume, IInv, QuietInv, TypeOK,
         At, Logged, durable, agentkit, memory, bounds, NoCancel,
         CancelModes, Terminal, NoCancels, NoDeadline
  <1>8. DetachedInv'
    BY TurnsAssumption, NoTurnAssumption DEF Resume, IInv, DetachedInv,
         TypeOK, BusyInv, QuietInv, At, Logged, durable, agentkit, memory,
         bounds, NoCancel, CancelModes, Terminal, NoCancels, NoDeadline
  <1>9. WaitingInv'
    BY TurnsAssumption, NoTurnAssumption DEF Resume, IInv, WaitingInv,
         TypeOK, BusyInv, QuietInv, At, Logged, durable, agentkit, memory,
         bounds, NoCancel, CancelModes, Terminal, NoCancels, NoDeadline
  <1>10. OwnsInv'
    BY TurnsAssumption, NoTurnAssumption DEF Resume, IInv, OwnsInv, TypeOK,
         BusyInv, RowsInv, ActiveOwnsItsRow, At, Logged, durable, agentkit,
         memory, bounds, CancelModes, Terminal
  <1>11. OrderInv'
    BY TurnsAssumption, NoTurnAssumption DEF Resume, IInv, OrderInv, TypeOK,
         BusyInv, OwnsInv, InHand, ActiveOwnsItsRow, At, Logged, durable,
         agentkit, memory, bounds, CancelModes, Terminal, UserOnly
  <1> QED
    BY <1>1, <1>2, <1>3, <1>4, <1>5, <1>6, <1>7, <1>8, <1>9, <1>10, <1>11 DEF
         IInv

LEMMA BeginFinishCases ==
    ASSUME NEW t \in Turns, IInv, BeginFinish(t)
    PROVE  /\ worker[t] = "returning" /\ ~Waits(t)
           /\ UNCHANGED <<rows, nextId, nextToken, log, last, node, queue, starting, canceller,
                          cancelReq, detached, submitted, crashes, cancels>>
           /\ \/ UNCHANGED <<active, finish>> /\ worker' = [worker EXCEPT ![t] = "none"]
              \/ /\ active.turn = t /\ active.submitted
                 /\ active' = [active EXCEPT !.acked = TRUE]
                 /\ \E success \in BOOLEAN :
                       finish' = [turn |-> t, cancel |-> active.cancel, token |-> active.token,
                                  success |-> success, reported |-> FALSE]
                 /\ worker' = [worker EXCEPT ![t] = "finishing"]
  <1>1. worker[t] = "returning" /\ ~Waits(t)
    BY DEF BeginFinish, IInv, WaitsInv
  <1>2. active.turn = t => active.submitted
    BY <1>1 DEF Waits, PreparedActive
  <1>3. UNCHANGED <<rows, nextId, nextToken, log, last, node, queue, starting, canceller,
                    cancelReq, detached, submitted, crashes, cancels>>
    BY DEF BeginFinish, durable, agentkit, bounds
  <1>4. CASE active.turn = t /\ ~active.acked
    <2>1. PICK success \in BOOLEAN :
             finish' = [turn |-> t, cancel |-> active.cancel, token |-> active.token,
                        success |-> success, reported |-> FALSE]
      BY <1>4 DEF BeginFinish
    <2> QED
      BY <1>1, <1>2, <1>3, <1>4, <2>1 DEF BeginFinish, At
  <1>5. CASE ~(active.turn = t /\ ~active.acked)
    BY <1>1, <1>3, <1>5 DEF BeginFinish, At
  <1> QED
    BY <1>4, <1>5

LEMMA BeginFinishKeeps ==
    ASSUME NEW t \in Turns, IInv, BeginFinish(t)
    PROVE  IInv'
  <1>1. TypeOK'
    <2>1. active' \in Slots
      BY BeginFinishCases, RecordTypes
    <2>2. finish' \in Finishes
      <3>1. active.token \in Nat /\ active.cancel \in CancelModes /\ finish \in Finishes
        BY RecordTypes DEF IInv, TypeOK
      <3>2. \A success \in BOOLEAN :
              [turn |-> t, cancel |-> active.cancel, token |-> active.token,
               success |-> success, reported |-> FALSE] \in Finishes
        BY <3>1 DEF Finishes
      <3> QED
        BY <3>1, <3>2, BeginFinishCases
    <2>3. worker' \in [Turns -> WorkerPlaces]
      <3>1. /\ worker \in [Turns -> WorkerPlaces]
            /\ \/ worker' = [worker EXCEPT ![t] = "none"]
               \/ worker' = [worker EXCEPT ![t] = "finishing"]
        BY BeginFinishCases DEF IInv, TypeOK, WorkerPlaces
      <3> QED
        BY <3>1 DEF WorkerPlaces
    <2> QED
      BY SMTT(30), <2>1, <2>2, <2>3, BeginFinishCases DEF IInv, TypeOK, Slots,
           Finishes, WorkerPlaces
  <1>2. RowsInv'
    BY BeginFinishCases, NoTurnAssumption DEF RowsInv, IInv
  <1>3. BusyInv'
    BY SMTT(30), BeginFinishCases, NoTurnAssumption DEF IInv, TypeOK, BusyInv, Slots,
         PreparedActive, Waits, WaitingInCheckpoint, NoCancels, NoDeadline,
         NoFinish, NoCancel
  <1>4. WaitsInv'
    BY SMTT(30), BeginFinishCases, NoTurnAssumption DEF WaitsInv, IInv, TypeOK,
         BusyInv, Slots, PreparedActive, Waits, WaitingInCheckpoint,
         NoCancels, NoDeadline, NoFinish, NoCancel
  <1>5. QueueInv'
    BY BeginFinishCases, NoTurnAssumption DEF QueueInv, TypeOK, IInv
  <1>6. NewInv'
    BY BeginFinishCases, NoTurnAssumption DEF NewInv, WaitsInv, IInv, TypeOK,
         BusyInv, Slots, PreparedActive, Waits, WaitingInCheckpoint,
         NoCancels, NoDeadline, NoFinish, NoCancel
  <1>7. QuietInv'
    BY BeginFinishCases, NoTurnAssumption DEF QuietInv, TypeOK, IInv
  <1>8. DetachedInv'
    <2>1. \A u \in Turns : worker'[u] = worker[u] \/ worker'[u] \in {"none", "finishing"}
      BY BeginFinishCases DEF IInv, TypeOK
    <2>2. log' = log /\ detached' = detached /\ detached \subseteq Turns
      BY BeginFinishCases DEF IInv, TypeOK
    <2> QED
      BY <2>1, <2>2 DEF DetachedInv, IInv
  <1>9. WaitingInv'
    BY BeginFinishCases, NoTurnAssumption DEF WaitingInv, IInv, TypeOK,
         BusyInv, Slots, PreparedActive, Waits, WaitingInCheckpoint,
         NoCancels, NoDeadline, NoFinish, NoCancel
  <1>10. OwnsInv'
    BY SMTT(30), BeginFinishCases, NoTurnAssumption DEF OwnsInv, ActiveOwnsItsRow,
         TypeOK, IInv
  <1>11. OrderInv'
    BY BeginFinishCases, NoTurnAssumption DEF OrderInv, InHand, TypeOK, IInv
  <1> QED
    BY <1>1, <1>2, <1>3, <1>4, <1>5, <1>6, <1>7, <1>8, <1>9, <1>10, <1>11 DEF
         IInv

LEMMA ReportFinishKeeps ==
    ASSUME IInv, ReportFinish
    PROVE  IInv'
  <1>1. TypeOK'
    <2>1. finish' \in Finishes
      BY RecordTypes DEF ReportFinish
    <2>2. node' \in [AutoTurns -> {"pending", "running", "waiting", "aborting"} \union {"succeeded", "failed", "cancelled", "orphaned"}]
      BY TurnsAssumption DEF ReportFinish, IInv, TypeOK
    <2> QED
      BY <2>1, <2>2, TurnsAssumption, NoTurnAssumption DEF ReportFinish,
           IInv, TypeOK, At, Logged, durable, agentkit, memory, bounds,
           Ended, WaitingInCheckpoint, Terminal, Slots, Finishes, Cancellers,
           WorkerPlaces, Finished
  <1>2. RowsInv'
    BY TurnsAssumption, NoTurnAssumption DEF ReportFinish, IInv, RowsInv,
         TypeOK, durable, agentkit, memory, bounds, CancelModes, Terminal
  <1>3. BusyInv'
    BY TurnsAssumption, NoTurnAssumption DEF ReportFinish, IInv, BusyInv,
         TypeOK, durable, agentkit, memory, bounds, CancelModes, Terminal
  <1>4. WaitsInv'
    BY TurnsAssumption, NoTurnAssumption DEF ReportFinish, IInv, WaitsInv,
         TypeOK, BusyInv, QueueInv, NewInv, durable, agentkit, memory,
         bounds, PreparedActive, WaitingInCheckpoint, NoCancel, CancelModes,
         Terminal, Waits
  <1>5. QueueInv'
    BY TurnsAssumption, NoTurnAssumption DEF ReportFinish, IInv, QueueInv,
         TypeOK, durable, agentkit, memory, bounds, CancelModes, Terminal
  <1>6. NewInv'
    BY TurnsAssumption, NoTurnAssumption DEF ReportFinish, IInv, NewInv,
         TypeOK, BusyInv, durable, agentkit, memory, bounds, NoCancel,
         CancelModes, Terminal
  <1>7. QuietInv'
    BY TurnsAssumption, NoTurnAssumption DEF ReportFinish, IInv, QuietInv,
         TypeOK, durable, agentkit, memory, bounds, NoCancel, CancelModes,
         Terminal, NoCancels, NoDeadline
  <1>8. DetachedInv'
    BY TurnsAssumption, NoTurnAssumption DEF ReportFinish, IInv, DetachedInv,
         TypeOK, BusyInv, QuietInv, durable, agentkit, memory, bounds,
         NoCancel, CancelModes, Terminal, NoCancels, NoDeadline
  <1>9. WaitingInv'
    BY TurnsAssumption, NoTurnAssumption DEF ReportFinish, IInv, WaitingInv,
         TypeOK, BusyInv, QuietInv, durable, agentkit, memory, bounds,
         NoCancel, CancelModes, Terminal, NoCancels, NoDeadline
  <1>10. OwnsInv'
    BY TurnsAssumption, NoTurnAssumption DEF ReportFinish, IInv, OwnsInv,
         TypeOK, BusyInv, RowsInv, ActiveOwnsItsRow, durable, agentkit,
         memory, bounds, CancelModes, Terminal
  <1>11. OrderInv'
    BY TurnsAssumption, NoTurnAssumption DEF ReportFinish, IInv, OrderInv,
         TypeOK, BusyInv, OwnsInv, InHand, ActiveOwnsItsRow, durable,
         agentkit, memory, bounds, CancelModes, Terminal, UserOnly
  <1> QED
    BY <1>1, <1>2, <1>3, <1>4, <1>5, <1>6, <1>7, <1>8, <1>9, <1>10, <1>11 DEF
         IInv

\* The row of a submitted turn is there to be acknowledged, and no other row
\* is claimed.
LEMMA OwnerAcknowledges ==
    ASSUME IInv, finish.turn # NoTurn, Steady
    PROVE  /\ OwnsClaim(rows, finish.turn, finish.token) /\ IsFirst(rows, finish.turn)
           /\ CanAck /\ Remaining = Without(rows, {finish.turn})
  <1> DEFINE f == finish.turn
  <1>1. f \in Turns /\ worker[f] = "finishing" /\ active.turn = f /\ active.submitted
    BY DEF IInv, BusyInv, TypeOK
  <1>2. OwnsClaim(rows, f, finish.token)
    BY <1>1 DEF IInv, OwnsInv, ActiveOwnsItsRow, BusyInv
  <1>3. finish.token # 0 /\ IsFirst(rows, f)
    BY <1>1, <1>2 DEF IInv, RowsInv, InShape, OwnsClaim
  <1>4. Remaining = Without(rows, {f})
    BY <1>3 DEF Remaining
  <1>5. ASSUME FirstIsClaimed(Remaining)
        PROVE  FALSE
    <2>1. PICK u \in Turns : Remaining[u].state = "claimed"
      BY <1>5 DEF FirstIsClaimed
    <2>2. u # f /\ rows[u].state = "claimed"
      BY <2>1, <1>4 DEF Without, Absent
    <2>3. IsFirst(rows, u)
      BY <2>2 DEF IInv, RowsInv, InShape
    <2>4. u = f
      <3>1. rows \in [Turns -> Row] /\ nextId \in Nat /\ InShape(rows, nextId)
        BY DEF IInv, TypeOK, RowsInv
      <3> QED
        BY <3>1, <2>3, <1>3, OneFirst
    <2> QED
      BY <2>2, <2>4
  <1> QED
    BY <1>2, <1>3, <1>4, <1>5 DEF CanAck

LEMMA FinishUnacknowledgedKeeps ==
    ASSUME IInv, FinishUnacknowledged
    PROVE  IInv'
  <1>1. TypeOK'
    <2>1. active' \in Slots
      BY RecordTypes DEF FinishUnacknowledged
    <2>2. finish' \in Finishes
      BY RecordTypes DEF FinishUnacknowledged, Finished
    <2>3. worker' \in [Turns -> WorkerPlaces]
      BY TurnsAssumption DEF FinishUnacknowledged, Finishing, Finished, IInv,
           TypeOK, At, WorkerPlaces, Logged
    <2> QED
      BY <2>1, <2>2, <2>3, TurnsAssumption, NoTurnAssumption DEF
           FinishUnacknowledged, IInv, TypeOK, At, Logged, durable, agentkit,
           memory, bounds, Ended, WaitingInCheckpoint, Terminal, Slots,
           Finishes, Cancellers, WorkerPlaces, Finished
  <1>2. RowsInv'
    BY TurnsAssumption, NoTurnAssumption DEF FinishUnacknowledged, IInv,
         RowsInv, TypeOK, At, agentkit, bounds, NoActive, NoFinish,
         CancelModes, Terminal, Finishing, Finished
  <1>3. BusyInv'
    BY TurnsAssumption, NoTurnAssumption DEF FinishUnacknowledged, IInv,
         BusyInv, TypeOK, At, agentkit, bounds, NoActive, NoFinish,
         CancelModes, Terminal, Finishing, Finished
  <1>4. WaitsInv'
    BY TurnsAssumption, NoTurnAssumption DEF FinishUnacknowledged, IInv,
         WaitsInv, TypeOK, BusyInv, QueueInv, NewInv, At, agentkit, bounds,
         PreparedActive, WaitingInCheckpoint, NoActive, NoFinish, NoCancel,
         CancelModes, Terminal, Finishing, Finished, Waits
  <1>5. QueueInv'
    <2>1. NoTurn \notin In(queue)
      BY EmptyQueue, NoTurnAssumption DEF IInv, TypeOK
    <2> QED
      BY <2>1 DEF FinishUnacknowledged, IInv, QueueInv, NoActive
  <1>6. NewInv'
    BY TurnsAssumption, NoTurnAssumption DEF FinishUnacknowledged, IInv,
         NewInv, TypeOK, BusyInv, At, agentkit, bounds, NoActive, NoFinish,
         NoCancel, CancelModes, Terminal, Finishing, Finished
  <1>7. QuietInv'
    BY TurnsAssumption, NoTurnAssumption DEF FinishUnacknowledged, IInv,
         QuietInv, TypeOK, At, agentkit, bounds, NoActive, NoFinish,
         NoCancel, CancelModes, Terminal, Finishing, Finished, NoCancels,
         NoDeadline
  <1>8. DetachedInv'
    BY TurnsAssumption, NoTurnAssumption DEF FinishUnacknowledged, IInv,
         DetachedInv, TypeOK, BusyInv, QuietInv, At, agentkit, bounds,
         NoActive, NoFinish, NoCancel, CancelModes, Terminal, Finishing,
         Finished, NoCancels, NoDeadline
  <1>9. WaitingInv'
    BY TurnsAssumption, NoTurnAssumption DEF FinishUnacknowledged, IInv,
         WaitingInv, TypeOK, BusyInv, QuietInv, At, agentkit, bounds,
         NoActive, NoFinish, NoCancel, CancelModes, Terminal, Finishing,
         Finished, NoCancels, NoDeadline
  <1>10. OwnsInv'
    BY TurnsAssumption, NoTurnAssumption DEF FinishUnacknowledged, IInv,
         OwnsInv, TypeOK, BusyInv, RowsInv, ActiveOwnsItsRow, At, agentkit,
         bounds, NoActive, NoFinish, CancelModes, Terminal, Finishing,
         Finished
  <1>11. OrderInv'
    BY OwnerAcknowledges DEF FinishUnacknowledged, Finishing, UserOnly,
         OrderInv
  <1> QED
    BY <1>1, <1>2, <1>3, <1>4, <1>5, <1>6, <1>7, <1>8, <1>9, <1>10, <1>11 DEF
         IInv

LEMMA InterruptKeeps ==
    ASSUME IInv, Interrupt
    PROVE  IInv'
  <1>1. TypeOK'
    <2>1. active' \in Slots
      BY RecordTypes DEF Interrupt
    <2>2. cancels' \in 0 .. MaxCancels
      BY TurnsAssumption DEF Interrupt, IInv, TypeOK
    <2>3. canceller' \in [turn : Turns \union {NoTurn}, session : BOOLEAN, waiting : BOOLEAN, stage : {"idle", "snapshot", "session", "check", "node"}, mode : CancelModes]
      BY NoTurnAssumption DEF Interrupt, IInv, TypeOK, CancelModes
    <2> QED
      BY <2>1, <2>2, <2>3, TurnsAssumption, NoTurnAssumption DEF Interrupt,
           IInv, TypeOK, At, Logged, durable, agentkit, memory, bounds,
           Ended, WaitingInCheckpoint, Terminal, Slots, Finishes, Cancellers,
           WorkerPlaces, Finished
  <1>2. RowsInv'
    BY TurnsAssumption, NoTurnAssumption DEF Interrupt, IInv, RowsInv,
         TypeOK, durable, agentkit, NoCancel, CancelModes, Terminal
  <1>3. BusyInv'
    BY TurnsAssumption, NoTurnAssumption DEF Interrupt, IInv, BusyInv,
         TypeOK, durable, agentkit, NoCancel, CancelModes, Terminal
  <1>4. WaitsInv'
    BY TurnsAssumption, NoTurnAssumption DEF Interrupt, IInv, WaitsInv,
         TypeOK, BusyInv, QueueInv, NewInv, durable, agentkit,
         PreparedActive, WaitingInCheckpoint, NoCancel, CancelModes,
         Terminal, Waits
  <1>5. QueueInv'
    BY TurnsAssumption, NoTurnAssumption DEF Interrupt, IInv, QueueInv,
         TypeOK, durable, agentkit, NoCancel, CancelModes, Terminal
  <1>6. NewInv'
    BY TurnsAssumption, NoTurnAssumption DEF Interrupt, IInv, NewInv, TypeOK,
         BusyInv, durable, agentkit, NoCancel, CancelModes, Terminal
  <1>7. QuietInv'
    BY TurnsAssumption, NoTurnAssumption DEF Interrupt, IInv, QuietInv,
         TypeOK, durable, agentkit, NoCancel, CancelModes, Terminal,
         NoCancels, NoDeadline
  <1>8. DetachedInv'
    BY TurnsAssumption, NoTurnAssumption DEF Interrupt, IInv, DetachedInv,
         TypeOK, BusyInv, QuietInv, durable, agentkit, NoCancel, CancelModes,
         Terminal, NoCancels, NoDeadline
  <1>9. WaitingInv'
    BY TurnsAssumption, NoTurnAssumption DEF Interrupt, IInv, WaitingInv,
         TypeOK, BusyInv, QuietInv, durable, agentkit, NoCancel, CancelModes,
         Terminal, NoCancels, NoDeadline
  <1>10. OwnsInv'
    BY TurnsAssumption, NoTurnAssumption DEF Interrupt, IInv, OwnsInv,
         TypeOK, BusyInv, RowsInv, ActiveOwnsItsRow, durable, agentkit,
         NoCancel, CancelModes, Terminal
  <1>11. OrderInv'
    BY TurnsAssumption, NoTurnAssumption DEF Interrupt, IInv, OrderInv,
         TypeOK, BusyInv, OwnsInv, InHand, ActiveOwnsItsRow, durable,
         agentkit, NoCancel, CancelModes, Terminal, UserOnly
  <1> QED
    BY <1>1, <1>2, <1>3, <1>4, <1>5, <1>6, <1>7, <1>8, <1>9, <1>10, <1>11 DEF
         IInv

LEMMA SnapshotSessionKeeps ==
    ASSUME IInv, SnapshotSession
    PROVE  IInv'
  <1>1. TypeOK'
    <2>1. canceller' \in Cancellers
      BY RecordTypes DEF SnapshotSession
    <2> QED
      BY <2>1, TurnsAssumption, NoTurnAssumption DEF SnapshotSession, IInv,
           TypeOK, At, Logged, durable, agentkit, memory, bounds, Ended,
           WaitingInCheckpoint, Terminal, Slots, Finishes, Cancellers,
           WorkerPlaces, Finished
  <1>2. RowsInv'
    BY TurnsAssumption, NoTurnAssumption DEF SnapshotSession, IInv, RowsInv,
         TypeOK, durable, agentkit, memory, bounds, CancelModes, Terminal
  <1>3. BusyInv'
    BY TurnsAssumption, NoTurnAssumption DEF SnapshotSession, IInv, BusyInv,
         TypeOK, durable, agentkit, memory, bounds, CancelModes, Terminal
  <1>4. WaitsInv'
    BY TurnsAssumption, NoTurnAssumption DEF SnapshotSession, IInv, WaitsInv,
         TypeOK, BusyInv, QueueInv, NewInv, durable, agentkit, memory,
         bounds, PreparedActive, WaitingInCheckpoint, NoCancel, CancelModes,
         Terminal, Waits
  <1>5. QueueInv'
    BY TurnsAssumption, NoTurnAssumption DEF SnapshotSession, IInv, QueueInv,
         TypeOK, durable, agentkit, memory, bounds, CancelModes, Terminal
  <1>6. NewInv'
    BY TurnsAssumption, NoTurnAssumption DEF SnapshotSession, IInv, NewInv,
         TypeOK, BusyInv, durable, agentkit, memory, bounds, NoCancel,
         CancelModes, Terminal
  <1>7. QuietInv'
    BY TurnsAssumption, NoTurnAssumption DEF SnapshotSession, IInv, QuietInv,
         TypeOK, durable, agentkit, memory, bounds, NoCancel, CancelModes,
         Terminal, NoCancels, NoDeadline
  <1>8. DetachedInv'
    BY TurnsAssumption, NoTurnAssumption DEF SnapshotSession, IInv,
         DetachedInv, TypeOK, BusyInv, QuietInv, durable, agentkit, memory,
         bounds, NoCancel, CancelModes, Terminal, NoCancels, NoDeadline
  <1>9. WaitingInv'
    BY TurnsAssumption, NoTurnAssumption DEF SnapshotSession, IInv,
         WaitingInv, TypeOK, BusyInv, QuietInv, durable, agentkit, memory,
         bounds, NoCancel, CancelModes, Terminal, NoCancels, NoDeadline
  <1>10. OwnsInv'
    BY TurnsAssumption, NoTurnAssumption DEF SnapshotSession, IInv, OwnsInv,
         TypeOK, BusyInv, RowsInv, ActiveOwnsItsRow, durable, agentkit,
         memory, bounds, CancelModes, Terminal
  <1>11. OrderInv'
    BY TurnsAssumption, NoTurnAssumption DEF SnapshotSession, IInv, OrderInv,
         TypeOK, BusyInv, OwnsInv, InHand, ActiveOwnsItsRow, durable,
         agentkit, memory, bounds, CancelModes, Terminal, UserOnly
  <1> QED
    BY <1>1, <1>2, <1>3, <1>4, <1>5, <1>6, <1>7, <1>8, <1>9, <1>10, <1>11 DEF
         IInv

LEMMA CancelSessionTurnKeeps ==
    ASSUME IInv, CancelSessionTurn
    PROVE  IInv'
  <1>1. TypeOK'
    <2>1. canceller' \in Cancellers
      BY RecordTypes DEF CancelSessionTurn
    <2>2. log' \in [Turns -> {"none", "running", "waiting"} \union Terminal] /\ last' \in Turns \union {NoTurn}
      BY TurnsAssumption DEF CancelSessionTurn, IInv, TypeOK, At, Logged,
           agentkit, Terminal, Ended, NewInv, NoCancel
    <2>3. cancelReq' \subseteq Turns
      BY TurnsAssumption DEF CancelSessionTurn, IInv, TypeOK, At, Logged,
           agentkit, Terminal, Ended, NewInv, NoCancel
    <2> QED
      BY <2>1, <2>2, <2>3, TurnsAssumption, NoTurnAssumption DEF
           CancelSessionTurn, IInv, TypeOK, At, Logged, durable, agentkit,
           memory, bounds, Ended, WaitingInCheckpoint, Terminal, Slots,
           Finishes, Cancellers, WorkerPlaces, Finished
  <1>2. RowsInv'
    BY TurnsAssumption, NoTurnAssumption DEF CancelSessionTurn, IInv,
         RowsInv, TypeOK, Logged, durable, agentkit, memory, bounds,
         CancelModes, Terminal
  <1>3. BusyInv'
    BY TurnsAssumption, NoTurnAssumption DEF CancelSessionTurn, IInv,
         BusyInv, TypeOK, Logged, durable, agentkit, memory, bounds,
         CancelModes, Terminal
  <1>4. WaitsInv'
    BY TurnsAssumption, NoTurnAssumption DEF CancelSessionTurn, IInv,
         WaitsInv, TypeOK, BusyInv, QueueInv, NewInv, Logged, durable,
         agentkit, memory, bounds, PreparedActive, WaitingInCheckpoint,
         NoCancel, CancelModes, Terminal, Waits
  <1>5. QueueInv'
    BY TurnsAssumption, NoTurnAssumption DEF CancelSessionTurn, IInv,
         QueueInv, TypeOK, Logged, durable, agentkit, memory, bounds,
         CancelModes, Terminal
  <1>6. NewInv'
    BY TurnsAssumption, NoTurnAssumption DEF CancelSessionTurn, IInv, NewInv,
         TypeOK, BusyInv, Logged, durable, agentkit, memory, bounds,
         NoCancel, CancelModes, Terminal
  <1>7. QuietInv'
    BY TurnsAssumption, NoTurnAssumption DEF CancelSessionTurn, IInv,
         QuietInv, TypeOK, Logged, durable, agentkit, memory, bounds,
         NoCancel, CancelModes, Terminal, NoCancels, NoDeadline
  <1>8. DetachedInv'
    BY TurnsAssumption, NoTurnAssumption DEF CancelSessionTurn, IInv,
         DetachedInv, TypeOK, BusyInv, QuietInv, Logged, durable, agentkit,
         memory, bounds, NoCancel, CancelModes, Terminal, NoCancels,
         NoDeadline
  <1>9. WaitingInv'
    BY TurnsAssumption, NoTurnAssumption DEF CancelSessionTurn, IInv,
         WaitingInv, TypeOK, BusyInv, QuietInv, Logged, durable, agentkit,
         memory, bounds, NoCancel, CancelModes, Terminal, NoCancels,
         NoDeadline
  <1>10. OwnsInv'
    BY TurnsAssumption, NoTurnAssumption DEF CancelSessionTurn, IInv,
         OwnsInv, TypeOK, BusyInv, RowsInv, ActiveOwnsItsRow, Logged,
         durable, agentkit, memory, bounds, CancelModes, Terminal
  <1>11. OrderInv'
    BY TurnsAssumption, NoTurnAssumption DEF CancelSessionTurn, IInv,
         OrderInv, TypeOK, BusyInv, OwnsInv, InHand, ActiveOwnsItsRow,
         Logged, durable, agentkit, memory, bounds, CancelModes, Terminal,
         UserOnly
  <1> QED
    BY <1>1, <1>2, <1>3, <1>4, <1>5, <1>6, <1>7, <1>8, <1>9, <1>10, <1>11 DEF
         IInv

LEMMA CheckWaitingKeeps ==
    ASSUME IInv, CheckWaiting
    PROVE  IInv'
  <1>1. TypeOK'
    <2>1. canceller' \in Cancellers
      BY RecordTypes DEF CheckWaiting
    <2>2. worker' \in [Turns -> WorkerPlaces]
      BY TurnsAssumption DEF CheckWaiting, IInv, TypeOK, At, WorkerPlaces,
           Logged
    <2> QED
      BY <2>1, <2>2, TurnsAssumption, NoTurnAssumption DEF CheckWaiting,
           IInv, TypeOK, At, Logged, durable, agentkit, memory, bounds,
           Ended, WaitingInCheckpoint, Terminal, Slots, Finishes, Cancellers,
           WorkerPlaces, Finished
  <1>2. RowsInv'
    BY TurnsAssumption, NoTurnAssumption DEF CheckWaiting, IInv, RowsInv,
         TypeOK, durable, agentkit, memory, bounds, WaitingInCheckpoint,
         NoCancel, CancelModes, Terminal
  <1>3. BusyInv'
    BY TurnsAssumption, NoTurnAssumption DEF CheckWaiting, IInv, BusyInv,
         TypeOK, durable, agentkit, memory, bounds, WaitingInCheckpoint,
         NoCancel, CancelModes, Terminal
  <1>4. WaitsInv'
    BY TurnsAssumption, NoTurnAssumption DEF CheckWaiting, IInv, WaitsInv,
         TypeOK, BusyInv, QueueInv, NewInv, durable, agentkit, memory,
         bounds, PreparedActive, WaitingInCheckpoint, NoCancel, CancelModes,
         Terminal, Waits
  <1>5. QueueInv'
    BY TurnsAssumption, NoTurnAssumption DEF CheckWaiting, IInv, QueueInv,
         TypeOK, durable, agentkit, memory, bounds, WaitingInCheckpoint,
         NoCancel, CancelModes, Terminal
  <1>6. NewInv'
    BY TurnsAssumption, NoTurnAssumption DEF CheckWaiting, IInv, NewInv,
         TypeOK, BusyInv, durable, agentkit, memory, bounds,
         WaitingInCheckpoint, NoCancel, CancelModes, Terminal
  <1>7. QuietInv'
    BY TurnsAssumption, NoTurnAssumption DEF CheckWaiting, IInv, QuietInv,
         TypeOK, durable, agentkit, memory, bounds, WaitingInCheckpoint,
         NoCancel, CancelModes, Terminal, NoCancels, NoDeadline
  <1>8. DetachedInv'
    BY TurnsAssumption, NoTurnAssumption DEF CheckWaiting, IInv, DetachedInv,
         TypeOK, BusyInv, QuietInv, durable, agentkit, memory, bounds,
         WaitingInCheckpoint, NoCancel, CancelModes, Terminal, NoCancels,
         NoDeadline
  <1>9. WaitingInv'
    BY TurnsAssumption, NoTurnAssumption DEF CheckWaiting, IInv, WaitingInv,
         TypeOK, BusyInv, QuietInv, durable, agentkit, memory, bounds,
         WaitingInCheckpoint, NoCancel, CancelModes, Terminal, NoCancels,
         NoDeadline
  <1>10. OwnsInv'
    BY TurnsAssumption, NoTurnAssumption DEF CheckWaiting, IInv, OwnsInv,
         TypeOK, BusyInv, RowsInv, ActiveOwnsItsRow, durable, agentkit,
         memory, bounds, WaitingInCheckpoint, NoCancel, CancelModes, Terminal
  <1>11. OrderInv'
    BY TurnsAssumption, NoTurnAssumption DEF CheckWaiting, IInv, OrderInv,
         TypeOK, BusyInv, OwnsInv, InHand, ActiveOwnsItsRow, durable,
         agentkit, memory, bounds, WaitingInCheckpoint, NoCancel,
         CancelModes, Terminal, UserOnly
  <1> QED
    BY <1>1, <1>2, <1>3, <1>4, <1>5, <1>6, <1>7, <1>8, <1>9, <1>10, <1>11 DEF
         IInv

LEMMA CancelNodeKeeps ==
    ASSUME IInv, CancelNode
    PROVE  IInv'
  <1>1. TypeOK'
    <2>1. canceller' \in Cancellers
      BY RecordTypes DEF CancelNode
    <2>2. node' \in [AutoTurns -> {"pending", "running", "waiting", "aborting"} \union {"succeeded", "failed", "cancelled", "orphaned"}]
      BY TurnsAssumption DEF CancelNode, IInv, TypeOK
    <2> QED
      BY <2>1, <2>2, TurnsAssumption, NoTurnAssumption DEF CancelNode, IInv,
           TypeOK, At, Logged, durable, agentkit, memory, bounds, Ended,
           WaitingInCheckpoint, Terminal, Slots, Finishes, Cancellers,
           WorkerPlaces, Finished
  <1>2. RowsInv'
    BY TurnsAssumption, NoTurnAssumption DEF CancelNode, IInv, RowsInv,
         TypeOK, durable, agentkit, memory, bounds, NoCancel, CancelModes,
         Terminal
  <1>3. BusyInv'
    BY TurnsAssumption, NoTurnAssumption DEF CancelNode, IInv, BusyInv,
         TypeOK, durable, agentkit, memory, bounds, NoCancel, CancelModes,
         Terminal
  <1>4. WaitsInv'
    BY TurnsAssumption, NoTurnAssumption DEF CancelNode, IInv, WaitsInv,
         TypeOK, BusyInv, QueueInv, NewInv, durable, agentkit, memory,
         bounds, PreparedActive, WaitingInCheckpoint, NoCancel, CancelModes,
         Terminal, Waits
  <1>5. QueueInv'
    BY TurnsAssumption, NoTurnAssumption DEF CancelNode, IInv, QueueInv,
         TypeOK, durable, agentkit, memory, bounds, NoCancel, CancelModes,
         Terminal
  <1>6. NewInv'
    BY TurnsAssumption, NoTurnAssumption DEF CancelNode, IInv, NewInv,
         TypeOK, BusyInv, durable, agentkit, memory, bounds, NoCancel,
         CancelModes, Terminal
  <1>7. QuietInv'
    BY TurnsAssumption, NoTurnAssumption DEF CancelNode, IInv, QuietInv,
         TypeOK, durable, agentkit, memory, bounds, NoCancel, CancelModes,
         Terminal, NoCancels, NoDeadline
  <1>8. DetachedInv'
    BY TurnsAssumption, NoTurnAssumption DEF CancelNode, IInv, DetachedInv,
         TypeOK, BusyInv, QuietInv, durable, agentkit, memory, bounds,
         NoCancel, CancelModes, Terminal, NoCancels, NoDeadline
  <1>9. WaitingInv'
    BY TurnsAssumption, NoTurnAssumption DEF CancelNode, IInv, WaitingInv,
         TypeOK, BusyInv, QuietInv, durable, agentkit, memory, bounds,
         NoCancel, CancelModes, Terminal, NoCancels, NoDeadline
  <1>10. OwnsInv'
    BY TurnsAssumption, NoTurnAssumption DEF CancelNode, IInv, OwnsInv,
         TypeOK, BusyInv, RowsInv, ActiveOwnsItsRow, durable, agentkit,
         memory, bounds, NoCancel, CancelModes, Terminal
  <1>11. OrderInv'
    BY TurnsAssumption, NoTurnAssumption DEF CancelNode, IInv, OrderInv,
         TypeOK, BusyInv, OwnsInv, InHand, ActiveOwnsItsRow, durable,
         agentkit, memory, bounds, NoCancel, CancelModes, Terminal, UserOnly
  <1> QED
    BY <1>1, <1>2, <1>3, <1>4, <1>5, <1>6, <1>7, <1>8, <1>9, <1>10, <1>11 DEF
         IInv

\* A new turn is put where the idle task prepares it, or behind the others.
LEMMA Enqueueing ==
    ASSUME IInv, NEW t \in Turns \ submitted, MemoryEnqueue(t)
    PROVE  /\ t # active.turn /\ t \notin In(queue) /\ t \notin Present(rows)
           /\ worker[t] = "none" /\ log[t] = "none" /\ t \notin detached
           /\ queue' \in Seq(Turns) /\ NoRepeats(queue') /\ active' \in Slots
           /\ \/ /\ active.turn = NoTurn /\ queue = <<>>
                 /\ active' = Prepared(t) /\ queue' = <<>>
              \/ /\ active' = active /\ In(queue') = In(queue) \union {t}
                 /\ \A r : ById(queue, r) /\ (\A u \in In(queue) : r[u].id < r[t].id)
                            => ById(queue', r)
  <1>1. /\ t # active.turn /\ t \notin In(queue) /\ t \notin Present(rows)
        /\ worker[t] = "none" /\ log[t] = "none" /\ t \notin detached
    BY DEF IInv, NewInv, RowsInv
  <1>2. queue \in Seq(Turns) /\ NoRepeats(queue) /\ active \in Slots
    BY RecordTypes DEF IInv, TypeOK, QueueInv
  <1>3. CASE Idle /\ active' = Prepared(t) /\ UNCHANGED queue
    BY <1>1, <1>2, <1>3, EmptyQueue, RecordTypes DEF Idle
  <1>4. CASE queue' = Append(queue, t) /\ UNCHANGED active
    BY <1>1, <1>2, <1>4, QueueGrows
  <1> QED
    BY <1>3, <1>4 DEF MemoryEnqueue

LEMMA StartTaskTurnKeeps ==
    ASSUME NEW t \in UserTurns, IInv, StartTaskTurn(t)
    PROVE  IInv'
  <1>1. TypeOK'
    <2>1. t \in Turns \ submitted /\ MemoryEnqueue(t)
      BY TurnsAssumption DEF StartTaskTurn
    <2>2. rows' \in [Turns -> Row] /\ nextId' \in Nat
      BY <2>1 DEF StartTaskTurn, IInv, TypeOK, Row, Queued
    <2> QED
      BY <2>1, Enqueueing, TurnsAssumption, <2>2 DEF StartTaskTurn, durable,
           agentkit, bounds, IInv, TypeOK, Slots
  <1>2. RowsInv'
    <2>1. t \in Turns \ submitted /\ MemoryEnqueue(t)
      BY TurnsAssumption DEF StartTaskTurn
    <2>2. rows \in [Turns -> Row] /\ nextId \in Nat /\ InShape(rows, nextId) /\ t \in Turns \ Present(rows)
      BY <2>1, Enqueueing DEF IInv, TypeOK, RowsInv
    <2>3. InShape(rows', nextId') /\ Present(rows') = Present(rows) \union {t}
      BY <2>2, Inserting DEF StartTaskTurn
    <2> QED
      BY <2>3 DEF StartTaskTurn, IInv, RowsInv, durable, agentkit, bounds
  <1>3. BusyInv'
    <2>1. t \in Turns \ submitted /\ MemoryEnqueue(t)
      BY TurnsAssumption DEF StartTaskTurn
    <2> QED
      BY <2>1, Enqueueing, NoTurnAssumption DEF StartTaskTurn, durable,
           agentkit, bounds, IInv, BusyInv, Prepared, NoActive, TypeOK
  <1>4. WaitsInv'
    <2>1. t \in Turns \ submitted /\ MemoryEnqueue(t)
      BY TurnsAssumption DEF StartTaskTurn
    <2> QED
      BY <2>1, Enqueueing, NoTurnAssumption, EmptyQueue DEF StartTaskTurn,
           durable, agentkit, bounds, IInv, WaitsInv, Waits, PreparedActive,
           WaitingInCheckpoint, Prepared, NoActive
  <1>5. QueueInv'
    <2>1. t \in Turns \ submitted /\ MemoryEnqueue(t)
      BY TurnsAssumption DEF StartTaskTurn
    <2> QED
      BY <2>1, Enqueueing, NoTurnAssumption, EmptyQueue DEF StartTaskTurn,
           durable, agentkit, bounds, IInv, QueueInv, Prepared, NoActive
  <1>6. NewInv'
    <2>1. t \in Turns \ submitted /\ MemoryEnqueue(t)
      BY TurnsAssumption DEF StartTaskTurn
    <2> QED
      BY <2>1, Enqueueing, NoTurnAssumption, TurnsAssumption, EmptyQueue DEF
           StartTaskTurn, durable, agentkit, bounds, IInv, NewInv, Prepared,
           NoActive, TypeOK
  <1>7. QuietInv'
    <2>1. t \in Turns \ submitted /\ MemoryEnqueue(t)
      BY TurnsAssumption DEF StartTaskTurn
    <2> QED
      BY <2>1, Enqueueing, NoTurnAssumption DEF StartTaskTurn, durable,
           agentkit, bounds, IInv, QuietInv, Prepared, NoActive
  <1>8. DetachedInv'
    <2>1. t \in Turns \ submitted /\ MemoryEnqueue(t)
      BY TurnsAssumption DEF StartTaskTurn
    <2> QED
      BY <2>1, Enqueueing, NoTurnAssumption DEF StartTaskTurn, durable,
           agentkit, bounds, IInv, DetachedInv
  <1>9. WaitingInv'
    <2>1. t \in Turns \ submitted /\ MemoryEnqueue(t)
      BY TurnsAssumption DEF StartTaskTurn
    <2> QED
      BY <2>1, Enqueueing, NoTurnAssumption DEF StartTaskTurn, durable,
           agentkit, bounds, IInv, WaitingInv
  <1>10. OwnsInv'
    <2>1. t \in Turns \ submitted /\ MemoryEnqueue(t)
      BY TurnsAssumption DEF StartTaskTurn
    <2>2. \A u \in Turns \ {t} : rows'[u] = rows[u]
      BY <2>1 DEF StartTaskTurn, IInv, TypeOK
    <2>3. active.submitted => active.turn \in Turns \ {t}
      BY <2>1, Enqueueing DEF IInv, TypeOK, BusyInv
    <2> QED
      BY <2>1, <2>2, <2>3, Enqueueing DEF IInv, OwnsInv, ActiveOwnsItsRow,
           OwnsClaim, Prepared, NoActive
  <1>11. OrderInv'
    <2>1. t \in Turns \ submitted /\ MemoryEnqueue(t)
      BY TurnsAssumption DEF StartTaskTurn
    <2>2. rows \in [Turns -> Row] /\ nextId \in Nat /\ InShape(rows, nextId) /\ t \in Turns \ Present(rows)
      BY <2>1, Enqueueing DEF IInv, TypeOK, RowsInv
    <2>3. /\ Present(rows') = Present(rows) \union {t} /\ rows'[t].id = nextId
          /\ \A u \in Turns \ {t} : rows'[u] = rows[u]
      BY <2>2, Inserting DEF StartTaskTurn
    <2>4. \A u \in Present(rows) : rows'[u].id = rows[u].id /\ rows'[u].id < rows'[t].id
      BY <2>2, <2>3 DEF InShape, Present
    <2> SUFFICES ASSUME UserOnly
                 PROVE  /\ In(queue') \union InHand' = Present(rows')
                        /\ ById(queue', rows')
                        /\ \A v \in InHand', u \in In(queue') : rows'[v].id < rows'[u].id
      BY DEF OrderInv, UserOnly, Steady, NoCancels, NoDeadline
    <2>5. /\ In(queue) \union InHand = Present(rows) /\ ById(queue, rows)
          /\ \A v \in InHand, u \in In(queue) : rows[v].id < rows[u].id
      BY DEF IInv, OrderInv
    <2>6. CASE active.turn = NoTurn /\ queue = <<>> /\ active' = Prepared(t) /\ queue' = <<>>
      <3>1. InHand' = {t}
        BY <2>6, <2>2, NoTurnAssumption DEF InHand, Prepared, NoActive
      <3> QED
        BY <3>1, <2>3, <2>5, <2>6, EmptyQueue DEF InHand
    <2>7. CASE /\ active' = active /\ In(queue') = In(queue) \union {t}
               /\ \A r : ById(queue, r) /\ (\A u \in In(queue) : r[u].id < r[t].id) => ById(queue', r)
      <3>1. InHand' = InHand
        BY <2>7 DEF InHand
      <3>2. ById(queue, rows')
        BY <2>4, <2>5, SameIds
      <3> QED
        BY <3>1, <3>2, <2>3, <2>4, <2>5, <2>7
    <2> QED
      BY <2>1, <2>6, <2>7, Enqueueing
  <1> QED
    BY <1>1, <1>2, <1>3, <1>4, <1>5, <1>6, <1>7, <1>8, <1>9, <1>10, <1>11 DEF
         IInv

LEMMA StartAgentKeeps ==
    ASSUME NEW t \in AutoTurns, IInv, StartAgent(t)
    PROVE  IInv'
  <1>1. TypeOK'
    <2>1. t \in Turns \ submitted /\ MemoryEnqueue(t)
      BY TurnsAssumption DEF StartAgent, IInv, NewInv
    <2> QED
      BY <2>1, Enqueueing, TurnsAssumption DEF StartAgent, durable, agentkit,
           bounds, IInv, TypeOK, Slots
  <1>2. RowsInv'
    <2>1. t \in Turns \ submitted /\ MemoryEnqueue(t)
      BY TurnsAssumption DEF StartAgent, IInv, NewInv
    <2> QED
      BY <2>1, Enqueueing, TurnsAssumption DEF StartAgent, durable, agentkit,
           bounds, IInv, RowsInv
  <1>3. BusyInv'
    <2>1. t \in Turns \ submitted /\ MemoryEnqueue(t)
      BY TurnsAssumption DEF StartAgent, IInv, NewInv
    <2> QED
      BY <2>1, Enqueueing, NoTurnAssumption DEF StartAgent, durable,
           agentkit, bounds, IInv, BusyInv, Prepared, NoActive, TypeOK
  <1>4. WaitsInv'
    <2>1. t \in Turns \ submitted /\ MemoryEnqueue(t)
      BY TurnsAssumption DEF StartAgent, IInv, NewInv
    <2> QED
      BY <2>1, Enqueueing, NoTurnAssumption, EmptyQueue DEF StartAgent,
           durable, agentkit, bounds, IInv, WaitsInv, Waits, PreparedActive,
           WaitingInCheckpoint, Prepared, NoActive
  <1>5. QueueInv'
    <2>1. t \in Turns \ submitted /\ MemoryEnqueue(t)
      BY TurnsAssumption DEF StartAgent, IInv, NewInv
    <2> QED
      BY <2>1, Enqueueing, NoTurnAssumption, EmptyQueue DEF StartAgent,
           durable, agentkit, bounds, IInv, QueueInv, Prepared, NoActive
  <1>6. NewInv'
    <2>1. t \in Turns \ submitted /\ MemoryEnqueue(t)
      BY TurnsAssumption DEF StartAgent, IInv, NewInv
    <2> QED
      BY <2>1, Enqueueing, NoTurnAssumption, TurnsAssumption, EmptyQueue DEF
           StartAgent, durable, agentkit, bounds, IInv, NewInv, Prepared,
           NoActive, TypeOK
  <1>7. QuietInv'
    <2>1. t \in Turns \ submitted /\ MemoryEnqueue(t)
      BY TurnsAssumption DEF StartAgent, IInv, NewInv
    <2> QED
      BY <2>1, Enqueueing, NoTurnAssumption DEF StartAgent, durable,
           agentkit, bounds, IInv, QuietInv, Prepared, NoActive
  <1>8. DetachedInv'
    <2>1. t \in Turns \ submitted /\ MemoryEnqueue(t)
      BY TurnsAssumption DEF StartAgent, IInv, NewInv
    <2> QED
      BY <2>1, Enqueueing, NoTurnAssumption DEF StartAgent, durable,
           agentkit, bounds, IInv, DetachedInv
  <1>9. WaitingInv'
    <2>1. t \in Turns \ submitted /\ MemoryEnqueue(t)
      BY TurnsAssumption DEF StartAgent, IInv, NewInv
    <2> QED
      BY <2>1, Enqueueing, NoTurnAssumption DEF StartAgent, durable,
           agentkit, bounds, IInv, WaitingInv
  <1>10. OwnsInv'
    <2>1. t \in Turns \ submitted /\ MemoryEnqueue(t)
      BY TurnsAssumption DEF StartAgent, IInv, NewInv
    <2> QED
      BY <2>1, Enqueueing, NoTurnAssumption DEF StartAgent, durable,
           agentkit, bounds, IInv, OwnsInv, ActiveOwnsItsRow, Prepared,
           NoActive
  <1>11. OrderInv'
    BY DEF OrderInv, UserOnly
  <1> QED
    BY <1>1, <1>2, <1>3, <1>4, <1>5, <1>6, <1>7, <1>8, <1>9, <1>10, <1>11 DEF
         IInv

\* The rows after the missing one is inserted.
LEMMA ActivationShape ==
    ASSUME IInv, NEW t \in Turns, InMemory(t)
    PROVE  LET r == ActivationRows(t)
               n == IF rows[t].state = "absent" THEN nextId + 1 ELSE nextId
           IN  /\ r \in [Turns -> Row] /\ n \in Nat /\ InShape(r, n)
               /\ Present(r) = Present(rows) \union {t}
               /\ \A u \in Present(rows) : r[u] = rows[u]
               /\ t \in submitted
  <1>1. rows \in [Turns -> Row] /\ nextId \in Nat /\ InShape(rows, nextId)
    BY DEF IInv, TypeOK, RowsInv
  <1>2. t \in submitted
    BY InMemoryIn DEF IInv, NewInv
  <1>3. CASE rows[t].state = "absent"
    <2>1. t \in Turns \ Present(rows) /\ \A u \in Present(rows) : u \in Turns \ {t}
      BY <1>3 DEF Present
    <2>2. ActivationRows(t) = [rows EXCEPT ![t] = Queued(nextId)]
      BY <1>3 DEF ActivationRows
    <2> DEFINE p == [rows EXCEPT ![t] = Queued(nextId)]
    <2>3. /\ p \in [Turns -> Row] /\ InShape(p, nextId + 1)
          /\ Present(p) = Present(rows) \union {t}
          /\ \A u \in Turns \ {t} : p[u] = rows[u]
      BY <1>1, <2>1, Inserting
    <2>4. ActivationRows(t) = p
      BY <2>2
    <2>5. \A u \in Present(rows) : p[u] = rows[u]
      BY <2>1, <2>3
    <2> HIDE DEF p
    <2> QED
      BY <1>2, <1>3, <1>1, <2>3, <2>4, <2>5
  <1>4. CASE rows[t].state # "absent"
    <2>1. t \in Present(rows) /\ ActivationRows(t) = rows
      BY <1>4 DEF Present, ActivationRows
    <2> QED
      BY <1>1, <1>2, <1>4, <2>1
  <1> QED
    BY <1>3, <1>4

\* What an activation may do: the turn gets a row if it has none, leaves the
\* queue for the slot, and is handed to a worker once its row is claimed.
TurnIsTaken(t) ==
    /\ ~active.submitted
    /\ \/ active.turn = t /\ queue' = queue
       \/ active.turn = NoTurn /\ queue # <<>> /\ Head(queue) = t /\ queue' = Tail(queue)
    /\ active' \in Slots /\ active'.turn = t
    /\ active'.cancel \in {"none", active.cancel}
    /\ \/ ~active'.submitted /\ worker' = worker
       \/ /\ active'.submitted /\ OwnsClaim(rows', t, active'.token)
          /\ \E w \in {"claimed", "returning"} : worker' = [worker EXCEPT ![t] = w]

ActivationEffect(t) ==
    /\ rows' \in [Turns -> Row] /\ nextId' \in Nat /\ nextToken' \in Nat \ {0}
    /\ InShape(rows', nextId')
    /\ Present(rows') \in {Present(rows),
                           Present(rows) \union (IF InMemory(t) THEN {t} ELSE {})}
    /\ \A u \in Present(rows) : rows'[u].id = rows[u].id
    /\ \A u \in Turns, k \in Nat : OwnsClaim(rows, u, k) => OwnsClaim(rows', u, k)
    /\ UNCHANGED <<active, queue, worker>> \/ TurnIsTaken(t)
    /\ UNCHANGED <<log, last, finish, canceller, cancelReq, detached, submitted, crashes,
                   cancels>>
    /\ \A a \in AutoTurns : node'[a] = "pending" => node[a] = "pending"

LEMMA OwnersStay ==
    ASSUME NEW r, NEW p, NEW t, \A u \in Present(r) : p[u] = r[u] \/ (u = t /\ r[u].state # "claimed")
    PROVE  \A u \in Turns, k \in Nat : OwnsClaim(r, u, k) => OwnsClaim(p, u, k)
  BY DEF OwnsClaim, Present

LEMMA Activating ==
    ASSUME IInv, NEW t \in Turns, ActivateTurnWorker(t)
    PROVE  ActivationEffect(t)
  <1>1. /\ UNCHANGED <<log, last, finish, canceller, cancelReq, detached, submitted, crashes,
                        cancels>>
        /\ \A a \in AutoTurns : node'[a] = "pending" => node[a] = "pending"
    BY DEF ActivateTurnWorker, agentkit, bounds, IInv, TypeOK
  <1>2. /\ rows \in [Turns -> Row] /\ nextId \in Nat /\ InShape(rows, nextId)
        /\ nextToken \in Nat \ {0} /\ active \in Slots /\ queue \in Seq(Turns)
    BY RecordTypes DEF IInv, TypeOK, RowsInv
  <1>3. CASE ~InMemory(t)
    <2>1. active.turn # t /\ ~Promotable(t)
      <3>1. active.turn # t /\ t \notin In(queue)
        BY <1>3, InMemoryIn
      <3>2. queue # <<>> => Head(queue) \in In(queue)
        BY <1>2, QueueMoves
      <3> QED
        BY <3>1, <3>2 DEF Promotable
    <2>2. UNCHANGED <<rows, nextId, nextToken, active, queue, worker>>
      BY <1>3, <2>1 DEF ActivateTurnWorker
    <2> QED
      BY <1>1, <1>2, <2>2 DEF ActivationEffect
  <1>4. CASE InMemory(t)
    <2> DEFINE r == ActivationRows(t)
               n == IF rows[t].state = "absent" THEN nextId + 1 ELSE nextId
               taken == active.turn = t \/ Promotable(t)
    <2>1. /\ r \in [Turns -> Row] /\ n \in Nat /\ InShape(r, n)
          /\ Present(r) = Present(rows) \union {t}
          /\ \A u \in Present(rows) : r[u] = rows[u]
      BY <1>4, ActivationShape
    <2>2. nextId' = n
      BY <1>4 DEF ActivateTurnWorker
    <2> HIDE DEF r, n
    <2>3. Promotable(t) => active.turn = NoTurn /\ active.turn # t /\ ~active.submitted
      BY NoTurnAssumption DEF Promotable, IInv, BusyInv
    <2>4. queue' = IF Promotable(t) THEN Tail(queue) ELSE queue
      BY DEF ActivateTurnWorker
    <2>5. CASE taken /\ Claimable(r, t)
      <3>1. /\ rows' = Claimed(r, t, nextToken) /\ nextToken' = nextToken + 1
        BY <1>4, <2>5 DEF ActivateTurnWorker, r
      <3>2. /\ rows' \in [Turns -> Row] /\ InShape(rows', nextId')
            /\ Present(rows') = Present(rows) \union {t}
            /\ OwnsClaim(rows', t, nextToken)
            /\ \A u \in Present(rows) : rows'[u].id = rows[u].id
        <4>1. /\ Claimed(r, t, nextToken) \in [Turns -> Row] /\ InShape(Claimed(r, t, nextToken), n)
              /\ Present(Claimed(r, t, nextToken)) = Present(r)
              /\ \A u \in Turns : Claimed(r, t, nextToken)[u].id = r[u].id
              /\ OwnsClaim(Claimed(r, t, nextToken), t, nextToken)
          BY <1>2, <2>1, <2>5, Claiming
        <4>2. \A u \in Present(rows) : u \in Turns
          BY DEF Present
        <4> QED
          BY <3>1, <4>1, <4>2, <2>1, <2>2
      <3>3. \A u \in Turns, k \in Nat : OwnsClaim(rows, u, k) => OwnsClaim(rows', u, k)
        <4>1. \A u \in Turns \ {t} : rows'[u] = r[u]
          BY <1>2, <2>1, <2>5, <3>1, Claiming
        <4>2. t \in Present(rows) => rows[t].state # "claimed"
          BY <2>1, <2>5 DEF Claimable
        <4>3. \A u \in Present(rows) : rows'[u] = rows[u] \/ (u = t /\ rows[u].state # "claimed")
          BY <4>1, <4>2, <2>1 DEF Present
        <4> QED
          BY <4>3 DEF OwnsClaim, Present
      <3>4. CASE active.turn = t /\ active.submitted
        <4>1. UNCHANGED <<active, queue, worker>>
          BY <1>4, <2>3, <2>4, <2>5, <3>4 DEF ActivateTurnWorker, r
        <4> QED
          BY <1>1, <1>2, <1>4, <2>1, <2>2, <3>1, <3>2, <3>3, <4>1 DEF
               ActivationEffect
      <3>5. CASE ~(active.turn = t /\ active.submitted)
        <4>1. /\ active' = [Owned(t, nextToken) EXCEPT
                               !.cancel = IF active.turn = t THEN active.cancel ELSE "none",
                               !.session = active.turn = t /\ active.session]
              /\ \E w \in SubmittedWorker : worker' = [worker EXCEPT ![t] = w]
          BY <1>4, <2>5, <3>5 DEF ActivateTurnWorker, r
        <4>2. /\ active' \in Slots /\ active'.turn = t /\ active'.submitted
              /\ active'.token = nextToken /\ active'.cancel \in {"none", active.cancel}
          BY <1>2, <4>1 DEF Slots, Owned, NoActive, CancelModes
        <4>3. SubmittedWorker \subseteq {"claimed", "returning"}
          BY DEF SubmittedWorker
        <4>4. TurnIsTaken(t)
          BY <2>3, <2>4, <2>5, <3>2, <3>5, <4>1, <4>2, <4>3 DEF TurnIsTaken,
               Promotable
        <4> QED
          BY <1>1, <1>2, <1>4, <2>1, <2>2, <3>1, <3>2, <3>3, <4>4 DEF
               ActivationEffect
      <3> QED
        BY <3>4, <3>5
    <2>6. CASE ~(taken /\ Claimable(r, t))
      <3>1. rows' = r /\ UNCHANGED <<nextToken, worker>>
            /\ active' = IF Promotable(t) THEN Prepared(t) ELSE active
        BY <1>4, <2>6 DEF ActivateTurnWorker, r
      <3>2. \A u \in Turns, k \in Nat : OwnsClaim(rows, u, k) => OwnsClaim(rows', u, k)
        BY <2>1, <3>1, OwnersStay
      <3>3. UNCHANGED <<active, queue, worker>> \/ TurnIsTaken(t)
        <4>1. Prepared(t) \in Slots /\ Prepared(t).turn = t /\ ~Prepared(t).submitted
              /\ Prepared(t).cancel = "none"
          BY RecordTypes DEF Prepared, NoActive
        <4> QED
          BY <2>3, <2>4, <3>1, <4>1 DEF TurnIsTaken, Promotable
      <3> QED
        BY <1>1, <1>2, <1>4, <2>1, <2>2, <3>1, <3>2, <3>3 DEF
             ActivationEffect
    <2> QED
      BY <2>5, <2>6
  <1> QED
    BY <1>3, <1>4

LEMMA ActivationFailing ==
    ASSUME IInv, NEW t \in Turns, ActivationInterrupted(t)
    PROVE  ActivationEffect(t)
  <1>1. /\ UNCHANGED <<log, last, finish, canceller, cancelReq, detached, submitted, crashes,
                        cancels, worker, nextToken>>
        /\ \A a \in AutoTurns : node'[a] = "pending" => node[a] = "pending"
        /\ InMemory(t)
    BY DEF ActivationInterrupted, agentkit, bounds, IInv, TypeOK
  <1>2. /\ rows \in [Turns -> Row] /\ nextId \in Nat /\ InShape(rows, nextId)
        /\ nextToken \in Nat \ {0} /\ active \in Slots /\ queue \in Seq(Turns)
    BY RecordTypes DEF IInv, TypeOK, RowsInv
  <1>3. CASE UNCHANGED <<rows, nextId, memory>>
    BY <1>1, <1>2, <1>3 DEF ActivationEffect, memory
  <1>4. CASE /\ rows' = ActivationRows(t)
             /\ nextId' = IF rows[t].state = "absent" THEN nextId + 1 ELSE nextId
             /\ IF Promotable(t)
                THEN active' = Prepared(t) /\ queue' = Tail(queue)
                ELSE UNCHANGED memory
    <2>1. /\ rows' \in [Turns -> Row] /\ nextId' \in Nat /\ InShape(rows', nextId')
          /\ Present(rows') = Present(rows) \union {t}
          /\ \A u \in Present(rows) : rows'[u] = rows[u]
      BY <1>1, <1>4, ActivationShape
    <2>2. \A u \in Turns, k \in Nat : OwnsClaim(rows, u, k) => OwnsClaim(rows', u, k)
      BY <2>1, OwnersStay
    <2>3. Promotable(t) => active.turn = NoTurn /\ ~active.submitted
      BY NoTurnAssumption DEF Promotable, IInv, BusyInv
    <2>4. UNCHANGED <<active, queue, worker>> \/ TurnIsTaken(t)
      <3>1. Prepared(t) \in Slots /\ Prepared(t).turn = t /\ ~Prepared(t).submitted
            /\ Prepared(t).cancel = "none"
        BY RecordTypes DEF Prepared, NoActive
      <3> QED
        BY <1>1, <1>4, <2>3, <3>1 DEF TurnIsTaken, Promotable, memory
    <2> QED
      BY <1>1, <1>2, <2>1, <2>2, <2>4 DEF ActivationEffect
  <1> QED
    BY <1>3, <1>4 DEF ActivationInterrupted

LEMMA ActivationKeeps ==
    ASSUME IInv, NEW t \in Turns, ActivationEffect(t)
    PROVE  /\ RowsInv' /\ BusyInv' /\ WaitsInv' /\ QueueInv' /\ NewInv'
           /\ QuietInv' /\ DetachedInv' /\ WaitingInv' /\ OwnsInv' /\ OrderInv'
           /\ queue' \in Seq(Turns) /\ active' \in Slots /\ worker' \in [Turns -> WorkerPlaces]
  <1>1. /\ queue \in Seq(Turns) /\ active \in Slots /\ NoRepeats(queue) /\ active.turn \notin In(queue)
        /\ worker \in [Turns -> WorkerPlaces]
    BY RecordTypes DEF IInv, TypeOK, QueueInv, WorkerPlaces
  <1>2. TurnIsTaken(t) => /\ Waits(t) /\ t \in submitted /\ finish.turn = NoTurn
                         /\ \A u \in Turns : worker[u] \in {"none", "returning"}
    <2>1. ASSUME TurnIsTaken(t)
          PROVE  Waits(t)
      BY <2>1, <1>1, QueueMoves DEF TurnIsTaken, Waits, PreparedActive
    <2>2. ASSUME TurnIsTaken(t)
          PROVE  \A u \in Turns : worker[u] \in {"none", "returning"}
      BY <2>2 DEF TurnIsTaken, IInv, BusyInv
    <2>3. ASSUME TurnIsTaken(t)
          PROVE  finish.turn = NoTurn
      BY <2>2, <2>3 DEF IInv, BusyInv, TypeOK
    <2> QED
      BY <2>1, <2>2, <2>3 DEF Waits, PreparedActive, IInv, NewInv
  <1>3. /\ queue' \in Seq(Turns) /\ NoRepeats(queue') /\ In(queue') \subseteq In(queue)
        /\ TurnIsTaken(t) => t \notin In(queue') /\ In(queue) \union InHand = In(queue') \union {t}
    <2>1. CASE UNCHANGED queue /\ (TurnIsTaken(t) => active.turn = t)
      <3>1. TurnIsTaken(t) => InHand = {t}
        BY <2>1, NoTurnAssumption DEF InHand
      <3> QED
        BY <1>1, <2>1, <3>1
    <2>2. CASE active.turn = NoTurn /\ queue # <<>> /\ Head(queue) = t /\ queue' = Tail(queue)
      <3>1. InHand = {}
        BY <2>2 DEF InHand
      <3> QED
        BY <1>1, <2>2, <3>1, QueueMoves
    <2> QED
      BY <2>1, <2>2 DEF ActivationEffect, TurnIsTaken
  <1>4. active' \in Slots
    BY <1>1 DEF ActivationEffect, TurnIsTaken
  <1>5. worker' \in [Turns -> WorkerPlaces]
    BY <1>1 DEF ActivationEffect, TurnIsTaken, WorkerPlaces
  <1>6. RowsInv'
    <2>1. InMemory(t) => t \in submitted
      BY InMemoryIn DEF IInv, NewInv
    <2> QED
      BY <2>1 DEF ActivationEffect, IInv, RowsInv
  <1>7. BusyInv'
    BY <1>2, NoTurnAssumption DEF ActivationEffect, TurnIsTaken, IInv,
         BusyInv, TypeOK
  <1>8. WaitsInv'
    <2>1. ASSUME NEW u \in Turns, Waits(u)'
          PROVE  Waits(u) /\ worker'[u] = worker[u]
      <3>1. CASE UNCHANGED <<active, queue, worker>>
        BY <3>1, <2>1 DEF Waits, PreparedActive
      <3>2. CASE TurnIsTaken(t)
        <4>1. u \in In(queue') \/ (u = t /\ ~active'.submitted)
          BY <2>1, <3>2 DEF Waits, PreparedActive, TurnIsTaken
        <4>2. Waits(u)
          BY <4>1, <3>2, <1>2, <1>3 DEF Waits
        <4> QED
          BY <4>1, <4>2, <3>2, <1>3, <1>1 DEF TurnIsTaken
      <3> QED
        BY <3>1, <3>2 DEF ActivationEffect
    <2> QED
      BY <2>1 DEF ActivationEffect, IInv, WaitsInv, WaitingInCheckpoint
  <1>9. QueueInv'
    BY <1>1, <1>3 DEF ActivationEffect, QueueInv, TurnIsTaken
  <1>10. NewInv'
    BY <1>1, <1>2, <1>3 DEF ActivationEffect, TurnIsTaken, IInv, NewInv,
         NoCancel
  <1>11. QuietInv'
    BY DEF ActivationEffect, TurnIsTaken, IInv, QuietInv, NoCancels,
         NoDeadline, NoCancel
  <1>12. DetachedInv'
    <2>1. TurnIsTaken(t) => t \notin detached
      BY <1>2 DEF IInv, WaitsInv
    <2> QED
      BY <2>1, <1>1 DEF ActivationEffect, TurnIsTaken, IInv, DetachedInv,
           NoCancels, NoDeadline, TypeOK
  <1>13. WaitingInv'
    <2>1. (NoCancels /\ NoDeadline) /\ ~active.submitted => \A u \in Turns : log[u] # "waiting"
      BY DEF IInv, WaitingInv
    <2> QED
      BY <2>1 DEF ActivationEffect, TurnIsTaken, IInv, WaitingInv, NoCancels,
           NoDeadline
  <1>14. OwnsInv'
    <2>1. active.submitted => active.turn \in Turns /\ active.token \in Nat
      BY DEF IInv, BusyInv, TypeOK
    <2> QED
      BY <2>1 DEF ActivationEffect, TurnIsTaken, IInv, OwnsInv,
           ActiveOwnsItsRow, Steady, NoCancels, NoDeadline
  <1>15. OrderInv'
    <2> SUFFICES ASSUME UserOnly
                 PROVE  /\ In(queue') \union InHand' = Present(rows')
                        /\ ById(queue', rows')
                        /\ \A v \in InHand', u \in In(queue') : rows'[v].id < rows'[u].id
      BY DEF OrderInv, UserOnly, Steady, NoCancels, NoDeadline
    <2>1. /\ In(queue) \union InHand = Present(rows) /\ ById(queue, rows)
          /\ \A v \in InHand, u \in In(queue) : rows[v].id < rows[u].id
      BY DEF IInv, OrderInv
    <2>2. Present(rows') = Present(rows)
      BY <2>1, InMemoryIn, NoTurnAssumption DEF ActivationEffect, InHand
    <2>3. ById(queue, rows')
      BY <2>1, SameIds DEF ActivationEffect
    <2>4. CASE UNCHANGED <<active, queue, worker>>
      <3>1. InHand' = InHand
        BY <2>4 DEF InHand
      <3> QED
        BY <3>1, <2>1, <2>2, <2>3, <2>4 DEF ActivationEffect
    <2>5. CASE TurnIsTaken(t)
      <3>1. InHand' = {t}
        BY <2>5, NoTurnAssumption DEF InHand, TurnIsTaken
      <3>2. /\ ById(queue', rows')
            /\ \A u \in In(queue') : rows'[t].id < rows'[u].id
        <4>1. CASE active.turn = t /\ queue' = queue
          <5>1. t \in InHand
            BY <4>1, NoTurnAssumption DEF InHand
          <5> QED
            BY <4>1, <5>1, <2>1, <2>3 DEF ActivationEffect
        <4>2. CASE queue # <<>> /\ Head(queue) = t /\ queue' = Tail(queue)
          BY <4>2, <2>3, <1>1, QueueMoves
        <4> QED
          BY <4>1, <4>2, <2>5 DEF TurnIsTaken
      <3> QED
        BY <3>1, <3>2, <2>1, <2>2, <2>5, <1>3
    <2> QED
      BY <2>4, <2>5 DEF ActivationEffect
  <1> QED
    BY <1>3, <1>4, <1>5, <1>6, <1>7, <1>8, <1>9, <1>10, <1>11, <1>12, <1>13,
         <1>14, <1>15

LEMMA ActivateTurnWorkerKeeps ==
    ASSUME NEW t \in Turns, IInv, ActivateTurnWorker(t)
    PROVE  IInv'
  <1>1. TypeOK'
    <2>1. /\ queue' \in Seq(Turns) /\ active' \in Slots /\ worker' \in [Turns -> WorkerPlaces]
          /\ ActivationEffect(t)
      BY Activating, ActivationKeeps
    <2>2. node' \in [AutoTurns -> {"pending", "running", "waiting", "aborting"} \union {"succeeded", "failed", "cancelled", "orphaned"}]
      BY DEF ActivateTurnWorker, IInv, TypeOK
    <2>3. starting' \subseteq Turns
      BY DEF ActivateTurnWorker, IInv, TypeOK
    <2> QED
      BY <2>1, <2>2, <2>3 DEF ActivationEffect, IInv, TypeOK, Slots,
           WorkerPlaces
  <1>2. RowsInv'
    BY Activating, ActivationKeeps
  <1>3. BusyInv'
    BY Activating, ActivationKeeps
  <1>4. WaitsInv'
    BY Activating, ActivationKeeps
  <1>5. QueueInv'
    BY Activating, ActivationKeeps
  <1>6. NewInv'
    BY Activating, ActivationKeeps
  <1>7. QuietInv'
    BY Activating, ActivationKeeps
  <1>8. DetachedInv'
    BY Activating, ActivationKeeps
  <1>9. WaitingInv'
    BY Activating, ActivationKeeps
  <1>10. OwnsInv'
    BY Activating, ActivationKeeps
  <1>11. OrderInv'
    BY Activating, ActivationKeeps
  <1> QED
    BY <1>1, <1>2, <1>3, <1>4, <1>5, <1>6, <1>7, <1>8, <1>9, <1>10, <1>11 DEF
         IInv

LEMMA ActivationInterruptedKeeps ==
    ASSUME NEW t \in Turns, IInv, ActivationInterrupted(t)
    PROVE  IInv'
  <1>1. TypeOK'
    <2>1. /\ queue' \in Seq(Turns) /\ active' \in Slots /\ worker' \in [Turns -> WorkerPlaces]
          /\ ActivationEffect(t)
      BY ActivationFailing, ActivationKeeps
    <2>2. node' \in [AutoTurns -> {"pending", "running", "waiting", "aborting"} \union {"succeeded", "failed", "cancelled", "orphaned"}]
      BY DEF ActivationInterrupted, IInv, TypeOK
    <2>3. starting' \subseteq Turns
      BY DEF ActivationInterrupted, IInv, TypeOK
    <2> QED
      BY <2>1, <2>2, <2>3 DEF ActivationEffect, IInv, TypeOK, Slots,
           WorkerPlaces
  <1>2. RowsInv'
    BY ActivationFailing, ActivationKeeps
  <1>3. BusyInv'
    BY ActivationFailing, ActivationKeeps
  <1>4. WaitsInv'
    BY ActivationFailing, ActivationKeeps
  <1>5. QueueInv'
    BY ActivationFailing, ActivationKeeps
  <1>6. NewInv'
    BY ActivationFailing, ActivationKeeps
  <1>7. QuietInv'
    BY ActivationFailing, ActivationKeeps
  <1>8. DetachedInv'
    BY ActivationFailing, ActivationKeeps
  <1>9. WaitingInv'
    BY ActivationFailing, ActivationKeeps
  <1>10. OwnsInv'
    BY ActivationFailing, ActivationKeeps
  <1>11. OrderInv'
    BY ActivationFailing, ActivationKeeps
  <1> QED
    BY <1>1, <1>2, <1>3, <1>4, <1>5, <1>6, <1>7, <1>8, <1>9, <1>10, <1>11 DEF
         IInv

\* The thread inside finish_turn has the active turn.
LEMMA Finisher ==
    ASSUME IInv, finish.turn # NoTurn
    PROVE  /\ finish.turn \in Turns /\ worker[finish.turn] = "finishing"
           /\ active.turn = finish.turn /\ active.submitted
           /\ InHand = {finish.turn}
           /\ \A u \in Turns \ {finish.turn} : worker[u] \in {"none", "returning"}
           /\ NoTurn \notin In(queue) /\ queue \in Seq(Turns) /\ NoRepeats(queue)
  <1>1. /\ finish.turn \in Turns /\ worker[finish.turn] = "finishing"
        /\ active.turn = finish.turn /\ active.submitted
    BY DEF IInv, TypeOK, BusyInv
  <1>2. InHand = {finish.turn}
    BY <1>1, NoTurnAssumption DEF InHand
  <1>3. \A u \in Turns \ {finish.turn} : worker[u] \in {"none", "returning"}
    BY <1>1 DEF IInv, BusyInv
  <1>4. NoTurn \notin In(queue) /\ queue \in Seq(Turns) /\ NoRepeats(queue)
    BY EmptyQueue, NoTurnAssumption DEF IInv, TypeOK, QueueInv
  <1> QED
    BY <1>1, <1>2, <1>3, <1>4

\* The slot is emptied: what the end of a turn does unless the next one is
\* handed to a worker.
SlotEmptied ==
    /\ finish.turn # NoTurn
    /\ rows' \in [Turns -> Row] /\ nextToken' \in Nat \ {0} /\ nextId' = nextId
    /\ InShape(rows', nextId') /\ Present(rows') \subseteq Present(rows)
    /\ active' = NoActive /\ queue' \in {queue, <<>>}
    /\ worker' = [worker EXCEPT ![finish.turn] = "none"]
    /\ finish' = NoFinish
    /\ UNCHANGED <<log, last, node, starting, canceller, cancelReq, detached, submitted,
                   crashes, cancels>>

LEMMA EmptyingKeeps ==
    ASSUME IInv, SlotEmptied
    PROVE  /\ TypeOK' /\ RowsInv' /\ BusyInv' /\ WaitsInv' /\ QueueInv' /\ NewInv'
           /\ QuietInv' /\ DetachedInv' /\ WaitingInv' /\ OwnsInv'
  <1>1. /\ finish.turn \in Turns /\ worker[finish.turn] = "finishing"
        /\ active.turn = finish.turn /\ active.submitted
        /\ \A u \in Turns \ {finish.turn} : worker[u] \in {"none", "returning"}
        /\ NoTurn \notin In(queue) /\ queue \in Seq(Turns) /\ NoRepeats(queue)
    BY Finisher DEF SlotEmptied
  <1>2. worker' \in [Turns -> WorkerPlaces] /\ \A u \in Turns : worker'[u] \in {"none", "returning"}
    BY <1>1 DEF SlotEmptied, IInv, TypeOK, WorkerPlaces
  <1>3. queue' \in Seq(Turns) /\ In(queue') \subseteq In(queue) /\ NoRepeats(queue')
    BY <1>1, EmptyQueue DEF SlotEmptied
  <1>4. TypeOK'
    <2>1. active' \in Slots /\ finish' \in Finishes
      BY RecordTypes DEF SlotEmptied
    <2> QED
      BY <1>2, <1>3, <2>1 DEF SlotEmptied, IInv, TypeOK, Slots, Finishes,
           WorkerPlaces
  <1>5. RowsInv'
    BY DEF SlotEmptied, IInv, RowsInv
  <1>6. BusyInv'
    BY <1>2 DEF SlotEmptied, BusyInv, NoActive, NoFinish
  <1>7. WaitsInv'
    <2>1. ASSUME NEW u \in Turns, Waits(u)'
          PROVE  Waits(u) /\ worker'[u] = "none"
      <3>1. u \in In(queue)
        BY <2>1, <1>3, NoTurnAssumption DEF Waits, PreparedActive,
             SlotEmptied, NoActive
      <3>2. Waits(u) /\ u # finish.turn
        BY <3>1, <1>1 DEF Waits, IInv, QueueInv
      <3> QED
        BY <3>2, <1>1 DEF SlotEmptied, IInv, WaitsInv, TypeOK
    <2> QED
      BY <2>1 DEF SlotEmptied, IInv, WaitsInv, WaitingInCheckpoint
  <1>8. QueueInv'
    BY <1>1, <1>3 DEF SlotEmptied, QueueInv, NoActive
  <1>9. NewInv'
    <2>1. \A u \in Turns : worker[u] = "none" => worker'[u] = "none"
      BY <1>1 DEF SlotEmptied, IInv, TypeOK
    <2> QED
      BY <2>1, <1>3, NoTurnAssumption DEF SlotEmptied, IInv, NewInv,
           NoActive, NoCancel
  <1>10. QuietInv'
    BY DEF SlotEmptied, IInv, QuietInv, NoActive, NoFinish, NoCancel,
         NoCancels, NoDeadline
  <1>11. DetachedInv'
    BY <1>2 DEF SlotEmptied, IInv, DetachedInv, NoCancels, NoDeadline, TypeOK
  <1>12. WaitingInv'
    <2>1. NoCancels /\ NoDeadline => \A u \in Turns : log[u] # "waiting"
      BY <1>1 DEF IInv, WaitingInv
    <2> QED
      BY <2>1 DEF SlotEmptied, WaitingInv, NoCancels, NoDeadline
  <1>13. OwnsInv'
    BY DEF SlotEmptied, OwnsInv, ActiveOwnsItsRow, NoActive
  <1> QED
    BY <1>4, <1>5, <1>6, <1>7, <1>8, <1>9, <1>10, <1>11, <1>12, <1>13

LEMMA Cancelling ==
    ASSUME IInv, FinishCancelled
    PROVE  SlotEmptied
  <1>1. /\ finish.turn # NoTurn /\ active' = NoActive /\ finish' = NoFinish
        /\ worker' = [worker EXCEPT ![finish.turn] = "none"]
        /\ UNCHANGED <<nextId, nextToken, log, last, node, starting, canceller, cancelReq,
                       detached, submitted, crashes, cancels>>
    BY DEF FinishCancelled, Finishing, Finished, At, agentkit, bounds
  <1>2. /\ rows \in [Turns -> Row] /\ nextId \in Nat /\ InShape(rows, nextId)
        /\ nextToken \in Nat \ {0}
    BY DEF IInv, TypeOK, RowsInv
  <1>3. CASE rows' = Without(rows, Turns) /\ queue' = <<>>
    <2>1. /\ rows' \in [Turns -> Row] /\ InShape(rows', nextId) /\ Present(rows') \subseteq Present(rows)
      BY <1>2, <1>3, Removing
    <2> QED
      BY <1>1, <1>2, <1>3, <2>1 DEF SlotEmptied
  <1>4. CASE UNCHANGED <<rows, queue>>
    BY <1>1, <1>2, <1>4 DEF SlotEmptied
  <1> QED
    BY <1>3, <1>4 DEF FinishCancelled

LEMMA CancellingInOrder ==
    ASSUME IInv, FinishCancelled
    PROVE  OrderInv'
  <1> SUFFICES ASSUME UserOnly
               PROVE  In(queue') \union InHand' = Present(rows') /\ ById(queue', rows') /\ InHand' = {}
    BY DEF OrderInv, UserOnly, Steady, NoCancels, NoDeadline
  <1>1. InHand' = {}
    BY DEF InHand, FinishCancelled, NoActive
  <1>2. OwnsClaim(rows, finish.turn, finish.token) /\ IsFirst(rows, finish.turn)
    BY OwnerAcknowledges DEF UserOnly, FinishCancelled, Finishing
  <1>3. ClearsTask(finish.turn, finish.token)
    <2>1. finish.turn \in Turns
      BY Finisher DEF FinishCancelled, Finishing
    <2>2. rows[finish.turn].state = "claimed" /\ rows[finish.turn].token # 0
      BY <1>2, <2>1 DEF OwnsClaim, IInv, RowsInv, InShape
    <2> QED
      BY <1>2, <2>2 DEF ClearsTask, OwnsClaim
  <1>4. rows' = Without(rows, Turns) /\ queue' = <<>>
    BY <1>3 DEF FinishCancelled, UserOnly
  <1>5. Present(rows') = {}
    BY <1>4 DEF Present, Without, Absent
  <1> QED
    BY <1>1, <1>4, <1>5, EmptyQueue

\* ack_and_claim_next: the rows that are left, and the first of them claimed.
LEMMA Acknowledging ==
    ASSUME IInv, NEW next \in Turns \union {NoTurn}, FinishAndActivateNext(next)
    PROVE  /\ finish.turn # NoTurn
           /\ rows' \in [Turns -> Row] /\ nextToken' \in Nat \ {0} /\ nextId' = nextId
           /\ InShape(rows', nextId') /\ Present(rows') \subseteq Present(rows)
           /\ \A u \in Present(rows') : rows'[u].id = rows[u].id
           /\ Steady => Present(rows') = Present(rows) \ {finish.turn}
           /\ next = NoTurn => Present(rows') = {}
           /\ next # NoTurn => /\ next \in Turns /\ next \in Present(rows')
                               /\ \A u \in Present(rows') : rows'[next].id <= rows'[u].id
                               /\ OwnsClaim(rows', next, nextToken)
  <1>1. finish.turn # NoTurn /\ nextId' = nextId /\ ClaimsFirst(Remaining, nextToken, rows', next)
        /\ nextToken' = IF next = NoTurn THEN nextToken ELSE nextToken + 1
    BY DEF FinishAndActivateNext, Finishing, Finished
  <1>2. /\ rows \in [Turns -> Row] /\ nextId \in Nat /\ InShape(rows, nextId)
        /\ nextToken \in Nat \ {0}
    BY DEF IInv, TypeOK, RowsInv
  <1> DEFINE r == Remaining
  <1>3. /\ r \in [Turns -> Row] /\ InShape(r, nextId) /\ Present(r) \subseteq Present(rows)
        /\ \A u \in Present(r) : r[u] = rows[u]
    <2>1. CASE finish.token = 0
      BY <1>2, <2>1 DEF Remaining
    <2>2. CASE finish.token # 0
      <3> DEFINE p == Without(rows, {finish.turn})
      <3>1. /\ p \in [Turns -> Row] /\ InShape(p, nextId)
            /\ Present(p) = Present(rows) \ {finish.turn}
            /\ \A u \in Turns \ {finish.turn} : p[u] = rows[u]
        BY <1>2, Removing
      <3>2. r = p
        BY <2>2 DEF Remaining
      <3>3. \A u \in Present(rows) : u \in Turns
        BY DEF Present
      <3> HIDE DEF p, r
      <3> QED
        BY <3>1, <3>2, <3>3
    <2> QED
      BY <2>1, <2>2
  <1>4. Steady => Present(r) = Present(rows) \ {finish.turn}
    <2>1. Steady => r = Without(rows, {finish.turn})
      BY <1>1, OwnerAcknowledges
    <2> QED
      BY <2>1, <1>2, Removing
  <1> HIDE DEF r
  <1>5. /\ rows' \in [Turns -> Row] /\ InShape(rows', nextId) /\ Present(rows') = Present(r)
        /\ \A u \in Turns : rows'[u].id = r[u].id
        /\ next = NoTurn => Present(r) = {}
        /\ next # NoTurn => next \in Turns /\ IsFirst(r, next) /\ OwnsClaim(rows', next, nextToken)
    BY <1>1, <1>2, <1>3, ClaimingNext DEF r
  <1>6. \A u \in Present(r) : u \in Turns
    BY DEF Present
  <1> QED
    BY <1>1, <1>2, <1>3, <1>4, <1>5, <1>6 DEF IsFirst

\* The next turn of the queue takes the slot and is handed to a worker.
NextTakesOver(t) ==
    /\ queue # <<>> /\ Head(queue) = t /\ queue' = Tail(queue)
    /\ active' = Owned(t, nextToken) /\ OwnsClaim(rows', t, nextToken)

LEMMA AcknowledgedOrNext ==
    ASSUME IInv, NEW next \in Turns \union {NoTurn}, FinishAndActivateNext(next)
    PROVE  \/ SlotEmptied /\ queue' = queue /\ (next = NoTurn \/ next # ExpectedNext)
           \/ /\ NextTakesOver(next) /\ next \in Turns /\ next # finish.turn
              /\ \E w \in {"claimed", "returning"} :
                    worker' = [worker EXCEPT ![finish.turn] = "none", ![next] = w]
              /\ finish' = NoFinish
              /\ UNCHANGED <<log, last, node, starting, canceller, cancelReq, detached,
                             submitted, crashes, cancels>>
  <1>1. /\ finish' = NoFinish
        /\ UNCHANGED <<log, last, node, starting, canceller, cancelReq, detached,
                       submitted, crashes, cancels>>
    BY DEF FinishAndActivateNext, Finished, agentkit, bounds
  <1>2. CASE /\ active' = NoActive /\ At(finish.turn, "none") /\ UNCHANGED queue
             /\ next = NoTurn \/ next # ExpectedNext
    BY <1>1, <1>2, Acknowledging DEF SlotEmptied, At
  <1>3. CASE /\ next = ExpectedNext /\ next # NoTurn
             /\ active' = Owned(next, nextToken) /\ queue' = Tail(queue)
             /\ \E w \in SubmittedWorker :
                   worker' = [worker EXCEPT ![finish.turn] = "none", ![next] = w]
    <2>1. queue # <<>> /\ Head(queue) = next
      BY <1>3 DEF ExpectedNext
    <2>2. next \in Turns /\ next # finish.turn
      <3>1. finish.turn # NoTurn
        BY Acknowledging
      <3>2. next \in In(queue)
        BY <2>1, <3>1, Finisher, QueueMoves
      <3> QED
        BY <1>3, <3>1, <3>2, Finisher DEF IInv, QueueInv
    <2>3. SubmittedWorker \subseteq {"claimed", "returning"}
      BY DEF SubmittedWorker
    <2>4. OwnsClaim(rows', next, nextToken)
      BY <1>3, Acknowledging
    <2> QED
      BY <1>1, <1>3, <2>1, <2>2, <2>3, <2>4 DEF NextTakesOver
  <1> QED
    BY <1>2, <1>3 DEF FinishAndActivateNext

LEMMA TakingOverKeeps ==
    ASSUME IInv, NEW next \in Turns \union {NoTurn}, FinishAndActivateNext(next),
           NextTakesOver(next), next \in Turns, next # finish.turn,
           \E w \in {"claimed", "returning"} :
              worker' = [worker EXCEPT ![finish.turn] = "none", ![next] = w],
           finish' = NoFinish,
           UNCHANGED <<log, last, node, starting, canceller, cancelReq, detached,
                       submitted, crashes, cancels>>
    PROVE  /\ TypeOK' /\ RowsInv' /\ BusyInv' /\ WaitsInv' /\ QueueInv' /\ NewInv'
           /\ QuietInv' /\ DetachedInv' /\ WaitingInv' /\ OwnsInv' /\ OrderInv'
  <1>0. finish.turn # NoTurn
    BY Acknowledging
  <1>1. /\ finish.turn \in Turns /\ worker[finish.turn] = "finishing"
        /\ active.turn = finish.turn /\ active.submitted
        /\ \A u \in Turns \ {finish.turn} : worker[u] \in {"none", "returning"}
        /\ queue \in Seq(Turns) /\ NoRepeats(queue)
    BY <1>0, Finisher
  <1>2. /\ queue' \in Seq(Turns) /\ NoRepeats(queue')
        /\ In(queue) = In(queue') \union {next} /\ next \notin In(queue') /\ next \in In(queue)
        /\ \A r : ById(queue, r) => /\ ById(queue', r)
                                    /\ \A u \in In(queue') : r[next].id < r[u].id
    BY <1>1, QueueMoves DEF NextTakesOver
  <1>3. /\ worker' \in [Turns -> WorkerPlaces]
        /\ worker'[finish.turn] = "none" /\ worker'[next] \in {"claimed", "returning"}
        /\ \A u \in Turns \ {finish.turn, next} : worker'[u] = worker[u]
    BY <1>1 DEF IInv, TypeOK, WorkerPlaces
  <1>4. active'.turn = next /\ active'.submitted /\ active'.token = nextToken
        /\ active'.cancel = "none" /\ active' \in Slots
    <2>1. nextToken \in Nat
      BY DEF IInv, TypeOK
    <2>2. active' \in Slots
      BY <2>1, RecordTypes DEF NextTakesOver
    <2> QED
      BY <2>2 DEF NextTakesOver, Owned, NoActive
  <1>5. Waits(next) /\ next \in submitted
    BY <1>2 DEF Waits, IInv, NewInv
  <1>6. TypeOK'
    <2>1. finish' \in Finishes /\ nextToken' \in Nat /\ nextId' \in Nat /\ rows' \in [Turns -> Row]
      BY Acknowledging, RecordTypes DEF IInv, TypeOK
    <2> QED
      BY <1>2, <1>3, <1>4, <2>1 DEF IInv, TypeOK, Slots, Finishes,
           WorkerPlaces
  <1>7. RowsInv'
    BY Acknowledging DEF IInv, RowsInv
  <1>8. BusyInv'
    BY <1>1, <1>3, <1>4, NoTurnAssumption DEF BusyInv, NoFinish
  <1>9. WaitsInv'
    <2>1. ASSUME NEW u \in Turns, Waits(u)'
          PROVE  Waits(u) /\ worker'[u] = worker[u]
      BY <2>1, <1>1, <1>2, <1>3, <1>4 DEF Waits, PreparedActive, IInv,
           QueueInv
    <2> QED
      BY <2>1 DEF IInv, WaitsInv, WaitingInCheckpoint
  <1>10. QueueInv'
    BY <1>2, <1>4 DEF QueueInv
  <1>11. NewInv'
    BY <1>1, <1>2, <1>3, <1>4, <1>5 DEF IInv, NewInv, NoCancel
  <1>12. QuietInv'
    BY <1>4 DEF IInv, QuietInv, NoFinish, NoCancel, NoCancels, NoDeadline
  <1>13. DetachedInv'
    BY <1>3, <1>5 DEF IInv, DetachedInv, WaitsInv, NoCancels, NoDeadline,
         TypeOK
  <1>14. WaitingInv'
    <2>1. NoCancels /\ NoDeadline => \A u \in Turns : log[u] # "waiting"
      BY <1>1 DEF IInv, WaitingInv
    <2> QED
      BY <2>1 DEF WaitingInv, NoCancels, NoDeadline
  <1>15. OwnsInv'
    BY <1>4 DEF OwnsInv, ActiveOwnsItsRow, NextTakesOver
  <1>16. OrderInv'
    <2> SUFFICES ASSUME UserOnly
                 PROVE  /\ In(queue') \union InHand' = Present(rows')
                        /\ ById(queue', rows')
                        /\ \A v \in InHand', u \in In(queue') : rows'[v].id < rows'[u].id
      BY DEF OrderInv, UserOnly, Steady, NoCancels, NoDeadline
    <2>1. /\ In(queue) \union {finish.turn} = Present(rows) /\ ById(queue, rows)
      BY <1>0, Finisher DEF IInv, OrderInv
    <2>2. /\ Present(rows') = Present(rows) \ {finish.turn}
          /\ \A u \in Present(rows') : rows'[u].id = rows[u].id
      BY Acknowledging DEF UserOnly
    <2>3. Present(rows') = In(queue)
      BY <2>1, <2>2, <1>1 DEF IInv, QueueInv
    <2>4. ById(queue, rows')
      BY <2>1, <2>2, <2>3, SameIds
    <2>5. InHand' = {next}
      BY <1>4, NoTurnAssumption DEF InHand
    <2> QED
      BY <2>3, <2>4, <2>5, <1>2
  <1> QED
    BY <1>6, <1>7, <1>8, <1>9, <1>10, <1>11, <1>12, <1>13, <1>14, <1>15,
         <1>16

\* In order, the slot is emptied only when no row is left.
LEMMA LastIsAcknowledged ==
    ASSUME IInv, NEW next \in Turns \union {NoTurn}, FinishAndActivateNext(next),
           SlotEmptied, queue' = queue, next = NoTurn \/ next # ExpectedNext, UserOnly
    PROVE  Present(rows') = {} /\ In(queue') = {} /\ ById(queue', rows')
  <1>1. /\ finish.turn # NoTurn /\ InHand = {finish.turn} /\ queue \in Seq(Turns)
        /\ finish.turn \notin In(queue) /\ active.turn = finish.turn
    BY Finisher DEF SlotEmptied, IInv, QueueInv
  <1>2. /\ In(queue) \union {finish.turn} = Present(rows) /\ ById(queue, rows)
    BY <1>1 DEF IInv, OrderInv
  <1>3. /\ Present(rows') = In(queue)
        /\ \A u \in Present(rows') : rows'[u].id = rows[u].id
    BY <1>1, <1>2, Acknowledging DEF UserOnly
  <1>4. ById(queue, rows')
    BY <1>2, <1>3, SameIds
  <1>5. next = NoTurn
    <2> SUFFICES ASSUME next # NoTurn
                 PROVE  FALSE
      OBVIOUS
    <2>1. /\ next \in Turns /\ next \in In(queue)
          /\ \A u \in In(queue) : rows'[next].id <= rows'[u].id
      BY <1>3, Acknowledging
    <2>2. queue # <<>> /\ next # Head(queue)
      BY <2>1, EmptyQueue DEF ExpectedNext
    <2>3. Head(queue) \in In(queue) /\ next \in In(Tail(queue)) /\ rows'[Head(queue)].id < rows'[next].id
      BY <2>1, <2>2, <1>1, <1>4, QueueMoves
    <2>4. rows'[next].id \in Nat /\ rows'[Head(queue)].id \in Nat
      BY <2>1, <2>2, <1>1, QueueMoves, Acknowledging DEF Row
    <2> QED
      BY <2>1, <2>3, <2>4
  <1>6. Present(rows') = {}
    BY <1>5, Acknowledging
  <1> QED
    BY <1>3, <1>4, <1>6

LEMMA EmptyingInOrder ==
    ASSUME IInv, NEW next \in Turns \union {NoTurn}, FinishAndActivateNext(next),
           SlotEmptied, queue' = queue, next = NoTurn \/ next # ExpectedNext
    PROVE  OrderInv'
  <1> SUFFICES ASSUME UserOnly
               PROVE  In(queue') \union InHand' = Present(rows') /\ ById(queue', rows') /\ InHand' = {}
    BY DEF OrderInv, UserOnly, Steady, NoCancels, NoDeadline
  <1>1. InHand' = {}
    BY DEF InHand, SlotEmptied, NoActive
  <1> QED
    BY <1>1, LastIsAcknowledged

LEMMA FinishCancelledKeeps ==
    ASSUME IInv, FinishCancelled
    PROVE  IInv'
  <1>1. TypeOK'
    BY Cancelling, EmptyingKeeps
  <1>2. RowsInv'
    BY Cancelling, EmptyingKeeps
  <1>3. BusyInv'
    BY Cancelling, EmptyingKeeps
  <1>4. WaitsInv'
    BY Cancelling, EmptyingKeeps
  <1>5. QueueInv'
    BY Cancelling, EmptyingKeeps
  <1>6. NewInv'
    BY Cancelling, EmptyingKeeps
  <1>7. QuietInv'
    BY Cancelling, EmptyingKeeps
  <1>8. DetachedInv'
    BY Cancelling, EmptyingKeeps
  <1>9. WaitingInv'
    BY Cancelling, EmptyingKeeps
  <1>10. OwnsInv'
    BY Cancelling, EmptyingKeeps
  <1>11. OrderInv'
    BY CancellingInOrder
  <1> QED
    BY <1>1, <1>2, <1>3, <1>4, <1>5, <1>6, <1>7, <1>8, <1>9, <1>10, <1>11 DEF
         IInv

LEMMA FinishAndActivateNextKeeps ==
    ASSUME NEW next \in Turns \union {NoTurn}, IInv, FinishAndActivateNext(next)
    PROVE  IInv'
  <1>1. TypeOK'
    BY AcknowledgedOrNext, EmptyingKeeps, TakingOverKeeps
  <1>2. RowsInv'
    BY AcknowledgedOrNext, EmptyingKeeps, TakingOverKeeps
  <1>3. BusyInv'
    BY AcknowledgedOrNext, EmptyingKeeps, TakingOverKeeps
  <1>4. WaitsInv'
    BY AcknowledgedOrNext, EmptyingKeeps, TakingOverKeeps
  <1>5. QueueInv'
    BY AcknowledgedOrNext, EmptyingKeeps, TakingOverKeeps
  <1>6. NewInv'
    BY AcknowledgedOrNext, EmptyingKeeps, TakingOverKeeps
  <1>7. QuietInv'
    BY AcknowledgedOrNext, EmptyingKeeps, TakingOverKeeps
  <1>8. DetachedInv'
    BY AcknowledgedOrNext, EmptyingKeeps, TakingOverKeeps
  <1>9. WaitingInv'
    BY AcknowledgedOrNext, EmptyingKeeps, TakingOverKeeps
  <1>10. OwnsInv'
    BY AcknowledgedOrNext, EmptyingKeeps, TakingOverKeeps
  <1>11. OrderInv'
    BY AcknowledgedOrNext, EmptyingInOrder, TakingOverKeeps
  <1> QED
    BY <1>1, <1>2, <1>3, <1>4, <1>5, <1>6, <1>7, <1>8, <1>9, <1>10, <1>11 DEF
         IInv

\* What discarding a turn may do: its row goes, and so does the turn; if it
\* was prepared, the first turn of the queue takes the slot, with a worker or
\* without.
HeadTakesOver ==
    /\ queue # <<>> /\ queue' = Tail(queue)
    /\ active' \in Slots /\ active'.turn = Head(queue) /\ active'.cancel = "none"
    /\ \/ ~active'.submitted /\ worker' = worker
       \/ /\ active'.submitted /\ OwnsClaim(rows', Head(queue), active'.token)
          /\ \E w \in {"claimed", "returning"} : worker' = [worker EXCEPT ![Head(queue)] = w]

DiscardEffect(t) ==
    /\ rows' \in [Turns -> Row] /\ nextToken' \in Nat \ {0}
    /\ InShape(rows', nextId) /\ Present(rows') \subseteq Present(rows)
    /\ \/ /\ UNCHANGED <<active, worker>>
          /\ queue' \in Seq(Turns) /\ NoRepeats(queue') /\ In(queue') \subseteq In(queue)
          /\ \A u \in Turns, k \in Nat : OwnsClaim(rows, u, k) => OwnsClaim(rows', u, k)
       \/ /\ PreparedActive(t)
          /\ \/ queue' = queue /\ queue = <<>> /\ active' = NoActive /\ worker' = worker
             \/ HeadTakesOver

LEMMA NothingDiscarded ==
    ASSUME IInv, NEW t \in Turns, UNCHANGED <<rows, nextToken, active, queue, worker>>
    PROVE  DiscardEffect(t)
  BY DEF DiscardEffect, IInv, TypeOK, RowsInv, QueueInv

LEMMA Discarding ==
    ASSUME IInv, NEW t \in Turns, Discard(t)
    PROVE  DiscardEffect(t)
  <1>1. /\ rows \in [Turns -> Row] /\ nextId \in Nat /\ InShape(rows, nextId)
        /\ nextToken \in Nat \ {0} /\ queue \in Seq(Turns) /\ NoRepeats(queue)
    BY DEF IInv, TypeOK, RowsInv, QueueInv
  <1> DEFINE r == Without(rows, {t})
  <1>2. /\ r \in [Turns -> Row] /\ InShape(r, nextId) /\ Present(r) = Present(rows) \ {t}
        /\ \A u \in Turns \ {t} : r[u] = rows[u]
    BY <1>1, Removing
  <1>3. CASE DiscardFails(t)
    BY <1>3, NothingDiscarded DEF Discard, memory
  <1>4. CASE ~DiscardFails(t) /\ PreparedActive(t)
    <2> HIDE DEF r
    <2>1. PICK next \in Turns \union {NoTurn} :
             /\ ClaimsFirst(r, nextToken, rows', next)
             /\ nextToken' = IF next = NoTurn THEN nextToken ELSE nextToken + 1
             /\ queue' = IF queue = <<>> THEN queue ELSE Tail(queue)
             /\ IF next = ExpectedNext /\ next # NoTurn
                THEN /\ active' = Owned(next, nextToken)
                     /\ \E w \in SubmittedWorker : At(next, w)
                ELSE /\ active' = IF queue = <<>> THEN NoActive ELSE Prepared(Head(queue))
                     /\ UNCHANGED worker
      BY <1>4 DEF Discard, r
    <2>2. /\ rows' \in [Turns -> Row] /\ InShape(rows', nextId) /\ Present(rows') = Present(r)
          /\ next # NoTurn => next \in Turns /\ OwnsClaim(rows', next, nextToken)
      BY <1>1, <1>2, <2>1, ClaimingNext
    <2>3. nextToken' \in Nat \ {0}
      BY <1>1, <2>1
    <2>4. CASE next = ExpectedNext /\ next # NoTurn
      <3>1. queue # <<>> /\ Head(queue) = next
        BY <2>4 DEF ExpectedNext
      <3>2. Owned(next, nextToken) \in Slots
        BY <1>1, <2>2, <2>4, RecordTypes
      <3>3. SubmittedWorker \subseteq {"claimed", "returning"}
        BY DEF SubmittedWorker
      <3>4. HeadTakesOver
        BY <2>1, <2>2, <2>4, <3>1, <3>2, <3>3 DEF HeadTakesOver, Owned,
             NoActive, At
      <3> QED
        BY <1>2, <1>4, <2>2, <2>3, <3>4 DEF DiscardEffect
    <2>5. CASE ~(next = ExpectedNext /\ next # NoTurn) /\ queue = <<>>
      BY <1>2, <1>4, <2>1, <2>2, <2>3, <2>5 DEF DiscardEffect
    <2>6. CASE ~(next = ExpectedNext /\ next # NoTurn) /\ queue # <<>>
      <3>1. Prepared(Head(queue)) \in Slots
        BY <1>1, <2>6, QueueMoves, RecordTypes
      <3>2. HeadTakesOver
        BY <2>1, <2>6, <3>1 DEF HeadTakesOver, Prepared, NoActive
      <3> QED
        BY <1>2, <1>4, <2>2, <2>3, <3>2 DEF DiscardEffect
    <2> QED
      BY <2>4, <2>5, <2>6
  <1>5. CASE ~DiscardFails(t) /\ ~PreparedActive(t)
    <2>1. /\ rows' = r /\ queue' = Dequeued(t) /\ UNCHANGED <<nextToken, active, worker>>
      BY <1>5 DEF Discard
    <2>2. rows[t].state # "claimed"
      BY <1>5 DEF DiscardFails
    <2> HIDE DEF r
    <2>3. \A u \in Turns, k \in Nat : OwnsClaim(rows, u, k) => OwnsClaim(rows', u, k)
      BY <1>2, <2>1, <2>2 DEF OwnsClaim
    <2>4. /\ queue' \in Seq(Turns) /\ NoRepeats(queue') /\ In(queue') \subseteq In(queue)
      BY <1>1, <2>1, QueueShrinks
    <2> QED
      BY <1>1, <1>2, <2>1, <2>3, <2>4 DEF DiscardEffect
  <1> QED
    BY <1>3, <1>4, <1>5

LEMMA DiscardKeeps ==
    ASSUME IInv, NEW t \in AutoTurns, DiscardEffect(t),
           UNCHANGED <<nextId, log, last, finish, canceller, cancelReq, detached, submitted>>,
           \A a \in AutoTurns : node'[a] = "pending" => node[a] = "pending"
    PROVE  /\ RowsInv' /\ BusyInv' /\ WaitsInv' /\ QueueInv' /\ NewInv'
           /\ QuietInv' /\ DetachedInv' /\ WaitingInv' /\ OwnsInv' /\ OrderInv'
           /\ queue' \in Seq(Turns) /\ active' \in Slots /\ worker' \in [Turns -> WorkerPlaces]
           /\ rows' \in [Turns -> Row] /\ nextToken' \in Nat
  <1>1. /\ queue \in Seq(Turns) /\ active \in Slots /\ NoRepeats(queue)
        /\ worker \in [Turns -> WorkerPlaces] /\ active.turn \notin In(queue)
        /\ NoTurn \notin In(queue)
    BY RecordTypes, EmptyQueue, NoTurnAssumption DEF IInv, TypeOK, QueueInv,
         WorkerPlaces
  <1> DEFINE same == /\ UNCHANGED <<active, worker>>
                     /\ queue' \in Seq(Turns) /\ NoRepeats(queue') /\ In(queue') \subseteq In(queue)
                     /\ \A u \in Turns, k \in Nat : OwnsClaim(rows, u, k) => OwnsClaim(rows', u, k)
             gone == queue' = queue /\ queue = <<>> /\ active' = NoActive /\ worker' = worker
             h == Head(queue)
  <1>2. \/ same
        \/ PreparedActive(t) /\ gone
        \/ PreparedActive(t) /\ HeadTakesOver
    BY DEF DiscardEffect
  <1>3. PreparedActive(t) => /\ ~active.submitted /\ finish.turn = NoTurn
                            /\ \A u \in Turns : worker[u] \in {"none", "returning"}
    <2> SUFFICES ASSUME PreparedActive(t)
                 PROVE  /\ ~active.submitted /\ finish.turn = NoTurn
                        /\ \A u \in Turns : worker[u] \in {"none", "returning"}
      OBVIOUS
    <2>1. ~active.submitted /\ \A u \in Turns : worker[u] \in {"none", "returning"}
      BY DEF PreparedActive, IInv, BusyInv
    <2> QED
      BY <2>1 DEF IInv, BusyInv, TypeOK
  <1>4. HeadTakesOver => /\ queue' \in Seq(Turns) /\ NoRepeats(queue') /\ h \in Turns
                        /\ In(queue) = In(queue') \union {h} /\ h \notin In(queue')
                        /\ h \in In(queue) /\ Waits(h) /\ h \in submitted
    <2> SUFFICES ASSUME HeadTakesOver
                 PROVE  /\ queue' \in Seq(Turns) /\ NoRepeats(queue') /\ h \in Turns
                        /\ In(queue) = In(queue') \union {h} /\ h \notin In(queue')
                        /\ h \in In(queue) /\ Waits(h) /\ h \in submitted
      OBVIOUS
    <2>1. /\ queue' \in Seq(Turns) /\ NoRepeats(queue') /\ h \in Turns
          /\ In(queue) = In(queue') \union {h} /\ h \notin In(queue') /\ h \in In(queue)
      BY <1>1, QueueMoves DEF HeadTakesOver
    <2> HIDE DEF h
    <2> QED
      BY <2>1 DEF Waits, IInv, NewInv
  <1> HIDE DEF h
  <1>5. HeadTakesOver => /\ active'.turn = h /\ active'.cancel = "none"
                        /\ active' \in Slots
                        /\ \/ ~active'.submitted /\ worker' = worker
                           \/ /\ active'.submitted /\ OwnsClaim(rows', h, active'.token)
                              /\ \E w \in {"claimed", "returning"} : worker' = [worker EXCEPT ![h] = w]
    BY DEF HeadTakesOver, h
  <1>6. /\ queue' \in Seq(Turns) /\ NoRepeats(queue') /\ In(queue') \subseteq In(queue)
    BY <1>1, <1>2, <1>4
  <1>7. active' \in Slots
    BY <1>1, <1>2, <1>5, RecordTypes
  <1>8. worker' \in [Turns -> WorkerPlaces]
    BY <1>1, <1>2, <1>4, <1>5 DEF WorkerPlaces
  <1>9. RowsInv'
    BY DEF DiscardEffect, IInv, RowsInv
  <1>10. BusyInv'
    <2>1. CASE same
      BY <2>1 DEF IInv, BusyInv
    <2>2. CASE PreparedActive(t) /\ gone
      BY <2>2, <1>3 DEF BusyInv, NoActive
    <2>3. CASE PreparedActive(t) /\ HeadTakesOver
      BY <2>3, <1>1, <1>3, <1>4, <1>5, NoTurnAssumption DEF BusyInv
    <2> QED
      BY <1>2, <2>1, <2>2, <2>3
  <1>11. WaitsInv'
    <2>1. ASSUME NEW u \in Turns, Waits(u)'
          PROVE  Waits(u) /\ worker'[u] = worker[u]
      <3>1. CASE same
        BY <3>1, <2>1 DEF Waits, PreparedActive
      <3>2. CASE PreparedActive(t) /\ gone
        BY <3>2, <2>1, NoTurnAssumption DEF Waits, PreparedActive, NoActive
      <3>3. CASE PreparedActive(t) /\ HeadTakesOver
        <4>1. u \in In(queue') \/ (u = h /\ ~active'.submitted)
          BY <2>1, <3>3, <1>5 DEF Waits, PreparedActive
        <4>2. Waits(u)
          BY <4>1, <3>3, <1>4 DEF Waits
        <4> QED
          BY <4>1, <4>2, <3>3, <1>1, <1>4, <1>5
      <3> QED
        BY <1>2, <3>1, <3>2, <3>3
    <2> QED
      BY <2>1 DEF IInv, WaitsInv, WaitingInCheckpoint
  <1>12. QueueInv'
    BY <1>1, <1>2, <1>4, <1>5, <1>6 DEF QueueInv, NoActive
  <1>13. NewInv'
    <2>1. ASSUME NEW u \in Turns \ submitted
          PROVE  worker'[u] = worker[u] /\ (active'.turn = u => active.turn = u)
      BY <2>1, <1>1, <1>2, <1>4, <1>5, NoTurnAssumption DEF NoActive
    <2> QED
      BY <2>1, <1>6 DEF IInv, NewInv, NoCancel
  <1>14. QuietInv'
    <2>1. active'.cancel \in {"none", active.cancel}
      BY <1>2, <1>5 DEF NoActive
    <2> QED
      BY <2>1 DEF IInv, QuietInv, NoCancel, NoCancels, NoDeadline
  <1>15. DetachedInv'
    <2>1. \A u \in detached : worker'[u] = worker[u]
      BY <1>1, <1>2, <1>4, <1>5 DEF IInv, WaitsInv, TypeOK
    <2> QED
      BY <2>1 DEF IInv, DetachedInv, NoCancels, NoDeadline
  <1>16. WaitingInv'
    <2>1. (NoCancels /\ NoDeadline) /\ ~active.submitted => \A u \in Turns : log[u] # "waiting"
      BY DEF IInv, WaitingInv
    <2> QED
      BY <2>1, <1>2, <1>3 DEF IInv, WaitingInv, NoCancels, NoDeadline
  <1>17. OwnsInv'
    <2>1. active.submitted => active.turn \in Turns /\ active.token \in Nat
      BY DEF IInv, BusyInv, TypeOK
    <2> QED
      BY <2>1, <1>2, <1>5 DEF IInv, OwnsInv, ActiveOwnsItsRow, Steady,
           NoCancels, NoDeadline, NoActive
  <1>18. OrderInv'
    BY DEF OrderInv, UserOnly
  <1> QED
    BY <1>6, <1>7, <1>8, <1>9, <1>10, <1>11, <1>12, <1>13, <1>14, <1>15,
         <1>16, <1>17, <1>18
        DEF DiscardEffect

\* cancel_automation_run either discards a turn or asks a submitted one to
\* stop.
LEMMA CancelRunCases ==
    ASSUME IInv, NEW t \in AutoTurns, CancelRun(t)
    PROVE  /\ UNCHANGED <<nextId, log, last, starting, finish, cancelReq, detached, submitted,
                          crashes>>
           /\ cancels < MaxCancels /\ cancels' = cancels + 1
           /\ \A a \in AutoTurns : node'[a] = "pending" => node[a] = "pending"
           /\ \/ DiscardEffect(t) /\ canceller' = canceller
              \/ /\ active.turn = t /\ active.submitted
                 /\ active' = [active EXCEPT !.cancel = "automation"]
                 /\ canceller' = [turn |-> t, session |-> active.session, waiting |-> FALSE,
                                  stage |-> "snapshot", mode |-> "automation"]
                 /\ UNCHANGED <<rows, nextToken, queue, node, worker>>
  <1>1. /\ UNCHANGED <<nextId, log, last, starting, finish, cancelReq, detached, submitted,
                       crashes>>
        /\ cancels < MaxCancels /\ cancels' = cancels + 1
    BY DEF CancelRun, agentkit
  <1>2. t \in Turns
    BY TurnsAssumption
  <1>3. \A a \in AutoTurns : node'[a] = "pending" => node[a] = "pending"
    BY DEF CancelRun, IInv, TypeOK
  <1>4. \/ UNCHANGED <<rows, nextToken, memory, worker, canceller>>
        \/ Discard(t) /\ UNCHANGED canceller
        \/ /\ active.turn = t /\ active.submitted
           /\ active' = [active EXCEPT !.cancel = "automation"]
           /\ canceller' = [turn |-> t, session |-> active.session, waiting |-> FALSE,
                            stage |-> "snapshot", mode |-> "automation"]
           /\ UNCHANGED <<rows, nextToken, queue, node, worker>>
    BY DEF CancelRun
  <1> QED
    BY <1>1, <1>2, <1>3, <1>4, NothingDiscarded, Discarding DEF memory

LEMMA AbortCases ==
    ASSUME IInv, NEW t \in AutoTurns, AbortAgent(t)
    PROVE  /\ UNCHANGED <<nextId, log, last, finish, canceller, cancelReq, detached, submitted,
                          crashes, cancels>>
           /\ starting' \subseteq starting
           /\ \A a \in AutoTurns : node'[a] = "pending" => node[a] = "pending"
           /\ DiscardEffect(t)
  <1>1. t \in Turns
    BY TurnsAssumption
  <1>2. DiscardEffect(t)
    BY <1>1, NothingDiscarded, Discarding DEF AbortAgent, memory
  <1> QED
    BY <1>2 DEF AbortAgent, agentkit, bounds, IInv, TypeOK

LEMMA CancelRunKeeps ==
    ASSUME NEW t \in AutoTurns, IInv, CancelRun(t)
    PROVE  IInv'
  <1>1. TypeOK'
    <2>1. /\ queue' \in Seq(Turns) /\ active' \in Slots /\ worker' \in [Turns -> WorkerPlaces]
          /\ rows' \in [Turns -> Row] /\ nextToken' \in Nat
      <3>1. CASE DiscardEffect(t) /\ canceller' = canceller
        BY <3>1, CancelRunCases, DiscardKeeps
      <3>2. CASE active' = [active EXCEPT !.cancel = "automation"] /\ UNCHANGED <<rows, nextToken, queue, worker>>
        BY <3>2, RecordTypes DEF IInv, TypeOK, WorkerPlaces
      <3> QED
        BY <3>1, <3>2, CancelRunCases
    <2>2. node' \in [AutoTurns -> {"pending", "running", "waiting", "aborting"} \union {"succeeded", "failed", "cancelled", "orphaned"}]
      BY DEF CancelRun, IInv, TypeOK
    <2>3. canceller' \in Cancellers
      <3>1. t \in Turns /\ active.session \in BOOLEAN
        BY TurnsAssumption DEF IInv, TypeOK
      <3>2. [turn |-> t, session |-> active.session, waiting |-> FALSE,
             stage |-> "snapshot", mode |-> "automation"] \in Cancellers
        BY <3>1 DEF Cancellers, CancelModes
      <3> QED
        BY <3>2, CancelRunCases, RecordTypes
    <2>4. cancels' \in 0 .. MaxCancels
      BY CancelRunCases, TurnsAssumption DEF IInv, TypeOK
    <2> QED
      BY <2>1, <2>2, <2>3, <2>4, CancelRunCases DEF IInv, TypeOK, Slots,
           WorkerPlaces, Cancellers
  <1>2. RowsInv'
    <2>1. CASE DiscardEffect(t) /\ canceller' = canceller
      BY <2>1, CancelRunCases, DiscardKeeps
    <2>2. CASE /\ active.turn = t /\ active.submitted
               /\ active' = [active EXCEPT !.cancel = "automation"]
               /\ canceller'.turn = t
               /\ UNCHANGED <<rows, nextToken, queue, node, worker>>
      BY <2>2, CancelRunCases, NoTurnAssumption, TurnsAssumption DEF IInv,
           RowsInv
    <2> QED
      BY <2>1, <2>2, CancelRunCases
  <1>3. BusyInv'
    <2>1. CASE DiscardEffect(t) /\ canceller' = canceller
      BY <2>1, CancelRunCases, DiscardKeeps
    <2>2. CASE /\ active.turn = t /\ active.submitted
               /\ active' = [active EXCEPT !.cancel = "automation"]
               /\ canceller'.turn = t
               /\ UNCHANGED <<rows, nextToken, queue, node, worker>>
      BY <2>2, CancelRunCases, NoTurnAssumption, TurnsAssumption DEF IInv,
           BusyInv, TypeOK
    <2> QED
      BY <2>1, <2>2, CancelRunCases
  <1>4. WaitsInv'
    <2>1. CASE DiscardEffect(t) /\ canceller' = canceller
      BY <2>1, CancelRunCases, DiscardKeeps
    <2>2. CASE /\ active.turn = t /\ active.submitted
               /\ active' = [active EXCEPT !.cancel = "automation"]
               /\ canceller'.turn = t
               /\ UNCHANGED <<rows, nextToken, queue, node, worker>>
      BY <2>2, CancelRunCases, NoTurnAssumption, TurnsAssumption DEF IInv,
           WaitsInv, Waits, PreparedActive, WaitingInCheckpoint, TypeOK
    <2> QED
      BY <2>1, <2>2, CancelRunCases
  <1>5. QueueInv'
    <2>1. CASE DiscardEffect(t) /\ canceller' = canceller
      BY <2>1, CancelRunCases, DiscardKeeps
    <2>2. CASE /\ active.turn = t /\ active.submitted
               /\ active' = [active EXCEPT !.cancel = "automation"]
               /\ canceller'.turn = t
               /\ UNCHANGED <<rows, nextToken, queue, node, worker>>
      BY <2>2, CancelRunCases, NoTurnAssumption, TurnsAssumption DEF IInv,
           QueueInv, TypeOK
    <2> QED
      BY <2>1, <2>2, CancelRunCases
  <1>6. NewInv'
    <2>1. CASE DiscardEffect(t) /\ canceller' = canceller
      BY <2>1, CancelRunCases, DiscardKeeps
    <2>2. CASE /\ active.turn = t /\ active.submitted
               /\ active' = [active EXCEPT !.cancel = "automation"]
               /\ canceller'.turn = t
               /\ UNCHANGED <<rows, nextToken, queue, node, worker>>
      <3>1. t \in submitted
        BY <2>2, TurnsAssumption DEF IInv, NewInv
      <3>2. \A u \in Turns : active'.turn = active.turn
        BY <2>2 DEF IInv, TypeOK
      <3> QED
        BY <3>1, <3>2, <2>2, CancelRunCases DEF IInv, NewInv
    <2> QED
      BY <2>1, <2>2, CancelRunCases
  <1>7. QuietInv'
    <2>1. CASE DiscardEffect(t) /\ canceller' = canceller
      BY <2>1, CancelRunCases, DiscardKeeps
    <2>2. CASE /\ active.turn = t /\ active.submitted
               /\ active' = [active EXCEPT !.cancel = "automation"]
               /\ canceller'.turn = t
               /\ UNCHANGED <<rows, nextToken, queue, node, worker>>
      BY <2>2, CancelRunCases, NoTurnAssumption, TurnsAssumption DEF IInv,
           QuietInv, NoCancels, NoDeadline, TypeOK
    <2> QED
      BY <2>1, <2>2, CancelRunCases
  <1>8. DetachedInv'
    <2>1. CASE DiscardEffect(t) /\ canceller' = canceller
      BY <2>1, CancelRunCases, DiscardKeeps
    <2>2. CASE /\ active.turn = t /\ active.submitted
               /\ active' = [active EXCEPT !.cancel = "automation"]
               /\ canceller'.turn = t
               /\ UNCHANGED <<rows, nextToken, queue, node, worker>>
      BY <2>2, CancelRunCases, NoTurnAssumption, TurnsAssumption DEF IInv,
           DetachedInv, NoCancels, NoDeadline
    <2> QED
      BY <2>1, <2>2, CancelRunCases
  <1>9. WaitingInv'
    <2>1. CASE DiscardEffect(t) /\ canceller' = canceller
      BY <2>1, CancelRunCases, DiscardKeeps
    <2>2. CASE /\ active.turn = t /\ active.submitted
               /\ active' = [active EXCEPT !.cancel = "automation"]
               /\ canceller'.turn = t
               /\ UNCHANGED <<rows, nextToken, queue, node, worker>>
      BY <2>2, CancelRunCases, NoTurnAssumption, TurnsAssumption DEF IInv,
           WaitingInv, NoCancels, NoDeadline, TypeOK
    <2> QED
      BY <2>1, <2>2, CancelRunCases
  <1>10. OwnsInv'
    <2>1. CASE DiscardEffect(t) /\ canceller' = canceller
      BY <2>1, CancelRunCases, DiscardKeeps
    <2>2. CASE /\ active.turn = t /\ active.submitted
               /\ active' = [active EXCEPT !.cancel = "automation"]
               /\ canceller'.turn = t
               /\ UNCHANGED <<rows, nextToken, queue, node, worker>>
      BY <2>2, CancelRunCases, NoTurnAssumption, TurnsAssumption DEF IInv,
           OwnsInv, ActiveOwnsItsRow, TypeOK
    <2> QED
      BY <2>1, <2>2, CancelRunCases
  <1>11. OrderInv'
    BY DEF OrderInv, UserOnly
  <1> QED
    BY <1>1, <1>2, <1>3, <1>4, <1>5, <1>6, <1>7, <1>8, <1>9, <1>10, <1>11 DEF
         IInv

LEMMA AbortAgentKeeps ==
    ASSUME NEW t \in AutoTurns, IInv, AbortAgent(t)
    PROVE  IInv'
  <1>1. TypeOK'
    <2>1. /\ queue' \in Seq(Turns) /\ active' \in Slots /\ worker' \in [Turns -> WorkerPlaces]
          /\ rows' \in [Turns -> Row] /\ nextToken' \in Nat
      BY AbortCases, DiscardKeeps
    <2>2. node' \in [AutoTurns -> {"pending", "running", "waiting", "aborting"} \union {"succeeded", "failed", "cancelled", "orphaned"}]
      BY DEF AbortAgent, IInv, TypeOK
    <2> QED
      BY <2>1, <2>2, AbortCases DEF IInv, TypeOK, Slots, WorkerPlaces
  <1>2. RowsInv'
    BY AbortCases, DiscardKeeps
  <1>3. BusyInv'
    BY AbortCases, DiscardKeeps
  <1>4. WaitsInv'
    BY AbortCases, DiscardKeeps
  <1>5. QueueInv'
    BY AbortCases, DiscardKeeps
  <1>6. NewInv'
    BY AbortCases, DiscardKeeps
  <1>7. QuietInv'
    BY AbortCases, DiscardKeeps
  <1>8. DetachedInv'
    BY AbortCases, DiscardKeeps
  <1>9. WaitingInv'
    BY AbortCases, DiscardKeeps
  <1>10. OwnsInv'
    BY AbortCases, DiscardKeeps
  <1>11. OrderInv'
    BY AbortCases, DiscardKeeps
  <1> QED
    BY <1>1, <1>2, <1>3, <1>4, <1>5, <1>6, <1>7, <1>8, <1>9, <1>10, <1>11 DEF
         IInv

\* The restored turn has the slot again, or else the first of the rows has;
\* the others queue behind it.
RestartEffect ==
    LET R == RestoredTurn
    IN  /\ rows' \in [Turns -> Row] /\ nextToken' \in Nat \ {0} /\ InShape(rows', nextId)
        /\ Present(rows') = Present(rows) \ Done
        /\ \A u \in Present(rows') : rows'[u].id = rows[u].id
        /\ queue' \in Seq(Turns) /\ NoRepeats(queue') /\ ById(queue', rows')
        /\ In(queue') \subseteq Present(rows') /\ R \notin In(queue')
        /\ active' \in Slots /\ active'.turn \notin In(queue') /\ active'.cancel = "none"
        /\ active'.submitted = (R # NoTurn)
        /\ R # NoTurn => /\ active'.turn = R
                         /\ R \in Present(rows) => OwnsClaim(rows', R, active'.token)
        /\ R = NoTurn => active'.turn \in Present(rows') \union {NoTurn}
        /\ Present(rows') \subseteq In(queue') \union {active'.turn}
        /\ \A v \in Present(rows'), u \in In(queue') :
              v = active'.turn => rows'[v].id < rows'[u].id
        /\ R \in Present(rows) => R \in Present(rows')
        /\ starting' \subseteq Turns

\* A caller is about to start the turn that is only prepared.
CallerIsBack ==
    /\ starting' = IF active'.submitted \/ active'.turn = NoTurn THEN {} ELSE {active'.turn}
    /\ active'.turn = NoTurn => Present(rows') = {}
    /\ ~active'.acked

LEMMA Restarting ==
    ASSUME IInv, CrashAndRestart
    PROVE  RestartEffect /\ CallerIsBack
  <1> DEFINE R == RestoredTurn
             recovered == Recovered(rows, R, nextToken)
             kept == Without(recovered, Done)
             S == Present(kept) \ {R}
             others == InOrder(S, kept)
  <1>1. /\ rows \in [Turns -> Row] /\ nextId \in Nat /\ InShape(rows, nextId)
        /\ nextToken \in Nat \ {0} /\ R \in Turns \union {NoTurn}
    BY DEF IInv, TypeOK, RowsInv, RestoredTurn
  <1>2. /\ recovered \in [Turns -> Row] /\ InShape(recovered, nextId)
        /\ Present(recovered) = Present(rows)
        /\ \A u \in Turns : recovered[u].id = rows[u].id
        /\ R \in Present(rows) => OwnsClaim(recovered, R, nextToken) /\ IsFirst(rows, R)
    BY <1>1, Recovering DEF CrashAndRestart
  <1>3. rows' = kept
    BY DEF CrashAndRestart
  <1>4. nextToken' = IF R \in Present(rows) THEN nextToken + 1 ELSE nextToken
    BY DEF CrashAndRestart
  <1>5. IF R = NoTurn
        THEN IF others = <<>>
             THEN active' = NoActive /\ queue' = <<>> /\ starting' = {}
             ELSE /\ active' = Prepared(Head(others))
                  /\ queue' = Tail(others)
                  /\ starting' = {Head(others)}
        ELSE /\ active' = [Restored(R) EXCEPT !.token = IF R \in Present(rows) THEN nextToken ELSE 0]
             /\ queue' = others
             /\ starting' = {}
    BY DEF CrashAndRestart
  <1> HIDE DEF recovered
  <1>6. /\ kept \in [Turns -> Row] /\ InShape(kept, nextId)
        /\ Present(kept) = Present(rows) \ Done
        /\ \A u \in Turns \ Done : kept[u] = recovered[u]
    BY <1>1, <1>2, Removing
  <1> HIDE DEF kept
  <1>7. R \notin Done /\ NoTurn \notin Present(rows)
    BY NoTurnAssumption DEF Done, Present
  <1> HIDE DEF R
  <1>8. Numbered(S, kept) /\ S \in SUBSET Turns
    BY <1>6, ShapeNumbers
  <1>9. /\ others \in Seq(Turns) /\ In(others) = S /\ NoRepeats(others) /\ ById(others, kept)
    BY <1>8, QueueOfRows
  <1> HIDE DEF others
  <1>10. \A u \in Present(kept) : kept[u].id = rows[u].id
    BY <1>2, <1>6 DEF Present
  <1>11. nextToken' \in Nat \ {0}
    BY <1>1, <1>4
  <1>12. CASE R # NoTurn
    <2> DEFINE a == [Restored(R) EXCEPT !.token = IF R \in Present(rows) THEN nextToken ELSE 0]
    <2>1. /\ a \in Slots /\ a.turn = R /\ a.cancel = "none" /\ a.submitted /\ ~a.acked
          /\ a.token = IF R \in Present(rows) THEN nextToken ELSE 0
      <3>1. R \in Turns
        BY <1>1, <1>12
      <3> QED
        BY <1>1, <3>1 DEF Restored, NoActive, Slots, CancelModes
    <2>2. R \in Present(rows) => OwnsClaim(kept, R, nextToken)
      BY <1>2, <1>6, <1>7 DEF OwnsClaim, Present
    <2>3. \A u \in S : R \in Present(rows) => kept[R].id < kept[u].id
      <3> SUFFICES ASSUME NEW u \in S, R \in Present(rows)
                   PROVE  kept[R].id < kept[u].id
        OBVIOUS
      <3>1. u \in Present(rows) /\ u # R /\ u \in Turns \ Done /\ R \in Turns \ Done
        BY <1>6, <1>7 DEF Present
      <3>2. kept[u].id = rows[u].id /\ kept[R].id = rows[R].id
        BY <1>2, <1>6, <3>1
      <3>3. rows[R].id <= rows[u].id /\ rows[R].id # rows[u].id
        BY <1>1, <1>2, <3>1 DEF IsFirst, InShape
      <3>4. rows[R].id \in Nat /\ rows[u].id \in Nat
        BY <1>1, <3>1 DEF Row
      <3> QED
        BY <3>2, <3>3, <3>4
    <2>4. active' = a /\ queue' = others /\ starting' = {}
      BY <1>5, <1>12
    <2> HIDE DEF a
    <2>5. CallerIsBack
      BY <2>1, <2>4, <1>12 DEF CallerIsBack
    <2> QED
      BY <2>1, <2>2, <2>3, <2>4, <2>5, <1>3, <1>6, <1>7, <1>9, <1>11, <1>12,
         <1>10 DEF RestartEffect, R
  <1>13. CASE R = NoTurn /\ others = <<>>
    <2>1. S = {} /\ Present(kept) = {}
      BY <1>6, <1>7, <1>9, <1>13, EmptyQueue
    <2>2. /\ active' = NoActive /\ queue' = <<>> /\ starting' = {}
          /\ NoActive \in Slots /\ NoActive.turn = NoTurn /\ NoActive.cancel = "none"
          /\ ~NoActive.submitted /\ NoActive.submitted \in BOOLEAN
      BY <1>5, <1>13, RecordTypes DEF NoActive
    <2>3. CallerIsBack
      BY <2>1, <2>2, <1>3 DEF CallerIsBack, NoActive
    <2> QED
      BY <2>1, <2>2, <2>3, <1>3, <1>6, <1>7, <1>11, <1>13, <1>10, EmptyQueue
           DEF RestartEffect, R
  <1>14. CASE R = NoTurn /\ others # <<>>
    <2> DEFINE h == Head(others)
    <2>1. /\ h \in S /\ h \in Turns /\ queue' \in Seq(Turns) /\ NoRepeats(queue')
          /\ S = In(queue') \union {h} /\ h \notin In(queue') /\ ById(queue', kept)
          /\ \A u \in In(queue') : kept[h].id < kept[u].id
      <3>1. queue' = Tail(others)
        BY <1>5, <1>14
      <3>2. /\ Head(others) \in In(others) /\ Head(others) \in Turns /\ Tail(others) \in Seq(Turns)
            /\ In(others) = In(Tail(others)) \union {Head(others)}
            /\ NoRepeats(Tail(others)) /\ Head(others) \notin In(Tail(others))
            /\ ById(Tail(others), kept)
            /\ \A u \in In(Tail(others)) : kept[Head(others)].id < kept[u].id
        BY <1>9, <1>14, QueueMoves
      <3> QED
        BY <3>1, <3>2, <1>9
    <2>2. active' = Prepared(h) /\ starting' = {h}
      BY <1>5, <1>14
    <2> HIDE DEF h
    <2>3. /\ active' \in Slots /\ active'.turn = h /\ active'.cancel = "none" /\ ~active'.submitted
          /\ active'.submitted \in BOOLEAN /\ ~active'.acked
      BY <2>1, <2>2, RecordTypes DEF Prepared, NoActive
    <2>4. CallerIsBack
      <3>1. h # NoTurn
        BY <2>1, NoTurnAssumption
      <3> QED
        BY <2>2, <2>3, <3>1 DEF CallerIsBack
    <2> QED
      BY <2>1, <2>2, <2>3, <2>4, <1>3, <1>6, <1>7, <1>11, <1>14, <1>10 DEF
           RestartEffect, R
  <1> QED
    BY <1>12, <1>13, <1>14

LEMMA CrashAndRestartKeeps ==
    ASSUME IInv, CrashAndRestart
    PROVE  IInv'
  <1>1. TypeOK'
    <2>1. /\ RestartEffect /\ worker' = [t \in Turns |-> "none"] /\ finish' = NoFinish
          /\ canceller' = NoCancel /\ cancelReq' = {} /\ detached' = {}
          /\ UNCHANGED <<nextId, log, last, submitted, cancels>>
          /\ RestoredTurn = IF last # NoTurn /\ log[last] = "waiting" THEN last ELSE NoTurn
      BY Restarting DEF CrashAndRestart, agentkit, RestoredTurn
    <2>2. worker' \in [Turns -> WorkerPlaces] /\ finish' \in Finishes /\ canceller' \in Cancellers
      BY <2>1, RecordTypes DEF WorkerPlaces
    <2>3. node' \in [AutoTurns -> {"pending", "running", "waiting", "aborting"} \union {"succeeded", "failed", "cancelled", "orphaned"}]
      BY DEF CrashAndRestart, IInv, TypeOK
    <2>4. crashes' \in 0 .. MaxCrashes
      BY SMTT(30), TurnsAssumption DEF CrashAndRestart, IInv, TypeOK
    <2> QED
      BY <2>1, <2>2, <2>3, <2>4 DEF RestartEffect, IInv, TypeOK, Slots,
           Finishes, Cancellers, WorkerPlaces
  <1>2. RowsInv'
    <2>1. /\ RestartEffect /\ worker' = [t \in Turns |-> "none"] /\ finish' = NoFinish
          /\ canceller' = NoCancel /\ cancelReq' = {} /\ detached' = {}
          /\ UNCHANGED <<nextId, log, last, submitted, cancels>>
          /\ RestoredTurn = IF last # NoTurn /\ log[last] = "waiting" THEN last ELSE NoTurn
      BY Restarting DEF CrashAndRestart, agentkit, RestoredTurn
    <2> QED
      BY <2>1 DEF RestartEffect, IInv, RowsInv
  <1>3. BusyInv'
    <2>1. /\ RestartEffect /\ worker' = [t \in Turns |-> "none"] /\ finish' = NoFinish
          /\ canceller' = NoCancel /\ cancelReq' = {} /\ detached' = {}
          /\ UNCHANGED <<nextId, log, last, submitted, cancels>>
          /\ RestoredTurn = IF last # NoTurn /\ log[last] = "waiting" THEN last ELSE NoTurn
      BY Restarting DEF CrashAndRestart, agentkit, RestoredTurn
    <2> QED
      BY <2>1, NoTurnAssumption DEF RestartEffect, BusyInv, NoFinish
  <1>4. WaitsInv'
    <2>1. /\ RestartEffect /\ worker' = [t \in Turns |-> "none"] /\ finish' = NoFinish
          /\ canceller' = NoCancel /\ cancelReq' = {} /\ detached' = {}
          /\ UNCHANGED <<nextId, log, last, submitted, cancels>>
          /\ RestoredTurn = IF last # NoTurn /\ log[last] = "waiting" THEN last ELSE NoTurn
      BY Restarting DEF CrashAndRestart, agentkit, RestoredTurn
    <2> SUFFICES ASSUME NEW t \in Turns, Waits(t)'
                 PROVE  ~(last = t /\ log[t] = "waiting")
      BY <2>1 DEF WaitsInv, WaitingInCheckpoint
    <2>2. t = last /\ log[t] = "waiting" => RestoredTurn = t /\ t # NoTurn
      BY <2>1, NoTurnAssumption
    <2> QED
      BY <2>1, <2>2 DEF RestartEffect, Waits, PreparedActive
  <1>5. QueueInv'
    <2>1. /\ RestartEffect /\ worker' = [t \in Turns |-> "none"] /\ finish' = NoFinish
          /\ canceller' = NoCancel /\ cancelReq' = {} /\ detached' = {}
          /\ UNCHANGED <<nextId, log, last, submitted, cancels>>
          /\ RestoredTurn = IF last # NoTurn /\ log[last] = "waiting" THEN last ELSE NoTurn
      BY Restarting DEF CrashAndRestart, agentkit, RestoredTurn
    <2> QED
      BY <2>1 DEF RestartEffect, QueueInv
  <1>6. NewInv'
    <2>1. /\ RestartEffect /\ worker' = [t \in Turns |-> "none"] /\ finish' = NoFinish
          /\ canceller' = NoCancel /\ cancelReq' = {} /\ detached' = {}
          /\ UNCHANGED <<nextId, log, last, submitted, cancels>>
          /\ RestoredTurn = IF last # NoTurn /\ log[last] = "waiting" THEN last ELSE NoTurn
      BY Restarting DEF CrashAndRestart, agentkit, RestoredTurn
    <2>2. Present(rows) \subseteq submitted /\ NoTurn \notin Turns
      BY NoTurnAssumption DEF IInv, RowsInv
    <2>3. RestoredTurn # NoTurn => RestoredTurn \in submitted
      <3>1. last \in Turns \union {NoTurn}
        BY DEF IInv, TypeOK
      <3> QED
        BY <2>1, <3>1 DEF IInv, NewInv
    <2>4. ASSUME NEW t \in Turns \ submitted
          PROVE  active'.turn # t /\ t \notin In(queue') /\ log[t] = "none"
      BY <2>1, <2>2, <2>3 DEF RestartEffect, IInv, NewInv
    <2>5. \A t \in AutoTurns : node'[t] = "pending" => node[t] = "pending"
      BY DEF CrashAndRestart, IInv, TypeOK
    <2> QED
      BY <2>1, <2>4, <2>5 DEF IInv, NewInv
  <1>7. QuietInv'
    <2>1. /\ RestartEffect /\ worker' = [t \in Turns |-> "none"] /\ finish' = NoFinish
          /\ canceller' = NoCancel /\ cancelReq' = {} /\ detached' = {}
          /\ UNCHANGED <<nextId, log, last, submitted, cancels>>
          /\ RestoredTurn = IF last # NoTurn /\ log[last] = "waiting" THEN last ELSE NoTurn
      BY Restarting DEF CrashAndRestart, agentkit, RestoredTurn
    <2> QED
      BY <2>1 DEF RestartEffect, QuietInv, NoFinish
  <1>8. DetachedInv'
    <2>1. /\ RestartEffect /\ worker' = [t \in Turns |-> "none"] /\ finish' = NoFinish
          /\ canceller' = NoCancel /\ cancelReq' = {} /\ detached' = {}
          /\ UNCHANGED <<nextId, log, last, submitted, cancels>>
          /\ RestoredTurn = IF last # NoTurn /\ log[last] = "waiting" THEN last ELSE NoTurn
      BY Restarting DEF CrashAndRestart, agentkit, RestoredTurn
    <2> QED
      BY <2>1 DEF DetachedInv
  <1>9. WaitingInv'
    <2>1. /\ RestartEffect /\ worker' = [t \in Turns |-> "none"] /\ finish' = NoFinish
          /\ canceller' = NoCancel /\ cancelReq' = {} /\ detached' = {}
          /\ UNCHANGED <<nextId, log, last, submitted, cancels>>
          /\ RestoredTurn = IF last # NoTurn /\ log[last] = "waiting" THEN last ELSE NoTurn
      BY Restarting DEF CrashAndRestart, agentkit, RestoredTurn
    <2>2. NoCancels /\ NoDeadline =>
            \A t \in Turns : log[t] = "waiting" => last = t /\ RestoredTurn = t /\ t # NoTurn
      BY <2>1, NoTurnAssumption DEF IInv, WaitingInv
    <2> QED
      BY <2>1, <2>2 DEF RestartEffect, WaitingInv, NoCancels, NoDeadline
  <1>10. OwnsInv'
    <2>1. /\ RestartEffect /\ worker' = [t \in Turns |-> "none"] /\ finish' = NoFinish
          /\ canceller' = NoCancel /\ cancelReq' = {} /\ detached' = {}
          /\ UNCHANGED <<nextId, log, last, submitted, cancels>>
          /\ RestoredTurn = IF last # NoTurn /\ log[last] = "waiting" THEN last ELSE NoTurn
      BY Restarting DEF CrashAndRestart, agentkit, RestoredTurn
    <2>2. Steady => /\ NoCancels /\ NoDeadline
                    /\ RestoredTurn # NoTurn => RestoredTurn \in Present(rows)
      <3>1. Steady => NoCancels /\ NoDeadline
        BY DEF CrashAndRestart, IInv, TypeOK, Steady
      <3>2. last \in Turns \union {NoTurn}
        BY DEF IInv, TypeOK
      <3>3. Steady /\ RestoredTurn # NoTurn => active.turn = last /\ active.submitted /\ last \in Turns /\ RestoredTurn = last
        BY <2>1, <3>1, <3>2 DEF IInv, WaitingInv
      <3> QED
        BY <3>1, <3>3 DEF IInv, OwnsInv, ActiveOwnsItsRow, OwnsClaim, Present
    <2> QED
      BY <2>1, <2>2 DEF RestartEffect, OwnsInv, ActiveOwnsItsRow, Steady,
           NoCancels, NoDeadline
  <1>11. OrderInv'
    <2>1. /\ RestartEffect /\ worker' = [t \in Turns |-> "none"] /\ finish' = NoFinish
          /\ canceller' = NoCancel /\ cancelReq' = {} /\ detached' = {}
          /\ UNCHANGED <<nextId, log, last, submitted, cancels>>
          /\ RestoredTurn = IF last # NoTurn /\ log[last] = "waiting" THEN last ELSE NoTurn
      BY Restarting DEF CrashAndRestart, agentkit, RestoredTurn
    <2>2. Steady => /\ NoCancels /\ NoDeadline
                    /\ RestoredTurn # NoTurn => RestoredTurn \in Present(rows)
      <3>1. Steady => NoCancels /\ NoDeadline
        BY DEF CrashAndRestart, IInv, TypeOK, Steady
      <3>2. last \in Turns \union {NoTurn}
        BY DEF IInv, TypeOK
      <3>3. Steady /\ RestoredTurn # NoTurn => active.turn = last /\ active.submitted /\ last \in Turns /\ RestoredTurn = last
        BY <2>1, <3>1, <3>2 DEF IInv, WaitingInv
      <3> QED
        BY <3>1, <3>3 DEF IInv, OwnsInv, ActiveOwnsItsRow, OwnsClaim, Present
    <2> SUFFICES ASSUME UserOnly
                 PROVE  /\ In(queue') \union InHand' = Present(rows')
                        /\ ById(queue', rows')
                        /\ \A v \in InHand', u \in In(queue') : rows'[v].id < rows'[u].id
      BY DEF OrderInv, UserOnly, Steady, NoCancels, NoDeadline
    <2>3. NoTurn \notin Present(rows')
      BY NoTurnAssumption DEF Present
    <2>4. active'.turn # NoTurn => active'.turn \in Present(rows')
      BY <2>1, <2>2 DEF RestartEffect, UserOnly
    <2>5. InHand' = IF active'.turn = NoTurn THEN {} ELSE {active'.turn}
      BY DEF InHand
    <2> QED
      BY <2>1, <2>3, <2>4, <2>5 DEF RestartEffect
  <1> QED
    BY <1>1, <1>2, <1>3, <1>4, <1>5, <1>6, <1>7, <1>8, <1>9, <1>10, <1>11 DEF
         IInv

-----------------------------------------------------------------------------
(* The theorems.                                                            *)

LEMMA StutterKeeps == IInv /\ UNCHANGED vars => IInv'
  <1> SUFFICES ASSUME IInv, UNCHANGED vars
               PROVE  IInv'
    OBVIOUS
  <1>1. UNCHANGED <<rows, nextId, nextToken, log, last, node, active, queue, starting, worker,
                    finish, canceller, cancelReq, detached, submitted, crashes, cancels>>
    BY DEF vars, durable, agentkit, memory, bounds
  <1>2. TypeOK' /\ RowsInv' /\ BusyInv' /\ QueueInv' /\ NewInv' /\ QuietInv' /\ DetachedInv'
    BY <1>1 DEF IInv, TypeOK, RowsInv, BusyInv, QueueInv, NewInv, QuietInv,
         DetachedInv, NoCancels, NoDeadline
  <1>3. WaitsInv' /\ WaitingInv' /\ OwnsInv' /\ OrderInv'
    BY <1>1 DEF IInv, WaitsInv, Waits, PreparedActive, WaitingInCheckpoint,
         WaitingInv, OwnsInv, ActiveOwnsItsRow, OrderInv, InHand, UserOnly,
         Steady, NoCancels, NoDeadline
  <1> QED
    BY <1>2, <1>3 DEF IInv

LEMMA NextKeeps == IInv /\ [Next]_vars => IInv'
  <1> SUFFICES ASSUME IInv, [Next]_vars
               PROVE  IInv'
    OBVIOUS
  <1>1. CASE WorkerStep
    BY <1>1, OpenSessionKeeps, SubmitToAgentKitKeeps, AgentKitStopsKeeps,
         ResumeKeeps, BeginFinishKeeps, ReportFinishKeeps,
         FinishCancelledKeeps, FinishUnacknowledgedKeeps,
         FinishAndActivateNextKeeps DEF WorkerStep
  <1>2. CASE CallerStep
    BY <1>2, ActivateTurnWorkerKeeps, PersistWaitingAgentKeeps,
         AbortAgentKeeps, SnapshotSessionKeeps, CancelSessionTurnKeeps,
         CheckWaitingKeeps, CancelNodeKeeps DEF CallerStep
  <1>3. CASE UNCHANGED vars
    BY <1>3, StutterKeeps
  <1>4. CASE Next
    BY <1>1, <1>2, <1>4, StartTaskTurnKeeps, StartAgentKeeps, CancelRunKeeps,
         RunFailsKeeps, ActivationInterruptedKeeps, RunTimesOutKeeps,
         DetachedRunStopsKeeps, RespondKeeps, InterruptKeeps,
         CrashAndRestartKeeps DEF Next
  <1> QED
    BY <1>3, <1>4

\* The invariant holds in every state of every behaviour.
THEOREM Inductive == Spec => []IInv
  BY Inits, NextKeeps, PTL DEF Spec

\* Every variable keeps its type, whatever the faults and the bounds.
THEOREM Types == Spec => []TypeOK
  <1>1. IInv => TypeOK
    BY DEF IInv
  <1> QED
    BY <1>1, Inductive, PTL

\* AgentKit works on the turn in the active slot and on no other: under
\* every fault, through cancellations, timeouts and crashes.
THEOREM OneTurn == Spec => []OneTurnAtATime
  <1>1. IInv => OneTurnAtATime
    BY DEF IInv, BusyInv, OneTurnAtATime
  <1> QED
    BY <1>1, Inductive, PTL

\* The submitted turn owns the durable claim it will be acknowledged with, in
\* a process that never crashed, and after any number of crashes when nothing
\* is cancelled and no wait times out.
THEOREM ActiveOwns == Steady => (Spec => []ActiveOwnsItsRow)
  <1> SUFFICES ASSUME Steady
               PROVE  Spec => []ActiveOwnsItsRow
    OBVIOUS
  <1>1. IInv => ActiveOwnsItsRow
    BY DEF IInv, OwnsInv
  <1> QED
    BY <1>1, Inductive, PTL

\* A waiting turn has its claim, and a claimed row is the first.
LEMMA WaitingIsFirst ==
    ASSUME NoCancels, NoDeadline, IInv, RestoredTurn # NoTurn
    PROVE  IsFirst(rows, RestoredTurn)
  <1>1. RestoredTurn \in Turns /\ RestoredTurn = active.turn /\ active.submitted
    BY DEF IInv, TypeOK, WaitingInv, RestoredTurn
  <1>2. rows[RestoredTurn].state = "claimed"
    BY <1>1 DEF IInv, OwnsInv, Steady, ActiveOwnsItsRow, OwnsClaim
  <1> QED
    BY <1>1, <1>2 DEF IInv, RowsInv, InShape

\* The recovery never refuses the rows a crash left, however many faults of
\* storage, hooks and workers came before, if nothing is cancelled and no
\* wait times out.
THEOREM RecoveryAccepts == NoCancels /\ NoDeadline => (Spec => []RecoveryNeverRefuses)
  <1> SUFFICES ASSUME NoCancels, NoDeadline
               PROVE  Spec => []RecoveryNeverRefuses
    OBVIOUS
  <1>1. IInv => RecoveryNeverRefuses
    BY WaitingIsFirst DEF RecoveryNeverRefuses
  <1> QED
    BY <1>1, Inductive, PTL

\* A turn in front of a queue.
LEMMA QueueStarts ==
    ASSUME NEW q \in Seq(Turns), NEW t \in Turns, t \notin In(q), NoRepeats(q)
    PROVE  /\ <<t>> \o q \in Seq(Turns)
           /\ In(<<t>> \o q) = In(q) \union {t}
           /\ \A r : ById(q, r) /\ (\A u \in In(q) : r[t].id < r[u].id)
                      => ById(<<t>> \o q, r)
  <1> DEFINE s == <<t>> \o q
  <1>1. /\ s \in Seq(Turns) /\ Len(q) \in Nat
        /\ DOMAIN q = 1 .. Len(q) /\ DOMAIN s = 1 .. Len(q) + 1
        /\ s[1] = t /\ \A i \in 2 .. Len(q) + 1 : s[i] = q[i - 1]
    OBVIOUS
  <1> HIDE DEF s
  <1>2. \A i \in DOMAIN s : (i = 1 /\ s[i] = t) \/ (i > 1 /\ i - 1 \in DOMAIN q /\ s[i] = q[i - 1])
    BY <1>1
  <1>3. In(s) = In(q) \union {t}
    <2>1. In(s) \subseteq In(q) \union {t}
      BY <1>2 DEF In
    <2>2. \A i \in DOMAIN q : i + 1 \in DOMAIN s /\ s[i + 1] = q[i]
      BY <1>1
    <2>3. 1 \in DOMAIN s
      BY <1>1
    <2> QED
      BY <1>1, <2>1, <2>2, <2>3 DEF In
  <1>4. ASSUME NEW r, ById(q, r), \A u \in In(q) : r[t].id < r[u].id
        PROVE  ById(s, r)
    <2> SUFFICES ASSUME NEW i \in DOMAIN s, NEW j \in DOMAIN s, i < j
                 PROVE  r[s[i]].id < r[s[j]].id
      BY DEF ById
    <2>1. j > 1 /\ j - 1 \in DOMAIN q /\ s[j] = q[j - 1] /\ i \in Nat /\ j \in Nat
      BY <1>1, <1>2
    <2>2. CASE i = 1
      BY <1>1, <2>1, <2>2, <1>4 DEF In
    <2>3. CASE i # 1
      <3>1. i - 1 \in DOMAIN q /\ s[i] = q[i - 1] /\ i - 1 < j - 1
        BY <1>2, <2>1, <2>3
      <3> QED
        BY <2>1, <3>1, <1>4 DEF ById
    <2> QED
      BY <2>2, <2>3
  <1> QED
    BY <1>1, <1>3, <1>4 DEF s

\* Memory is the enumeration of the rows.
LEMMA MemoryIsRows == UserOnly /\ IInv => QueuesAgree
  <1> SUFFICES ASSUME UserOnly, IInv
               PROVE  MemoryOrder = ByOrder(rows)
    BY DEF QueuesAgree
  <1>1. /\ queue \in Seq(Turns) /\ NoRepeats(queue) /\ ById(queue, rows)
        /\ In(queue) \union InHand = Present(rows) /\ active.turn \notin In(queue)
        /\ \A t \in InHand, u \in In(queue) : rows[t].id < rows[u].id
    BY DEF IInv, TypeOK, QueueInv, OrderInv
  <1>2. Numbered(Present(rows), rows) /\ Present(rows) \in SUBSET Turns
    BY ShapeNumbers DEF IInv, TypeOK, RowsInv, Present
  <1>3. CASE active.turn = NoTurn
    <2>1. In(queue) = Present(rows) /\ MemoryOrder = queue
      BY <1>1, <1>3 DEF MemoryOrder, InHand
    <2>2. queue = InOrder(Present(rows), rows)
      BY <1>1, <1>2, <2>1, QueueIsRows
    <2> QED
      BY <2>1, <2>2 DEF ByOrder
  <1>4. CASE active.turn # NoTurn
    <2> DEFINE a == active.turn
               s == <<a>> \o queue
    <2>1. a \in Turns /\ InHand = {a}
      BY <1>4 DEF InHand, IInv, TypeOK
    <2>2. /\ s \in Seq(Turns) /\ In(s) = Present(rows) /\ ById(s, rows)
      BY <1>1, <2>1, QueueStarts
    <2> HIDE DEF s
    <2>3. s = InOrder(Present(rows), rows)
      BY <1>2, <2>2, QueueIsRows
    <2> QED
      BY <1>4, <2>3 DEF MemoryOrder, ByOrder, s
  <1> QED
    BY <1>3, <1>4

\* A task of the user's turns alone: memory and rows hold the same turns in
\* the same order, and the submitted turn owns its row, if no transaction
\* fails and either there is no crash or nothing is cancelled or timed out.
THEOREM MemoryMatches == UserOnly => (Spec => []MemoryMatchesRows)
  <1> SUFFICES ASSUME UserOnly
               PROVE  Spec => []MemoryMatchesRows
    OBVIOUS
  <1>1. IInv => MemoryMatchesRows
    BY MemoryIsRows DEF MemoryMatchesRows, IInv, OwnsInv, UserOnly
  <1> QED
    BY <1>1, Inductive, PTL

-----------------------------------------------------------------------------
(* No row waits for nobody.                                                 *)

\* The conditions: a task of the user's turns alone, in which no transaction
\* fails, nothing is cancelled and no wait times out.  Hooks and workers may
\* fail, and the process may crash.
Calm == UserOnly /\ NoCancels /\ NoDeadline

\* A turn is prepared exactly while a caller is about to start it; until then
\* no row is claimed, and an empty slot means that there is no row.
StartInv ==
    /\ starting = IF active.submitted \/ active.turn = NoTurn THEN {} ELSE {active.turn}
    /\ ~active.submitted => \A t \in Turns : rows[t].state # "claimed"
    /\ active.turn = NoTurn => Present(rows) = {}

\* The submitted turn is in a place from which it goes on.
ServedInv ==
    active.submitted =>
        \/ log[active.turn] = "waiting"
        \/ worker[active.turn] \in {"claimed", "opened", "running", "resumed", "approving",
                                    "denying", "returning", "finishing"}

\* What a worker is at agrees with AgentKit and with finish_turn, and the
\* slot is acknowledged by the thread that finishes its turn.
PlaceInv ==
    /\ \A t \in Turns :
          /\ worker[t] \in {"approving", "denying"} => log[t] = "waiting"
          /\ worker[t] \in {"running", "resumed"} => log[t] = "running"
          /\ worker[t] = "finishing" => finish.turn = t
    /\ active.acked => active.turn \in Turns /\ worker[active.turn] = "finishing"

StallInv == StartInv /\ ServedInv /\ PlaceInv

LEMMA StallInits == ASSUME Init PROVE StallInv
  <1>1. NoTurn \notin Turns
    BY NoTurnAssumption
  <1> QED
    BY <1>1 DEF Init, StallInv, StartInv, ServedInv, PlaceInv, NoActive, Absent, Present

\* What nobody does to such a task.
LEMMA CalmSteps ==
    ASSUME Calm, IInv, Next
    PROVE  \/ \E t \in Turns : \/ OpenSession(t) \/ RunFails(t) \/ SubmitToAgentKit(t)
                               \/ AgentKitStops(t) \/ Resume(t) \/ BeginFinish(t)
                               \/ ActivateTurnWorker(t)
           \/ \E t \in Turns, accepted \in BOOLEAN : Respond(t, accepted)
           \/ ReportFinish
           \/ \E next \in Turns \union {NoTurn} : FinishAndActivateNext(next)
           \/ \E t \in UserTurns : StartTaskTurn(t)
           \/ CrashAndRestart
  <1>1. /\ AutoTurns = {} /\ canceller = NoCancel /\ finish.cancel = "none" /\ detached = {}
        /\ "storage" \notin Faults /\ "deadline" \notin Faults /\ MaxCancels = 0 /\ Steady
    BY DEF Calm, UserOnly, NoCancels, NoDeadline, IInv, QuietInv
  <1>2. canceller.stage = "idle"
    BY <1>1 DEF NoCancel
  <1>3. /\ ~SnapshotSession /\ ~CancelSessionTurn /\ ~CheckWaiting /\ ~CancelNode
    BY <1>2 DEF SnapshotSession, CancelSessionTurn, CheckWaiting, CancelNode
  <1>4. ~FinishCancelled
    BY <1>1 DEF FinishCancelled
  <1>5. ~FinishUnacknowledged
    BY <1>1, OwnerAcknowledges DEF FinishUnacknowledged, Finishing
  <1>6. ~Interrupt
    BY <1>1 DEF Interrupt, IInv, TypeOK
  <1>7. \A t \in Turns : ~ActivationInterrupted(t) /\ ~RunTimesOut(t) /\ ~DetachedRunStops(t)
    BY <1>1 DEF ActivationInterrupted, RunTimesOut, DetachedRunStops
  <1>8. WorkerStep => \/ \E t \in Turns : \/ OpenSession(t) \/ SubmitToAgentKit(t)
                                          \/ AgentKitStops(t) \/ Resume(t) \/ BeginFinish(t)
                      \/ ReportFinish
                      \/ \E next \in Turns \union {NoTurn} : FinishAndActivateNext(next)
    BY <1>4, <1>5 DEF WorkerStep
  <1>9. CallerStep => \E t \in Turns : ActivateTurnWorker(t)
    BY <1>1, <1>3 DEF CallerStep
  <1> QED
    BY <1>1, <1>6, <1>7, <1>8, <1>9 DEF Next

\* The worker's own steps: they move one worker and leave the rows, the slot's
\* turn and the callers alone.
WorkerActs(t) == \/ OpenSession(t) \/ RunFails(t) \/ SubmitToAgentKit(t)
                 \/ AgentKitStops(t) \/ Resume(t) \/ BeginFinish(t)
                 \/ \E accepted \in BOOLEAN : Respond(t, accepted)

WorkerMoves(t) ==
    /\ UNCHANGED <<rows, starting>>
    /\ active'.turn = active.turn /\ active'.submitted = active.submitted
    /\ \A u \in Turns \ {t} : worker'[u] = worker[u] /\ log'[u] = log[u]
    /\ worker'[t] = "finishing" => finish'.turn = t
    /\ \/ finish' = finish /\ active'.acked = active.acked /\ worker[t] # "finishing"
       \/ active.turn = t /\ worker'[t] = "finishing"
    /\ \/ active.turn # t /\ worker'[t] = "none"
       \/ log'[t] = "waiting" /\ worker'[t] \in {"none", "approving", "denying"}
       \/ log'[t] = "running" /\ worker'[t] \in {"running", "resumed"}
       \/ worker'[t] \in {"claimed", "opened", "returning", "finishing"}

LEMMA WorkerActing ==
    ASSUME Calm, IInv, StallInv, NEW t \in Turns, WorkerActs(t)
    PROVE  WorkerMoves(t)
  <1>1. /\ worker \in [Turns -> WorkerPlaces] /\ DOMAIN log = Turns
        /\ active \in Slots
    BY DEF IInv, TypeOK, WorkerPlaces, Slots
  <1>2. t \notin cancelReq /\ active.cancel = "none"
    BY DEF IInv, QuietInv, Calm
  <1>3. CASE OpenSession(t)
    <2>1. worker[t] = "claimed" /\ active.turn = t
      BY <1>3 DEF OpenSession, IInv, BusyInv
    <2>2. /\ active' = [active EXCEPT !.session = TRUE] /\ worker' = [worker EXCEPT ![t] = "opened"]
          /\ UNCHANGED <<rows, starting, log, finish>>
      BY <1>3, <2>1 DEF OpenSession, At, durable, agentkit
    <2> QED
      BY <1>1, <2>1, <2>2 DEF WorkerMoves, Slots
  <1>4. CASE RunFails(t)
    <2>1. /\ UNCHANGED <<rows, starting, log, active, finish>>
          /\ worker' = [worker EXCEPT ![t] = "returning"] /\ worker[t] # "finishing"
      BY <1>4 DEF RunFails, At, durable, agentkit, memory
    <2> QED
      BY <1>1, <2>1 DEF WorkerMoves
  <1>5. CASE SubmitToAgentKit(t)
    <2>1. /\ UNCHANGED <<rows, starting, active, finish>> /\ worker[t] # "finishing"
          /\ \/ log' = log /\ worker' = [worker EXCEPT ![t] = "returning"]
             \/ log' = log /\ log[t] = "waiting" /\ worker' = [worker EXCEPT ![t] = "none"]
             \/ log' = [log EXCEPT ![t] = "running"] /\ worker' = [worker EXCEPT ![t] = "running"]
      BY <1>2, <1>5 DEF SubmitToAgentKit, At, Logged, durable, agentkit, memory
    <2> QED
      BY <1>1, <2>1 DEF WorkerMoves
  <1>6. CASE AgentKitStops(t)
    <2>1. log[t] = "running" /\ worker[t] # "finishing"
      BY <1>6 DEF AgentKitStops, StallInv, PlaceInv
    <2>2. PICK o \in Outcomes :
             /\ log' = [log EXCEPT ![t] = o]
             /\ worker' = [worker EXCEPT ![t] = IF o = "waiting" THEN "none" ELSE "returning"]
      BY <1>6, <2>1 DEF AgentKitStops, At, Logged
    <2>3. UNCHANGED <<rows, starting, active, finish>>
      BY <1>6 DEF AgentKitStops, durable, memory
    <2> QED
      BY <1>1, <2>1, <2>2, <2>3 DEF WorkerMoves
  <1>7. CASE Resume(t)
    <2>1. log[t] = "waiting" /\ worker[t] \in {"approving", "denying"}
      BY <1>7 DEF Resume, StallInv, PlaceInv
    <2>2. /\ UNCHANGED <<rows, starting, active, finish>>
          /\ \/ log' = [log EXCEPT ![t] = "cancelled"] /\ worker' = [worker EXCEPT ![t] = "returning"]
             \/ log' = [log EXCEPT ![t] = "running"] /\ worker' = [worker EXCEPT ![t] = "resumed"]
      BY <1>2, <1>7, <2>1 DEF Resume, At, Logged, durable, memory
    <2> QED
      BY <1>1, <2>1, <2>2 DEF WorkerMoves
  <1>8. CASE BeginFinish(t)
    <2>1. worker[t] = "returning" /\ UNCHANGED <<rows, log, starting>>
      BY <1>8 DEF BeginFinish, durable, agentkit
    <2>2. active.turn = t => ~active.acked
      BY <2>1 DEF StallInv, PlaceInv
    <2>3. CASE active.turn = t
      <3>1. /\ active' = [active EXCEPT !.acked = TRUE] /\ worker' = [worker EXCEPT ![t] = "finishing"]
            /\ \E success \in BOOLEAN :
                  finish' = [turn |-> t, cancel |-> active.cancel, token |-> active.token,
                             success |-> success, reported |-> FALSE]
        BY <1>8, <2>2, <2>3 DEF BeginFinish, At
      <3>2. finish'.turn = t
        BY <3>1
      <3>3. active'.turn = active.turn /\ active'.submitted = active.submitted
        BY <1>1, <3>1 DEF Slots
      <3>4. worker'[t] = "finishing" /\ \A u \in Turns \ {t} : worker'[u] = worker[u]
        BY <1>1, <3>1
      <3> QED
        BY <2>1, <2>3, <3>2, <3>3, <3>4 DEF WorkerMoves
    <2>4. CASE active.turn # t
      <3>1. /\ worker' = [worker EXCEPT ![t] = "none"] /\ UNCHANGED <<active, finish>>
        BY <1>8, <2>4 DEF BeginFinish, At
      <3> QED
        BY <1>1, <2>1, <2>4, <3>1 DEF WorkerMoves
    <2> QED
      BY <2>3, <2>4
  <1>9. CASE \E accepted \in BOOLEAN : Respond(t, accepted)
    <2>1. /\ log[t] = "waiting" /\ worker[t] = "none"
          /\ UNCHANGED <<rows, starting, log, active, finish>>
          /\ \E w \in {"approving", "denying"} : worker' = [worker EXCEPT ![t] = w]
      BY <1>9 DEF Respond, WaitingInCheckpoint, At, durable, agentkit, memory
    <2> QED
      BY <1>1, <2>1 DEF WorkerMoves
  <1> QED
    BY <1>3, <1>4, <1>5, <1>6, <1>7, <1>8, <1>9 DEF WorkerActs

LEMMA WorkerServes ==
    ASSUME Calm, IInv, StallInv, NEW t \in Turns, WorkerMoves(t)
    PROVE  StallInv'
  <1>1. active.submitted => active.turn \in Turns
    BY DEF IInv, TypeOK, BusyInv
  <1>2. \A u \in Turns \ {t} : active.turn = t => worker[u] # "finishing"
    BY DEF IInv, BusyInv
  <1>3. StartInv'
    BY DEF WorkerMoves, StallInv, StartInv, Present
  <1>4. ServedInv'
    <2>1. CASE active.turn = t
      BY <2>1 DEF WorkerMoves, ServedInv
    <2>2. CASE active.turn # t
      BY <1>1, <2>2 DEF WorkerMoves, ServedInv, StallInv
    <2> QED
      BY <2>1, <2>2
  <1>5. PlaceInv'
    <2>1. ASSUME NEW u \in Turns
          PROVE  /\ worker'[u] \in {"approving", "denying"} => log'[u] = "waiting"
                 /\ worker'[u] \in {"running", "resumed"} => log'[u] = "running"
      BY DEF WorkerMoves, StallInv, PlaceInv
    <2>2. ASSUME NEW u \in Turns, worker'[u] = "finishing"
          PROVE  finish'.turn = u
      <3>1. CASE u = t
        BY <2>2, <3>1 DEF WorkerMoves
      <3>2. CASE u # t
        <4>1. worker[u] = "finishing" /\ active.turn # t
          BY <1>2, <2>2, <3>2 DEF WorkerMoves
        <4> QED
          BY <4>1 DEF WorkerMoves, StallInv, PlaceInv
      <3> QED
        BY <3>1, <3>2
    <2>3. ASSUME active'.acked
          PROVE  active'.turn \in Turns /\ worker'[active'.turn] = "finishing"
      BY <2>3 DEF WorkerMoves, StallInv, PlaceInv
    <2> QED
      BY <2>1, <2>2, <2>3 DEF PlaceInv
  <1> QED
    BY <1>3, <1>4, <1>5 DEF StallInv

LEMMA ReportFinishServes ==
    ASSUME StallInv, ReportFinish
    PROVE  StallInv'
  <1>1. /\ UNCHANGED <<rows, starting, active, worker, log>> /\ finish'.turn = finish.turn
    BY DEF ReportFinish, durable, agentkit, memory
  <1> QED
    BY <1>1 DEF StallInv, StartInv, ServedInv, PlaceInv

LEMMA NextIsServed ==
    ASSUME Calm, IInv, StallInv, NEW next \in Turns \union {NoTurn}, FinishAndActivateNext(next)
    PROVE  StallInv'
  <1>1. /\ finish.turn \in Turns /\ active.submitted
        /\ \A u \in Turns \ {finish.turn} : worker[u] \in {"none", "returning"}
        /\ worker \in [Turns -> WorkerPlaces] /\ starting = {}
    BY Acknowledging, Finisher DEF IInv, TypeOK, WorkerPlaces, StallInv, StartInv
  <1>2. CASE SlotEmptied /\ queue' = queue /\ (next = NoTurn \/ next # ExpectedNext)
    <2>1. Present(rows') = {}
      BY <1>2, LastIsAcknowledged DEF Calm
    <2>2. /\ active' = NoActive /\ starting' = {}
          /\ worker' = [worker EXCEPT ![finish.turn] = "none"]
      BY <1>1, <1>2 DEF SlotEmptied
    <2>3. \A u \in Turns : worker'[u] \in {"none", "returning"}
      BY <1>1, <2>2
    <2>4. \A u \in Turns : rows'[u].state # "claimed"
      BY <2>1 DEF Present
    <2> QED
      BY <2>1, <2>2, <2>3, <2>4 DEF StallInv, StartInv, ServedInv, PlaceInv, NoActive
  <1>3. CASE /\ NextTakesOver(next) /\ next \in Turns /\ next # finish.turn
             /\ \E w \in {"claimed", "returning"} :
                   worker' = [worker EXCEPT ![finish.turn] = "none", ![next] = w]
             /\ UNCHANGED starting
    <2>1. /\ active'.turn = next /\ active'.submitted /\ ~active'.acked
      BY <1>3 DEF NextTakesOver, Owned, NoActive
    <2>2. /\ worker'[next] \in {"claimed", "returning"}
          /\ \A u \in Turns : worker'[u] \in {"none", "returning", "claimed"}
      BY <1>1, <1>3
    <2>3. next # NoTurn
      BY <1>3, NoTurnAssumption
    <2>4. StartInv'
      BY <1>1, <1>3, <2>1, <2>3 DEF StartInv
    <2>5. ServedInv'
      BY <2>1, <2>2 DEF ServedInv
    <2>6. PlaceInv'
      BY <2>1, <2>2 DEF PlaceInv
    <2> QED
      BY <2>4, <2>5, <2>6 DEF StallInv
  <1> QED
    BY <1>2, <1>3, AcknowledgedOrNext

LEMMA SubmittedIsServed ==
    ASSUME Calm, IInv, StallInv, NEW t \in UserTurns, StartTaskTurn(t)
    PROVE  StallInv'
  <1>1. /\ t \in Turns /\ rows \in [Turns -> Row] /\ rows' = [rows EXCEPT ![t] = Queued(nextId)]
        /\ UNCHANGED <<worker, finish, log>> /\ MemoryEnqueue(t)
        /\ starting' = IF Idle THEN starting \union {t} ELSE starting
    BY TurnsAssumption DEF StartTaskTurn, IInv, TypeOK, durable, agentkit
  <1>2. t # NoTurn
    BY <1>1, NoTurnAssumption
  <1>3. CASE Idle
    <2>1. active' = Prepared(t) /\ active.turn = NoTurn
      BY <1>1, <1>3 DEF MemoryEnqueue, Idle
    <2>2. ~active.submitted /\ starting = {} /\ \A u \in Turns : worker[u] # "finishing"
      <3>1. ~active.submitted
        BY <2>1 DEF IInv, BusyInv
      <3> QED
        BY <2>1, <3>1 DEF IInv, BusyInv, StallInv, StartInv
    <2>3. \A u \in Turns : rows'[u].state # "claimed"
      BY <1>1, <2>2 DEF StallInv, StartInv, Queued
    <2>4. /\ active'.turn = t /\ ~active'.submitted /\ ~active'.acked /\ starting' = {t}
      BY <1>1, <1>3, <2>1, <2>2 DEF Prepared, NoActive
    <2> QED
      BY <1>1, <1>2, <2>3, <2>4 DEF StallInv, StartInv, ServedInv, PlaceInv
  <1>4. CASE ~Idle
    <2>1. UNCHANGED <<active, starting>>
      BY <1>1, <1>4 DEF MemoryEnqueue
    <2>2. active.turn # NoTurn
      <3> SUFFICES ASSUME active.turn = NoTurn
                   PROVE  FALSE
        OBVIOUS
      <3>1. Present(rows) = {} /\ In(queue) = {} /\ queue \in Seq(Turns)
        BY DEF StallInv, StartInv, Calm, IInv, OrderInv, TypeOK
      <3>2. queue = <<>>
        BY <3>1, EmptyQueue
      <3> QED
        BY <1>4, <3>2 DEF Idle
    <2>3. (\A u \in Turns : rows[u].state # "claimed") => \A u \in Turns : rows'[u].state # "claimed"
      BY <1>1 DEF Queued
    <2> QED
      BY <1>1, <2>1, <2>2, <2>3 DEF StallInv, StartInv, ServedInv, PlaceInv
  <1> QED
    BY <1>3, <1>4

\* The prepared turn is the first row, nobody holds a claim, and so the
\* activation succeeds.
LEMMA ActivationServes ==
    ASSUME Calm, IInv, StallInv, NEW t \in Turns, ActivateTurnWorker(t)
    PROVE  StallInv'
  <1>1. t \in starting
    BY DEF ActivateTurnWorker
  <1>2. active.turn = t /\ ~active.submitted /\ starting = {t}
    BY <1>1 DEF StallInv, StartInv
  <1>3. InMemory(t) /\ InHand = {t} /\ t # NoTurn
    BY <1>2, NoTurnAssumption DEF InMemory, InHand
  <1>4. t \in Present(rows) /\ ActivationRows(t) = rows /\ rows[t].state = "queued"
    <2>1. t \in Present(rows)
      BY <1>3 DEF Calm, IInv, OrderInv
    <2>2. rows[t].state # "claimed" /\ rows[t] \in Row
      BY <1>2 DEF StallInv, StartInv, IInv, TypeOK
    <2> QED
      BY <2>1, <2>2 DEF Present, ActivationRows, Row
  <1>5. Claimable(rows, t)
    <2> SUFFICES ASSUME NEW u \in Present(rows)
                 PROVE  rows[t].id <= rows[u].id
      BY <1>4 DEF Claimable, IsFirst
    <2>1. rows[t].id \in Nat /\ rows[u].id \in Nat
      BY DEF IInv, TypeOK, Row, Present
    <2>2. u = t \/ rows[t].id < rows[u].id
      BY <1>3 DEF Calm, IInv, OrderInv
    <2> QED
      BY <2>1, <2>2
  <1>6. /\ active'.turn = t /\ active'.submitted /\ ~active'.acked
        /\ worker'[t] \in {"claimed", "returning"}
        /\ \A u \in Turns \ {t} : worker'[u] = worker[u]
    <2>1. /\ active' = [Owned(t, nextToken) EXCEPT
                           !.cancel = IF active.turn = t THEN active.cancel ELSE "none",
                           !.session = active.turn = t /\ active.session]
          /\ \E w \in SubmittedWorker : worker' = [worker EXCEPT ![t] = w]
      BY <1>2, <1>3, <1>4, <1>5 DEF ActivateTurnWorker
    <2>2. SubmittedWorker \subseteq {"claimed", "returning"} /\ worker \in [Turns -> WorkerPlaces]
      BY DEF SubmittedWorker, IInv, TypeOK, WorkerPlaces
    <2> QED
      BY <2>1, <2>2 DEF Owned, NoActive
  <1>7. starting' = {} /\ UNCHANGED <<log, finish>>
    BY <1>2 DEF ActivateTurnWorker, agentkit
  <1>8. StartInv'
    BY <1>3, <1>6, <1>7 DEF StartInv
  <1>9. ServedInv'
    BY <1>6 DEF ServedInv
  <1>10. PlaceInv'
    BY <1>6, <1>7 DEF StallInv, PlaceInv
  <1> QED
    BY <1>8, <1>9, <1>10 DEF StallInv

\* The recovery leaves the restored turn to the user, or else a caller to
\* start the first row.
LEMMA RestartServes ==
    ASSUME IInv, CrashAndRestart
    PROVE  StallInv'
  <1> DEFINE R == RestoredTurn
  <1>1. /\ rows \in [Turns -> Row] /\ nextId \in Nat /\ InShape(rows, nextId)
        /\ nextToken \in Nat \ {0} /\ R \in Turns \union {NoTurn}
    BY DEF IInv, TypeOK, RowsInv, RestoredTurn
  <1>2. /\ worker' = [u \in Turns |-> "none"] /\ log' = log
        /\ rows' = Without(Recovered(rows, R, nextToken), Done)
    BY DEF CrashAndRestart, agentkit
  <1>3. PlaceInv'
    BY <1>2, Restarting DEF PlaceInv, CallerIsBack
  <1>4. ServedInv'
    <2>1. active'.submitted => R # NoTurn /\ active'.turn = R /\ log[R] = "waiting"
      BY Restarting DEF RestartEffect, RestoredTurn
    <2> QED
      BY <1>2, <2>1 DEF ServedInv
  <1>5. ~active'.submitted => \A u \in Turns : rows'[u].state # "claimed"
    <2> SUFFICES ASSUME ~active'.submitted, NEW u \in Turns
                 PROVE  rows'[u].state # "claimed"
      OBVIOUS
    <2>1. R = NoTurn
      BY Restarting DEF RestartEffect
    <2>2. R \notin Present(rows)
      BY <2>1, NoTurnAssumption DEF Present
    <2>3. Recovered(rows, R, nextToken) = Released(rows)
      BY <2>2 DEF Recovered
    <2>4. Released(rows)[u].state # "claimed"
      BY <1>1 DEF Released, Row
    <2> QED
      BY <1>2, <2>3, <2>4 DEF Without, Absent
  <1>6. active'.turn = NoTurn => Present(rows') = {}
    BY Restarting DEF CallerIsBack
  <1>7. starting' = IF active'.submitted \/ active'.turn = NoTurn THEN {} ELSE {active'.turn}
    BY Restarting DEF CallerIsBack
  <1> QED
    BY <1>3, <1>4, <1>5, <1>6, <1>7 DEF StallInv, StartInv

LEMMA StallStutters ==
    ASSUME StallInv, UNCHANGED vars
    PROVE  StallInv'
  <1>1. UNCHANGED <<rows, log, active, starting, worker, finish>>
    BY DEF vars, durable, agentkit, memory
  <1> QED
    BY <1>1 DEF StallInv, StartInv, ServedInv, PlaceInv, Present

LEMMA StallStep ==
    ASSUME Calm, IInv, StallInv, Next
    PROVE  StallInv'
  <1>1. ASSUME NEW t \in Turns, WorkerActs(t)
        PROVE  StallInv'
    BY <1>1, WorkerActing, WorkerServes
  <1>2. ASSUME NEW t \in Turns,
               \/ OpenSession(t) \/ RunFails(t) \/ SubmitToAgentKit(t)
               \/ AgentKitStops(t) \/ Resume(t) \/ BeginFinish(t)
        PROVE  StallInv'
    BY <1>1, <1>2 DEF WorkerActs
  <1>3. ASSUME NEW t \in Turns, NEW accepted \in BOOLEAN, Respond(t, accepted)
        PROVE  StallInv'
    BY <1>1, <1>3 DEF WorkerActs
  <1>4. ASSUME NEW t \in Turns, ActivateTurnWorker(t)
        PROVE  StallInv'
    BY <1>4, ActivationServes
  <1> QED
    BY <1>2, <1>3, <1>4, CalmSteps, ReportFinishServes, NextIsServed, SubmittedIsServed,
       RestartServes

\* No row waits for nobody: in a task of the user's turns alone, before and
\* after any number of crashes and however hooks and workers fail, a row means
\* that a turn has the slot and that the user is asked about it, a caller is
\* about to start it, or its worker or finish_turn has a step to take; and
\* the next start-up accepts the rows.  No transaction fails, nothing is
\* cancelled and no wait times out.
THEOREM NeverStalls == Calm => (Spec => []QueueNeverStalls)
  <1> SUFFICES ASSUME Calm
               PROVE  Spec => []QueueNeverStalls
    OBVIOUS
  <1>1. Init => StallInv
    BY StallInits
  <1>2. IInv /\ StallInv /\ [Next]_vars => StallInv'
    BY StallStep, StallStutters
  <1>3. IInv /\ StallInv => QueueNeverStalls
    <2> SUFFICES ASSUME IInv, StallInv
                 PROVE  QueueNeverStalls
      OBVIOUS
    <2>1. RecoveryNeverRefuses
      BY WaitingIsFirst DEF Calm, RecoveryNeverRefuses
    <2>2. ASSUME Present(rows) # {}
          PROVE  active.turn # NoTurn /\ Served(active.turn)
      <3>1. active.turn # NoTurn /\ active.turn \in Turns
        BY <2>2 DEF StallInv, StartInv, IInv, TypeOK
      <3>2. CASE active.submitted
        BY <3>1, <3>2 DEF StallInv, ServedInv, PlaceInv, Served
      <3>3. CASE ~active.submitted
        BY <3>1, <3>3 DEF StallInv, StartInv, Served
      <3> QED
        BY <3>1, <3>2, <3>3
    <2> QED
      BY <2>1, <2>2 DEF QueueNeverStalls, QueueIsServed
  <1> QED
    BY <1>1, <1>2, <1>3, Inductive, PTL DEF Spec

-----------------------------------------------------------------------------
(* What ended stays ended.                                                  *)

\* A step that changes the log of a turn works on an open one.
LEMMA LogMoves ==
    ASSUME IInv, NoCancels \/ NoDeadline, Next, NEW u \in Turns, Ended(u)
    PROVE  log'[u] \in Terminal
  <1>1. log \in [Turns -> {"none", "running", "waiting"} \union Terminal]
    BY DEF IInv, TypeOK
  <1>2. CASE UNCHANGED log
    BY <1>2 DEF Ended
  <1>3. ASSUME NEW t \in Turns, SubmitToAgentKit(t)
        PROVE  log'[u] \in Terminal
    BY <1>1, <1>3 DEF SubmitToAgentKit, Logged, agentkit, Ended, Terminal
  <1>4. ASSUME NEW t \in Turns, AgentKitStops(t)
        PROVE  log'[u] \in Terminal
    BY <1>1, <1>4 DEF AgentKitStops, Logged, agentkit, Ended, Terminal
  <1>5. ASSUME NEW t \in Turns, Resume(t)
        PROVE  log'[u] \in Terminal
    BY <1>1, <1>5 DEF Resume, Logged, agentkit, Ended, Terminal
  <1>6. ASSUME NEW t \in Turns, DetachedRunStops(t)
        PROVE  log'[u] \in Terminal
    <2>1. log[t] = "running"
      BY <1>6 DEF DetachedRunStops, IInv, DetachedInv
    <2> QED
      BY <1>1, <1>6, <2>1 DEF DetachedRunStops, Logged, Ended, Terminal
  <1>7. ASSUME CancelSessionTurn
        PROVE  log'[u] \in Terminal
    BY <1>1, <1>7 DEF CancelSessionTurn, Logged, agentkit, Ended, Terminal
  <1>8. WorkerStep => \/ UNCHANGED log
                      \/ \E t \in Turns : SubmitToAgentKit(t) \/ AgentKitStops(t) \/ Resume(t)
    BY DEF WorkerStep, OpenSession, BeginFinish, ReportFinish, FinishCancelled,
           FinishUnacknowledged, FinishAndActivateNext, Finished, agentkit
  <1>9. CallerStep => UNCHANGED log \/ CancelSessionTurn
    BY DEF CallerStep, ActivateTurnWorker, PersistWaitingAgent, AbortAgent, SnapshotSession,
           CheckWaiting, CancelNode, agentkit
  <1> QED
    BY <1>2, <1>3, <1>4, <1>5, <1>6, <1>7, <1>8, <1>9
       DEF Next, StartTaskTurn, StartAgent, CancelRun, RunFails, ActivationInterrupted,
           RunTimesOut, Respond, Interrupt, CrashAndRestart, agentkit

\* A turn that ended is never given to the agent again, nor opened again,
\* through every fault and crash, if nothing is cancelled or no wait times out.
THEOREM EndedStays == NoCancels \/ NoDeadline => (Spec => EndedTurnStaysEnded)
  <1> SUFFICES ASSUME NoCancels \/ NoDeadline
               PROVE  Spec => EndedTurnStaysEnded
    OBVIOUS
  <1>1. IInv /\ [Next]_vars => [\A t \in Turns : Ended(t) => log'[t] \in Terminal]_vars
    BY LogMoves
  <1> QED
    BY <1>1, Inductive, PTL DEF Spec, EndedTurnStaysEnded

-----------------------------------------------------------------------------
(* A node of an automation that ended, or that is being ended, does not    *)
(* start a turn.                                                           *)

\* Under any fault but before a crash: what starting a turn still needs.
StartingInv ==
    crashes = 0 =>
      \A t \in starting : /\ t \in submitted /\ t \notin In(queue)
                          /\ ~(active.turn = t /\ active.submitted)

\* An agent whose run does not wait for it yet has no row.
UnclaimedInv ==
    crashes = 0 =>
      \A t \in AutoTurns : node[t] \in {"pending", "running", "aborting"} =>
         rows[t].state = "absent" /\ ~(active.turn = t /\ active.submitted)

\* Whatever a worker of t does next, it meets the cancellation.
Doomed(t) == worker[t] = "claimed" => active.cancel # "none"

\* AgentKit has the request to cancel t, or the canceller is about to leave it.
Requested(t) == \/ t \in cancelReq
                \/ canceller.stage \in {"snapshot", "session"} /\ canceller.session

CancellerInv ==
    /\ canceller.stage = "node" => canceller.mode = "automation"
    /\ \A t \in Turns : worker[t] = "opened" => active.session
    /\ crashes = 0 /\ canceller.mode = "automation" =>
         LET t == canceller.turn
         IN  /\ ~Waits(t)
             /\ log[t] = "none" =>
                  /\ Doomed(t)
                  /\ worker[t] = "opened" => Requested(t)

EndedNodeInv ==
    crashes = 0 =>
      \A t \in AutoTurns : node[t] \in {"succeeded", "failed", "cancelled"} /\ log[t] = "none" =>
         /\ t \in In(queue) => rows[t].state = "absent"
         /\ PreparedActive(t) => t \notin starting
         /\ Doomed(t)
         /\ worker[t] = "opened" => t \in cancelReq

NodeInv == StartingInv /\ UnclaimedInv /\ CancellerInv /\ EndedNodeInv

\* The steps that pass the slot on: u takes it from the queue, or with the
\* activation that was still to come.
Takes(u) == /\ rows'[u].state # "absent" /\ Waits(u)
            /\ u \in In(queue) \/ u \in starting \ starting'

EndedNode(t) == node[t] \in {"succeeded", "failed", "cancelled"}
Early == {"pending", "running", "aborting"}

\* What EndedNodeInv says of t.
Harmless(t) ==
    /\ t \in In(queue) => rows[t].state = "absent"
    /\ PreparedActive(t) => t \notin starting
    /\ Doomed(t)
    /\ worker[t] = "opened" => t \in cancelReq

PassEffect ==
    /\ UNCHANGED <<log, canceller, cancelReq, submitted, crashes>>
    /\ starting' \subseteq starting /\ In(queue') \subseteq In(queue)
    /\ \A u \in Turns : rows[u].state = "absent" =>
          \/ rows'[u].state = "absent"
          \/ u \in starting \ starting' /\ (u \in AutoTurns => node[u] \notin {"running", "aborting"})
    /\ \A u \in Turns : PreparedActive(u)' => Waits(u)
    /\ \A u \in Turns : active'.turn = u /\ active'.submitted =>
                          (active.turn = u /\ active.submitted) \/ Takes(u)
    /\ \A u \in Turns : worker'[u] \in {"claimed", "opened"} =>
          \/ worker'[u] = worker[u] /\ active' = active
          \/ worker'[u] = "claimed" /\ Takes(u)
    /\ \A u \in AutoTurns : /\ node'[u] \in Early => node[u] \in Early
                            /\ EndedNode(u)' => EndedNode(u) \/ crashes # 0 \/ Harmless(u)'

LEMMA PassKeeps ==
    ASSUME IInv, NodeInv, PassEffect
    PROVE  NodeInv'
  <1>1. SUFFICES ASSUME crashes = 0
                 PROVE  NodeInv'
    <2>1. ASSUME crashes # 0
          PROVE  NodeInv'
      <3>1. CancellerInv'
        BY <2>1 DEF NodeInv, CancellerInv, PassEffect
      <3> QED
        BY <2>1, <3>1 DEF NodeInv, StartingInv, UnclaimedInv, EndedNodeInv,
             PassEffect
    <2> QED
      BY <2>1
  <1>2. /\ \A t \in starting : t \in submitted /\ t \notin In(queue)
        /\ \A t \in starting : ~(active.turn = t /\ active.submitted)
    BY <1>1 DEF NodeInv, StartingInv
  <1>3. StartingInv'
    <2>1. starting \subseteq Turns
      BY DEF IInv, TypeOK
    <2> QED
      BY <1>2, <2>1 DEF StartingInv, PassEffect, Takes
  <1>4. UnclaimedInv'
    <2> SUFFICES ASSUME NEW t \in AutoTurns, node'[t] \in Early
                 PROVE  rows'[t].state = "absent" /\ ~(active'.turn = t /\ active'.submitted)
      BY DEF UnclaimedInv, Early
    <2>1. /\ t \in Turns /\ node[t] \in Early /\ rows[t].state = "absent"
          /\ ~(active.turn = t /\ active.submitted)
      BY <1>1, TurnsAssumption DEF NodeInv, UnclaimedInv, PassEffect, Early
    <2>2. t \in starting => node[t] # "pending"
      BY <1>2 DEF IInv, NewInv
    <2>3. rows'[t].state = "absent"
      BY <2>1, <2>2 DEF PassEffect, Early
    <2> QED
      BY <2>1, <2>3 DEF PassEffect, Takes
  <1>5. CancellerInv'
    <2>1. \A t \in Turns : worker'[t] = "opened" => active'.session
      BY DEF PassEffect, NodeInv, CancellerInv
    <2> SUFFICES ASSUME canceller.mode = "automation"
                 PROVE  /\ ~Waits(canceller.turn)'
                        /\ log[canceller.turn] = "none" =>
                             /\ Doomed(canceller.turn)'
                             /\ worker'[canceller.turn] = "opened" => Requested(canceller.turn)
      BY <1>1, <2>1 DEF CancellerInv, PassEffect, NodeInv, Requested
    <2> DEFINE t == canceller.turn
    <2>2. t \in submitted /\ t \in Turns
      BY DEF IInv, NewInv, TypeOK, NoCancel
    <2>3. /\ ~Waits(t)
          /\ log[t] = "none" =>
               /\ Doomed(t)
               /\ worker[t] = "opened" => Requested(t)
      BY <1>1 DEF NodeInv, CancellerInv
    <2>4. ~Waits(t)'
      BY <2>2, <2>3 DEF PassEffect, Waits
    <2>5. worker'[t] \in {"claimed", "opened"} => worker'[t] = worker[t] /\ active' = active
      <3>1. ASSUME worker'[t] = "claimed", Takes(t), ~(worker'[t] = worker[t] /\ active' = active)
            PROVE  FALSE
        BY <2>3, <3>1 DEF Takes
      <3> QED
        BY <2>2, <3>1 DEF PassEffect
    <2> QED
      BY <2>3, <2>4, <2>5 DEF Doomed, PassEffect
  <1>6. EndedNodeInv'
    <2> SUFFICES ASSUME NEW t \in AutoTurns, EndedNode(t)', log[t] = "none", EndedNode(t)
                 PROVE  Harmless(t)'
      BY DEF EndedNodeInv, PassEffect, Harmless, EndedNode
    <2>1. t \in Turns /\ Harmless(t)
      BY <1>1, TurnsAssumption DEF NodeInv, EndedNodeInv, Harmless, EndedNode
    <2>2. t \in In(queue') => rows'[t].state = "absent"
      BY <1>2, <2>1 DEF PassEffect, Harmless
    <2>3. PreparedActive(t)' => t \notin starting'
      BY <1>2, <2>1 DEF PassEffect, Harmless, Waits
    <2>4. ~Takes(t)
      BY <1>2, <2>1 DEF PassEffect, Takes, Harmless, Waits
    <2>5. worker'[t] \in {"claimed", "opened"} => worker'[t] = worker[t] /\ active' = active
      BY <2>1, <2>4 DEF PassEffect
    <2> QED
      BY <2>1, <2>2, <2>3, <2>5 DEF Harmless, Doomed, PassEffect
  <1> QED
    BY <1>3, <1>4, <1>5, <1>6 DEF NodeInv

LEMMA PersistWaitingAgentKeepsNodes ==
    ASSUME NEW t \in AutoTurns, IInv, NodeInv, PersistWaitingAgent(t)
    PROVE  NodeInv'
  <1>1. StartingInv'
    BY TurnsAssumption, NoTurnAssumption DEF PersistWaitingAgent, IInv,
         NodeInv, StartingInv, TypeOK, durable, agentkit, memory, bounds,
         CancelModes, Terminal
  <1>2. UnclaimedInv'
    BY TurnsAssumption, NoTurnAssumption DEF PersistWaitingAgent, IInv,
         NodeInv, UnclaimedInv, TypeOK, durable, agentkit, memory, bounds,
         CancelModes, Terminal
  <1>3. CancellerInv'
    BY TurnsAssumption, NoTurnAssumption DEF PersistWaitingAgent, IInv,
         NodeInv, CancellerInv, TypeOK, BusyInv, WaitsInv, NewInv, durable,
         agentkit, memory, bounds, PreparedActive, WaitingInCheckpoint,
         NoCancel, CancelModes, Terminal, Waits, Doomed, Requested
  <1>4. EndedNodeInv'
    BY TurnsAssumption, NoTurnAssumption DEF PersistWaitingAgent, IInv,
         NodeInv, EndedNodeInv, TypeOK, BusyInv, WaitsInv, durable, agentkit,
         memory, bounds, PreparedActive, WaitingInCheckpoint, CancelModes,
         Terminal, Waits, Doomed
  <1> QED
    BY <1>1, <1>2, <1>3, <1>4 DEF NodeInv

LEMMA OpenSessionKeepsNodes ==
    ASSUME NEW t \in Turns, IInv, NodeInv, OpenSession(t)
    PROVE  NodeInv'
  <1>1. StartingInv'
    BY TurnsAssumption, NoTurnAssumption DEF OpenSession, IInv, NodeInv,
         StartingInv, TypeOK, At, durable, agentkit, bounds, CancelModes,
         Terminal
  <1>2. UnclaimedInv'
    BY SMTT(30), TurnsAssumption, NoTurnAssumption DEF OpenSession, IInv, NodeInv,
         UnclaimedInv, TypeOK, At, durable, agentkit, bounds, CancelModes,
         Terminal
  <1>3. CancellerInv'
    BY TurnsAssumption, NoTurnAssumption DEF OpenSession, IInv, NodeInv,
         CancellerInv, TypeOK, BusyInv, WaitsInv, NewInv, At, durable,
         agentkit, bounds, PreparedActive, WaitingInCheckpoint, NoCancel,
         CancelModes, Terminal, Waits, Doomed, Requested
  <1>4. EndedNodeInv'
    BY TurnsAssumption, NoTurnAssumption DEF OpenSession, IInv, NodeInv,
         EndedNodeInv, TypeOK, BusyInv, WaitsInv, At, durable, agentkit,
         bounds, PreparedActive, WaitingInCheckpoint, CancelModes, Terminal,
         Waits, Doomed
  <1> QED
    BY <1>1, <1>2, <1>3, <1>4 DEF NodeInv

LEMMA RunFailsKeepsNodes ==
    ASSUME NEW t \in Turns, IInv, NodeInv, RunFails(t)
    PROVE  NodeInv'
  <1>1. StartingInv'
    BY TurnsAssumption, NoTurnAssumption DEF RunFails, IInv, NodeInv,
         StartingInv, TypeOK, At, durable, agentkit, memory, bounds,
         CancelModes, Terminal
  <1>2. UnclaimedInv'
    BY TurnsAssumption, NoTurnAssumption DEF RunFails, IInv, NodeInv,
         UnclaimedInv, TypeOK, At, durable, agentkit, memory, bounds,
         CancelModes, Terminal
  <1>3. CancellerInv'
    BY TurnsAssumption, NoTurnAssumption DEF RunFails, IInv, NodeInv,
         CancellerInv, TypeOK, BusyInv, WaitsInv, NewInv, At, durable,
         agentkit, memory, bounds, PreparedActive, WaitingInCheckpoint,
         NoCancel, CancelModes, Terminal, Waits, Doomed, Requested
  <1>4. EndedNodeInv'
    BY TurnsAssumption, NoTurnAssumption DEF RunFails, IInv, NodeInv,
         EndedNodeInv, TypeOK, BusyInv, WaitsInv, At, durable, agentkit,
         memory, bounds, PreparedActive, WaitingInCheckpoint, CancelModes,
         Terminal, Waits, Doomed
  <1> QED
    BY <1>1, <1>2, <1>3, <1>4 DEF NodeInv

LEMMA SubmitToAgentKitKeepsNodes ==
    ASSUME NEW t \in Turns, IInv, NodeInv, SubmitToAgentKit(t)
    PROVE  NodeInv'
  <1>1. StartingInv'
    BY TurnsAssumption, NoTurnAssumption DEF SubmitToAgentKit, IInv, NodeInv,
         StartingInv, TypeOK, At, Logged, durable, agentkit, memory, bounds,
         Ended, CancelModes, Terminal
  <1>2. UnclaimedInv'
    BY TurnsAssumption, NoTurnAssumption DEF SubmitToAgentKit, IInv, NodeInv,
         UnclaimedInv, TypeOK, At, Logged, durable, agentkit, memory, bounds,
         Ended, CancelModes, Terminal
  <1>3. CancellerInv'
    BY TurnsAssumption, NoTurnAssumption DEF SubmitToAgentKit, IInv, NodeInv,
         CancellerInv, TypeOK, BusyInv, WaitsInv, NewInv, At, Logged,
         durable, agentkit, memory, bounds, Ended, PreparedActive,
         WaitingInCheckpoint, NoCancel, CancelModes, Terminal, Waits, Doomed,
         Requested
  <1>4. EndedNodeInv'
    BY TurnsAssumption, NoTurnAssumption DEF SubmitToAgentKit, IInv, NodeInv,
         EndedNodeInv, TypeOK, BusyInv, WaitsInv, At, Logged, durable,
         agentkit, memory, bounds, Ended, PreparedActive,
         WaitingInCheckpoint, CancelModes, Terminal, Waits, Doomed
  <1> QED
    BY <1>1, <1>2, <1>3, <1>4 DEF NodeInv

LEMMA AgentKitStopsKeepsNodes ==
    ASSUME NEW t \in Turns, IInv, NodeInv, AgentKitStops(t)
    PROVE  NodeInv'
  <1>1. StartingInv'
    BY TurnsAssumption, NoTurnAssumption DEF AgentKitStops, IInv, NodeInv,
         StartingInv, TypeOK, At, Logged, durable, agentkit, memory, bounds,
         CancelModes, Terminal
  <1>2. UnclaimedInv'
    BY TurnsAssumption, NoTurnAssumption DEF AgentKitStops, IInv, NodeInv,
         UnclaimedInv, TypeOK, At, Logged, durable, agentkit, memory, bounds,
         CancelModes, Terminal
  <1>3. CancellerInv'
    BY TurnsAssumption, NoTurnAssumption DEF AgentKitStops, IInv, NodeInv,
         CancellerInv, TypeOK, BusyInv, WaitsInv, NewInv, At, Logged,
         durable, agentkit, memory, bounds, PreparedActive,
         WaitingInCheckpoint, NoCancel, CancelModes, Terminal, Waits, Doomed,
         Requested
  <1>4. EndedNodeInv'
    BY TurnsAssumption, NoTurnAssumption DEF AgentKitStops, IInv, NodeInv,
         EndedNodeInv, TypeOK, BusyInv, WaitsInv, At, Logged, durable,
         agentkit, memory, bounds, PreparedActive, WaitingInCheckpoint,
         CancelModes, Terminal, Waits, Doomed
  <1> QED
    BY <1>1, <1>2, <1>3, <1>4 DEF NodeInv

LEMMA RunTimesOutKeepsNodes ==
    ASSUME NEW t \in Turns, IInv, NodeInv, RunTimesOut(t)
    PROVE  NodeInv'
  <1>1. StartingInv'
    BY TurnsAssumption, NoTurnAssumption DEF RunTimesOut, IInv, NodeInv,
         StartingInv, TypeOK, At, durable, agentkit, memory, bounds,
         CancelModes, Terminal
  <1>2. UnclaimedInv'
    BY TurnsAssumption, NoTurnAssumption DEF RunTimesOut, IInv, NodeInv,
         UnclaimedInv, TypeOK, At, durable, agentkit, memory, bounds,
         CancelModes, Terminal
  <1>3. CancellerInv'
    BY TurnsAssumption, NoTurnAssumption DEF RunTimesOut, IInv, NodeInv,
         CancellerInv, TypeOK, BusyInv, WaitsInv, NewInv, At, durable,
         agentkit, memory, bounds, PreparedActive, WaitingInCheckpoint,
         NoCancel, CancelModes, Terminal, Waits, Doomed, Requested
  <1>4. EndedNodeInv'
    BY TurnsAssumption, NoTurnAssumption DEF RunTimesOut, IInv, NodeInv,
         EndedNodeInv, TypeOK, BusyInv, WaitsInv, At, durable, agentkit,
         memory, bounds, PreparedActive, WaitingInCheckpoint, CancelModes,
         Terminal, Waits, Doomed
  <1> QED
    BY <1>1, <1>2, <1>3, <1>4 DEF NodeInv

LEMMA DetachedRunStopsKeepsNodes ==
    ASSUME NEW t \in Turns, IInv, NodeInv, DetachedRunStops(t)
    PROVE  NodeInv'
  <1>1. StartingInv'
    BY TurnsAssumption, NoTurnAssumption DEF DetachedRunStops, IInv, NodeInv,
         StartingInv, TypeOK, Logged, durable, memory, bounds, CancelModes,
         Terminal
  <1>2. UnclaimedInv'
    BY TurnsAssumption, NoTurnAssumption DEF DetachedRunStops, IInv, NodeInv,
         UnclaimedInv, TypeOK, Logged, durable, memory, bounds, CancelModes,
         Terminal
  <1>3. CancellerInv'
    BY TurnsAssumption, NoTurnAssumption DEF DetachedRunStops, IInv, NodeInv,
         CancellerInv, TypeOK, BusyInv, WaitsInv, NewInv, Logged, durable,
         memory, bounds, PreparedActive, WaitingInCheckpoint, NoCancel,
         CancelModes, Terminal, Waits, Doomed, Requested
  <1>4. EndedNodeInv'
    BY TurnsAssumption, NoTurnAssumption DEF DetachedRunStops, IInv, NodeInv,
         EndedNodeInv, TypeOK, BusyInv, WaitsInv, Logged, durable, memory,
         bounds, PreparedActive, WaitingInCheckpoint, CancelModes, Terminal,
         Waits, Doomed
  <1> QED
    BY <1>1, <1>2, <1>3, <1>4 DEF NodeInv

LEMMA RespondKeepsNodes ==
    ASSUME NEW t \in Turns, NEW accepted \in BOOLEAN, IInv, NodeInv, Respond(t, accepted)
    PROVE  NodeInv'
  <1>1. StartingInv'
    BY TurnsAssumption, NoTurnAssumption DEF Respond, IInv, NodeInv,
         StartingInv, TypeOK, At, durable, agentkit, memory, bounds,
         WaitingInCheckpoint, CancelModes, Terminal
  <1>2. UnclaimedInv'
    BY TurnsAssumption, NoTurnAssumption DEF Respond, IInv, NodeInv,
         UnclaimedInv, TypeOK, At, durable, agentkit, memory, bounds,
         WaitingInCheckpoint, CancelModes, Terminal
  <1>3. CancellerInv'
    BY TurnsAssumption, NoTurnAssumption DEF Respond, IInv, NodeInv,
         CancellerInv, TypeOK, BusyInv, WaitsInv, NewInv, At, durable,
         agentkit, memory, bounds, PreparedActive, WaitingInCheckpoint,
         NoCancel, CancelModes, Terminal, Waits, Doomed, Requested
  <1>4. EndedNodeInv'
    BY TurnsAssumption, NoTurnAssumption DEF Respond, IInv, NodeInv,
         EndedNodeInv, TypeOK, BusyInv, WaitsInv, At, durable, agentkit,
         memory, bounds, PreparedActive, WaitingInCheckpoint, CancelModes,
         Terminal, Waits, Doomed
  <1> QED
    BY <1>1, <1>2, <1>3, <1>4 DEF NodeInv

LEMMA ResumeKeepsNodes ==
    ASSUME NEW t \in Turns, IInv, NodeInv, Resume(t)
    PROVE  NodeInv'
  <1>1. StartingInv'
    BY TurnsAssumption, NoTurnAssumption DEF Resume, IInv, NodeInv,
         StartingInv, TypeOK, At, Logged, durable, agentkit, memory, bounds,
         CancelModes, Terminal
  <1>2. UnclaimedInv'
    BY TurnsAssumption, NoTurnAssumption DEF Resume, IInv, NodeInv,
         UnclaimedInv, TypeOK, At, Logged, durable, agentkit, memory, bounds,
         CancelModes, Terminal
  <1>3. CancellerInv'
    BY TurnsAssumption, NoTurnAssumption DEF Resume, IInv, NodeInv,
         CancellerInv, TypeOK, BusyInv, WaitsInv, NewInv, At, Logged,
         durable, agentkit, memory, bounds, PreparedActive,
         WaitingInCheckpoint, NoCancel, CancelModes, Terminal, Waits, Doomed,
         Requested
  <1>4. EndedNodeInv'
    BY TurnsAssumption, NoTurnAssumption DEF Resume, IInv, NodeInv,
         EndedNodeInv, TypeOK, BusyInv, WaitsInv, At, Logged, durable,
         agentkit, memory, bounds, PreparedActive, WaitingInCheckpoint,
         CancelModes, Terminal, Waits, Doomed
  <1> QED
    BY <1>1, <1>2, <1>3, <1>4 DEF NodeInv

\* What keeps CancellerInv: no turn is opened or claimed, and only one that
\* was not submitted begins to wait.
LEMMA CancellerKept ==
    ASSUME IInv, NodeInv, UNCHANGED <<canceller, log, cancelReq, crashes>>,
           \A u \in Turns : worker'[u] \in {"claimed", "opened"} =>
               /\ worker'[u] = worker[u]
               /\ active'.session = active.session /\ active'.cancel = active.cancel,
           \A u \in submitted : Waits(u)' => Waits(u)
    PROVE  CancellerInv'
  <1>1. canceller.mode = "automation" => canceller.turn \in submitted /\ canceller.turn \in Turns
    BY DEF IInv, TypeOK, NewInv, NoCancel
  <1>2. \A u \in Turns : /\ Doomed(u) => Doomed(u)'
                         /\ Requested(u) => Requested(u)'
    BY DEF Doomed, Requested
  <1>3. \A u \in Turns : worker'[u] = "opened" => worker[u] = "opened" /\ active'.session = active.session
    OBVIOUS
  <1>4. canceller'.stage = "node" => canceller'.mode = "automation"
    BY DEF NodeInv, CancellerInv
  <1>5. \A u \in Turns : worker'[u] = "opened" => active'.session
    BY <1>3 DEF NodeInv, CancellerInv
  <1>6. ASSUME crashes = 0, canceller.mode = "automation"
        PROVE  /\ ~Waits(canceller.turn)'
               /\ log[canceller.turn] = "none" =>
                    /\ Doomed(canceller.turn)'
                    /\ worker'[canceller.turn] = "opened" => Requested(canceller.turn)'
    <2> DEFINE c == canceller.turn
    <2>1. c' = c /\ c \in submitted /\ c \in Turns
      BY <1>1, <1>6
    <2>2. ~Waits(c) /\ (log[c] = "none" => Doomed(c) /\ (worker[c] = "opened" => Requested(c)))
      BY <1>6 DEF NodeInv, CancellerInv
    <2> HIDE DEF c
    <2>3. ~Waits(c)'
      BY <2>1, <2>2 DEF Waits, PreparedActive
    <2>4. Doomed(c) => Doomed(c)'
      BY <2>1 DEF Doomed
    <2>5. Requested(c) => Requested(c)'
      BY <2>1 DEF Requested
    <2>6. worker'[c] = "opened" => worker[c] = "opened"
      BY <2>1
    <2> QED
      BY <2>2, <2>3, <2>4, <2>5, <2>6 DEF c
  <1> QED
    BY <1>4, <1>5, <1>6 DEF CancellerInv

LEMMA EmptiedPasses ==
    ASSUME IInv, SlotEmptied
    PROVE  PassEffect
  <1>1. /\ finish.turn \in Turns /\ worker[finish.turn] = "finishing"
        /\ \A u \in Turns \ {finish.turn} : worker[u] \in {"none", "returning"}
        /\ worker \in [Turns -> WorkerPlaces] /\ NoTurn \notin Turns
    BY Finisher, NoTurnAssumption DEF SlotEmptied, IInv, TypeOK, WorkerPlaces
  <1>2. /\ UNCHANGED <<log, canceller, cancelReq, submitted, crashes, starting, node>>
        /\ Present(rows') \subseteq Present(rows) /\ In(queue') \subseteq In(queue)
        /\ active'.turn = NoTurn /\ ~active'.submitted
    BY EmptyQueue DEF SlotEmptied, NoActive
  <1>3. \A u \in Turns : worker'[u] \notin {"claimed", "opened"}
    BY <1>1 DEF SlotEmptied
  <1>4. \A u \in Turns : rows[u].state = "absent" => rows'[u].state = "absent"
    BY <1>2 DEF Present
  <1> QED
    BY <1>1, <1>2, <1>3, <1>4 DEF PassEffect, PreparedActive, EndedNode

LEMMA TakenOverPasses ==
    ASSUME IInv, NEW next \in Turns \union {NoTurn}, FinishAndActivateNext(next)
    PROVE  PassEffect
  <1>1. CASE SlotEmptied
    BY <1>1, EmptiedPasses
  <1>2. CASE /\ NextTakesOver(next) /\ next \in Turns /\ next # finish.turn
             /\ \E w \in {"claimed", "returning"} :
                   worker' = [worker EXCEPT ![finish.turn] = "none", ![next] = w]
             /\ finish' = NoFinish
             /\ UNCHANGED <<log, last, node, starting, canceller, cancelReq, detached,
                            submitted, crashes, cancels>>
    <2>1. /\ finish.turn \in Turns /\ worker[finish.turn] = "finishing"
          /\ \A u \in Turns \ {finish.turn} : worker[u] \in {"none", "returning"}
          /\ worker \in [Turns -> WorkerPlaces] /\ queue \in Seq(Turns)
      BY Acknowledging, Finisher DEF IInv, TypeOK, WorkerPlaces
    <2>2. /\ In(queue') \subseteq In(queue) /\ next \in In(queue)
          /\ Present(rows') \subseteq Present(rows) /\ next \in Present(rows')
          /\ active'.turn = next /\ active'.submitted
      <3>1. next # NoTurn
        BY <1>2, NoTurnAssumption
      <3> QED
        BY <1>2, <2>1, <3>1, QueueMoves, Acknowledging DEF NextTakesOver,
             Owned, NoActive
    <2>3. Takes(next)
      BY <2>2 DEF Takes, Waits, Present
    <2>4. \A u \in Turns : worker'[u] \in {"claimed", "opened"} => worker'[u] = "claimed" /\ u = next
      BY <1>2, <2>1
    <2>5. \A u \in Turns : rows[u].state = "absent" => rows'[u].state = "absent"
      BY <2>2 DEF Present
    <2> QED
      BY <1>2, <2>2, <2>3, <2>4, <2>5 DEF PassEffect, PreparedActive,
           EndedNode
  <1> QED
    BY <1>1, <1>2, AcknowledgedOrNext

\* A discarded turn, where the node is looked at by the caller.
LEMMA DiscardPasses ==
    ASSUME IInv, NEW t \in Turns, DiscardEffect(t), starting' \subseteq starting
    PROVE  /\ In(queue') \subseteq In(queue)
           /\ \A u \in Turns : rows[u].state = "absent" => rows'[u].state = "absent"
           /\ \A u \in Turns : PreparedActive(u)' => Waits(u)
           /\ \A u \in Turns : active'.turn = u /\ active'.submitted =>
                                 (active.turn = u /\ active.submitted) \/ Takes(u)
           /\ \A u \in Turns : worker'[u] \in {"claimed", "opened"} =>
                 \/ worker'[u] = worker[u] /\ active' = active
                 \/ worker'[u] = "claimed" /\ Takes(u)
  <1>1. /\ queue \in Seq(Turns) /\ worker \in [Turns -> WorkerPlaces] /\ NoTurn \notin Turns
    BY NoTurnAssumption DEF IInv, TypeOK, WorkerPlaces
  <1>2. \A u \in Turns : rows[u].state = "absent" => rows'[u].state = "absent"
    BY DEF DiscardEffect, Present
  <1>3. CASE UNCHANGED <<active, worker>> /\ In(queue') \subseteq In(queue)
    BY <1>2, <1>3 DEF PreparedActive, Waits
  <1>4. CASE PreparedActive(t) /\ queue' = queue /\ active' = NoActive /\ worker' = worker
    <2>1. \A u \in Turns : worker[u] \notin {"claimed", "opened"}
      BY <1>4 DEF PreparedActive, IInv, BusyInv
    <2> QED
      BY <1>1, <1>2, <1>4, <2>1 DEF PreparedActive, NoActive
  <1>5. CASE PreparedActive(t) /\ HeadTakesOver
    <2>1. \A u \in Turns : worker[u] \notin {"claimed", "opened"}
      BY <1>5 DEF PreparedActive, IInv, BusyInv
    <2>2. In(queue') \subseteq In(queue) /\ Head(queue) \in In(queue) /\ Head(queue) \in Turns
      BY <1>1, <1>5, QueueMoves DEF HeadTakesOver
    <2>3. active'.submitted => Takes(Head(queue))
      BY <1>5, <2>2 DEF HeadTakesOver, OwnsClaim, Takes, Waits
    <2>4. \A u \in Turns : worker'[u] \in {"claimed", "opened"} =>
             worker'[u] = "claimed" /\ u = Head(queue) /\ active'.submitted
      BY <1>1, <1>5, <2>1, <2>2 DEF HeadTakesOver
    <2> QED
      BY <1>2, <1>5, <2>2, <2>3, <2>4 DEF HeadTakesOver, PreparedActive,
           Waits
  <1> QED
    BY <1>3, <1>4, <1>5 DEF DiscardEffect

LEMMA ActivationPasses ==
    ASSUME IInv, NodeInv, NEW t \in Turns, ActivationEffect(t), starting' = starting \ {t},
           t \in starting, t \in AutoTurns => node[t] \notin {"running", "aborting"},
           \A u \in AutoTurns : node'[u] = node[u] \/
               (u = t /\ node[t] = "waiting" /\ node'[t] = "failed" /\ worker' = worker)
    PROVE  PassEffect
  <1>1. /\ queue \in Seq(Turns) /\ worker \in [Turns -> WorkerPlaces] /\ NoTurn \notin Turns
        /\ rows \in [Turns -> Row]
    BY NoTurnAssumption DEF IInv, TypeOK, WorkerPlaces
  <1>2. /\ UNCHANGED <<log, canceller, cancelReq, submitted, crashes>>
        /\ \A u \in Turns : rows[u].state = "absent" => rows'[u].state = "absent" \/ u = t
    BY DEF ActivationEffect, Present
  <1>3. \/ UNCHANGED <<active, queue, worker>>
        \/ /\ TurnIsTaken(t) /\ In(queue') \subseteq In(queue) /\ Waits(t)
           /\ \A u \in Turns : worker[u] \notin {"claimed", "opened"}
    <2>1. ASSUME TurnIsTaken(t)
          PROVE  In(queue') \subseteq In(queue) /\ Waits(t)
      <3>1. CASE active.turn = t /\ queue' = queue
        BY <2>1, <3>1 DEF TurnIsTaken, Waits, PreparedActive
      <3>2. CASE queue # <<>> /\ Head(queue) = t /\ queue' = Tail(queue)
        BY <1>1, <3>2, QueueMoves DEF Waits
      <3> QED
        BY <2>1, <3>1, <3>2 DEF TurnIsTaken
    <2>2. ASSUME TurnIsTaken(t)
          PROVE  \A u \in Turns : worker[u] \notin {"claimed", "opened"}
      BY <2>2 DEF TurnIsTaken, IInv, BusyInv
    <2> QED
      BY <2>1, <2>2 DEF ActivationEffect
  <1>4. TurnIsTaken(t) /\ Waits(t) /\ active'.submitted => Takes(t)
    BY DEF TurnIsTaken, OwnsClaim, Takes
  <1>5. \A u \in Turns : PreparedActive(u)' => Waits(u)
    BY <1>3 DEF PreparedActive, Waits, TurnIsTaken
  <1>6. \A u \in Turns : active'.turn = u /\ active'.submitted =>
                           (active.turn = u /\ active.submitted) \/ Takes(u)
    BY <1>3, <1>4 DEF TurnIsTaken
  <1>7. \A u \in Turns : worker'[u] \in {"claimed", "opened"} =>
                 \/ worker'[u] = worker[u] /\ active' = active
                 \/ worker'[u] = "claimed" /\ Takes(u)
    BY <1>1, <1>3, <1>4 DEF TurnIsTaken
  <1>8. ASSUME NEW u \in AutoTurns
        PROVE  /\ node'[u] \in Early => node[u] \in Early
               /\ EndedNode(u)' => EndedNode(u) \/ crashes # 0 \/ Harmless(u)'
    <2>1. CASE node'[u] = node[u]
      BY <2>1 DEF EndedNode
    <2>2. CASE u = t /\ node'[t] = "failed" /\ worker' = worker
      <3>1. crashes = 0 => t \notin In(queue') /\ worker[t] \notin {"claimed", "opened"}
        <4>1. crashes = 0 => t \notin In(queue) /\ ~(active.turn = t /\ active.submitted)
          BY DEF NodeInv, StartingInv
        <4> QED
          BY <4>1, <1>3 DEF IInv, BusyInv
      <3> QED
        BY <2>2, <3>1 DEF Harmless, Doomed, EndedNode, Early
    <2> QED
      BY <2>1, <2>2
  <1> QED
    BY <1>2, <1>3, <1>5, <1>6, <1>7, <1>8 DEF PassEffect

LEMMA BeginFinishKeepsNodes ==
    ASSUME NEW t \in Turns, IInv, NodeInv, BeginFinish(t)
    PROVE  NodeInv'
  <1>1. StartingInv'
    BY SMTT(30), BeginFinishCases, TurnsAssumption, NoTurnAssumption DEF StartingInv,
         WaitsInv, BusyInv, TypeOK, IInv, NodeInv, PreparedActive, Waits,
         Doomed, Requested
  <1>2. UnclaimedInv'
    BY BeginFinishCases, TurnsAssumption, NoTurnAssumption DEF UnclaimedInv,
         WaitsInv, BusyInv, TypeOK, IInv, NodeInv, PreparedActive, Waits,
         Doomed, Requested
  <1>3. CancellerInv'
    <2>1. UNCHANGED <<canceller, log, cancelReq, crashes, queue>>
      BY BeginFinishCases
    <2>2. /\ \A u \in Turns : worker'[u] \in {"claimed", "opened"} => worker'[u] = worker[u]
          /\ active'.session = active.session /\ active'.cancel = active.cancel
          /\ active'.turn = active.turn /\ active'.submitted = active.submitted
      BY BeginFinishCases DEF IInv, TypeOK
    <2> QED
      BY <2>1, <2>2, CancellerKept DEF Waits, PreparedActive
  <1>4. EndedNodeInv'
    BY SMTT(30), BeginFinishCases, TurnsAssumption, NoTurnAssumption DEF EndedNodeInv,
         WaitsInv, BusyInv, TypeOK, IInv, NodeInv, PreparedActive, Waits,
         Doomed, Requested
  <1> QED
    BY <1>1, <1>2, <1>3, <1>4 DEF NodeInv

LEMMA ReportFinishKeepsNodes ==
    ASSUME IInv, NodeInv, ReportFinish
    PROVE  NodeInv'
  <1>1. StartingInv'
    BY TurnsAssumption, NoTurnAssumption DEF ReportFinish, IInv, NodeInv,
         StartingInv, TypeOK, durable, agentkit, memory, bounds, CancelModes,
         Terminal
  <1>2. UnclaimedInv'
    BY TurnsAssumption, NoTurnAssumption DEF ReportFinish, IInv, NodeInv,
         UnclaimedInv, TypeOK, durable, agentkit, memory, bounds,
         CancelModes, Terminal
  <1>3. CancellerInv'
    BY TurnsAssumption, NoTurnAssumption DEF ReportFinish, IInv, NodeInv,
         CancellerInv, TypeOK, BusyInv, WaitsInv, NewInv, durable, agentkit,
         memory, bounds, PreparedActive, WaitingInCheckpoint, NoCancel,
         CancelModes, Terminal, Waits, Doomed, Requested
  <1>4. EndedNodeInv'
    BY TurnsAssumption, NoTurnAssumption DEF ReportFinish, IInv, NodeInv,
         EndedNodeInv, TypeOK, BusyInv, WaitsInv, durable, agentkit, memory,
         bounds, PreparedActive, WaitingInCheckpoint, CancelModes, Terminal,
         Waits, Doomed
  <1> QED
    BY <1>1, <1>2, <1>3, <1>4 DEF NodeInv

LEMMA FinishUnacknowledgedKeepsNodes ==
    ASSUME IInv, NodeInv, FinishUnacknowledged
    PROVE  NodeInv'
  <1>1. StartingInv'
    BY TurnsAssumption, NoTurnAssumption DEF FinishUnacknowledged, IInv,
         NodeInv, StartingInv, TypeOK, At, agentkit, bounds, NoActive,
         NoFinish, CancelModes, Terminal, Finishing, Finished
  <1>2. UnclaimedInv'
    BY TurnsAssumption, NoTurnAssumption DEF FinishUnacknowledged, IInv,
         NodeInv, UnclaimedInv, TypeOK, At, agentkit, bounds, NoActive,
         NoFinish, CancelModes, Terminal, Finishing, Finished
  <1>3. CancellerInv'
    BY SMTT(30), TurnsAssumption, NoTurnAssumption DEF FinishUnacknowledged, IInv,
         NodeInv, CancellerInv, TypeOK, BusyInv, WaitsInv, NewInv, At,
         agentkit, bounds, PreparedActive, WaitingInCheckpoint, NoActive,
         NoFinish, NoCancel, CancelModes, Terminal, Finishing, Finished,
         Waits, Doomed, Requested
  <1>4. EndedNodeInv'
    BY TurnsAssumption, NoTurnAssumption DEF FinishUnacknowledged, IInv,
         NodeInv, EndedNodeInv, TypeOK, BusyInv, WaitsInv, At, agentkit,
         bounds, PreparedActive, WaitingInCheckpoint, NoActive, NoFinish,
         CancelModes, Terminal, Finishing, Finished, Waits, Doomed
  <1> QED
    BY <1>1, <1>2, <1>3, <1>4 DEF NodeInv

LEMMA InterruptKeepsNodes ==
    ASSUME IInv, NodeInv, Interrupt
    PROVE  NodeInv'
  <1>1. StartingInv'
    BY TurnsAssumption, NoTurnAssumption DEF Interrupt, IInv, NodeInv,
         StartingInv, TypeOK, durable, agentkit, NoCancel, CancelModes,
         Terminal
  <1>2. UnclaimedInv'
    BY TurnsAssumption, NoTurnAssumption DEF Interrupt, IInv, NodeInv,
         UnclaimedInv, TypeOK, durable, agentkit, NoCancel, CancelModes,
         Terminal
  <1>3. CancellerInv'
    BY TurnsAssumption, NoTurnAssumption DEF Interrupt, IInv, NodeInv,
         CancellerInv, TypeOK, BusyInv, WaitsInv, NewInv, durable, agentkit,
         PreparedActive, WaitingInCheckpoint, NoCancel, CancelModes,
         Terminal, Waits, Doomed, Requested
  <1>4. EndedNodeInv'
    BY TurnsAssumption, NoTurnAssumption DEF Interrupt, IInv, NodeInv,
         EndedNodeInv, TypeOK, BusyInv, WaitsInv, durable, agentkit,
         PreparedActive, WaitingInCheckpoint, NoCancel, CancelModes,
         Terminal, Waits, Doomed
  <1> QED
    BY <1>1, <1>2, <1>3, <1>4 DEF NodeInv

LEMMA SnapshotSessionKeepsNodes ==
    ASSUME IInv, NodeInv, SnapshotSession
    PROVE  NodeInv'
  <1>1. StartingInv'
    BY TurnsAssumption, NoTurnAssumption DEF SnapshotSession, IInv, NodeInv,
         StartingInv, TypeOK, durable, agentkit, memory, bounds, CancelModes,
         Terminal
  <1>2. UnclaimedInv'
    BY TurnsAssumption, NoTurnAssumption DEF SnapshotSession, IInv, NodeInv,
         UnclaimedInv, TypeOK, durable, agentkit, memory, bounds,
         CancelModes, Terminal
  <1>3. CancellerInv'
    BY TurnsAssumption, NoTurnAssumption DEF SnapshotSession, IInv, NodeInv,
         CancellerInv, TypeOK, BusyInv, WaitsInv, NewInv, durable, agentkit,
         memory, bounds, PreparedActive, WaitingInCheckpoint, NoCancel,
         CancelModes, Terminal, Waits, Doomed, Requested
  <1>4. EndedNodeInv'
    BY TurnsAssumption, NoTurnAssumption DEF SnapshotSession, IInv, NodeInv,
         EndedNodeInv, TypeOK, BusyInv, WaitsInv, durable, agentkit, memory,
         bounds, PreparedActive, WaitingInCheckpoint, CancelModes, Terminal,
         Waits, Doomed
  <1> QED
    BY <1>1, <1>2, <1>3, <1>4 DEF NodeInv

LEMMA CancelSessionTurnKeepsNodes ==
    ASSUME IInv, NodeInv, CancelSessionTurn
    PROVE  NodeInv'
  <1>1. StartingInv'
    BY TurnsAssumption, NoTurnAssumption DEF CancelSessionTurn, IInv,
         NodeInv, StartingInv, TypeOK, Logged, durable, agentkit, memory,
         bounds, CancelModes, Terminal
  <1>2. UnclaimedInv'
    BY TurnsAssumption, NoTurnAssumption DEF CancelSessionTurn, IInv,
         NodeInv, UnclaimedInv, TypeOK, Logged, durable, agentkit, memory,
         bounds, CancelModes, Terminal
  <1>3. CancellerInv'
    BY TurnsAssumption, NoTurnAssumption DEF CancelSessionTurn, IInv,
         NodeInv, CancellerInv, TypeOK, BusyInv, WaitsInv, NewInv, Logged,
         durable, agentkit, memory, bounds, PreparedActive,
         WaitingInCheckpoint, NoCancel, CancelModes, Terminal, Waits, Doomed,
         Requested
  <1>4. EndedNodeInv'
    BY TurnsAssumption, NoTurnAssumption DEF CancelSessionTurn, IInv,
         NodeInv, EndedNodeInv, TypeOK, BusyInv, WaitsInv, Logged, durable,
         agentkit, memory, bounds, PreparedActive, WaitingInCheckpoint,
         CancelModes, Terminal, Waits, Doomed
  <1> QED
    BY <1>1, <1>2, <1>3, <1>4 DEF NodeInv

LEMMA CheckWaitingKeepsNodes ==
    ASSUME IInv, NodeInv, CheckWaiting
    PROVE  NodeInv'
  <1>1. StartingInv'
    BY TurnsAssumption, NoTurnAssumption DEF CheckWaiting, IInv, NodeInv,
         StartingInv, TypeOK, durable, agentkit, memory, bounds,
         WaitingInCheckpoint, NoCancel, CancelModes, Terminal
  <1>2. UnclaimedInv'
    BY TurnsAssumption, NoTurnAssumption DEF CheckWaiting, IInv, NodeInv,
         UnclaimedInv, TypeOK, durable, agentkit, memory, bounds,
         WaitingInCheckpoint, NoCancel, CancelModes, Terminal
  <1>3. CancellerInv'
    BY TurnsAssumption, NoTurnAssumption DEF CheckWaiting, IInv, NodeInv,
         CancellerInv, TypeOK, BusyInv, WaitsInv, NewInv, durable, agentkit,
         memory, bounds, PreparedActive, WaitingInCheckpoint, NoCancel,
         CancelModes, Terminal, Waits, Doomed, Requested
  <1>4. EndedNodeInv'
    BY TurnsAssumption, NoTurnAssumption DEF CheckWaiting, IInv, NodeInv,
         EndedNodeInv, TypeOK, BusyInv, WaitsInv, durable, agentkit, memory,
         bounds, PreparedActive, WaitingInCheckpoint, NoCancel, CancelModes,
         Terminal, Waits, Doomed
  <1> QED
    BY <1>1, <1>2, <1>3, <1>4 DEF NodeInv

LEMMA CancelNodeKeepsNodes ==
    ASSUME IInv, NodeInv, CancelNode
    PROVE  NodeInv'
  <1>1. StartingInv'
    BY TurnsAssumption, NoTurnAssumption DEF CancelNode, IInv, NodeInv,
         StartingInv, TypeOK, durable, agentkit, memory, bounds, NoCancel,
         CancelModes, Terminal
  <1>2. UnclaimedInv'
    BY TurnsAssumption, NoTurnAssumption DEF CancelNode, IInv, NodeInv,
         UnclaimedInv, TypeOK, durable, agentkit, memory, bounds, NoCancel,
         CancelModes, Terminal
  <1>3. CancellerInv'
    BY TurnsAssumption, NoTurnAssumption DEF CancelNode, IInv, NodeInv,
         CancellerInv, TypeOK, BusyInv, WaitsInv, NewInv, durable, agentkit,
         memory, bounds, PreparedActive, WaitingInCheckpoint, NoCancel,
         CancelModes, Terminal, Waits, Doomed, Requested
  <1>4. EndedNodeInv'
    <2> SUFFICES ASSUME crashes = 0, NEW u \in AutoTurns, EndedNode(u)', log[u] = "none"
                 PROVE  Harmless(u)
      BY DEF CancelNode, EndedNodeInv, EndedNode, Harmless, durable,
           agentkit, memory, bounds, Doomed, PreparedActive
    <2>1. CASE node'[u] = node[u]
      BY <2>1 DEF NodeInv, EndedNodeInv, EndedNode, Harmless
    <2>2. CASE u = canceller.turn
      BY <2>2 DEF CancelNode, NodeInv, CancellerInv, Requested, Harmless,
           Waits
    <2> QED
      BY <2>1, <2>2 DEF CancelNode, IInv, TypeOK
  <1> QED
    BY <1>1, <1>2, <1>3, <1>4 DEF NodeInv

LEMMA FinishCancelledKeepsNodes ==
    ASSUME IInv, NodeInv, FinishCancelled
    PROVE  NodeInv'
  <1>1. StartingInv'
    BY Cancelling, EmptiedPasses, PassKeeps DEF NodeInv
  <1>2. UnclaimedInv'
    BY Cancelling, EmptiedPasses, PassKeeps DEF NodeInv
  <1>3. CancellerInv'
    BY Cancelling, EmptiedPasses, PassKeeps DEF NodeInv
  <1>4. EndedNodeInv'
    BY Cancelling, EmptiedPasses, PassKeeps DEF NodeInv
  <1> QED
    BY <1>1, <1>2, <1>3, <1>4 DEF NodeInv

LEMMA FinishAndActivateNextKeepsNodes ==
    ASSUME NEW next \in Turns \union {NoTurn}, IInv, NodeInv, FinishAndActivateNext(next)
    PROVE  NodeInv'
  <1>1. StartingInv'
    BY TakenOverPasses, PassKeeps DEF NodeInv
  <1>2. UnclaimedInv'
    BY TakenOverPasses, PassKeeps DEF NodeInv
  <1>3. CancellerInv'
    BY TakenOverPasses, PassKeeps DEF NodeInv
  <1>4. EndedNodeInv'
    BY TakenOverPasses, PassKeeps DEF NodeInv
  <1> QED
    BY <1>1, <1>2, <1>3, <1>4 DEF NodeInv

LEMMA StartTaskTurnKeepsNodes ==
    ASSUME NEW t \in UserTurns, IInv, NodeInv, StartTaskTurn(t)
    PROVE  NodeInv'
  <1>1. StartingInv'
    <2>1. t \in Turns \ submitted /\ MemoryEnqueue(t)
      BY TurnsAssumption DEF StartTaskTurn, IInv, NewInv
    <2>2. /\ starting' = IF Idle THEN starting \union {t} ELSE starting
          /\ submitted' = submitted \union {t} /\ crashes' = crashes
      BY DEF StartTaskTurn, bounds
    <2>3. /\ Idle => queue' = <<>> /\ ~active'.submitted
          /\ ~Idle => active' = active
          /\ In(queue') \subseteq In(queue) \union {t} /\ active.turn # t
      <3>1. Idle => active' = Prepared(t) /\ queue' = queue /\ queue = <<>>
        BY <2>1 DEF MemoryEnqueue, Idle
      <3>2. ~Idle => active' = active
        BY <2>1 DEF MemoryEnqueue
      <3> QED
        BY <2>1, <3>1, <3>2, Enqueueing, EmptyQueue DEF Prepared, NoActive
    <2> SUFFICES ASSUME crashes = 0, NEW u \in starting'
                 PROVE  /\ u \in submitted' /\ u \notin In(queue')
                        /\ ~(active'.turn = u /\ active'.submitted)
      BY <2>2 DEF StartingInv
    <2>4. u \in starting => u \in submitted /\ u \notin In(queue) /\ ~(active.turn = u /\ active.submitted)
      BY DEF NodeInv, StartingInv
    <2>5. CASE Idle
      BY <2>1, <2>2, <2>3, <2>4, <2>5, EmptyQueue
    <2>6. CASE ~Idle
      BY <2>1, <2>2, <2>3, <2>4, <2>6
    <2> QED
      BY <2>5, <2>6
  <1>2. UnclaimedInv'
    <2>1. t \in Turns \ submitted /\ MemoryEnqueue(t)
      BY TurnsAssumption DEF StartTaskTurn, IInv, NewInv
    <2> QED
      BY <2>1, Enqueueing, TurnsAssumption, NoTurnAssumption, EmptyQueue DEF
           StartTaskTurn, Idle, Queued, Prepared, NoActive, UnclaimedInv,
           WaitsInv, BusyInv, TypeOK, IInv, NodeInv, PreparedActive, Waits,
           Doomed, Requested, NewInv, NoCancel, durable, agentkit, bounds,
           memory
  <1>3. CancellerInv'
    <2>1. t \in Turns \ submitted /\ MemoryEnqueue(t)
      BY TurnsAssumption DEF StartTaskTurn, IInv, NewInv
    <2>2. UNCHANGED <<canceller, log, cancelReq, crashes, worker>>
      BY DEF StartTaskTurn, agentkit, bounds
    <2>3. /\ active.turn # NoTurn => active' = active
          /\ active' = active \/ active' = Prepared(t)
          /\ In(queue') \subseteq In(queue) \union {t}
      BY <2>1, Enqueueing, EmptyQueue
    <2>4. \A u \in Turns : worker'[u] \in {"claimed", "opened"} => worker'[u] = worker[u] /\ active' = active
      BY <2>2, <2>3, NoTurnAssumption DEF IInv, BusyInv
    <2>5. \A u \in submitted : Waits(u)' => Waits(u)
      <3> SUFFICES ASSUME NEW u \in submitted, Waits(u)'
                   PROVE  Waits(u)
        OBVIOUS
      <3>1. u # t
        BY <2>1
      <3>2. active'.turn = u /\ ~active'.submitted => active' = active
        BY <2>3, <3>1 DEF Prepared, NoActive
      <3>3. u \in In(queue') => u \in In(queue)
        BY <2>3, <3>1
      <3> QED
        BY <3>2, <3>3 DEF Waits, PreparedActive
    <2> QED
      BY <2>2, <2>4, <2>5, CancellerKept
  <1>4. EndedNodeInv'
    <2>1. t \in Turns \ submitted /\ MemoryEnqueue(t)
      BY TurnsAssumption DEF StartTaskTurn, IInv, NewInv
    <2> QED
      BY <2>1, Enqueueing, TurnsAssumption, NoTurnAssumption, EmptyQueue DEF
           StartTaskTurn, Idle, Queued, Prepared, NoActive, EndedNodeInv,
           WaitsInv, BusyInv, TypeOK, IInv, NodeInv, PreparedActive, Waits,
           Doomed, Requested, NewInv, NoCancel, durable, agentkit, bounds,
           memory
  <1> QED
    BY <1>1, <1>2, <1>3, <1>4 DEF NodeInv

LEMMA StartAgentKeepsNodes ==
    ASSUME NEW t \in AutoTurns, IInv, NodeInv, StartAgent(t)
    PROVE  NodeInv'
  <1>1. StartingInv'
    <2>1. t \in Turns \ submitted /\ MemoryEnqueue(t)
      BY TurnsAssumption DEF StartAgent, IInv, NewInv
    <2>2. /\ starting' = IF Idle THEN starting \union {t} ELSE starting
          /\ submitted' = submitted \union {t} /\ crashes' = crashes
      BY DEF StartAgent, bounds
    <2>3. /\ Idle => queue' = <<>> /\ ~active'.submitted
          /\ ~Idle => active' = active
          /\ In(queue') \subseteq In(queue) \union {t} /\ active.turn # t
      <3>1. Idle => active' = Prepared(t) /\ queue' = queue /\ queue = <<>>
        BY <2>1 DEF MemoryEnqueue, Idle
      <3>2. ~Idle => active' = active
        BY <2>1 DEF MemoryEnqueue
      <3> QED
        BY <2>1, <3>1, <3>2, Enqueueing, EmptyQueue DEF Prepared, NoActive
    <2> SUFFICES ASSUME crashes = 0, NEW u \in starting'
                 PROVE  /\ u \in submitted' /\ u \notin In(queue')
                        /\ ~(active'.turn = u /\ active'.submitted)
      BY <2>2 DEF StartingInv
    <2>4. u \in starting => u \in submitted /\ u \notin In(queue) /\ ~(active.turn = u /\ active.submitted)
      BY DEF NodeInv, StartingInv
    <2>5. CASE Idle
      BY <2>1, <2>2, <2>3, <2>4, <2>5, EmptyQueue
    <2>6. CASE ~Idle
      BY <2>1, <2>2, <2>3, <2>4, <2>6
    <2> QED
      BY <2>5, <2>6
  <1>2. UnclaimedInv'
    <2>1. t \in Turns \ submitted /\ MemoryEnqueue(t)
      BY TurnsAssumption DEF StartAgent, IInv, NewInv
    <2> QED
      BY <2>1, Enqueueing, TurnsAssumption, NoTurnAssumption, EmptyQueue DEF
           StartAgent, Idle, Queued, Prepared, NoActive, UnclaimedInv,
           WaitsInv, BusyInv, TypeOK, IInv, NodeInv, PreparedActive, Waits,
           Doomed, Requested, NewInv, NoCancel, durable, agentkit, bounds,
           memory
  <1>3. CancellerInv'
    <2>1. t \in Turns \ submitted /\ MemoryEnqueue(t)
      BY TurnsAssumption DEF StartAgent, IInv, NewInv
    <2>2. UNCHANGED <<canceller, log, cancelReq, crashes, worker>>
      BY DEF StartAgent, agentkit, bounds
    <2>3. /\ active.turn # NoTurn => active' = active
          /\ active' = active \/ active' = Prepared(t)
          /\ In(queue') \subseteq In(queue) \union {t}
      BY <2>1, Enqueueing, EmptyQueue
    <2>4. \A u \in Turns : worker'[u] \in {"claimed", "opened"} => worker'[u] = worker[u] /\ active' = active
      BY <2>2, <2>3, NoTurnAssumption DEF IInv, BusyInv
    <2>5. \A u \in submitted : Waits(u)' => Waits(u)
      <3> SUFFICES ASSUME NEW u \in submitted, Waits(u)'
                   PROVE  Waits(u)
        OBVIOUS
      <3>1. u # t
        BY <2>1
      <3>2. active'.turn = u /\ ~active'.submitted => active' = active
        BY <2>3, <3>1 DEF Prepared, NoActive
      <3>3. u \in In(queue') => u \in In(queue)
        BY <2>3, <3>1
      <3> QED
        BY <3>2, <3>3 DEF Waits, PreparedActive
    <2> QED
      BY <2>2, <2>4, <2>5, CancellerKept
  <1>4. EndedNodeInv'
    <2>1. t \in Turns \ submitted /\ MemoryEnqueue(t)
      BY TurnsAssumption DEF StartAgent, IInv, NewInv
    <2> QED
      BY <2>1, Enqueueing, TurnsAssumption, NoTurnAssumption, EmptyQueue DEF
           StartAgent, Idle, Queued, Prepared, NoActive, EndedNodeInv,
           WaitsInv, BusyInv, TypeOK, IInv, NodeInv, PreparedActive, Waits,
           Doomed, Requested, NewInv, NoCancel, durable, agentkit, bounds,
           memory
  <1> QED
    BY <1>1, <1>2, <1>3, <1>4 DEF NodeInv

LEMMA ActivatingPasses ==
    ASSUME IInv, NodeInv, NEW t \in Turns, ActivateTurnWorker(t) \/ ActivationInterrupted(t)
    PROVE  PassEffect
  <1>1. ActivationEffect(t)
    BY Activating, ActivationFailing
  <1>2. /\ starting' = starting \ {t} /\ t \in starting
        /\ t \in AutoTurns => node[t] \notin {"running", "aborting"}
    BY DEF ActivateTurnWorker, ActivationInterrupted
  <1>3. \A u \in AutoTurns : node'[u] = node[u] \/
               (u = t /\ node[t] = "waiting" /\ node'[t] = "failed" /\ worker' = worker)
    <2>1. CASE ActivateTurnWorker(t)
      BY <2>1 DEF ActivateTurnWorker, ActivationFails, IInv, TypeOK
    <2>2. CASE ActivationInterrupted(t)
      BY <2>2 DEF ActivationInterrupted, IInv, TypeOK
    <2> QED
      BY <2>1, <2>2
  <1> QED
    BY <1>1, <1>2, <1>3, ActivationPasses

LEMMA ActivateTurnWorkerKeepsNodes ==
    ASSUME NEW t \in Turns, IInv, NodeInv, ActivateTurnWorker(t)
    PROVE  NodeInv'
  <1>1. StartingInv'
    BY ActivatingPasses, PassKeeps DEF NodeInv
  <1>2. UnclaimedInv'
    BY ActivatingPasses, PassKeeps DEF NodeInv
  <1>3. CancellerInv'
    BY ActivatingPasses, PassKeeps DEF NodeInv
  <1>4. EndedNodeInv'
    BY ActivatingPasses, PassKeeps DEF NodeInv
  <1> QED
    BY <1>1, <1>2, <1>3, <1>4 DEF NodeInv

LEMMA ActivationInterruptedKeepsNodes ==
    ASSUME NEW t \in Turns, IInv, NodeInv, ActivationInterrupted(t)
    PROVE  NodeInv'
  <1>1. StartingInv'
    BY ActivatingPasses, PassKeeps DEF NodeInv
  <1>2. UnclaimedInv'
    BY ActivatingPasses, PassKeeps DEF NodeInv
  <1>3. CancellerInv'
    BY ActivatingPasses, PassKeeps DEF NodeInv
  <1>4. EndedNodeInv'
    BY ActivatingPasses, PassKeeps DEF NodeInv
  <1> QED
    BY <1>1, <1>2, <1>3, <1>4 DEF NodeInv

\* A turn that was discarded is not in memory any more.
LEMMA DiscardedIsGone ==
    ASSUME IInv, NEW t \in Turns, Discard(t), ~DiscardFails(t)
    PROVE  ~Waits(t)'
  <1>1. queue \in Seq(Turns) /\ NoRepeats(queue) /\ active.turn \notin In(queue) /\ NoTurn \notin Turns
    BY NoTurnAssumption DEF IInv, TypeOK, QueueInv
  <1>2. CASE PreparedActive(t)
    <2>1. t \notin In(queue)
      BY <1>1, <1>2 DEF PreparedActive
    <2>2. /\ queue' = IF queue = <<>> THEN queue ELSE Tail(queue)
          /\ \/ active'.submitted
             \/ active' = IF queue = <<>> THEN NoActive ELSE Prepared(Head(queue))
      BY <1>2 DEF Discard, Owned, NoActive
    <2>3. CASE queue = <<>>
      BY <1>1, <2>1, <2>2, <2>3 DEF Waits, PreparedActive, NoActive
    <2>4. CASE queue # <<>>
      BY <1>1, <2>1, <2>2, <2>4, QueueMoves DEF Waits, PreparedActive,
           Prepared, NoActive
    <2> QED
      BY <2>3, <2>4
  <1>3. CASE ~PreparedActive(t)
    <2>1. queue' = Dequeued(t) /\ active' = active
      BY <1>3 DEF Discard
    <2> QED
      BY <1>1, <1>3, <2>1, QueueShrinks DEF Waits, PreparedActive
  <1> QED
    BY <1>2, <1>3

LEMMA AbortingPasses ==
    ASSUME IInv, NodeInv, NEW t \in AutoTurns, AbortAgent(t)
    PROVE  PassEffect
  <1>1. t \in Turns /\ DiscardEffect(t) /\ starting' \subseteq starting /\ t \notin starting'
    BY AbortCases, TurnsAssumption DEF AbortAgent
  <1>2. UNCHANGED <<log, canceller, cancelReq, submitted, crashes>>
    BY AbortCases
  <1>3. ASSUME NEW u \in AutoTurns
        PROVE  /\ node'[u] \in Early => node[u] \in Early
               /\ EndedNode(u)' => EndedNode(u) \/ crashes # 0 \/ Harmless(u)'
    <2>1. CASE node'[u] = node[u]
      BY <2>1 DEF EndedNode
    <2>2. CASE u = t /\ node[t] = "aborting" /\ node'[t] = "cancelled"
      <3>1. crashes = 0 => rows[t].state = "absent" /\ ~(active.turn = t /\ active.submitted)
        BY <2>2 DEF NodeInv, UnclaimedInv
      <3>2. crashes = 0 => rows'[t].state = "absent" /\ worker'[t] \notin {"claimed", "opened"}
        <4>1. crashes = 0 => rows'[t].state = "absent"
          BY <1>1, <3>1, DiscardPasses
        <4>2. crashes = 0 => worker[t] \notin {"claimed", "opened"}
          BY <1>1, <3>1 DEF IInv, BusyInv
        <4> QED
          BY <1>1, <4>1, <4>2, DiscardPasses DEF Takes
      <3> QED
        BY <1>1, <2>2, <3>2 DEF Harmless, Doomed, Early
    <2> QED
      BY <2>1, <2>2 DEF AbortAgent, IInv, TypeOK
  <1> QED
    BY <1>1, <1>2, <1>3, DiscardPasses DEF PassEffect

LEMMA CancelRunPasses ==
    ASSUME IInv, NodeInv, NEW t \in AutoTurns, CancelRun(t)
    PROVE  \/ PassEffect
           \/ /\ node[t] = "waiting" /\ active.turn = t /\ active.submitted
              /\ active' = [active EXCEPT !.cancel = "automation"]
              /\ canceller' = [turn |-> t, session |-> active.session, waiting |-> FALSE,
                               stage |-> "snapshot", mode |-> "automation"]
              /\ UNCHANGED <<rows, queue, node, worker, log, cancelReq, starting, submitted, crashes>>
  <1>1. UNCHANGED <<log, cancelReq, submitted, crashes, starting>> /\ t \in Turns
    BY TurnsAssumption DEF CancelRun, agentkit
  <1>2. CASE /\ node[t] = "running" /\ node' = [node EXCEPT ![t] = "aborting"]
             /\ UNCHANGED <<rows, memory, worker, canceller>>
    <2>1. \A u \in AutoTurns : node'[u] \in Early => node[u] \in Early
      BY <1>2 DEF Early, IInv, TypeOK
    <2>2. \A u \in AutoTurns : EndedNode(u)' => EndedNode(u)
      BY <1>2 DEF EndedNode, IInv, TypeOK
    <2> QED
      BY <1>1, <1>2, <2>1, <2>2 DEF PassEffect, memory, PreparedActive, Waits
  <1>3. CASE /\ node[t] = "waiting" /\ Discard(t) /\ canceller' = canceller
             /\ node' = IF DiscardFails(t) THEN node ELSE [node EXCEPT ![t] = "cancelled"]
             /\ InMemory(t) /\ ~(active.turn = t /\ active.submitted)
    <2>1. DiscardEffect(t)
      BY <1>1, <1>3, Discarding
    <2>2. worker[t] \notin {"claimed", "opened"}
      BY <1>1, <1>3 DEF IInv, BusyInv
    <2>3. ASSUME NEW u \in AutoTurns
          PROVE  /\ node'[u] \in Early => node[u] \in Early
                 /\ EndedNode(u)' => EndedNode(u) \/ Harmless(u)'
      <3>1. CASE node'[u] = node[u]
        BY <3>1 DEF EndedNode
      <3>2. CASE u = t /\ ~DiscardFails(t) /\ node'[t] = "cancelled"
        <4>1. ~Waits(t)'
          BY <1>1, <1>3, <3>2, DiscardedIsGone
        <4>2. worker'[t] \notin {"claimed", "opened"}
          <5>1. worker'[t] = "claimed" => active'.turn = t /\ t \notin In(queue) /\ ~PreparedActive(t)
            <6>1. CASE worker' = worker
              BY <2>2, <6>1
            <6>2. CASE PreparedActive(t) /\ HeadTakesOver
              <7>1. queue \in Seq(Turns) /\ worker \in [Turns -> WorkerPlaces] /\ active.turn \notin In(queue)
                BY DEF IInv, TypeOK, WorkerPlaces, QueueInv
              <7>2. Head(queue) # t /\ Head(queue) \in Turns
                BY <6>2, <7>1, QueueMoves DEF HeadTakesOver, PreparedActive
              <7>3. worker'[t] = worker[t]
                BY <1>1, <6>2, <7>1, <7>2 DEF HeadTakesOver
              <7> QED
                BY <2>2, <7>3
            <6> QED
              BY <2>1, <6>1, <6>2 DEF DiscardEffect
          <5>2. worker'[t] \in {"claimed", "opened"} => Waits(t) /\ worker'[t] = "claimed"
            BY <1>1, <2>1, <2>2, DiscardPasses DEF Takes
          <5> QED
            BY <5>1, <5>2 DEF Waits
        <4> QED
          BY <3>2, <4>1, <4>2 DEF Harmless, Doomed, Waits, Early
      <3> QED
        BY <1>3, <3>1, <3>2 DEF IInv, TypeOK
    <2> QED
      BY <1>1, <1>3, <2>1, <2>3, DiscardPasses DEF PassEffect
  <1>4. CASE /\ node[t] = "waiting" /\ active.turn = t /\ active.submitted
             /\ active' = [active EXCEPT !.cancel = "automation"]
             /\ canceller' = [turn |-> t, session |-> active.session, waiting |-> FALSE,
                              stage |-> "snapshot", mode |-> "automation"]
             /\ UNCHANGED <<rows, queue, node, worker>>
    BY <1>1, <1>4
  <1>5. CASE /\ node[t] = "waiting" /\ log[t] = "cancelled" /\ ~InMemory(t)
             /\ node' = [node EXCEPT ![t] = "cancelled"]
             /\ UNCHANGED <<rows, memory, worker, canceller>>
    <2>1. ~Waits(t)
      BY <1>5, InMemoryIn DEF Waits, PreparedActive
    <2>2. worker[t] \notin {"claimed", "opened"}
      BY <1>1, <1>5 DEF IInv, BusyInv, InMemory
    <2>3. ASSUME NEW u \in AutoTurns
          PROVE  /\ node'[u] \in Early => node[u] \in Early
                 /\ EndedNode(u)' => EndedNode(u) \/ Harmless(u)'
      <3>1. CASE node'[u] = node[u]
        BY <3>1 DEF EndedNode
      <3>2. CASE u = t /\ node'[t] = "cancelled"
        BY <1>5, <2>1, <2>2, <3>2 DEF Harmless, Doomed, Waits, Early, memory,
             PreparedActive
      <3> QED
        BY <1>5, <3>1, <3>2 DEF IInv, TypeOK
    <2> QED
      BY <1>1, <1>5, <2>3 DEF PassEffect, memory, PreparedActive, Waits
  <1> QED
    BY <1>2, <1>3, <1>4, <1>5 DEF CancelRun, memory

LEMMA CancelRunKeepsNodes ==
    ASSUME NEW t \in AutoTurns, IInv, NodeInv, CancelRun(t)
    PROVE  NodeInv'
  <1>1. StartingInv'
    <2>1. CASE PassEffect
      BY <2>1, PassKeeps DEF NodeInv
    <2>2. CASE /\ node[t] = "waiting" /\ active.turn = t /\ active.submitted
               /\ active' = [active EXCEPT !.cancel = "automation"]
               /\ canceller' = [turn |-> t, session |-> active.session, waiting |-> FALSE,
                                stage |-> "snapshot", mode |-> "automation"]
               /\ UNCHANGED <<rows, queue, node, worker, log, cancelReq, starting, submitted, crashes>>
      BY <2>2, TurnsAssumption, NoTurnAssumption DEF StartingInv, WaitsInv,
           BusyInv, TypeOK, IInv, NodeInv, PreparedActive, Waits, Doomed,
           Requested, QueueInv
    <2> QED
      BY <2>1, <2>2, CancelRunPasses
  <1>2. UnclaimedInv'
    <2>1. CASE PassEffect
      BY <2>1, PassKeeps DEF NodeInv
    <2>2. CASE /\ node[t] = "waiting" /\ active.turn = t /\ active.submitted
               /\ active' = [active EXCEPT !.cancel = "automation"]
               /\ canceller' = [turn |-> t, session |-> active.session, waiting |-> FALSE,
                                stage |-> "snapshot", mode |-> "automation"]
               /\ UNCHANGED <<rows, queue, node, worker, log, cancelReq, starting, submitted, crashes>>
      BY <2>2, TurnsAssumption, NoTurnAssumption DEF UnclaimedInv, WaitsInv,
           BusyInv, TypeOK, IInv, NodeInv, PreparedActive, Waits, Doomed,
           Requested, QueueInv
    <2> QED
      BY <2>1, <2>2, CancelRunPasses
  <1>3. CancellerInv'
    <2>1. CASE PassEffect
      BY <2>1, PassKeeps DEF NodeInv
    <2>2. CASE /\ node[t] = "waiting" /\ active.turn = t /\ active.submitted
               /\ active' = [active EXCEPT !.cancel = "automation"]
               /\ canceller' = [turn |-> t, session |-> active.session, waiting |-> FALSE,
                                stage |-> "snapshot", mode |-> "automation"]
               /\ UNCHANGED <<rows, queue, node, worker, log, cancelReq, starting, submitted, crashes>>
      BY <2>2, TurnsAssumption, NoTurnAssumption DEF CancellerInv, WaitsInv,
           BusyInv, TypeOK, IInv, NodeInv, PreparedActive, Waits, Doomed,
           Requested, QueueInv
    <2> QED
      BY <2>1, <2>2, CancelRunPasses
  <1>4. EndedNodeInv'
    <2>1. CASE PassEffect
      BY <2>1, PassKeeps DEF NodeInv
    <2>2. CASE /\ node[t] = "waiting" /\ active.turn = t /\ active.submitted
               /\ active' = [active EXCEPT !.cancel = "automation"]
               /\ canceller' = [turn |-> t, session |-> active.session, waiting |-> FALSE,
                                stage |-> "snapshot", mode |-> "automation"]
               /\ UNCHANGED <<rows, queue, node, worker, log, cancelReq, starting, submitted, crashes>>
      BY <2>2, TurnsAssumption, NoTurnAssumption DEF EndedNodeInv, WaitsInv,
           BusyInv, TypeOK, IInv, NodeInv, PreparedActive, Waits, Doomed,
           Requested, QueueInv
    <2> QED
      BY <2>1, <2>2, CancelRunPasses
  <1> QED
    BY <1>1, <1>2, <1>3, <1>4 DEF NodeInv

LEMMA AbortAgentKeepsNodes ==
    ASSUME NEW t \in AutoTurns, IInv, NodeInv, AbortAgent(t)
    PROVE  NodeInv'
  <1>1. StartingInv'
    BY AbortingPasses, PassKeeps DEF NodeInv
  <1>2. UnclaimedInv'
    BY AbortingPasses, PassKeeps DEF NodeInv
  <1>3. CancellerInv'
    BY AbortingPasses, PassKeeps DEF NodeInv
  <1>4. EndedNodeInv'
    BY AbortingPasses, PassKeeps DEF NodeInv
  <1> QED
    BY <1>1, <1>2, <1>3, <1>4 DEF NodeInv

LEMMA CrashAndRestartKeepsNodes ==
    ASSUME IInv, NodeInv, CrashAndRestart
    PROVE  NodeInv'
  <1>1. StartingInv'
    BY TurnsAssumption, NoTurnAssumption DEF CrashAndRestart, IInv, NodeInv,
         StartingInv, TypeOK, agentkit, NoActive, NoFinish, NoCancel,
         CancelModes, Terminal
  <1>2. UnclaimedInv'
    BY TurnsAssumption, NoTurnAssumption DEF CrashAndRestart, IInv, NodeInv,
         UnclaimedInv, TypeOK, agentkit, NoActive, NoFinish, NoCancel,
         CancelModes, Terminal
  <1>3. CancellerInv'
    BY TurnsAssumption, NoTurnAssumption DEF CrashAndRestart, IInv, NodeInv,
         CancellerInv, TypeOK, BusyInv, WaitsInv, NewInv, agentkit,
         PreparedActive, WaitingInCheckpoint, NoActive, NoFinish, NoCancel,
         CancelModes, Terminal, Waits, Doomed, Requested
  <1>4. EndedNodeInv'
    BY TurnsAssumption, NoTurnAssumption DEF CrashAndRestart, IInv, NodeInv,
         EndedNodeInv, TypeOK, BusyInv, WaitsInv, agentkit, PreparedActive,
         WaitingInCheckpoint, NoActive, NoFinish, NoCancel, CancelModes,
         Terminal, Waits, Doomed
  <1> QED
    BY <1>1, <1>2, <1>3, <1>4 DEF NodeInv

\* The invariant behind EndedNodeNeverStarts, in every behaviour.
LEMMA NodesInductive == Spec => []NodeInv
  <1>1. Init => NodeInv
    BY TurnsAssumption, NoTurnAssumption, EmptyQueue DEF Init, NodeInv,
         StartingInv, UnclaimedInv, CancellerInv, EndedNodeInv, Absent,
         NoActive, NoCancel, Doomed
  <1>2. IInv /\ NodeInv /\ [Next]_vars => NodeInv'
    <2> SUFFICES ASSUME IInv, NodeInv, [Next]_vars
                 PROVE  NodeInv'
      OBVIOUS
    <2>1. CASE WorkerStep
      BY <2>1, OpenSessionKeepsNodes, SubmitToAgentKitKeepsNodes,
           AgentKitStopsKeepsNodes, ResumeKeepsNodes, BeginFinishKeepsNodes,
           ReportFinishKeepsNodes, FinishCancelledKeepsNodes,
           FinishUnacknowledgedKeepsNodes, FinishAndActivateNextKeepsNodes DEF WorkerStep
    <2>2. CASE CallerStep
      BY <2>2, ActivateTurnWorkerKeepsNodes, PersistWaitingAgentKeepsNodes,
           AbortAgentKeepsNodes, SnapshotSessionKeepsNodes,
           CancelSessionTurnKeepsNodes, CheckWaitingKeepsNodes,
           CancelNodeKeepsNodes DEF CallerStep
    <2>3. CASE UNCHANGED vars
      BY <2>3 DEF vars, durable, agentkit, memory, bounds, NodeInv,
           StartingInv, UnclaimedInv, CancellerInv, EndedNodeInv, Doomed,
           Requested, Waits, PreparedActive
    <2>4. CASE Next
      BY <2>1, <2>2, <2>4, RunFailsKeepsNodes, RunTimesOutKeepsNodes,
           DetachedRunStopsKeepsNodes, RespondKeepsNodes, InterruptKeepsNodes,
           StartTaskTurnKeepsNodes, StartAgentKeepsNodes,
           ActivationInterruptedKeepsNodes, CancelRunKeepsNodes,
           CrashAndRestartKeepsNodes DEF Next
    <2> QED
      BY <2>3, <2>4
  <1> QED
    BY <1>1, <1>2, Inductive, PTL DEF Spec

\* Only a worker that opened the session of a turn has the agent work on it.
LEMMA RunsFromNone ==
    ASSUME IInv, Next, NEW u \in Turns, log[u] = "none", log'[u] = "running"
    PROVE  worker[u] = "opened" /\ u \notin cancelReq
  <1>1. log \in [Turns -> {"none", "running", "waiting"} \union Terminal]
    BY DEF IInv, TypeOK
  <1>2. CASE UNCHANGED log
    BY <1>2
  <1>3. ASSUME NEW t \in Turns, SubmitToAgentKit(t)
        PROVE  worker[u] = "opened" /\ u \notin cancelReq
    BY <1>1, <1>3 DEF SubmitToAgentKit, Logged, agentkit
  <1>4. ASSUME NEW t \in Turns, AgentKitStops(t) \/ RunFails(t) \/ DetachedRunStops(t) \/ Resume(t)
        PROVE  FALSE
    <2>1. t = u /\ log[t] = "none"
      BY <1>1, <1>4 DEF AgentKitStops, RunFails, DetachedRunStops, Resume, Logged, agentkit
    <2> QED
      BY <1>1, <1>4, <2>1, TurnsAssumption DEF AgentKitStops, RunFails, DetachedRunStops, Resume, Logged, agentkit, Terminal
  <1>5. CASE CancelSessionTurn
    BY <1>1, <1>5 DEF CancelSessionTurn, Logged, agentkit
  <1>6. WorkerStep => \/ UNCHANGED log
                      \/ \E t \in Turns : SubmitToAgentKit(t) \/ AgentKitStops(t) \/ Resume(t)
    BY DEF WorkerStep, OpenSession, BeginFinish, ReportFinish, FinishCancelled,
           FinishUnacknowledged, FinishAndActivateNext, Finished, agentkit
  <1>7. CallerStep => UNCHANGED log \/ CancelSessionTurn
    BY DEF CallerStep, ActivateTurnWorker, PersistWaitingAgent, AbortAgent, SnapshotSession,
           CheckWaiting, CancelNode, agentkit
  <1> QED
    BY <1>2, <1>3, <1>4, <1>5, <1>6, <1>7
       DEF Next, StartTaskTurn, StartAgent, CancelRun, ActivationInterrupted,
           RunTimesOut, Respond, Interrupt, CrashAndRestart, agentkit

\* A turn whose automation node ended before the agent was asked to work on
\* it is never started by this process, with every fault and cancellation.
THEOREM NodeNeverStarts == Spec => EndedNodeNeverStarts
  <1>1. IInv /\ NodeInv /\ [Next]_vars
        => [\A t \in AutoTurns :
              /\ node[t] \in {"succeeded", "failed", "cancelled"}
              /\ log[t] = "none"
              /\ crashes = 0
              => log'[t] # "running"]_vars
    BY RunsFromNone, TurnsAssumption DEF NodeInv, EndedNodeInv
  <1> QED
    BY <1>1, Inductive, NodesInductive, PTL DEF Spec, EndedNodeNeverStarts
=============================================================================

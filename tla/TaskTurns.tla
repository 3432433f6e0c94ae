----------------------------- MODULE TaskTurns -----------------------------
(***************************************************************************)
(* What the desktop promises about the turns of one task, without saying   *)
(* how: turns run one at a time, in the order they were submitted, and a   *)
(* turn that ended never runs again; a cancellation may drop what waits.   *)
(***************************************************************************)
EXTENDS Naturals, Sequences

CONSTANTS Turns, NoTurn,
          Cancellable   \* whether anything may be cancelled

VARIABLES pending,   \* submitted turns that have not ended, oldest first
          running,   \* the turn the agent works on, or NoTurn
          ended      \* turns that ended or were dropped

vars == <<pending, running, ended>>

Members(s) == {s[i] : i \in DOMAIN s}

Init == pending = <<>> /\ running = NoTurn /\ ended = {}

Submit(t) == /\ t \notin ended \union Members(pending)
             /\ pending' = Append(pending, t)
             /\ UNCHANGED <<running, ended>>

Start == /\ running = NoTurn
         /\ pending # <<>>
         /\ running' = Head(pending)
         /\ UNCHANGED <<pending, ended>>

\* The running turn ends, or the oldest one fails before it runs.
End == /\ pending # <<>>
       /\ running \in {NoTurn, Head(pending)}
       /\ running' = NoTurn
       /\ pending' = Tail(pending)
       /\ ended' = ended \union {Head(pending)}

\* A cancellation drops the running turn and every turn behind it.
Drop == /\ Cancellable
        /\ running' = NoTurn
        /\ pending' = <<>>
        /\ ended' = ended \union Members(pending)

Next == (\E t \in Turns : Submit(t)) \/ Start \/ End \/ Drop

Spec == Init /\ [][Next]_vars
=============================================================================

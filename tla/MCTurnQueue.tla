---------------------------- MODULE MCTurnQueue ----------------------------
(* Small tasks: up to three turns of the user and one of an automation.    *)
EXTENDS TurnQueue

CONSTANTS u1, u2, u3, a1

OneUser == {u1}
ThreeUsers == {u1, u2, u3}
OneAuto == {a1}
UserAndAuto == {u1, a1}
AnyOutcome == {"completed", "failed", "waiting"}
UserSymmetry == Permutations(ThreeUsers)
=============================================================================

----------------------------- MODULE MCTerminals -----------------------------
(* The desktop and two requests of the remote client at a time. *)
EXTENDS Terminals, TLC

CONSTANTS r1, r2

TwoRequests == {r1, r2}
RequestSymmetry == Permutations(TwoRequests)
=============================================================================

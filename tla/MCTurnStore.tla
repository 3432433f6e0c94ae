---------------------------- MODULE MCTurnStore ----------------------------
(* A small task queue: three turns, one of which may be submitted again.   *)
EXTENDS TurnStore, TLC

CONSTANTS t1, t2, t3

MCTurns == {t1, t2, t3}
Symmetry == Permutations(MCTurns)
=============================================================================

------------------------ MODULE MCMoveActionServer ------------------------
(* Small instances of MoveActionServer for TLC.                            *)
EXTENDS MoveActionServer, TLC

CONSTANTS g1, g2

OneGoal == {g1}
TwoGoals == {g1, g2}

Symmetry == Permutations(Goals)
=============================================================================

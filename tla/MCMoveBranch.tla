---------------------------- MODULE MCMoveBranch ----------------------------
(* Instances of MoveBranch for TLC. *)
EXTENDS MoveBranch, TLC

CONSTANTS g1, g2, g3
TwoGoals == {g1, g2}
ThreeGoals == {g1, g2, g3}
NoLimit == -1
Symmetry == Permutations(Goals)
=============================================================================

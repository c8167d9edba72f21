---------------------------- MODULE MCRobotReset ----------------------------
(* Instances of RobotReset for TLC. *)
EXTENDS RobotReset, TLC
CONSTANTS g1, g2, g3
ThreeGoals == {g1, g2, g3}
=============================================================================

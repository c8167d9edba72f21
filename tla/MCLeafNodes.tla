---------------------------- MODULE MCLeafNodes ----------------------------
(* Instances of LeafNodes for TLC. *)
EXTENDS LeafNodes
CONSTANTS r1, r2
TwoRequests == {r1, r2}
=============================================================================

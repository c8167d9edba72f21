------------------------- MODULE MCCollisionMonitor -------------------------
(* Four points, the last two closer together than the others.              *)
EXTENDS CollisionMonitor

FourTimes == <<0, 2, 3, 4>>
=============================================================================

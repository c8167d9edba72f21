-------------------------- MODULE CollisionMonitor --------------------------
(***************************************************************************)
(* How the MoveManipulator server watches one trajectory while the         *)
(* FollowJointTrajectory controller runs it: the feedback callback of      *)
(* executeTrajectoryWithCollisionChecks() asks the planner whether what is *)
(* left of the trajectory is free of collisions, and tells the client.     *)
(*                                                                         *)
(* What is left is decided by the node's clock.  The controller starts the *)
(* trajectory later than the clock (the wait for the action server, the    *)
(* request and its acceptance come in between), so the robot may lag       *)
(* behind it.  Time is counted in steps of the trajectory's resolution.    *)
(***************************************************************************)
EXTENDS Integers

CONSTANTS NumPoints, \* points of the trajectory
          Time,      \* time_from_start of each point
          SkipsPast, \* MoveItCppPlanner, FALSE for MoveGroupPlanner
          MaxLag     \* how far the robot may be behind the clock: a bound

Points == 1..NumPoints
Duration == Time[NumPoints]

ASSUME MonitorAssumption ==
  /\ NumPoints \in Nat \ {0}
  /\ Time \in [Points -> Nat]
  /\ \A i, j \in Points : i <= j => Time[i] <= Time[j]
  /\ SkipsPast \in BOOLEAN
  /\ MaxLag \in Nat

VARIABLES
  elapsed,   \* now() - start_time
  at,        \* the instant of the trajectory the robot is at
  blocked,   \* points the planning scene finds in collision
  alarm,     \* collision_detected, the execution's local flag
  warned,    \* the client has been told of a collision
  outcome,   \* what the result callback made of the controller's result
  published  \* the last feedback: its in_collision, and what it was computed from

vars == <<elapsed, at, blocked, alarm, warned, outcome, published>>

Snapshot ==
  [in_collision : BOOLEAN, empty : BOOLEAN, elapsed : Nat, blocked : SUBSET Points]

\* The whole trajectory was found valid before the goal is sent.
Init ==
  /\ elapsed = 0 /\ at = 0
  /\ blocked = {}
  /\ alarm = FALSE /\ warned = FALSE
  /\ outcome = "running"
  /\ published = [in_collision |-> FALSE, empty |-> FALSE, elapsed |-> 0, blocked |-> {}]

-----------------------------------------------------------------------------
(* isTrajectoryValid(trajectory, constraints, time_from_start).            *)

\* Broken variant: the first later point is erased with those before it.
TailWithoutNext(t) ==
  IF t > 0 THEN {i \in Points : \E j \in 1..(i - 1) : Time[j] > t} ELSE Points

\* The points left once those before the first later one are erased.
Tail(t) ==
  IF t > 0 THEN {i \in Points : \E j \in 1..i : Time[j] > t} ELSE Points

\* Broken variant: what is left is never asked for.
CheckedAll(t) == Points

\* The points the planning scene is asked about: MoveGroupPlanner computes
\* what is left, and passes the trajectory it was given.
Checked(t) == IF SkipsPast \/ Tail(t) = {} THEN Tail(t) ELSE Points

IsTrajectoryValid(t) == Checked(t) \cap blocked = {}

-----------------------------------------------------------------------------
(* The environment: the clock, the controller and the planning scene.      *)

Advance ==
  /\ outcome = "running"
  /\ elapsed' = elapsed + 1
  /\ at' \in {at, at + 1}
  /\ at' <= Duration /\ elapsed' - at' <= MaxLag
  /\ UNCHANGED <<blocked, alarm, warned, outcome, published>>

SceneChange ==
  /\ outcome = "running"
  /\ blocked' \in SUBSET Points
  /\ UNCHANGED <<elapsed, at, alarm, warned, outcome, published>>

-----------------------------------------------------------------------------
(* The callbacks of the FollowJointTrajectory goal.                        *)

\* What the callback publishes, for a message whose positions may be empty.
Publish(empty) ==
  /\ warned' = (warned \/ alarm')
  /\ published' = [in_collision |-> alarm', empty |-> empty,
                   elapsed |-> elapsed, blocked |-> blocked]
  /\ UNCHANGED <<elapsed, at, blocked, outcome>>

\* Broken variant: the flag follows the last check.
FeedbackForgets(empty) ==
  /\ outcome = "running"
  /\ alarm' = (empty \/ ~IsTrajectoryValid(elapsed))
  /\ Publish(empty)

\* The flag is only ever set: by an empty message or by a failed check.
Feedback(empty) ==
  /\ outcome = "running"
  /\ alarm' = (alarm \/ empty \/ ~IsTrajectoryValid(elapsed))
  /\ Publish(empty)

\* The controller's result, SUCCEEDED only at the end of the trajectory.
Result(succeeded) ==
  /\ outcome = "running"
  /\ succeeded => at = Duration
  /\ outcome' = IF succeeded /\ ~alarm THEN "succeeded" ELSE "failed"
  /\ UNCHANGED <<elapsed, at, blocked, alarm, warned, published>>

Next ==
  \/ Advance \/ SceneChange
  \/ \E empty \in BOOLEAN : Feedback(empty)
  \/ \E succeeded \in BOOLEAN : Result(succeeded)

Spec == Init /\ [][Next]_vars

-----------------------------------------------------------------------------
(* Properties.                                                             *)

\* Every variable keeps its type.
TypeOK ==
  /\ elapsed \in Nat /\ at \in Nat
  /\ blocked \subseteq Points
  /\ alarm \in BOOLEAN /\ warned \in BOOLEAN
  /\ outcome \in {"running", "succeeded", "failed"}
  /\ published \in Snapshot

\* A feedback that reports no collision was computed from a scene in which no
\* point that is still to come by the clock is blocked.
QuietMeansClear ==
  ~published.in_collision => \A i \in published.blocked : Time[i] <= published.elapsed

\* A collision is first reported because of a blocked point that the robot
\* has yet to reach, or by an empty message, never because of a point that the
\* robot has left behind. With MoveItCppPlanner: MoveGroupPlanner hands over the
\* whole trajectory, and raises the alarm for what lies behind, too.
AlarmIsAhead ==
  [][~alarm /\ alarm' => published'.empty \/ \E i \in blocked : Time[i] >= at]_vars

\* A client that was told of a collision is never told of success afterwards,
\* even if the obstacle goes away and the controller reports success.
WarnedNeverSucceeds == warned => outcome # "succeeded"

\* What every step preserves.
MonitorInv ==
  /\ TypeOK
  /\ at <= elapsed
  /\ warned => alarm
  /\ outcome = "succeeded" => ~alarm
  /\ QuietMeansClear
=============================================================================

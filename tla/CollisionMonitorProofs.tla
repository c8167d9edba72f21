----------------------- MODULE CollisionMonitorProofs -----------------------
(***************************************************************************)
(* Theorems about CollisionMonitor, for trajectories of any length, any    *)
(* times, any lag of the robot and both planners.                          *)
(***************************************************************************)
EXTENDS CollisionMonitor, TLAPS

\* What remains after erasing up to the first later point is every later point.
LEMMA TailIsLater ==
  ASSUME NEW t \in Nat, t > 0
  PROVE  Tail(t) = {i \in Points : Time[i] > t}
  BY MonitorAssumption DEF Tail, Points

\* Both planners ask about every point that is still to come by the clock.
LEMMA LaterIsChecked ==
  ASSUME NEW t \in Nat, NEW i \in Points, Time[i] > t
  PROVE  i \in Checked(t)
<1>1. CASE t = 0 BY <1>1, MonitorAssumption DEF Checked, Tail
<1>2. CASE t > 0 BY <1>2, TailIsLater DEF Checked
<1>3. QED BY <1>1, <1>2

\* A check that passes leaves no point blocked that is still to come.
LEMMA ValidIsClear ==
  ASSUME NEW t \in Nat, NEW i \in Points, i \in blocked, IsTrajectoryValid(t)
  PROVE  Time[i] <= t
<1>1. Time[i] \in Nat BY MonitorAssumption
<1>2. CASE Time[i] > t BY <1>2, LaterIsChecked DEF IsTrajectoryValid
<1>3. QED BY <1>1, <1>2

\* MoveItCppPlanner asks about no point that the clock has passed.
LEMMA CheckedIsLater ==
  ASSUME SkipsPast, NEW t \in Nat, NEW i \in Checked(t)
  PROVE  i \in Points /\ Time[i] >= t
<1>1. CASE t = 0 BY <1>1, MonitorAssumption DEF Checked, Tail
<1>2. CASE t > 0 BY <1>2, TailIsLater, MonitorAssumption DEF Checked
<1>3. QED BY <1>1, <1>2

\* The initial state satisfies the invariant.
LEMMA InitMonitor == Init => MonitorInv
<1> SUFFICES ASSUME Init PROVE MonitorInv
  OBVIOUS
<1>1. alarm \in BOOLEAN /\ warned \in BOOLEAN BY Zenon DEF Init
<1>2. published \in Snapshot
  <2>1. published.in_collision \in BOOLEAN BY Zenon DEF Init
  <2>2. QED BY <2>1 DEF Init, Snapshot
<1>3. TypeOK BY <1>1, <1>2 DEF Init, TypeOK
<1>4. QED BY <1>3 DEF Init, MonitorInv, QuietMeansClear

\* The feedback callback preserves the invariant.
LEMMA FeedbackKeeps ==
  ASSUME MonitorInv, NEW empty \in BOOLEAN, Feedback(empty)
  PROVE  MonitorInv'
<1>1. alarm' \in BOOLEAN /\ warned' \in BOOLEAN /\ (warned' => alarm')
  BY Zenon DEF MonitorInv, Feedback, Publish
<1>2. /\ published'.in_collision = alarm' /\ published'.elapsed = elapsed
      /\ published'.blocked = blocked
  BY DEF Feedback, Publish
<1>3. published' \in Snapshot
  BY <1>1 DEF MonitorInv, TypeOK, Feedback, Publish, Snapshot
<1>4. TypeOK' BY <1>1, <1>3 DEF MonitorInv, TypeOK, Feedback, Publish
<1>5. QuietMeansClear'
  <2> SUFFICES ASSUME ~alarm', NEW i \in blocked PROVE Time[i] <= elapsed
    BY <1>2 DEF QuietMeansClear
  <2>1. IsTrajectoryValid(elapsed) BY Zenon DEF Feedback
  <2>2. QED BY <2>1, ValidIsClear DEF MonitorInv, TypeOK
<1>6. QED BY <1>1, <1>4, <1>5 DEF MonitorInv, Feedback, Publish

\* The other steps preserve it.
LEMMA OthersKeep ==
  ASSUME MonitorInv,
         \/ Advance \/ SceneChange \/ UNCHANGED vars
         \/ \E succeeded \in BOOLEAN : Result(succeeded)
  PROVE  MonitorInv'
<1> USE DEF MonitorInv, TypeOK, QuietMeansClear
<1>1. CASE Advance BY <1>1, MonitorAssumption DEF Advance
<1>2. CASE SceneChange BY <1>2 DEF SceneChange
<1>3. CASE UNCHANGED vars BY <1>3 DEF vars
<1>4. ASSUME NEW succeeded \in BOOLEAN, Result(succeeded) PROVE MonitorInv'
  BY <1>4 DEF Result
<1>5. QED BY <1>1, <1>2, <1>3, <1>4

-----------------------------------------------------------------------------
\* MonitorInv holds in every reachable state.
THEOREM MonitorInvariance == Spec => []MonitorInv
<1>1. MonitorInv /\ [Next]_vars => MonitorInv'
  BY FeedbackKeeps, OthersKeep DEF Next
<1>2. QED BY <1>1, InitMonitor, PTL DEF Spec

\* A feedback without in_collision means that nothing later is blocked.
THEOREM NothingMissed == Spec => []QuietMeansClear
<1>1. MonitorInv => QuietMeansClear BY DEF MonitorInv
<1>2. QED BY <1>1, MonitorInvariance, PTL

\* No success after a warning.
THEOREM WarningIsFinal == Spec => []WarnedNeverSucceeds
<1>1. MonitorInv => WarnedNeverSucceeds BY DEF MonitorInv, WarnedNeverSucceeds
<1>2. QED BY <1>1, MonitorInvariance, PTL

\* With MoveItCppPlanner the alarm is never raised by a point that the robot has
\* left behind.
THEOREM AlarmsAreAhead ==
  ASSUME SkipsPast
  PROVE  Spec => AlarmIsAhead
<1>1. MonitorInv /\ [Next]_vars
        => [~alarm /\ alarm' => published'.empty \/ \E i \in blocked : Time[i] >= at]_vars
  <2> SUFFICES ASSUME MonitorInv, Next, ~alarm, alarm', ~published'.empty
               PROVE  \E i \in blocked : Time[i] >= at
    BY DEF vars
  <2>1. PICK empty \in BOOLEAN : Feedback(empty)
    BY Zenon DEF Next, Advance, SceneChange, Result
  <2>2. published'.empty = empty BY <2>1 DEF Feedback, Publish
  <2>7. ~empty BY <2>2, Zenon
  <2>8. ~IsTrajectoryValid(elapsed) BY <2>1, <2>7, Zenon DEF Feedback
  <2>3. PICK i \in Checked(elapsed) : i \in blocked
    BY <2>8 DEF IsTrajectoryValid
  <2>4. Time[i] >= elapsed /\ i \in Points BY <2>3, CheckedIsLater DEF MonitorInv, TypeOK
  <2>5. Time[i] >= at BY <2>4, MonitorAssumption DEF MonitorInv, TypeOK
  <2>6. QED BY <2>3, <2>5
<1>2. QED BY <1>1, MonitorInvariance, PTL DEF Spec, AlarmIsAhead
=============================================================================

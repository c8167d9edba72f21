-------------------------- MODULE ApplicationTrees --------------------------
(***************************************************************************)
(* The behaviour trees of the client applications.  Each is a Retry around *)
(* a Sequence: a start-up, then branches that each repeat a sequence for   *)
(* ever, in parallel if there are two.  A tree is written as stages, one   *)
(* after the other; a stage as branches; a branch as a sequence of leaves. *)
(***************************************************************************)
EXTENDS Sequences

\* A leaf: what it does, for which robot, to which object or key, and the
\* place a move goes to or the value of a key.
Leaf(do, r, o, arg) == [do |-> do, robot |-> r, of |-> o, arg |-> arg]

Check(r) == Leaf("check", r, "", "")             \* CheckRobotState, or else ResetRobotState
Call == Leaf("call", 0, "", "")                  \* a call that changes nothing here
Move(r, to) == Leaf("move", r, "", to)
Grip(r, jaws) == Leaf("grip", r, "", jaws)
Sensor(r) == Leaf("sensor", r, "", "")
Ensure(o) == Leaf("ensure", 0, o, "")            \* added, unless it exists
Add(o) == Leaf("add", 0, o, "")
Exists(o) == Leaf("exists", 0, o, "")
Pose(o) == Leaf("pose", 0, o, "")
Attach(r, o) == Leaf("attach", r, o, "")
Detach(r, o) == Leaf("detach", r, o, "")         \* or else AlwaysSuccess
Remove(o) == Leaf("remove", 0, o, "")            \* or else AlwaysSuccess
Set(k, v) == Leaf("set", 0, k, v)
WaitKey(k, v) == Leaf("waitKey", 0, k, v)
WaitObject(o, there) == Leaf("waitObject", 0, o, there)
Operator == Leaf("operator", 0, "", "")          \* a wait for the operator
Detect == Leaf("detect", 0, "", "")              \* retried until it succeeds

-----------------------------------------------------------------------------
(* Blocks the clients share.                                               *)

Fixed == <<Ensure("ground"), Ensure("wall")>>
Poses(o) == <<Pose(o), Pose(o)>>

\* A signal opens a gripper, and its sensor is only read on closing.
CloseBySignal(r, o) == <<Grip(r, "closed"), Sensor(r), Attach(r, o)>>

Open(r, o) == <<Grip(r, "open"), Detach(r, o)>>

CloseByAction(r, o) == <<Grip(r, "closed"), Attach(r, o)>>
ResetGraspable(r, o) == Open(r, o) \o <<Remove(o)>>

\* One robot takes the object to its drop pose and goes home.
PickAndPlace(spawned, close) ==
  <<Check(1)>> \o spawned \o Poses("part") \o <<Move(1, "pick")>> \o close \o
  <<Move(1, "drop")>> \o Open(1, "part") \o <<Move(1, "home"), Move(1, "rest"), Remove("part")>>

StartUp(fixed, prep) == <<Check(1)>> \o fixed \o ResetGraspable(1, "part") \o prep

OneRobot(startUp, cycle) == <<<<startUp>>, <<cycle>>>>
TwoParts == <<Ensure("cylinder"), Ensure("part")>>

-----------------------------------------------------------------------------
(* One robot.                                                              *)

BtClient ==
  OneRobot(StartUp(Fixed, <<Move(1, "rest"), Move(1, "scan")>>),
           PickAndPlace(TwoParts, CloseBySignal(1, "part")))

BtClientCumotion == BtClient
BtClientMixedPipelines == BtClient

BtClientUf850 ==
  OneRobot(StartUp(Fixed, <<Move(1, "rest")>>),
           PickAndPlace(TwoParts, CloseByAction(1, "part")))

BtClientXarm7 ==
  OneRobot(StartUp(Fixed \o <<Ensure("cylinder")>>, <<Move(1, "rest")>>),
           PickAndPlace(<<Ensure("part")>>, CloseByAction(1, "part")))

\* The object is attached before the jaws close on it.
BtClientPanda ==
  OneRobot(Fixed \o ResetGraspable(1, "part") \o <<Move(1, "rest"), Grip(1, "open")>>,
           TwoParts \o Poses("part") \o
           <<Move(1, "pick"), Attach(1, "part"), Grip(1, "closed"), Move(1, "drop")>> \o
           Open(1, "part") \o <<Move(1, "home"), Move(1, "rest"), Remove("part")>>)

BtClientPandaCumotion == BtClientPanda

BtClientUr ==
  OneRobot(Fixed \o ResetGraspable(1, "part") \o <<Move(1, "rest")>>,
           <<Ensure("part")>> \o Poses("part") \o <<Move(1, "pick")>> \o CloseByAction(1, "part") \o
           <<Move(1, "drop")>> \o Open(1, "part") \o
           <<Move(1, "exit"), Move(1, "rest"), Remove("part")>>)

\* The simulator's object is asked for its pose, and put back at the end.
BtClientIsaac ==
  OneRobot(Fixed \o <<Operator, Call>> \o ResetGraspable(1, "part") \o <<Move(1, "rest")>>,
           <<Ensure("part")>> \o Poses("part") \o <<Grip(1, "open"), Move(1, "pick")>> \o
           CloseByAction(1, "part") \o <<Move(1, "drop")>> \o Open(1, "part") \o
           <<Remove("part"), Call>>)

\* The tutorial's robot has no gripper to command.
Tutorial01 ==
  OneRobot(Fixed \o <<Detach(1, "part"), Remove("part"), Move(1, "rest")>>,
           <<Ensure("part")>> \o Poses("part") \o
           <<Move(1, "pick"), Attach(1, "part"), Move(1, "drop"), Detach(1, "part"),
             Move(1, "home"), Move(1, "rest"), Remove("part")>>)

-----------------------------------------------------------------------------
(* A camera and a robot, which tell each other about the object by two keys. *)

CameraCycle ==
  <<WaitKey("valid", FALSE), Detect, Set("valid", TRUE),
    WaitKey("created", FALSE), Add("part"), Set("created", TRUE)>>

PickerCycle ==
  <<Grip(1, "open"), WaitKey("valid", TRUE), Move(1, "pick")>> \o CloseByAction(1, "part") \o
  <<Set("valid", FALSE), Move(1, "drop")>> \o Open(1, "part") \o
  <<Remove("part"), Set("created", FALSE)>>

BtClientFoundationPose ==
  <<<<Fixed \o <<Operator>> \o ResetGraspable(1, "part") \o
      <<Set("created", FALSE), Set("valid", FALSE), Move(1, "rest")>>>>,
    <<CameraCycle, PickerCycle>>>>

-----------------------------------------------------------------------------
(* Two robots.                                                             *)

PickerOf(r, o) ==
  <<Check(r), Ensure(o)>> \o Poses(o) \o <<Move(r, "pick")>> \o CloseBySignal(r, o) \o
  <<Move(r, "drop")>> \o Open(r, o) \o <<Move(r, "home"), Move(r, "rest"), Remove(o)>>

BtClientDual ==
  <<<<<<Check(1), Check(2)>> \o Fixed \o ResetGraspable(1, "part") \o ResetGraspable(2, "cylinder")>>,
    <<<<Check(1), Move(1, "rest")>>, <<Check(2), Move(2, "rest")>>>>,
    <<PickerOf(1, "part"), PickerOf(2, "cylinder")>>>>

\* One robot hands a tube to the other at the machine: the tube is taken out
\* of the scene and added again under a new name, for the other robot.

\* Broken variant: the parts of the last cycle stay in the scene.
ResetMovableAddsOnly == <<Add("slider"), Add("endplate")>>

ResetMovable == <<Remove("slider"), Add("slider"), Remove("endplate"), Add("endplate")>>
OpenAndWait == <<Grip(1, "open"), Detach(1, "tube"), Sensor(1)>>
Rename == <<Pose("tube"), Remove("tube"), Add("renamed"), Exists("renamed")>>

Giver ==
  <<Move(1, "ready"), Set("robot1In", FALSE), Operator, Ensure("tube")>> \o ResetMovable \o
  Poses("tube") \o <<Move(1, "pick")>> \o CloseBySignal(1, "tube") \o
  <<Move(1, "wait"), WaitKey("robot2In", FALSE), WaitObject("renamed", FALSE),
    Move(1, "drop"), Set("robot1In", TRUE), WaitKey("robot2In", TRUE)>> \o OpenAndWait \o Rename

\* Broken variants: the taker keeps its place in the working position, and
\* the taker does not wait for the giver to leave.
TakerStaysIn ==
  <<Move(2, "ready"), WaitKey("robot1In", TRUE)>> \o Poses("tube") \o Poses("endplate") \o
  <<Move(2, "insert"), Set("robot2In", TRUE), WaitKey("robot1In", FALSE), WaitObject("renamed", TRUE),
    Attach(2, "renamed"), Move(2, "load"), Move(2, "exit"), Detach(2, "renamed"), Remove("renamed")>>

TakerDoesNotWait ==
  <<Move(2, "ready"), Set("robot2In", FALSE), WaitKey("robot1In", TRUE)>> \o
  Poses("tube") \o Poses("endplate") \o
  <<Move(2, "insert"), Set("robot2In", TRUE), WaitObject("renamed", TRUE),
    Attach(2, "renamed"), Move(2, "load"), Move(2, "exit"), Detach(2, "renamed"), Remove("renamed")>>

Taker ==
  <<Move(2, "ready"), Set("robot2In", FALSE), WaitKey("robot1In", TRUE)>> \o
  Poses("tube") \o Poses("endplate") \o
  <<Move(2, "insert"), Set("robot2In", TRUE), WaitKey("robot1In", FALSE), WaitObject("renamed", TRUE),
    Attach(2, "renamed"), Move(2, "load"), Move(2, "exit"), Detach(2, "renamed"), Remove("renamed")>>

BtClientAppDual ==
  <<<<<<Ensure("machine")>> \o ResetMovable \o OpenAndWait \o
      <<Remove("tube"), Detach(2, "renamed"), Remove("renamed")>>>>,
    <<<<Check(1), Move(1, "rest")>>, <<Check(2), Move(2, "rest")>>>>,
    <<Giver, Taker>>>>

CollisionTest == BtClientAppDual

\* Clients with one tree are checked once.
TreeOf ==
  [lite6 |-> BtClient, uf850 |-> BtClientUf850, xarm7 |-> BtClientXarm7, panda |-> BtClientPanda,
   ur |-> BtClientUr, isaac |-> BtClientIsaac,
   tutorial |-> Tutorial01, foundationpose |-> BtClientFoundationPose,
   dual |-> BtClientDual, app_dual |-> BtClientAppDual]
=============================================================================

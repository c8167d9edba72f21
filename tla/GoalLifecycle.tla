--------------------------- MODULE GoalLifecycle ---------------------------
(***************************************************************************)
(* What the MoveManipulator action server promises to its clients, goal by *)
(* goal: the statuses a goal passes through and how they relate to the     *)
(* motion commanded for it.  MoveActionServer implements this              *)
(* specification; the behaviour-tree side is written against it.           *)
(***************************************************************************)
CONSTANT Goals

VARIABLES status,  \* what the client can see of the goal
          motion   \* what became of the trajectory sent for the goal

glVars == <<status, motion>>

Open     == {"EXECUTING", "CANCELING"}
Terminal == {"SUCCEEDED", "CANCELED", "ABORTED"}

GLTypeOK ==
  /\ status \in [Goals -> {"NONE"} \cup Open \cup Terminal]
  /\ motion \in [Goals -> {"none", "commanded", "reached", "stopped"}]

GLInit ==
  /\ status = [g \in Goals |-> "NONE"]
  /\ motion = [g \in Goals |-> "none"]

Move(g, from, to) ==
  /\ status[g] \in from
  /\ status' = [status EXCEPT ![g] = to]
  /\ UNCHANGED motion

\* Every goal is accepted at once.
AcceptGoal(g) == Move(g, {"NONE"}, "EXECUTING")

\* A cancel request is granted while the goal is running.
GrantCancel(g) == Move(g, {"EXECUTING"}, "CANCELING")

\* Only a goal whose client asked for it may be reported canceled ...
Cancel(g) == Move(g, {"CANCELING"}, "CANCELED")

\* ... only a goal whose trajectory was executed to its end may succeed ...
Succeed(g) == motion[g] = "reached" /\ Move(g, Open, "SUCCEEDED")

\* ... and any running goal may be aborted.
Abort(g) == Move(g, Open, "ABORTED")

\* A trajectory is only ever commanded for a goal that is still open.
Command(g) ==
  /\ status[g] \in Open
  /\ motion[g] = "none"
  /\ motion' = [motion EXCEPT ![g] = "commanded"]
  /\ UNCHANGED status

Reach(g) ==
  /\ motion[g] = "commanded"
  /\ motion' = [motion EXCEPT ![g] = "reached"]
  /\ UNCHANGED status

\* One event (a preempting trajectory) may stop several motions.
Stop(S) ==
  /\ \A g \in S : motion[g] = "commanded"
  /\ motion' = [g \in Goals |-> IF g \in S THEN "stopped" ELSE motion[g]]
  /\ UNCHANGED status

GLNext ==
  \/ \E g \in Goals : \/ AcceptGoal(g) \/ GrantCancel(g) \/ Cancel(g)
                      \/ Succeed(g) \/ Abort(g) \/ Command(g) \/ Reach(g)
  \/ \E S \in SUBSET Goals : Stop(S)

GLSpec == GLInit /\ [][GLNext]_glVars
=============================================================================

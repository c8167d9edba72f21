--------------------------- MODULE ControllerSwitch ---------------------------
(***************************************************************************)
(* UnloadTrajController and LoadTrajController of ManipulatorActionServer: *)
(* each goal is a chain of calls to controller_manager, every call made in *)
(* the callback of the one before.  Goals of both kinds, and those of the  *)
(* vendor's ResetRobotState server, share the slots below; a slot is used  *)
(* again once the client has heard how its goal ended.                     *)
(*                                                                         *)
(* handle_unload_traj_cancel and handle_load_traj_cancel accept every      *)
(* cancel, and nothing looks at it: a cancel changes no step of a chain,   *)
(* so it is left out.                                                      *)
(***************************************************************************)
EXTENDS Integers, Sequences, FiniteSets

CONSTANTS Goals   \* slots for goals under way: a bound

VARIABLES
  ctrl,   \* the trajectory controller, in controller_manager
  goal    \* the goals: what they are for, the step they are at, how far it is

switch == <<ctrl, goal>>

\* The calls of each kind of goal; the vendor's reset is one step of its own.
Steps ==
  [unload |-> <<"deactivate", "unload">>,
   load |-> <<"load", "configure", "activate">>,
   reset |-> <<"reset">>]

Jobs == DOMAIN Steps
Ended == {"SUCCEEDED", "ABORTED"}
Stages == {"free", "sent", "asked", "ok", "failed"} \cup Ended
Free == [job |-> "reset", step |-> 1, at |-> "free"]
Busy == {g \in Goals : goal[g].at # "free"}

Step(g) == Steps[goal[g].job][goal[g].step]
IsChain(g) == goal[g].job # "reset"

SwitchInit == ctrl = "active" /\ goal = [g \in Goals |-> Free]

\* A client asks for a job.
Request(g, job) ==
  /\ goal[g].at = "free"
  /\ goal' = [goal EXCEPT ![g] = [job |-> job, step |-> 1, at |-> "sent"]]

Abort(g) == goal' = [goal EXCEPT ![g].at = "ABORTED"]

\* The detached thread of the goal makes the first call.
Accept(g) ==
  /\ goal[g].at = "sent"
  /\ goal' = [goal EXCEPT ![g].at = "asked"]
  /\ UNCHANGED ctrl

\* A service that is not ready is not called.
ServiceMissing(g) ==
  /\ IsChain(g) /\ goal[g].at = "sent"
  /\ Abort(g)
  /\ UNCHANGED ctrl

\* controller_manager carries out a call it can, or refuses it (the
\* vendor's server may reject the goal: the node does not tell the difference).
Manage(g, from, to) ==
  /\ goal[g].at = "asked"
  /\ \/ /\ ctrl \in from
        /\ ctrl' = to
        /\ goal' = [goal EXCEPT ![g].at = "ok"]
     \/ /\ goal' = [goal EXCEPT ![g].at = "failed"]
        /\ UNCHANGED ctrl

DeactivateController(g) == Step(g) = "deactivate" /\ Manage(g, {"active"}, "inactive")
UnloadController(g) == Step(g) = "unload" /\ Manage(g, {"inactive", "unconfigured"}, "unloaded")
LoadController(g) == Step(g) = "load" /\ Manage(g, {"unloaded"}, "unconfigured")
ConfigureController(g) == Step(g) = "configure" /\ Manage(g, {"unconfigured", "inactive"}, "inactive")
ActivateController(g) == Step(g) = "activate" /\ Manage(g, {"inactive"}, "active")

\* The vendor's server resets the robot, or fails to.
ResetRobot(g) == Step(g) = "reset" /\ Manage(g, {ctrl}, ctrl)

\* Broken variant: the next step is called although this one failed.
ResponseUnchecked(g) ==
  /\ IF goal[g].at \in {"ok", "failed"} /\ goal[g].step < Len(Steps[goal[g].job])
       THEN goal' = [goal EXCEPT ![g].step = @ + 1, ![g].at = "asked"]
       ELSE goal[g].at = "ok" /\ goal' = [goal EXCEPT ![g].at = "SUCCEEDED"]
  /\ UNCHANGED ctrl

\* on_success: the next call (its service may be missing), or succeed.
Response(g) ==
  /\ goal[g].at = "ok"
  /\ IF goal[g].step < Len(Steps[goal[g].job])
       THEN \/ goal' = [goal EXCEPT ![g].step = @ + 1, ![g].at = "asked"]
            \/ Abort(g)
       ELSE goal' = [goal EXCEPT ![g].at = "SUCCEEDED"]
  /\ UNCHANGED ctrl

\* Broken variant: a failed step is not reported.
ResponseFailedSilently(g) == goal[g].at = "failed" /\ UNCHANGED switch

\* on_error, for ok = false and for a null response.
ResponseFailed(g) ==
  /\ goal[g].at = "failed"
  /\ Abort(g)
  /\ UNCHANGED ctrl

\* The client is told how the goal ended.
Told(g) ==
  /\ goal[g].at \in Ended
  /\ goal' = [goal EXCEPT ![g] = Free]
  /\ UNCHANGED ctrl

ManagerStep(g) ==
  \/ DeactivateController(g) \/ UnloadController(g)
  \/ LoadController(g) \/ ConfigureController(g) \/ ActivateController(g) \/ ResetRobot(g)

SwitchStep(g) ==
  \/ Accept(g) \/ ServiceMissing(g) \/ ManagerStep(g) \/ Response(g) \/ ResponseFailed(g)

SwitchTypeOK ==
  /\ ctrl \in {"active", "inactive", "unconfigured", "unloaded"}
  /\ goal \in [Goals -> [job : Jobs, step : 1..3, at : Stages]]
  /\ \A g \in Goals : goal[g].step <= Len(Steps[goal[g].job])
=============================================================================

----------------------------- MODULE RobotReset -----------------------------
(***************************************************************************)
(* ResetRobotStateAction with the servers it drives: unload the trajectory *)
(* controller, reset the robot, load the controller again.  The node runs  *)
(* in the one thread of the client, so a tick or a callback is a step.     *)
(***************************************************************************)
EXTENDS ControllerSwitch

VARIABLES
  node,        \* status of the node
  unloaded,    \* unload_traj_success_
  loaded,      \* load_traj_success_
  resetSent, loadSent,  \* reset_goal_sent_, load_goal_sent_
  received,    \* result_received_: the reset server has answered
  early,       \* history: the run began before the last answer had come
  failed       \* history: unload or load of this run ended badly

flags == <<unloaded, loaded, resetSent, loadSent, received>>
vars == <<switch, node, flags, early, failed>>

CanSend == Busy # Goals

Init ==
  /\ SwitchInit
  /\ node = "IDLE"
  /\ unloaded = FALSE /\ loaded = FALSE
  /\ resetSent = FALSE /\ loadSent = FALSE /\ received = FALSE
  /\ early = FALSE /\ failed = FALSE

-----------------------------------------------------------------------------
(* The node.                                                               *)

\* Broken variant: load_traj_success_ is not cleared.
ClearFlagsButLoaded ==
  /\ unloaded' = FALSE /\ UNCHANGED loaded
  /\ resetSent' = FALSE /\ loadSent' = FALSE /\ received' = FALSE

ClearFlags ==
  /\ unloaded' = FALSE /\ loaded' = FALSE
  /\ resetSent' = FALSE /\ loadSent' = FALSE /\ received' = FALSE

OnStart ==
  /\ node # "RUNNING"
  /\ ClearFlags
  /\ \E g \in Goals : Request(g, "unload")
  /\ node' = "RUNNING"
  /\ early' = (Busy # {}) /\ failed' = FALSE
  /\ UNCHANGED ctrl

OnRunning == node = "RUNNING" /\ UNCHANGED <<ctrl, early, failed>>

\* Broken variant: the reset does not wait for the unloading.
SendResetAtOnce ==
  /\ OnRunning
  /\ ~resetSent
  /\ resetSent' = TRUE
  /\ \E g \in Goals : Request(g, "reset")
  /\ UNCHANGED <<node, unloaded, loaded, loadSent, received>>

SendReset ==
  /\ OnRunning
  /\ unloaded /\ ~resetSent
  /\ resetSent' = TRUE
  /\ \E g \in Goals : Request(g, "reset")
  /\ UNCHANGED <<node, unloaded, loaded, loadSent, received>>

\* Whatever the reset server's answer says.
SendLoad ==
  /\ OnRunning
  /\ unloaded /\ resetSent /\ received /\ ~loadSent
  /\ loadSent' = TRUE
  /\ \E g \in Goals : Request(g, "load")
  /\ UNCHANGED <<node, unloaded, loaded, resetSent, received>>

Succeed ==
  /\ OnRunning
  /\ unloaded /\ resetSent /\ received /\ loadSent /\ loaded
  /\ node' = "SUCCESS"
  /\ UNCHANGED <<goal, flags>>

\* onHalted(): cancels that stop nothing (goal_sent_, which guards that of the
\* reset, is never set).
OnHalted ==
  /\ node = "RUNNING"
  /\ node' = "IDLE"
  /\ received' = FALSE /\ resetSent' = FALSE /\ loadSent' = FALSE
  /\ UNCHANGED <<switch, unloaded, loaded, early, failed>>

\* Broken variant: only a successful reset counts as an answer.
ResultNeedsReset(g) ==
  /\ Told(g)
  /\ LET job == goal[g].job
         ok == goal[g].at = "SUCCEEDED" IN
       /\ unloaded' = IF job = "unload" THEN ok ELSE unloaded
       /\ loaded' = IF job = "load" THEN ok ELSE loaded
       /\ received' = ((job = "reset" /\ ok) \/ received)
       /\ failed' = (failed \/ (IsChain(g) /\ ~ok))
  /\ UNCHANGED <<node, resetSent, loadSent, early>>

\* The result callbacks, for whichever run the goal was sent.
Result(g) ==
  /\ Told(g)
  /\ LET job == goal[g].job
         ok == goal[g].at = "SUCCEEDED" IN
       /\ unloaded' = IF job = "unload" THEN ok ELSE unloaded
       /\ loaded' = IF job = "load" THEN ok ELSE loaded
       /\ received' = (job = "reset" \/ received)
       /\ failed' = (failed \/ (IsChain(g) /\ ~ok))
  /\ UNCHANGED <<node, resetSent, loadSent, early>>

Tick == SendReset \/ SendLoad \/ Succeed

-----------------------------------------------------------------------------
ServerStep(g) == SwitchStep(g) /\ UNCHANGED <<node, flags, early, failed>>

Next ==
  \/ OnStart \/ OnHalted \/ Tick
  \/ \E g \in Goals : Result(g) \/ ServerStep(g)

Spec == Init /\ [][Next]_vars

(* The loop ticks, calls are answered, results are delivered.              *)
Fairness == WF_vars(Tick) /\ \A g \in Goals : WF_vars(ServerStep(g) \/ Result(g))
FairSpec == Spec /\ Fairness

-----------------------------------------------------------------------------
(* Properties.                                                             *)

\* Every flag and goal keeps its type.
TypeOK ==
  /\ SwitchTypeOK
  /\ node \in {"IDLE", "RUNNING", "SUCCESS"}
  /\ unloaded \in BOOLEAN /\ loaded \in BOOLEAN
  /\ resetSent \in BOOLEAN /\ loadSent \in BOOLEAN /\ received \in BOOLEAN
  /\ early \in BOOLEAN /\ failed \in BOOLEAN

\* The robot is not reset under a controller that may command it: while the
\* vendor's server works on a reset the controller is unloaded, also when the
\* node was halted meanwhile.
ResetWithoutController ==
  \A g \in Busy : ~IsChain(g) /\ goal[g].at \in {"asked", "ok"} => ctrl = "unloaded"

\* A node that reports success leaves an active controller behind, if it was
\* not started over while answers were outstanding.  (It reports success also
\* when the reset itself was rejected or failed.)
SuccessIsActive == node = "SUCCESS" /\ ~early => ctrl = "active"

\* Such a run never has two jobs under way.
OneJob == ~early => \A g, h \in Busy : g = h

\* Every accepted job ends, and the node hears of it.
JobsEnd == \A g \in Goals : goal[g].at # "free" ~> goal[g].at = "free"

\* The node waits for ever only when an unload or a load has failed: neither
\* sets the flag it waits for, and there is no other way out of onRunning().
WaitsOnlyForFailures == node = "RUNNING" ~> (node # "RUNNING" \/ failed \/ early \/ ~CanSend)

-----------------------------------------------------------------------------
(* The inductive invariant behind the theorems.                            *)

\* Where a chain that has the controller to itself has brought it.
ChainInv(g) ==
  LET s == Step(g)
      at == goal[g].at IN
  /\ at = "asked" /\ s \in {"unload", "activate"} => ctrl = "inactive"
  /\ at = "asked" /\ s = "configure" => ctrl = "unconfigured"
  /\ at \in {"ok", "SUCCEEDED"} =>
       /\ s \in {"deactivate", "configure"} => ctrl = "inactive"
       /\ s = "load" => ctrl = "unconfigured"
       /\ s = "unload" => ctrl = "unloaded"
       /\ s = "activate" => ctrl = "active"
  /\ at = "SUCCEEDED" => goal[g].step = Len(Steps[goal[g].job])
  /\ at = "sent" => goal[g].step = 1
  /\ goal[g].job = "reset" => ctrl = "unloaded"

\* How far the run is while a job of it is under way.
RunInv(g) ==
  /\ goal[g].job = "unload" => ~unloaded
  /\ goal[g].job = "reset" => resetSent /\ ~received
  /\ goal[g].job = "load" => loadSent /\ ~loaded

\* The flags are set in the order of the jobs.
FlagsInv ==
  /\ unloaded /\ ~loadSent => ctrl = "unloaded"
  /\ resetSent => unloaded
  /\ received => resetSent
  /\ loadSent => received
  /\ loaded => loadSent /\ ctrl = "active"
  /\ Busy = {} => (resetSent => received)

(* What keeps the reset and the controller apart in every run, halted and  *)
(* started over or not: from its deactivation to its activation the        *)
(* controller has one keeper, a job or the node between two jobs.          *)

\* The job that has taken the controller out of use, or may put it back.
Keeps(g) ==
  LET job == goal[g].job
      s == goal[g].step
      at == goal[g].at IN
  /\ at # "free"
  /\ \/ job = "unload" /\ s = 1 /\ at = "ok"
     \/ job = "unload" /\ s = 2 /\ at \in {"asked", "ok", "SUCCEEDED"}
     \/ job = "reset"
     \/ job = "load" /\ at \in {"sent", "asked"}
     \/ job = "load" /\ s < 3 /\ at = "ok"

\* The node, when it has heard of one job and not yet asked for the next.
NodeKeeps == node = "RUNNING" /\ ((unloaded /\ ~resetSent) \/ (received /\ ~loadSent))

\* Where a keeper has brought the controller.
KeeperInv(g) ==
  /\ ChainInv(g)
  /\ goal[g].at \in {"sent", "asked"} /\ Step(g) = "load" => ctrl = "unloaded"

\* A job that waits is at its first step, one that succeeded at its last.
EndsInv(g) ==
  /\ goal[g].at = "sent" => goal[g].step = 1
  /\ goal[g].at = "SUCCEEDED" => goal[g].step = Len(Steps[goal[g].job])

\* There is one keeper at most, and the controller is where the keeper left it.
OneKeeper ==
  /\ \A g, h \in Goals : Keeps(g) /\ Keeps(h) => g = h
  /\ \A g \in Goals : Keeps(g) => ~NodeKeeps /\ KeeperInv(g)
  /\ NodeKeeps => ctrl = "unloaded"
  /\ \A g \in Goals : EndsInv(g)
  /\ node = "RUNNING" => (loadSent => resetSent) /\ ~(unloaded /\ ~resetSent /\ received)

\* What every step preserves.
ResetInv ==
  /\ TypeOK
  /\ OneKeeper
  /\ ~early =>
       /\ OneJob
       /\ \A g \in Busy : ChainInv(g)
       /\ node = "RUNNING" => FlagsInv /\ \A g \in Busy : RunInv(g)
       /\ node = "SUCCESS" => Busy = {} /\ ctrl = "active"
=============================================================================

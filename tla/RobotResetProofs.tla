-------------------------- MODULE RobotResetProofs --------------------------
(***************************************************************************)
(* For every number of slots: a run of ResetRobotStateAction that began    *)
(* with no answer outstanding has one job under way at most, and success   *)
(* leaves the controller active; and whatever runs are halted and started  *)
(* over, the robot is not reset under a controller.                        *)
(***************************************************************************)
EXTENDS RobotReset, TLAPS

\* The calls of each job, by their place.
LEMMA StepFacts ==
  /\ Jobs = {"unload", "load", "reset"}
  /\ Len(Steps["unload"]) = 2 /\ Len(Steps["load"]) = 3 /\ Len(Steps["reset"]) = 1
  /\ Steps["unload"][1] = "deactivate" /\ Steps["unload"][2] = "unload"
  /\ Steps["load"][1] = "load" /\ Steps["load"][2] = "configure" /\ Steps["load"][3] = "activate"
  /\ Steps["reset"][1] = "reset"
BY DEF Jobs, Steps

\* A step that is not the last has a next one.
LEMMA NextStep ==
  ASSUME NEW s \in 1..3, NEW n \in 1..3, s < n
  PROVE  s + 1 \in 1..3 /\ s + 1 <= n
OBVIOUS

\* Nothing but a free slot is written to, whoever moves.
LEMMA TypeStep ==
  ASSUME TypeOK, Next
  PROVE  TypeOK'
<1> USE DEF TypeOK, SwitchTypeOK, Stages, Ended
<1>1. ASSUME NEW g \in Goals, NEW job \in Jobs, Request(g, job), ctrl' = ctrl
      PROVE  SwitchTypeOK'
  BY <1>1, StepFacts DEF Request
<1>2. CASE OnStart
  <2>1. SwitchTypeOK'
    BY <1>1, <1>2, StepFacts DEF OnStart
  <2> QED BY <1>2, <2>1 DEF OnStart, ClearFlags
<1>3. CASE Tick
  <2>1. CASE SendReset \/ SendLoad
    <3>1. SwitchTypeOK'
      BY <1>1, <2>1, StepFacts DEF SendReset, SendLoad, OnRunning
    <3> QED BY <2>1, <3>1 DEF SendReset, SendLoad, OnRunning
  <2>2. CASE Succeed
    BY <2>2 DEF Succeed, OnRunning, flags
  <2> QED BY <1>3, <2>1, <2>2 DEF Tick
<1>4. CASE OnHalted
  BY <1>4 DEF OnHalted, switch
<1>5. ASSUME NEW g \in Goals, Result(g) PROVE TypeOK'
  <2>1. SwitchTypeOK'
    BY <1>5, StepFacts DEF Result, Told, Free
  <2> QED BY <1>5, <2>1 DEF Result
<1>6. ASSUME NEW g \in Goals, ServerStep(g) PROVE TypeOK'
  <2>1. CASE Accept(g) \/ ServiceMissing(g) \/ ResponseFailed(g)
    BY <1>6, <2>1 DEF ServerStep, Accept, ServiceMissing, ResponseFailed, Abort, flags
  <2>2. CASE ManagerStep(g)
    BY <1>6, <2>2 DEF ServerStep, ManagerStep, DeactivateController, UnloadController, LoadController,
       ConfigureController, ActivateController, ResetRobot, Manage, flags
  <2>3. CASE Response(g)
    <3>1. goal[g].job \in {"unload", "load", "reset"} /\ goal[g].step \in 1..3
      BY StepFacts
    <3>2. Len(Steps[goal[g].job]) \in 1..3
      <4>1. CASE goal[g].job = "unload" BY <4>1, StepFacts
      <4>2. CASE goal[g].job = "load" BY <4>2, StepFacts
      <4>3. CASE goal[g].job = "reset" BY <4>3, StepFacts
      <4> QED BY <3>1, <4>1, <4>2, <4>3
    <3>3. ASSUME goal' = [goal EXCEPT ![g].step = @ + 1, ![g].at = "asked"],
                 goal[g].step < Len(Steps[goal[g].job])
          PROVE  SwitchTypeOK'
      <4>1. goal'[g] = [job |-> goal[g].job, step |-> goal[g].step + 1, at |-> "asked"]
        BY <3>3
      <4>2. goal[g].step + 1 \in 1..3 /\ goal[g].step + 1 <= Len(Steps[goal[g].job])
        BY <3>1, <3>2, <3>3, NextStep, Zenon
      <4> QED BY <2>3, <3>3, <4>1, <4>2 DEF Response
    <3>4. ASSUME Abort(g) \/ goal' = [goal EXCEPT ![g].at = "SUCCEEDED"]
          PROVE  SwitchTypeOK'
      BY <2>3, <3>4 DEF Response, Abort
    <3>5. SwitchTypeOK'
      BY <2>3, <3>3, <3>4 DEF Response
    <3> QED BY <1>6, <3>5 DEF ServerStep, flags
  <2> QED BY <1>6, <2>1, <2>2, <2>3 DEF ServerStep, SwitchStep
<1> QED BY <1>2, <1>3, <1>4, <1>5, <1>6 DEF Next

\* The part of the invariant a run must not be early for.
Rest == OneJob /\ (\A g \in Busy : ChainInv(g))
        /\ (node = "RUNNING" => FlagsInv /\ \A g \in Busy : RunInv(g))
        /\ (node = "SUCCESS" => Busy = {} /\ ctrl = "active")

\* A run starts with one job, the unloading.
LEMMA StartRest ==
  ASSUME TypeOK, OnStart, ~early'
  PROVE  Rest'
<1>1. PICK g \in Goals : Request(g, "unload")
  BY DEF OnStart
<1>2. Busy' = {g} /\ goal'[g] = [job |-> "unload", step |-> 1, at |-> "sent"] /\ ctrl' = ctrl
  BY <1>1 DEF OnStart, Request, Busy, TypeOK, SwitchTypeOK
<1>3. ChainInv(g)' /\ RunInv(g)' /\ FlagsInv' /\ node' = "RUNNING"
  BY <1>2, StepFacts DEF OnStart, ClearFlags, ChainInv, RunInv, FlagsInv, Step
<1> QED BY <1>2, <1>3 DEF Rest, OneJob

\* The next job is sent when the one before has ended.
LEMMA TickRest ==
  ASSUME TypeOK, Rest, ~early, Tick
  PROVE  Rest'
<1> USE DEF TypeOK, SwitchTypeOK
<1>1. Busy = {} /\ FlagsInv /\ node = "RUNNING"
  <2>1. FlagsInv /\ (\A g \in Busy : RunInv(g)) /\ node = "RUNNING"
    BY DEF Tick, SendReset, SendLoad, Succeed, OnRunning, Rest
  <2>2. \A g \in Busy : goal[g].job \in {"unload", "reset", "load"}
    BY StepFacts DEF Busy
  <2> QED BY <2>1, <2>2 DEF Tick, SendReset, SendLoad, Succeed, RunInv, FlagsInv
<1>2. CASE SendReset
  <2>1. PICK g \in Goals : Request(g, "reset")
    BY <1>2 DEF SendReset
  <2>2. Busy' = {g} /\ goal'[g] = [job |-> "reset", step |-> 1, at |-> "sent"]
    BY <1>1, <2>1 DEF Request, Busy
  <2>3. ChainInv(g)' /\ RunInv(g)' /\ FlagsInv' /\ node' = "RUNNING"
    BY <1>1, <1>2, <2>2, StepFacts DEF SendReset, OnRunning, ChainInv, RunInv, FlagsInv, Step
  <2> QED BY <2>2, <2>3 DEF Rest, OneJob
<1>3. CASE SendLoad
  <2>1. PICK g \in Goals : Request(g, "load")
    BY <1>3 DEF SendLoad
  <2>2. Busy' = {g} /\ goal'[g] = [job |-> "load", step |-> 1, at |-> "sent"]
    BY <1>1, <2>1 DEF Request, Busy
  <2>3. ChainInv(g)' /\ RunInv(g)' /\ FlagsInv' /\ node' = "RUNNING"
    BY <1>1, <1>3, <2>2, StepFacts DEF SendLoad, OnRunning, ChainInv, RunInv, FlagsInv, Step
  <2> QED BY <2>2, <2>3 DEF Rest, OneJob
<1>4. CASE Succeed
  BY <1>1, <1>4 DEF Succeed, OnRunning, flags, Rest, OneJob, Busy, FlagsInv
<1> QED BY <1>2, <1>3, <1>4 DEF Tick

\* A job that ends frees its slot; the flags say how it ended.
LEMMA ResultRest ==
  ASSUME TypeOK, Rest, ~early, NEW g \in Goals, Result(g)
  PROVE  Rest'
<1> USE DEF TypeOK, SwitchTypeOK
<1>1. g \in Busy /\ goal[g].at \in Ended /\ goal[g].job \in {"unload", "reset", "load"}
  BY StepFacts DEF Result, Told, Busy, Ended
<1>2. Busy = {g} /\ Busy' = {} /\ ChainInv(g) /\ node # "SUCCESS" /\ node' = node /\ ctrl' = ctrl
  BY <1>1 DEF Result, Told, Busy, Free, Rest, OneJob
<1>3. ASSUME node = "RUNNING" PROVE FlagsInv'
  <2>1. FlagsInv /\ RunInv(g)
    BY <1>2, <1>3 DEF Rest
  <2>2. CASE goal[g].job = "unload"
    <3>1. goal[g].at = "SUCCEEDED" => ctrl = "unloaded"
      BY <1>2, <2>2, StepFacts DEF ChainInv, Step
    <3> QED BY <1>1, <1>2, <2>1, <2>2, <3>1 DEF Result, FlagsInv, RunInv
  <2>3. CASE goal[g].job = "reset"
    BY <1>1, <1>2, <2>1, <2>3 DEF Result, FlagsInv, RunInv
  <2>4. CASE goal[g].job = "load"
    <3>1. goal[g].at = "SUCCEEDED" => ctrl = "active"
      BY <1>2, <2>4, StepFacts DEF ChainInv, Step
    <3> QED BY <1>1, <1>2, <2>1, <2>4, <3>1 DEF Result, FlagsInv, RunInv
  <2> QED BY <1>1, <2>2, <2>3, <2>4
<1> QED BY <1>2, <1>3 DEF Rest, OneJob

\* The one job under way moves the controller along.
LEMMA ServerRest ==
  ASSUME TypeOK, Rest, ~early, NEW g \in Goals, ServerStep(g)
  PROVE  Rest'
<1> USE DEF TypeOK, SwitchTypeOK
<1>1. g \in Busy /\ goal[g].job \in {"unload", "reset", "load"} /\ goal[g].step \in 1..3
  BY StepFacts DEF ServerStep, SwitchStep, Accept, ServiceMissing, ManagerStep, DeactivateController,
     UnloadController, LoadController, ConfigureController, ActivateController, ResetRobot, Manage,
     Response, ResponseFailed, Busy
<1>2. Busy = {g} /\ ChainInv(g) /\ node # "SUCCESS" /\ UNCHANGED <<node, flags>>
  BY <1>1 DEF ServerStep, Rest, OneJob
<1>3. /\ Busy' = {g} /\ goal'[g].job = goal[g].job
      /\ ChainInv(g)'
      /\ goal[g].job = "reset" => ctrl' = ctrl
  <2>1. CASE Accept(g) \/ ServiceMissing(g) \/ ResponseFailed(g)
    BY <1>1, <1>2, <2>1, StepFacts DEF Accept, ServiceMissing, ResponseFailed, Abort, ChainInv, Step, Busy, IsChain
  <2>2. CASE ManagerStep(g)
    BY <1>1, <1>2, <2>2, StepFacts DEF ManagerStep, DeactivateController, UnloadController, LoadController,
       ConfigureController, ActivateController, ResetRobot, Manage, ChainInv, Step, Busy
  <2>3. CASE Response(g)
    BY <1>1, <1>2, <2>3, StepFacts DEF Response, Abort, ChainInv, Step, Busy
  <2> QED BY <2>1, <2>2, <2>3 DEF ServerStep, SwitchStep
<1>4. ASSUME node = "RUNNING" PROVE FlagsInv' /\ RunInv(g)'
  BY <1>1, <1>2, <1>3, <1>4 DEF Rest, FlagsInv, RunInv, flags
<1> QED BY <1>2, <1>3, <1>4 DEF Rest, OneJob

-----------------------------------------------------------------------------
(* Every run, also one begun before the answers to the last had come.      *)

\* No slot but this one moves.
Others(g) == \A h \in Goals \ {g} : goal'[h] = goal[h]

\* A slot that has not moved keeps what it kept.
LEMMA OthersKeep ==
  ASSUME NEW g \in Goals, Others(g), NEW h \in Goals \ {g}
  PROVE  /\ Keeps(h)' = Keeps(h)
         /\ ctrl' = ctrl => KeeperInv(h)' = KeeperInv(h)
BY DEF Others, Keeps, KeeperInv, ChainInv, Step

\* A keeper has the controller out of use.
LEMMA KeeperNotActive ==
  ASSUME TypeOK, OneKeeper, NEW g \in Goals, Keeps(g)
  PROVE  ctrl # "active"
<1>1. KeeperInv(g) /\ goal[g].step \in 1..3 /\ goal[g].step <= Len(Steps[goal[g].job])
  BY DEF OneKeeper, TypeOK, SwitchTypeOK
<1>2. EndsInv(g)
  BY DEF OneKeeper
<1> QED BY <1>1, <1>2, StepFacts DEF Keeps, EndsInv, KeeperInv, ChainInv, Step

\* A request puts one job in a free slot.
LEMMA RequestFacts ==
  ASSUME TypeOK, NEW g \in Goals, NEW job \in Jobs, Request(g, job)
  PROVE  /\ Others(g) /\ ~Keeps(g)
         /\ goal'[g] = [job |-> job, step |-> 1, at |-> "sent"]
         /\ Keeps(g)' <=> job # "unload"
         /\ ctrl' = ctrl /\ ctrl = "unloaded" => KeeperInv(g)'
<1> USE DEF TypeOK, SwitchTypeOK
<1>1. Others(g) /\ ~Keeps(g) /\ goal'[g] = [job |-> job, step |-> 1, at |-> "sent"]
  BY DEF Request, Others, Keeps
<1>2. Keeps(g)' <=> job # "unload"
  <2>1. CASE job = "unload" BY <1>1, <2>1 DEF Keeps
  <2>2. CASE job = "reset" BY <1>1, <2>2 DEF Keeps
  <2>3. CASE job = "load" BY <1>1, <2>3 DEF Keeps
  <2> QED BY <2>1, <2>2, <2>3, StepFacts
<1>3. ctrl' = ctrl /\ ctrl = "unloaded" => (job # "unload" => KeeperInv(g)')
  BY <1>1, StepFacts DEF KeeperInv, ChainInv, Step
<1>4. job = "unload" => KeeperInv(g)'
  BY <1>1, StepFacts DEF KeeperInv, ChainInv, Step
<1> QED BY <1>1, <1>2, <1>3, <1>4

\* The node starts over with nothing, or hands on what it keeps.
LEMMA NodeKeeper ==
  ASSUME TypeOK, OneKeeper, OnStart \/ Tick \/ OnHalted
  PROVE  OneKeeper'
<1>1. ASSUME NEW g \in Goals, NEW job \in Jobs, Request(g, job), ctrl' = ctrl, ~NodeKeeps',
             job # "unload" => NodeKeeps,
             node' = "RUNNING" => (loadSent' => resetSent') /\ ~(unloaded' /\ ~resetSent' /\ received')
      PROVE  OneKeeper'
  <2>1. /\ Others(g) /\ (Keeps(g)' <=> job # "unload")
        /\ goal'[g] = [job |-> job, step |-> 1, at |-> "sent"]
        /\ ctrl = "unloaded" => KeeperInv(g)'
    BY <1>1, RequestFacts
  <2>2. \A h \in Goals \ {g} : Keeps(h)' = Keeps(h) /\ KeeperInv(h)' = KeeperInv(h)
    BY <1>1, <2>1, OthersKeep
  <2>3. CASE job = "unload"
    <3>1. \A h \in Goals : Keeps(h)' => h # g /\ Keeps(h) /\ KeeperInv(h)'
      BY <2>1, <2>2, <2>3 DEF OneKeeper
    <3> QED BY <1>1, <2>1, <3>1 DEF OneKeeper, Others, EndsInv
  <2>4. CASE job # "unload"
    <3>1. \A h \in Goals : Keeps(h)' => h = g
      BY <1>1, <2>2, <2>4 DEF OneKeeper
    <3>2. KeeperInv(g)'
      BY <1>1, <2>1, <2>4 DEF OneKeeper
    <3> QED BY <1>1, <2>1, <3>1, <3>2 DEF OneKeeper, Others, EndsInv
  <2> QED BY <2>3, <2>4
<1>2. CASE OnStart
  BY <1>1, <1>2, StepFacts DEF OnStart, ClearFlags, NodeKeeps
<1>3. CASE SendReset
  BY <1>1, <1>3, StepFacts DEF SendReset, OnRunning, NodeKeeps, OneKeeper
<1>4. CASE SendLoad
  BY <1>1, <1>4, StepFacts DEF SendLoad, OnRunning, NodeKeeps, OneKeeper
<1>5. CASE Succeed \/ OnHalted
  <2>1. UNCHANGED switch /\ node' # "RUNNING"
    BY <1>5 DEF Succeed, OnHalted, OnRunning, switch
  <2>2. ~NodeKeeps'
    BY <2>1 DEF NodeKeeps
  <2> QED BY <2>1, <2>2 DEF OneKeeper, switch, Keeps, EndsInv, KeeperInv, ChainInv, Step
<1> QED BY <1>2, <1>3, <1>4, <1>5 DEF Tick

\* The answer to a job passes what it kept to the node, or to nobody.
LEMMA ResultKeeper ==
  ASSUME TypeOK, OneKeeper, NEW g \in Goals, Result(g)
  PROVE  OneKeeper'
<1> USE DEF TypeOK, SwitchTypeOK
<1>1. /\ Others(g) /\ ~Keeps(g)' /\ goal'[g].at = "free"
      /\ ctrl' = ctrl /\ node' = node /\ resetSent' = resetSent /\ loadSent' = loadSent
  BY DEF Result, Told, Free, Others, Keeps
<1>2. \A h \in Goals \ {g} : Keeps(h)' = Keeps(h) /\ KeeperInv(h)' = KeeperInv(h)
  BY <1>1, OthersKeep
<1>3. \A h \in Goals : Keeps(h)' => h # g /\ Keeps(h) /\ KeeperInv(h)'
  BY <1>1, <1>2 DEF OneKeeper
<1>4. goal[g].at \in {"SUCCEEDED", "ABORTED"} /\ goal[g].job \in {"unload", "load", "reset"}
  BY StepFacts DEF Result, Told, Ended
<1>5. /\ NodeKeeps' => ctrl = "unloaded" /\ (NodeKeeps \/ Keeps(g))
      /\ node = "RUNNING" => ~(unloaded' /\ ~resetSent /\ received')
  <2>1. CASE goal[g].job = "unload" /\ goal[g].at = "SUCCEEDED"
    <3>1. goal[g].step = 2
      BY <2>1, StepFacts DEF OneKeeper, EndsInv
    <3>2. Keeps(g)
      BY <2>1, <3>1 DEF Keeps
    <3>3. ctrl = "unloaded" /\ ~NodeKeeps
      BY <2>1, <3>1, <3>2, StepFacts DEF OneKeeper, KeeperInv, ChainInv, Step
    <3> QED BY <2>1, <3>2, <3>3, <1>1 DEF Result, NodeKeeps, OneKeeper
  <2>2. CASE goal[g].job = "unload" /\ goal[g].at # "SUCCEEDED"
    BY <2>2, <1>1 DEF Result, NodeKeeps, OneKeeper
  <2>3. CASE goal[g].job = "reset"
    <3>1. Keeps(g)
      BY <2>3, <1>4 DEF Keeps
    <3>2. ctrl = "unloaded" /\ ~NodeKeeps
      BY <2>3, <3>1 DEF OneKeeper, KeeperInv, ChainInv
    <3> QED BY <2>3, <3>1, <3>2, <1>1 DEF Result, NodeKeeps, OneKeeper
  <2>4. CASE goal[g].job = "load"
    BY <2>4, <1>1 DEF Result, NodeKeeps, OneKeeper
  <2> QED BY <1>4, <2>1, <2>2, <2>3, <2>4
<1>6. \A h \in Goals : Keeps(h)' => ~NodeKeeps'
  BY <1>3, <1>5 DEF OneKeeper
<1> QED BY <1>1, <1>3, <1>5, <1>6 DEF OneKeeper, Others, EndsInv

\* A server moves the controller only for its keeper, or from active.
LEMMA ServerKeeper ==
  ASSUME TypeOK, OneKeeper, NEW g \in Goals, ServerStep(g)
  PROVE  OneKeeper'
<1> USE DEF TypeOK, SwitchTypeOK
<1>1. UNCHANGED <<node, flags>> /\ NodeKeeps' = NodeKeeps
  BY DEF ServerStep, flags, NodeKeeps
<1>2. goal[g].job \in {"unload", "load", "reset"} /\ goal[g].step \in 1..3
      /\ goal[g].step <= Len(Steps[goal[g].job])
  BY StepFacts
<1>3. Keeps(g) => KeeperInv(g)
  BY DEF OneKeeper
<1>4. EndsInv(g)
  BY DEF OneKeeper
<1>5. /\ Others(g)
      /\ Keeps(g)' => (Keeps(g) \/ ctrl = "active") /\ KeeperInv(g)'
      /\ ctrl' = ctrl \/ Keeps(g) \/ ctrl = "active"
      /\ EndsInv(g)'
  <2>1. CASE Accept(g)
    BY <1>2, <1>3, <1>4, <2>1, StepFacts DEF Accept, Others, Keeps, KeeperInv, ChainInv, Step, EndsInv
  <2>2. CASE ServiceMissing(g) \/ ResponseFailed(g)
    BY <1>2, <1>3, <1>4, <2>2, StepFacts
       DEF ServiceMissing, ResponseFailed, Abort, IsChain, Others, Keeps, KeeperInv, ChainInv, Step, EndsInv
  <2>3. CASE ManagerStep(g)
    BY <1>2, <1>3, <1>4, <2>3, StepFacts DEF ManagerStep, DeactivateController, UnloadController, LoadController,
       ConfigureController, ActivateController, ResetRobot, Manage, Others, Keeps, KeeperInv, ChainInv, Step, EndsInv
  <2>4. CASE Response(g)
    BY <1>2, <1>3, <1>4, <2>4, StepFacts DEF Response, Abort, Others, Keeps, KeeperInv, ChainInv, Step, EndsInv
  <2> QED BY <2>1, <2>2, <2>3, <2>4 DEF ServerStep, SwitchStep
<1>6. ctrl = "active" => ~NodeKeeps /\ \A h \in Goals : ~Keeps(h)
  BY KeeperNotActive DEF OneKeeper
<1>7. \A h \in Goals \ {g} : Keeps(h)' = Keeps(h) /\ (ctrl' = ctrl => KeeperInv(h)' = KeeperInv(h))
  BY <1>5, OthersKeep
<1>8. \A h \in Goals \ {g} : Keeps(h)' => Keeps(h) /\ ~Keeps(g) /\ ctrl' = ctrl /\ ~Keeps(g)' /\ KeeperInv(h)'
  BY <1>5, <1>6, <1>7 DEF OneKeeper
<1>9. \A h \in Goals : Keeps(h)' => ~NodeKeeps /\ KeeperInv(h)'
  BY <1>5, <1>6, <1>8 DEF OneKeeper
<1>10. \A h, k \in Goals : Keeps(h)' /\ Keeps(k)' => h = k
  BY <1>8 DEF OneKeeper
<1>11. NodeKeeps' => ctrl' = "unloaded"
  BY <1>1, <1>5, <1>6 DEF OneKeeper
<1> QED BY <1>1, <1>5, <1>9, <1>10, <1>11 DEF OneKeeper, Others, EndsInv, flags

\* Whoever moves, the controller has one keeper at most.
LEMMA KeeperStep ==
  ASSUME TypeOK, OneKeeper, [Next]_vars
  PROVE  OneKeeper'
<1>1. CASE UNCHANGED vars
  BY <1>1 DEF vars, switch, flags, OneKeeper, Keeps, NodeKeeps, KeeperInv, ChainInv, EndsInv, Step
<1>2. CASE Next
  BY <1>2, NodeKeeper, ResultKeeper, ServerKeeper DEF Next
<1> QED BY <1>1, <1>2

-----------------------------------------------------------------------------
(* The theorems.                                                           *)

\* The inductive invariant holds in every reachable state.
THEOREM ResetInvariance == Spec => []ResetInv
<1>1. Init => ResetInv
  <2> SUFFICES ASSUME Init PROVE ResetInv
    OBVIOUS
  <2>1. TypeOK
    <3>1. Free \in [job : Jobs, step : 1..3, at : Stages] /\ Free.step <= Len(Steps[Free.job])
      BY StepFacts DEF Free, Stages
    <3>2. SwitchTypeOK
      BY <3>1 DEF Init, SwitchInit, SwitchTypeOK
    <3> QED BY <3>2 DEF Init, TypeOK
  <2>2. Busy = {} /\ node = "IDLE"
    BY DEF Init, SwitchInit, Busy, Free
  <2>3. OneKeeper
    BY DEF Init, SwitchInit, Free, OneKeeper, Keeps, EndsInv, NodeKeeps
  <2> QED BY <2>1, <2>2, <2>3 DEF ResetInv, OneJob
<1>2. ResetInv /\ [Next]_vars => ResetInv'
  <2> SUFFICES ASSUME ResetInv, [Next]_vars PROVE ResetInv'
    OBVIOUS
  <2>1. ResetInv = (TypeOK /\ OneKeeper /\ (~early => Rest))
    BY DEF ResetInv, Rest
  <2>2. OneKeeper'
    BY <2>1, KeeperStep
  <2>3. CASE UNCHANGED vars
    <3>1. TypeOK' /\ (~early' => Rest')
      BY <2>1, <2>3 DEF vars, switch, flags, Rest, TypeOK, SwitchTypeOK, OneJob, Busy, ChainInv, Step, RunInv, FlagsInv
    <3> QED BY <2>2, <3>1 DEF ResetInv, Rest
  <2>4. CASE Next
    <3>1. TypeOK'
      BY <2>1, <2>4, TypeStep
    <3>2. ~early' => Rest'
      <4>1. CASE OnStart
        BY <2>1, <4>1, StartRest
      <4>2. CASE Tick
        <5>1. early' = early
          BY <4>2 DEF Tick, SendReset, SendLoad, Succeed, OnRunning
        <5> QED BY <2>1, <4>2, <5>1, TickRest
      <4>3. CASE OnHalted
        BY <2>1, <4>3 DEF OnHalted, switch, Rest, OneJob, Busy, ChainInv, Step
      <4>4. ASSUME NEW g \in Goals, Result(g) PROVE ~early' => Rest'
        BY <2>1, <4>4, ResultRest DEF Result
      <4>5. ASSUME NEW g \in Goals, ServerStep(g) PROVE ~early' => Rest'
        BY <2>1, <4>5, ServerRest DEF ServerStep
      <4> QED BY <2>4, <4>1, <4>2, <4>3, <4>4, <4>5 DEF Next
    <3>3. ResetInv' = (TypeOK' /\ OneKeeper' /\ (~early' => Rest'))
      BY DEF ResetInv, Rest
    <3> QED BY <2>2, <3>1, <3>2, <3>3
  <2> QED BY <2>3, <2>4
<1> QED BY <1>1, <1>2, PTL DEF Spec

\* Success leaves the controller active.
THEOREM SuccessLeavesActive == Spec => []SuccessIsActive
<1>1. ResetInv => SuccessIsActive
  BY DEF ResetInv, SuccessIsActive
<1> QED BY ResetInvariance, <1>1, PTL

\* One job at a time.
THEOREM JobsInTurn == Spec => []OneJob
<1>1. ResetInv => OneJob
  BY DEF ResetInv, OneJob
<1> QED BY ResetInvariance, <1>1, PTL

\* The vendor's server works on a reset only while the controller is unloaded,
\* whatever runs were halted and started over before.
THEOREM ResetApart == Spec => []ResetWithoutController
<1>1. ResetInv => ResetWithoutController
  BY StepFacts DEF ResetInv, OneKeeper, Keeps, KeeperInv, ChainInv, ResetWithoutController, Busy, IsChain
<1> QED BY ResetInvariance, <1>1, PTL
=============================================================================

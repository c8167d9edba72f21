---------------------- MODULE MoveActionServerProofs ----------------------
(***************************************************************************)
(* Theorems about MoveActionServer, for every set of goals and every bound *)
(* on open goals and cancel requests.  First the phase each goal is in:    *)
(* the invariant PhaseInv, group by group of actions, from which legal     *)
(* reports and the refinement of GoalLifecycle follow.  Then cancel        *)
(* requests: the invariant IInv, and that a goal which no other one        *)
(* disturbs has its cancel request forwarded to its own trajectory, unless *)
(* the controlled stop lets that one finish.                               *)
(***************************************************************************)
EXTENDS MoveActionServer, TLAPS, FiniteSetTheorems

Phases ==
  /\ StatusFollowsThread
  /\ MotionFollowsThread
  /\ HandleCopied
  /\ NoBadTransition
  /\ NoPhantomExecuting

\* The lemmas expand the helpers the actions are written with.
USE DEF Go, CancelGo, SetState, SetFjtCancel, SetHandle, Report, Local, Silent,
        CancelLocal, ControllerLocal, shared, cancelLocals, controller,
        ExecPc, Executing, CancelPc, Open, Terminal

-----------------------------------------------------------------------------
(* Typing.                                                                 *)

\* The accept callback keeps every variable in its type.
LEMMA AcceptType ==
  ASSUME TypeOK, HandleCopied, NEW g \in Goals, AcceptStep(g)
  PROVE  TypeOK'
<1> USE ConstantsAssumption DEF TypeOK
<1>1. CASE HandleGoal(g) BY <1>1 DEF HandleGoal
<1>2. CASE ClearMoveCancel(g) BY <1>2 DEF ClearMoveCancel
<1>3. CASE ClearFjtCancel(g) BY <1>3 DEF ClearFjtCancel
<1>. QED BY <1>1, <1>2, <1>3 DEF AcceptStep

\* Planning keeps every variable in its type.
LEMMA PlanType ==
  ASSUME TypeOK, HandleCopied, NEW g \in Goals, PlanStep(g)
  PROVE  TypeOK'
<1> USE ConstantsAssumption DEF TypeOK
<1>1. CASE StartPlanning(g) BY <1>1 DEF StartPlanning
<1>2. CASE PlanFailed(g) BY <1>2 DEF PlanFailed
<1>3. CASE Planned(g) BY <1>3 DEF Planned
<1>4. CASE ReportPlanCanceled(g) BY <1>4 DEF ReportPlanCanceled
<1>5. CASE MarkPlanCanceled(g) BY <1>5 DEF MarkPlanCanceled
<1>. QED BY <1>1, <1>2, <1>3, <1>4, <1>5 DEF PlanStep

\* Executing a trajectory keeps every variable in its type.
LEMMA ExecuteType ==
  ASSUME TypeOK, HandleCopied, NEW g \in Goals, ExecuteStep(g)
  PROVE  TypeOK'
<1> USE ConstantsAssumption DEF TypeOK
<1>1. CASE ValidateFailed(g) BY <1>1 DEF ValidateFailed
<1>2. CASE SetExecuting(g) BY <1>2 DEF SetExecuting
<1>3. CASE ServerUnavailable(g) BY <1>3 DEF ServerUnavailable
<1>4. CASE SendTrajectory(g) BY <1>4 DEF SendTrajectory
<1>5. CASE GoalResponse(g) BY <1>5 DEF GoalResponse
<1>6. CASE ResponseTimeout(g) BY <1>6 DEF ResponseTimeout
<1>7. CASE StoreHandle(g) BY <1>7 DEF StoreHandle
<1>8. CASE CheckQueued(g) BY <1>8 DEF CheckQueued
<1>9. CASE ClearFlag(g) BY <1>9 DEF ClearFlag
<1>10. CASE ClaimCancel(g) BY <1>10 DEF ClaimCancel
<1>11. CASE ForwardQueued(g) BY <1>11 DEF ForwardQueued
<1>12. CASE GetResult(g) BY <1>12 DEF GetResult
<1>13. CASE Wait(g) BY <1>13 DEF Wait
<1>14. CASE Poll(g) BY <1>14 DEF Poll
<1>15. CASE DeadlinePassed(g) BY <1>15 DEF DeadlinePassed
<1>16. CASE ResetHandle(g) BY <1>16 DEF ResetHandle
<1>17. CASE Unflag(g) BY <1>17 DEF Unflag
<1>18. CASE ResetHandleOk(g) BY <1>18 DEF ResetHandleOk
<1>19. CASE UnflagOk(g) BY <1>19 DEF UnflagOk
<1>. QED BY <1>1, <1>2, <1>3, <1>4, <1>5, <1>6, <1>7, <1>8, <1>9, <1>10,
           <1>11, <1>12, <1>13, <1>14, <1>15, <1>16, <1>17, <1>18, <1>19
           DEF ExecuteStep

\* Reporting the outcome keeps every variable in its type.
LEMMA FinishType ==
  ASSUME TypeOK, HandleCopied, NEW g \in Goals, FinishStep(g)
  PROVE  TypeOK'
<1> USE ConstantsAssumption DEF TypeOK
<1>1. CASE MarkCompleted(g) BY <1>1 DEF MarkCompleted
<1>2. CASE MarkCanceled(g) BY <1>2 DEF MarkCanceled
<1>3. CASE MarkFailed(g) BY <1>3 DEF MarkFailed
<1>4. CASE DecideCanceled(g) BY <1>4 DEF DecideCanceled
<1>5. CASE ReportSucceeded(g) BY <1>5 DEF ReportSucceeded
<1>6. CASE ReportCanceled(g) BY <1>6 DEF ReportCanceled
<1>7. CASE ReportAborted(g) BY <1>7 DEF ReportAborted
<1>. QED BY <1>1, <1>2, <1>3, <1>4, <1>5, <1>6, <1>7 DEF FinishStep

\* The cancel handler keeps every variable in its type.
LEMMA CancelType ==
  ASSUME TypeOK, HandleCopied, NEW g \in Goals, CancelStep(g)
  PROVE  TypeOK'
<1> USE ConstantsAssumption DEF TypeOK, HandleCopied, QueueAfterStop
<1>1. CASE ReadState(g) BY <1>1 DEF ReadState
<1>2. CASE StopAccepted(g) BY <1>2 DEF StopAccepted
<1>3. CASE StopReturned(g) BY <1>3 DEF StopReturned
<1>4. CASE StoreCancel(g) BY <1>4 DEF StoreCancel
<1>5. CASE DropFlag(g) BY <1>5 DEF DropFlag
<1>6. CASE CopyHandle(g) BY <1>6 DEF CopyHandle
<1>7. CASE CasFlag(g) BY <1>7 DEF CasFlag
<1>8. CASE SendFjtCancel(g) BY <1>8 DEF SendFjtCancel
<1>9. CASE AcceptCancel(g) BY <1>9 DEF AcceptCancel
<1>. QED BY <1>1, <1>2, <1>3, <1>4, <1>5, <1>6, <1>7, <1>8, <1>9 DEF
           CancelStep

\* The controller keeps every variable in its type.
LEMMA ControllerType ==
  ASSUME TypeOK, HandleCopied, NEW g \in Goals, ControllerStep(g)
  PROVE  TypeOK'
<1> USE ConstantsAssumption DEF TypeOK, Outcomes
<1>1. CASE Accept(g) BY <1>1 DEF Accept
<1>2. CASE Reject(g) BY <1>2 DEF Reject
<1>3. CASE Finish(g) BY <1>3 DEF Finish
<1>4. CASE DeliverResult(g) BY <1>4 DEF DeliverResult
<1>. QED BY <1>1, <1>2, <1>3, <1>4 DEF ControllerStep

-----------------------------------------------------------------------------
(* Phases.                                                                 *)

\* The accept callback keeps status, motion and thread of every goal in step.
LEMMA AcceptPhase ==
  ASSUME PhaseInv, NEW g \in Goals, AcceptStep(g)
  PROVE  Phases'
<1> USE DEF AcceptStep, HandleGoal, ClearMoveCancel, ClearFjtCancel
<1> USE DEF PhaseInv, TypeOK
<1>1. StatusFollowsThread' BY DEF StatusFollowsThread, Unaccepted, Ended, Legal
<1>2. MotionFollowsThread' BY DEF MotionFollowsThread, Unsent, Unaccepted
<1>3. HandleCopied' BY DEF HandleCopied
<1>4. NoBadTransition' BY DEF NoBadTransition
<1>5. NoPhantomExecuting' BY DEF NoPhantomExecuting
<1>6. QED BY <1>1, <1>2, <1>3, <1>4, <1>5 DEF Phases

\* Planning keeps status, motion and thread of every goal in step.
LEMMA PlanPhase ==
  ASSUME PhaseInv, NEW g \in Goals, PlanStep(g)
  PROVE  Phases'
<1> USE DEF PlanStep, StartPlanning, PlanFailed, Planned,
            ReportPlanCanceled, MarkPlanCanceled
<1> USE DEF PhaseInv, TypeOK
<1>1. StatusFollowsThread' BY DEF StatusFollowsThread, Unaccepted, Ended, Legal
<1>2. MotionFollowsThread' BY DEF MotionFollowsThread, Unsent, Unaccepted
<1>3. HandleCopied' BY DEF HandleCopied
<1>4. NoBadTransition' BY DEF NoBadTransition, StatusFollowsThread, Legal, Unaccepted, Ended
<1>5. NoPhantomExecuting' BY DEF NoPhantomExecuting
<1>6. QED BY <1>1, <1>2, <1>3, <1>4, <1>5 DEF Phases

\* Executing a trajectory keeps status, motion and thread of every goal in step.
LEMMA ExecutePhase ==
  ASSUME PhaseInv, NEW g \in Goals, ExecuteStep(g)
  PROVE  Phases'
<1> USE DEF ExecuteStep, ValidateFailed, SetExecuting, ServerUnavailable,
            SendTrajectory, GoalResponse, ResponseTimeout, StoreHandle,
            CheckQueued, ClearFlag, ClaimCancel, ForwardQueued, GetResult,
            Wait, Poll, DeadlinePassed, ResetHandle, Unflag, ResetHandleOk,
            UnflagOk
<1> USE DEF PhaseInv, TypeOK
<1>1. StatusFollowsThread' BY DEF StatusFollowsThread, Unaccepted, Ended, Legal
<1>2. MotionFollowsThread' BY DEF MotionFollowsThread, Unsent, Unaccepted
<1>3. HandleCopied' BY DEF HandleCopied
<1>4. NoBadTransition' BY DEF NoBadTransition
<1>5. NoPhantomExecuting' BY DEF NoPhantomExecuting
<1>6. QED BY <1>1, <1>2, <1>3, <1>4, <1>5 DEF Phases

\* Reporting the outcome keeps status, motion and thread of every goal in step.
LEMMA FinishPhase ==
  ASSUME PhaseInv, NEW g \in Goals, FinishStep(g)
  PROVE  Phases'
<1> USE DEF FinishStep, MarkCompleted, MarkCanceled, MarkFailed,
            DecideCanceled, ReportSucceeded, ReportCanceled, ReportAborted
<1> USE DEF PhaseInv, TypeOK
<1>1. StatusFollowsThread' BY DEF StatusFollowsThread, Unaccepted, Ended, Legal
<1>2. MotionFollowsThread' BY DEF MotionFollowsThread, Unsent, Unaccepted
<1>3. HandleCopied' BY DEF HandleCopied
<1>4. NoBadTransition' BY DEF NoBadTransition, StatusFollowsThread, Legal, Unaccepted, Ended
<1>5. NoPhantomExecuting' BY DEF NoPhantomExecuting
<1>6. QED BY <1>1, <1>2, <1>3, <1>4, <1>5 DEF Phases

\* The cancel handler keeps status, motion and thread of every goal in step.
LEMMA CancelPhase ==
  ASSUME PhaseInv, NEW g \in Goals, CancelStep(g)
  PROVE  Phases'
<1> USE DEF CancelStep, ReadState, StopAccepted, StopReturned, StoreCancel,
            DropFlag, CopyHandle, CasFlag, SendFjtCancel, AcceptCancel
<1> USE DEF PhaseInv, TypeOK
<1>1. StatusFollowsThread' BY DEF StatusFollowsThread, Unaccepted, Ended, Legal
<1>2. MotionFollowsThread' BY DEF MotionFollowsThread, Unsent, Unaccepted
<1>3. HandleCopied' BY DEF HandleCopied
<1>4. NoBadTransition' BY DEF NoBadTransition
<1>5. NoPhantomExecuting' BY DEF NoPhantomExecuting
<1>6. QED BY <1>1, <1>2, <1>3, <1>4, <1>5 DEF Phases

\* The controller keeps status, motion and thread of every goal in step.
LEMMA ControllerPhase ==
  ASSUME PhaseInv, NEW g \in Goals, ControllerStep(g)
  PROVE  Phases'
<1> USE DEF ControllerStep, Accept, Reject, Finish, DeliverResult
<1> USE DEF PhaseInv, TypeOK
<1>1. StatusFollowsThread' BY DEF StatusFollowsThread, Unaccepted, Ended, Legal
<1>2. MotionFollowsThread' BY DEF MotionFollowsThread, Unsent, Unaccepted, Outcomes, Known
<1>3. HandleCopied' BY DEF HandleCopied
<1>4. NoBadTransition' BY DEF NoBadTransition
<1>5. NoPhantomExecuting' BY DEF NoPhantomExecuting
<1>6. QED BY <1>1, <1>2, <1>3, <1>4, <1>5 DEF Phases

-----------------------------------------------------------------------------
(* The invariant.                                                          *)

\* rclcpp only selects the goal; nothing the server keeps changes.
LEMMA EnterPhase ==
  ASSUME PhaseInv, NEW g \in Goals, EnterCancel(g)
  PROVE  PhaseInv'
<1> USE DEF EnterCancel, PhaseInv
<1>1. TypeOK' BY DEF TypeOK
<1>2. Phases' BY DEF Phases, TypeOK, StatusFollowsThread, MotionFollowsThread, HandleCopied,
                     NoBadTransition, NoPhantomExecuting
<1>3. QED BY <1>1, <1>2 DEF Phases

\* Nothing is open and nothing was commanded when the server starts.
LEMMA InitPhase == Init => PhaseInv
<1> SUFFICES ASSUME Init PROVE PhaseInv
  OBVIOUS
<1> USE DEF Init
<1>1. TypeOK BY DEF TypeOK
<1>2. StatusFollowsThread /\ MotionFollowsThread /\ HandleCopied
  BY DEF StatusFollowsThread, MotionFollowsThread, HandleCopied, Unaccepted, Ended, Unsent
<1>3. NoBadTransition /\ NoPhantomExecuting BY DEF NoBadTransition, NoPhantomExecuting
<1>4. QED BY <1>1, <1>2, <1>3 DEF PhaseInv

\* Every step of every thread, and of the controller, preserves PhaseInv.
LEMMA StepPhase == PhaseInv /\ [Next]_vars => PhaseInv'
<1> SUFFICES ASSUME PhaseInv, [Next]_vars PROVE PhaseInv'
  OBVIOUS
<1>1. CASE UNCHANGED vars
  BY <1>1 DEF vars, PhaseInv, TypeOK, StatusFollowsThread, MotionFollowsThread, HandleCopied,
              NoBadTransition, NoPhantomExecuting
<1>2. ASSUME NEW g \in Goals, EnterCancel(g) PROVE PhaseInv'
  BY <1>2, EnterPhase
<1>3. ASSUME NEW g \in Goals,
             AcceptStep(g) \/ ExecStep(g) \/ CancelStep(g) \/ ControllerStep(g)
      PROVE  PhaseInv'
  <2> USE DEF PhaseInv
  <2>1. CASE AcceptStep(g)     BY <2>1, AcceptType, AcceptPhase DEF Phases
  <2>2. CASE PlanStep(g)       BY <2>2, PlanType, PlanPhase DEF Phases
  <2>3. CASE ExecuteStep(g)    BY <2>3, ExecuteType, ExecutePhase DEF Phases
  <2>4. CASE FinishStep(g)     BY <2>4, FinishType, FinishPhase DEF Phases
  <2>5. CASE CancelStep(g)     BY <2>5, CancelType, CancelPhase DEF Phases
  <2>6. CASE ControllerStep(g) BY <2>6, ControllerType, ControllerPhase DEF Phases
  <2>7. QED BY <1>3, <2>1, <2>2, <2>3, <2>4, <2>5, <2>6 DEF ExecStep
<1>4. QED BY <1>1, <1>2, <1>3 DEF Next

\* PhaseInv holds in every reachable state.
THEOREM PhasesInvariance == Spec => []PhaseInv
  BY InitPhase, StepPhase, PTL DEF Spec

\* Every variable keeps its type.
THEOREM TypeCorrect == Spec => []TypeOK
<1>1. PhaseInv => TypeOK BY DEF PhaseInv
<1>2. QED BY <1>1, PhasesInvariance, PTL

\* No thread ever asks rclcpp for a transition that throws.
THEOREM ReportsAreLegal == Spec => []NoBadTransition
<1>1. PhaseInv => NoBadTransition BY DEF PhaseInv
<1>2. QED BY <1>1, PhasesInvariance, PTL

\* move_state_ is EXECUTING only on behalf of a thread that is executing.
THEOREM ExecutingIsOwned == Spec => []NoPhantomExecuting
<1>1. PhaseInv => NoPhantomExecuting BY DEF PhaseInv
<1>2. QED BY <1>1, PhasesInvariance, PTL

-----------------------------------------------------------------------------
(* MoveActionServer implements GoalLifecycle.                              *)

LifecycleStep == [Lifecycle!GLNext]_(Lifecycle!glVars)

\* Accepting a goal, and nothing else of the accept callback, is visible.
LEMMA AcceptRefines ==
  ASSUME PhaseInv, NEW g \in Goals, AcceptStep(g)
  PROVE  LifecycleStep
<1> USE DEF PhaseInv, TypeOK, LifecycleStep, motion, Lifecycle!glVars
<1>1. CASE HandleGoal(g)      BY <1>1 DEF HandleGoal
<1>2. CASE ClearMoveCancel(g) BY <1>2 DEF ClearMoveCancel
<1>3. CASE ClearFjtCancel(g)
  <2>1. Lifecycle!AcceptGoal(g)
    BY <1>3 DEF ClearFjtCancel, Lifecycle!AcceptGoal, Lifecycle!Move, StatusFollowsThread, Unaccepted
  <2>2. QED BY <2>1 DEF Lifecycle!GLNext
<1>4. QED BY <1>1, <1>2, <1>3 DEF AcceptStep

\* Each report of the execution thread is the abstract one.
LEMMA ReportRefines ==
  ASSUME PhaseInv, NEW g \in Goals, NEW to \in Terminal, Report(g, to),
         to = "SUCCEEDED" => motion[g] = "reached"
  PROVE  LifecycleStep
<1> USE DEF PhaseInv, TypeOK, LifecycleStep
<1>1. CASE ~Legal(g, to) BY <1>1 DEF motion, Lifecycle!glVars
<1>2. CASE Legal(g, to)
  <2>1. UNCHANGED motion /\ status' = [status EXCEPT ![g] = to]
    BY <1>2 DEF motion
  <2>2. CASE to = "SUCCEEDED"
    BY <1>2, <2>1, <2>2 DEF Legal, Lifecycle!GLNext, Lifecycle!Succeed, Lifecycle!Move, Lifecycle!Open
  <2>3. CASE to = "CANCELED"
    BY <1>2, <2>1, <2>3 DEF Legal, Lifecycle!GLNext, Lifecycle!Cancel, Lifecycle!Move
  <2>4. CASE to = "ABORTED"
    BY <1>2, <2>1, <2>4 DEF Legal, Lifecycle!GLNext, Lifecycle!Abort, Lifecycle!Move, Lifecycle!Open
  <2>5. QED BY <2>2, <2>3, <2>4
<1>3. QED BY <1>1, <1>2

\* Planning is invisible but for its two reports.
LEMMA PlanRefines ==
  ASSUME PhaseInv, NEW g \in Goals, PlanStep(g)
  PROVE  LifecycleStep
<1>1. CASE PlanFailed(g)         BY <1>1, ReportRefines DEF PlanFailed
<1>2. CASE ReportPlanCanceled(g) BY <1>2, ReportRefines DEF ReportPlanCanceled
<1>3. CASE StartPlanning(g) \/ Planned(g) \/ MarkPlanCanceled(g)
  BY <1>3 DEF StartPlanning, Planned, MarkPlanCanceled, LifecycleStep, motion, Lifecycle!glVars
<1>4. QED BY <1>1, <1>2, <1>3 DEF PlanStep

\* Of the execution only the sending of the trajectory is visible.
LEMMA ExecuteRefines ==
  ASSUME PhaseInv, NEW g \in Goals, ExecuteStep(g)
  PROVE  LifecycleStep
<1> USE DEF PhaseInv, TypeOK, LifecycleStep
<1>1. CASE SendTrajectory(g)
  <2> USE <1>1 DEF SendTrajectory
  <2>1. fjt[g] = "none" BY DEF MotionFollowsThread, Unsent
  <2>2. status[g] \in Open BY DEF StatusFollowsThread, Unaccepted, Ended
  <2>3. motion[g] = "none" /\ motion' = [motion EXCEPT ![g] = "commanded"]
    BY <2>1 DEF motion, MotionOf
  <2>4. Lifecycle!Command(g) BY <2>2, <2>3 DEF Lifecycle!Command, Lifecycle!Open
  <2>5. QED BY <2>4 DEF Lifecycle!GLNext
<1>2. CASE UNCHANGED <<status, fjt>> BY <1>2 DEF motion, Lifecycle!glVars
<1>3. SendTrajectory(g) \/ UNCHANGED <<status, fjt>>
  BY DEF ExecuteStep, ValidateFailed, SetExecuting, ServerUnavailable, GoalResponse,
         ResponseTimeout, StoreHandle, CheckQueued, ClearFlag, ClaimCancel, ForwardQueued,
         GetResult, Wait, Poll, DeadlinePassed, ResetHandle, Unflag, ResetHandleOk, UnflagOk
<1>4. QED BY <1>1, <1>2, <1>3

\* Success is only reported after the trajectory was executed to its end.
LEMMA FinishRefines ==
  ASSUME PhaseInv, NEW g \in Goals, FinishStep(g)
  PROVE  LifecycleStep
<1>1. CASE ReportSucceeded(g)
  <2>1. motion[g] = "reached"
    BY <1>1 DEF ReportSucceeded, PhaseInv, MotionFollowsThread, motion, MotionOf
  <2>2. QED BY <1>1, <2>1, ReportRefines DEF ReportSucceeded
<1>2. CASE ReportCanceled(g) BY <1>2, ReportRefines DEF ReportCanceled
<1>3. CASE ReportAborted(g)  BY <1>3, ReportRefines DEF ReportAborted
<1>4. CASE MarkCompleted(g) \/ MarkCanceled(g) \/ MarkFailed(g) \/ DecideCanceled(g)
  BY <1>4 DEF MarkCompleted, MarkCanceled, MarkFailed, DecideCanceled,
              LifecycleStep, motion, Lifecycle!glVars
<1>5. QED BY <1>1, <1>2, <1>3, <1>4 DEF FinishStep

\* A trajectory that is preempted or ends without success is stopped.
LEMMA StopRefines ==
  ASSUME PhaseInv, NEW S \in SUBSET Goals,
         \A h \in S : fjt[h] \in {"sent", "active"},
         fjt' \in [Goals -> {"none", "sent", "rejected", "active", "succeeded",
                             "aborted", "canceled"}],
         \A h \in S : fjt'[h] \in {"rejected", "aborted", "canceled"},
         \A h \in Goals \ S : MotionOf(fjt'[h]) = MotionOf(fjt[h]),
         UNCHANGED status
  PROVE  LifecycleStep
<1>1. \A h \in S : motion[h] = "commanded" BY DEF motion, MotionOf
<1>2. motion' = [h \in Goals |-> IF h \in S THEN "stopped" ELSE motion[h]]
  BY DEF motion, MotionOf
<1>3. Lifecycle!Stop(S) BY <1>1, <1>2 DEF Lifecycle!Stop
<1>4. QED BY <1>3 DEF LifecycleStep, Lifecycle!GLNext

\* A cancel handler is visible when its controlled stop preempts the running
\* trajectory and when rclcpp grants the request.
LEMMA CancelRefines ==
  ASSUME PhaseInv, NEW g \in Goals, CancelStep(g)
  PROVE  LifecycleStep
<1> USE DEF PhaseInv, TypeOK
<1>1. CASE StopAccepted(g)
  <2> DEFINE S == {h \in Goals : fjt[h] = "active"}
  <2>1. PICK how \in {"aborted", "canceled"} :
          fjt' = [h \in Goals |-> IF fjt[h] = "active" THEN how ELSE fjt[h]]
    BY <1>1 DEF StopAccepted
  <2>2. UNCHANGED status BY <1>1 DEF StopAccepted
  <2>3. fjt' \in [Goals -> {"none", "sent", "rejected", "active", "succeeded",
                            "aborted", "canceled"}]
    BY <2>1
  <2>4. \A h \in S : fjt[h] = "active" /\ fjt'[h] \in {"aborted", "canceled"}
    BY <2>1
  <2>5. \A h \in Goals \ S : fjt'[h] = fjt[h] BY <2>1
  <2>6. QED BY <2>2, <2>3, <2>4, <2>5, StopRefines
<1>2. CASE AcceptCancel(g)
  <2>1. CASE status[g] = "EXECUTING"
    <3>1. Lifecycle!GrantCancel(g)
      BY <1>2, <2>1 DEF AcceptCancel, motion, Lifecycle!GrantCancel, Lifecycle!Move
    <3>2. QED BY <3>1 DEF LifecycleStep, Lifecycle!GLNext
  <2>2. CASE status[g] # "EXECUTING"
    BY <1>2, <2>2 DEF AcceptCancel, LifecycleStep, motion, Lifecycle!glVars
  <2>3. QED BY <2>1, <2>2
<1>3. CASE UNCHANGED <<status, fjt>>
  BY <1>3 DEF LifecycleStep, motion, Lifecycle!glVars
<1>4. StopAccepted(g) \/ AcceptCancel(g) \/ UNCHANGED <<status, fjt>>
  BY DEF CancelStep, ReadState, StopReturned, StoreCancel, DropFlag, CopyHandle, CasFlag,
         SendFjtCancel
<1>5. QED BY <1>1, <1>2, <1>3, <1>4

\* What the controller does to a trajectory is reaching its end, stopping it,
\* or preempting it with another one.
LEMMA ControllerRefines ==
  ASSUME PhaseInv, NEW g \in Goals, ControllerStep(g)
  PROVE  LifecycleStep
<1> USE DEF PhaseInv, TypeOK
<1>1. CASE Accept(g)
  <2> DEFINE S == {h \in Goals : h # g /\ fjt[h] = "active"}
  <2>1. PICK how \in {"aborted", "canceled"} :
          fjt' = [h \in Goals |-> IF h = g THEN "active"
                                  ELSE IF fjt[h] = "active" THEN how ELSE fjt[h]]
    BY <1>1 DEF Accept
  <2>2. fjt[g] = "sent" /\ UNCHANGED status BY <1>1 DEF Accept
  <2>3. fjt' \in [Goals -> {"none", "sent", "rejected", "active", "succeeded",
                            "aborted", "canceled"}]
    BY <2>1
  <2>4. \A h \in S : fjt[h] = "active" /\ fjt'[h] \in {"aborted", "canceled"}
    BY <2>1
  <2>5. \A h \in Goals \ S : MotionOf(fjt'[h]) = MotionOf(fjt[h])
    BY <2>1, <2>2 DEF MotionOf
  <2>6. QED BY <2>2, <2>3, <2>4, <2>5, StopRefines
<1>2. CASE Reject(g)
  <2>1. fjt[g] = "sent" /\ fjt' = [fjt EXCEPT ![g] = "rejected"] /\ UNCHANGED status
    BY <1>2 DEF Reject
  <2>2. fjt' \in [Goals -> {"none", "sent", "rejected", "active", "succeeded",
                            "aborted", "canceled"}]
    BY <2>1
  <2>3. \A h \in Goals \ {g} : MotionOf(fjt'[h]) = MotionOf(fjt[h]) BY <2>1
  <2>4. \A h \in {g} : /\ fjt[h] \in {"sent", "active"}
                       /\ fjt'[h] \in {"rejected", "aborted", "canceled"}
    BY <2>1
  <2>5. {g} \in SUBSET Goals OBVIOUS
  <2>6. QED BY <2>1, <2>2, <2>3, <2>4, <2>5, StopRefines
<1>3. CASE Finish(g)
  <2>1. PICK how \in {"succeeded", "aborted", "canceled"} : fjt' = [fjt EXCEPT ![g] = how]
    BY <1>3 DEF Finish
  <2>2. fjt[g] = "active" /\ UNCHANGED status BY <1>3 DEF Finish
  <2>3. CASE how = "succeeded"
    <3>1. motion[g] = "commanded" /\ motion' = [motion EXCEPT ![g] = "reached"]
      BY <2>1, <2>2, <2>3 DEF motion, MotionOf
    <3>2. Lifecycle!Reach(g) BY <2>2, <3>1 DEF Lifecycle!Reach
    <3>3. QED BY <3>2 DEF LifecycleStep, Lifecycle!GLNext
  <2>4. CASE how # "succeeded"
    <3>1. fjt' \in [Goals -> {"none", "sent", "rejected", "active", "succeeded",
                              "aborted", "canceled"}]
      BY <2>1
    <3>2. \A h \in Goals \ {g} : MotionOf(fjt'[h]) = MotionOf(fjt[h]) BY <2>1
    <3>3. \A h \in {g} : fjt[h] = "active" /\ fjt'[h] \in {"aborted", "canceled"}
      BY <2>1, <2>2, <2>4
    <3>4. {g} \in SUBSET Goals OBVIOUS
    <3>5. QED BY <2>2, <3>1, <3>2, <3>3, <3>4, StopRefines
  <2>5. QED BY <2>3, <2>4
<1>4. CASE DeliverResult(g)
  BY <1>4 DEF DeliverResult, LifecycleStep, motion, Lifecycle!glVars
<1>5. QED BY <1>1, <1>2, <1>3, <1>4 DEF ControllerStep

\* Goal by goal, the server does only what GoalLifecycle allows: a trajectory
\* is commanded once and only while its goal is open, success is reported only
\* when it reached its end, CANCELED only when the client had asked for it, and
\* a final status never changes.
THEOREM Refinement == Spec => ImplementsLifecycle
<1>1. Init => Lifecycle!GLInit
  BY DEF Init, motion, MotionOf, Lifecycle!GLInit
<1>2. PhaseInv /\ [Next]_vars => LifecycleStep
  <2> SUFFICES ASSUME PhaseInv, [Next]_vars PROVE LifecycleStep
    OBVIOUS
  <2>1. CASE UNCHANGED vars
    BY <2>1 DEF vars, LifecycleStep, motion, Lifecycle!glVars
  <2>2. ASSUME NEW g \in Goals, EnterCancel(g) PROVE LifecycleStep
    BY <2>2 DEF EnterCancel, LifecycleStep, motion, Lifecycle!glVars
  <2>3. ASSUME NEW g \in Goals,
               AcceptStep(g) \/ ExecStep(g) \/ CancelStep(g) \/ ControllerStep(g)
        PROVE  LifecycleStep
    BY <2>3, AcceptRefines, PlanRefines, ExecuteRefines, FinishRefines, CancelRefines,
       ControllerRefines DEF ExecStep
  <2>4. QED BY <2>1, <2>2, <2>3 DEF Next
<1>3. QED
  BY <1>1, <1>2, PhasesInvariance, PTL DEF Spec, ImplementsLifecycle, Lifecycle!GLSpec, LifecycleStep

-----------------------------------------------------------------------------
(* A request and its status, a motion and its handle.                      *)

\* The accept callback keeps requests behind acceptance and handles behind motions.
LEMMA AcceptFollows ==
  ASSUME PhaseInv, CancelFollowsRequest, HandleFollowsMotion,
         NEW g \in Goals, AcceptStep(g)
  PROVE  CancelFollowsRequest' /\ HandleFollowsMotion'
<1> USE DEF AcceptStep, HandleGoal, ClearMoveCancel, ClearFjtCancel
<1> USE DEF PhaseInv, TypeOK
<1>1. CancelFollowsRequest'
  BY DEF CancelFollowsRequest, StatusFollowsThread, Unaccepted, Ended
<1>2. HandleFollowsMotion'
  BY DEF HandleFollowsMotion, StatusFollowsThread, Unaccepted, Ended
<1>3. QED BY <1>1, <1>2

\* So does planning.
LEMMA PlanFollows ==
  ASSUME PhaseInv, CancelFollowsRequest, HandleFollowsMotion,
         NEW g \in Goals, PlanStep(g)
  PROVE  CancelFollowsRequest' /\ HandleFollowsMotion'
<1> USE DEF PlanStep, StartPlanning, PlanFailed, Planned,
            ReportPlanCanceled, MarkPlanCanceled
<1> USE DEF PhaseInv, TypeOK
<1>1. CancelFollowsRequest'
  BY DEF CancelFollowsRequest, StatusFollowsThread, Unaccepted, Ended, Legal
<1>2. HandleFollowsMotion' BY DEF HandleFollowsMotion
<1>3. QED BY <1>1, <1>2

\* So does executing a trajectory.
LEMMA ExecuteFollows ==
  ASSUME PhaseInv, CancelFollowsRequest, HandleFollowsMotion,
         NEW g \in Goals, ExecuteStep(g)
  PROVE  CancelFollowsRequest' /\ HandleFollowsMotion'
<1> USE DEF ExecuteStep, ValidateFailed, SetExecuting, ServerUnavailable,
            SendTrajectory, GoalResponse, ResponseTimeout, StoreHandle,
            CheckQueued, ClearFlag, ClaimCancel, ForwardQueued, GetResult,
            Wait, Poll, DeadlinePassed, ResetHandle, Unflag, ResetHandleOk,
            UnflagOk
<1> USE DEF PhaseInv, TypeOK
<1>1. CancelFollowsRequest' BY DEF CancelFollowsRequest, Unaccepted
<1>2. HandleFollowsMotion'
  BY ConstantsAssumption DEF HandleFollowsMotion, StatusFollowsThread, MotionFollowsThread,
     Unaccepted, Ended, Unsent
<1>3. QED BY <1>1, <1>2

\* So does reporting the outcome.
LEMMA FinishFollows ==
  ASSUME PhaseInv, CancelFollowsRequest, HandleFollowsMotion,
         NEW g \in Goals, FinishStep(g)
  PROVE  CancelFollowsRequest' /\ HandleFollowsMotion'
<1> USE DEF FinishStep, MarkCompleted, MarkCanceled, MarkFailed,
            DecideCanceled, ReportSucceeded, ReportCanceled, ReportAborted
<1> USE DEF PhaseInv, TypeOK
<1>1. CancelFollowsRequest'
  BY DEF CancelFollowsRequest, StatusFollowsThread, Unaccepted, Ended, Legal
<1>2. HandleFollowsMotion' BY DEF HandleFollowsMotion, MotionFollowsThread
<1>3. QED BY <1>1, <1>2

\* So does the cancel handler, from its start on.
LEMMA CancelFollows ==
  ASSUME PhaseInv, CancelFollowsRequest, HandleFollowsMotion,
         NEW g \in Goals, EnterCancel(g) \/ CancelStep(g)
  PROVE  CancelFollowsRequest' /\ HandleFollowsMotion'
<1> USE DEF EnterCancel, CancelStep, ReadState, StopAccepted, StopReturned, StoreCancel,
            DropFlag, CopyHandle, CasFlag, SendFjtCancel, AcceptCancel
<1> USE DEF PhaseInv, TypeOK
<1>1. CancelFollowsRequest'
  BY DEF CancelFollowsRequest, StatusFollowsThread, Unaccepted, Ended, QueueAfterStop
<1>2. HandleFollowsMotion' BY DEF HandleFollowsMotion
<1>3. QED BY <1>1, <1>2

\* So does the controller.
LEMMA ControllerFollows ==
  ASSUME PhaseInv, CancelFollowsRequest, HandleFollowsMotion,
         NEW g \in Goals, ControllerStep(g)
  PROVE  CancelFollowsRequest' /\ HandleFollowsMotion'
<1> USE DEF ControllerStep, Accept, Reject, Finish, DeliverResult
<1> USE DEF PhaseInv, TypeOK
<1>1. CancelFollowsRequest' BY DEF CancelFollowsRequest
<1>2. HandleFollowsMotion' BY DEF HandleFollowsMotion, Outcomes, Known
<1>3. QED BY <1>1, <1>2

-----------------------------------------------------------------------------
(* Goals that do not overlap.                                              *)

\* What a goal has done stays done: it is accepted, it has ended, its cancel
\* was asked for, its trajectory was sent.
Irreversible ==
  \A h \in Goals :
    /\ epc[h] # "idle" => epc'[h] # "idle"
    /\ status[h] \in Terminal => status'[h] = status[h]
    /\ cpc[h] # "idle" => cpc'[h] # "idle"
    /\ fjt[h] # "none" => fjt'[h] # "none"

GoalStep(g) == \/ AcceptStep(g) \/ EnterCancel(g) \/ ExecStep(g)
               \/ CancelStep(g) \/ ControllerStep(g)

\* No step undoes what a goal has done.
LEMMA NothingIsUndone ==
  ASSUME PhaseInv, NEW g \in Goals, GoalStep(g)
  PROVE  Irreversible
<1> USE DEF PhaseInv, TypeOK, Irreversible
<1>1. CASE AcceptStep(g)
  BY <1>1 DEF AcceptStep, HandleGoal, ClearMoveCancel, ClearFjtCancel,
              StatusFollowsThread, Unaccepted
<1>2. CASE EnterCancel(g) BY <1>2 DEF EnterCancel
<1>3. CASE PlanStep(g)
  BY <1>3 DEF PlanStep, StartPlanning, PlanFailed, Planned, ReportPlanCanceled,
              MarkPlanCanceled, Legal
<1>4. CASE ExecuteStep(g)
  BY <1>4 DEF ExecuteStep, ValidateFailed, SetExecuting, ServerUnavailable,
              SendTrajectory, GoalResponse, ResponseTimeout, StoreHandle, CheckQueued,
              ClearFlag, ClaimCancel, ForwardQueued, GetResult, Wait, Poll,
              DeadlinePassed, ResetHandle, Unflag, ResetHandleOk, UnflagOk
<1>5. CASE FinishStep(g)
  BY <1>5 DEF FinishStep, MarkCompleted, MarkCanceled, MarkFailed, DecideCanceled,
              ReportSucceeded, ReportCanceled, ReportAborted, Legal
<1>6. CASE CancelStep(g)
  BY <1>6 DEF CancelStep, ReadState, StopAccepted, StopReturned, StoreCancel,
              DropFlag, CopyHandle, CasFlag, SendFjtCancel, AcceptCancel
<1>7. CASE ControllerStep(g)
  BY <1>7 DEF ControllerStep, Accept, Reject, Finish, DeliverResult
<1>8. QED BY <1>1, <1>2, <1>3, <1>4, <1>5, <1>6, <1>7 DEF GoalStep, ExecStep

\* Only the accept callback accepts a goal.
LEMMA OnlyHandleGoalAccepts ==
  ASSUME PhaseInv, NEW g \in Goals, GoalStep(g), ~HandleGoal(g)
  PROVE  Accepted' = Accepted
<1> USE DEF PhaseInv, TypeOK, Accepted
<1>1. CASE AcceptStep(g) BY <1>1 DEF AcceptStep, ClearMoveCancel, ClearFjtCancel
<1>2. CASE EnterCancel(g) BY <1>2 DEF EnterCancel
<1>3. CASE PlanStep(g)
  BY <1>3 DEF PlanStep, StartPlanning, PlanFailed, Planned, ReportPlanCanceled,
              MarkPlanCanceled
<1>4. CASE ExecuteStep(g)
  BY <1>4 DEF ExecuteStep, ValidateFailed, SetExecuting, ServerUnavailable,
              SendTrajectory, GoalResponse, ResponseTimeout, StoreHandle, CheckQueued,
              ClearFlag, ClaimCancel, ForwardQueued, GetResult, Wait, Poll,
              DeadlinePassed, ResetHandle, Unflag, ResetHandleOk, UnflagOk
<1>5. CASE FinishStep(g)
  BY <1>5 DEF FinishStep, MarkCompleted, MarkCanceled, MarkFailed, DecideCanceled,
              ReportSucceeded, ReportCanceled, ReportAborted
<1>6. CASE CancelStep(g)
  BY <1>6 DEF CancelStep, ReadState, StopAccepted, StopReturned, StoreCancel,
              DropFlag, CopyHandle, CasFlag, SendFjtCancel, AcceptCancel
<1>7. CASE ControllerStep(g)
  BY <1>7 DEF ControllerStep, Accept, Reject, Finish, DeliverResult
<1>8. QED BY <1>1, <1>2, <1>3, <1>4, <1>5, <1>6, <1>7 DEF GoalStep, ExecStep

\* handle_move_goal is only called when every accepted goal has ended.
LEMMA HandleGoalAlone ==
  ASSUME MaxOpen = 1, OneAtATime, NEW g \in Goals, HandleGoal(g)
  PROVE  \A h \in Accepted : status[h] \in Terminal
<1> DEFINE Running == {h \in Goals : epc[h] # "idle" /\ status[h] \notin Terminal}
<1>1. IsFiniteSet(Running) BY FS_Subset, Running \subseteq Accepted DEF OneAtATime, Accepted
<1>2. Cardinality(Running) = 0
  <2>1. Cardinality(Running) < 1 BY DEF HandleGoal, NumOpen
  <2>2. Cardinality(Running) \in Nat BY <1>1, FS_CardinalityType
  <2>3. QED BY <2>1, <2>2
<1>3. Running = {} BY <1>1, <1>2, FS_EmptySet
<1>4. QED BY <1>3 DEF Accepted

\* With MaxOpen = 1 goals do not overlap.
LEMMA OneAtATimeStep ==
  ASSUME MaxOpen = 1, PhaseInv, OneAtATime, NEW g \in Goals, GoalStep(g)
  PROVE  OneAtATime'
<1>1. Irreversible BY NothingIsUndone
<1>2. CASE HandleGoal(g)
  <2>1. \A h \in Accepted : status[h] \in Terminal BY <1>2, HandleGoalAlone
  <2>2. Accepted' = Accepted \cup {g} BY <1>2 DEF HandleGoal, Accepted, PhaseInv, TypeOK
  <2>3. IsFiniteSet(Accepted') BY <2>2, FS_AddElement DEF OneAtATime
  <2>4. \A h \in Accepted' : h = g \/ status'[h] \in Terminal
    BY <1>1, <2>1, <2>2 DEF Irreversible, Accepted
  <2>5. QED BY <2>3, <2>4 DEF OneAtATime
<1>3. CASE ~HandleGoal(g)
  <2>1. Accepted' = Accepted BY <1>3, OnlyHandleGoalAccepts
  <2>2. \A h \in Accepted : status[h] \in Terminal => status'[h] \in Terminal
    BY <1>1 DEF Irreversible, Accepted
  <2>3. QED BY <2>1, <2>2 DEF OneAtATime
<1>4. QED BY <1>2, <1>3

\* A goal that is undisturbed after a step was so before.
LEMMA UndisturbedBefore ==
  ASSUME Irreversible, NEW g \in Goals, Undisturbed(g)'
  PROVE  Undisturbed(g)
<1> SUFFICES ASSUME NEW h \in Goals \ {g}, Disturbing(h) PROVE FALSE
  BY DEF Undisturbed
<1>1. Disturbing(h)' BY DEF Disturbing, Irreversible
<1>2. QED BY <1>1 DEF Undisturbed

\* The parts of IInv that are about all goals, when goals do not overlap.
Facts == PhaseInv /\ CancelFollowsRequest /\ HandleFollowsMotion /\ OneAtATime

\* While a goal is open, every other accepted one has ended.
LEMMA OthersEnded ==
  ASSUME Facts, NEW g \in Goals, NEW h \in Goals \ {g},
         epc[g] \notin {"idle"} \cup Ended, epc[h] # "idle"
  PROVE  epc[h] \in Ended /\ status[h] \in Terminal
<1> USE DEF Facts, PhaseInv, TypeOK
<1>1. status[g] \notin Terminal BY DEF StatusFollowsThread, Unaccepted, Ended
<1>2. status[h] \in Terminal BY <1>1 DEF OneAtATime, Accepted
<1>3. epc[h] \in Ended BY <1>2 DEF StatusFollowsThread, Unaccepted
<1>4. QED BY <1>2, <1>3

\* The other goals' handles and cancels are out of the way.
LEMMA OthersQuiet ==
  ASSUME Facts, NEW g \in Goals, Undisturbed(g), NEW h \in Goals \ {g}
  PROVE  /\ cpc[h] = "idle"
         /\ status[h] \notin {"CANCELING", "CANCELED"}
         /\ epc[h] # "planCanceled"
         /\ status[h] \in Terminal => fjt[h] \in {"none", "succeeded"}
<1>1. cpc[h] = "idle" BY DEF Undisturbed, Disturbing
<1>2. status[h] \notin {"CANCELING", "CANCELED"} /\ epc[h] # "planCanceled"
  BY <1>1 DEF Facts, CancelFollowsRequest
<1>3. status[h] \in Terminal => fjt[h] \in {"none", "succeeded"}
  BY <1>2 DEF Facts, HandleFollowsMotion, Undisturbed, Disturbing
<1>4. QED BY <1>1, <1>2, <1>3

\* While an undisturbed goal is open, the handle is null or its own.
LEMMA OwnHandle ==
  ASSUME Facts, NEW g \in Goals, Undisturbed(g), status[g] \in Open
  PROVE  handle \in {NoGoal, g}
<1> SUFFICES ASSUME NEW h \in Goals \ {g}, handle = h PROVE FALSE
  BY DEF Facts, PhaseInv, TypeOK
<1>1. fjt[h] # "none" /\ status[h] # "SUCCEEDED" BY DEF Facts, HandleFollowsMotion
<1>2. epc[h] # "idle" BY <1>1 DEF Facts, PhaseInv, MotionFollowsThread, Unsent, Unaccepted
<1>3. epc[g] \notin {"idle"} \cup Ended
  BY DEF Facts, PhaseInv, TypeOK, StatusFollowsThread, Unaccepted, Ended
<1>4. status[h] \in Terminal BY <1>2, <1>3, OthersEnded
<1>5. fjt[h] = "succeeded" /\ status[h] = "ABORTED" BY <1>1, <1>4, OthersQuiet
<1>6. QED BY <1>5 DEF Undisturbed, Disturbing

\* A cancel handler that sees EXECUTING sees its own goal's motion, or a motion
\* that started after its goal had ended.
LEMMA OwnMotion ==
  ASSUME Facts, NEW g \in Goals, Undisturbed(g), cpc[g] = "enter", moveState = "EXECUTING"
  PROVE  epc[g] \in Moved
<1>1. PICK h \in Goals : epc[h] \in Executing BY DEF Facts, PhaseInv, NoPhantomExecuting
<1>2. epc[g] \notin Unaccepted /\ epc[g] # "planCanceled"
  BY DEF Facts, CancelFollowsRequest
<1>3. CASE h = g BY <1>1, <1>3 DEF Moved
<1>4. CASE h # g
  <2>1. epc[g] \in {"idle"} \cup Ended BY <1>1, <1>4, OthersEnded DEF Ended
  <2>2. QED BY <1>2, <2>1 DEF Ended, Unaccepted, Moved
<1>5. QED BY <1>3, <1>4

-----------------------------------------------------------------------------
(* Steps of other goals.                                                   *)

\* What CancelInv says of g only changes in g's own steps: others may preempt
\* its trajectory when it has ended, and use the flags and the handle when it
\* is neither open nor about to be.
Kept(g) ==
  /\ epc'[g] = epc[g] /\ cpc'[g] = cpc[g] /\ queue'[g] = queue[g]
  /\ copied'[g] = copied[g] /\ res'[g] = res[g] /\ status'[g] = status[g]
  /\ g \in cancelSent' <=> g \in cancelSent
  /\ \/ fjt'[g] = fjt[g]
     \/ status[g] \notin Open /\ fjt'[g] \notin {"sent", "active"}
  /\ status[g] \in Open \/ epc[g] = "clearFjt" => UNCHANGED <<moveCancel, fjtCancel, handle>>

\* Then it still says the same.
LEMMA KeptInv ==
  ASSUME NEW g \in Goals, Kept(g), CancelInv(g)
  PROVE  CancelInv(g)'
BY DEF Kept, CancelInv, HandOver, Unprovoked, Asking, Natural, Braking, LetsFinish, Stopped,
       Known, Leaving, Moved

\* An undisturbed goal is left alone by the threads and trajectories of others.
LEMMA OthersKeep ==
  ASSUME MaxOpen = 1, Facts, NEW g \in Goals, Undisturbed(g), Undisturbed(g)',
         NEW h \in Goals \ {g}, GoalStep(h)
  PROVE  Kept(g)
<1> USE DEF Facts, PhaseInv, TypeOK, Kept
<1>1. CASE HandleGoal(h)
  <2>1. epc[g] = "idle" \/ status[g] \in Terminal BY <1>1, HandleGoalAlone DEF Accepted
  <2>2. status[g] \notin Open /\ epc[g] # "clearFjt"
    BY <2>1 DEF StatusFollowsThread, Unaccepted
  <2>3. QED BY <1>1, <2>2 DEF HandleGoal
<1>2. ASSUME epc[h] \notin {"idle"} \cup Ended
      PROVE  status[g] \notin Open /\ epc[g] # "clearFjt"
  <2>1. epc[g] \in {"idle"} \cup Ended
    <3>1. CASE epc[g] = "idle" BY <3>1
    <3>2. CASE epc[g] # "idle" BY <1>2, <3>2, OthersEnded
    <3>3. QED BY <3>1, <3>2
  <2>2. QED BY <2>1 DEF StatusFollowsThread, Unaccepted, Ended
<1>3. CASE ClearMoveCancel(h) \/ ClearFjtCancel(h)
  <2>1. status[g] \notin Open /\ epc[g] # "clearFjt"
    BY <1>2, <1>3 DEF ClearMoveCancel, ClearFjtCancel, Ended
  <2>2. QED BY <1>3, <2>1 DEF ClearMoveCancel, ClearFjtCancel
<1>4. CASE EnterCancel(h) \/ CancelStep(h)
  <2>1. cpc'[h] # "idle"
    BY <1>4 DEF EnterCancel, CancelStep, ReadState, StopAccepted, StopReturned, StoreCancel,
                DropFlag, CopyHandle, CasFlag, SendFjtCancel, AcceptCancel
  <2>2. QED BY <2>1 DEF Undisturbed, Disturbing
<1>5. CASE ExecStep(h)
  <2>1. epc[h] # "planCanceled" BY OthersQuiet
  <2>2. CASE PlanStep(h)
    <3>1. epc[h] \notin {"idle"} \cup Ended
      BY <2>1, <2>2 DEF PlanStep, StartPlanning, PlanFailed, Planned, ReportPlanCanceled,
                        MarkPlanCanceled, Ended
    <3>2. QED BY <1>2, <2>2, <3>1 DEF PlanStep, StartPlanning, PlanFailed, Planned,
                 ReportPlanCanceled, MarkPlanCanceled
  <2>3. CASE ExecuteStep(h)
    <3> USE <2>3 DEF ExecuteStep, ValidateFailed, SetExecuting, ServerUnavailable,
              SendTrajectory, GoalResponse, ResponseTimeout, StoreHandle, CheckQueued,
              ClearFlag, ClaimCancel, ForwardQueued, GetResult, Wait, Poll,
              DeadlinePassed, ResetHandle, Unflag, ResetHandleOk, UnflagOk
    <3>1. epc[h] \notin {"idle"} \cup Ended BY DEF Ended
    <3>2. QED BY <1>2, <3>1
  <2>4. CASE FinishStep(h)
    <3> USE <2>4 DEF FinishStep, MarkCompleted, MarkCanceled, MarkFailed, DecideCanceled,
              ReportSucceeded, ReportCanceled, ReportAborted
    <3>1. epc[h] \notin {"idle"} \cup Ended BY DEF Ended
    <3>2. QED BY <1>2, <3>1
  <2>5. QED BY <1>5, <2>2, <2>3, <2>4 DEF ExecStep
<1>6. CASE Accept(h)
  <2>1. epc[h] # "idle" BY <1>6 DEF Accept, MotionFollowsThread, Unsent, Unaccepted
  <2>2. status[h] \notin Terminal BY <1>6, OthersQuiet DEF Accept
  <2>3. epc[h] \notin {"idle"} \cup Ended BY <2>1, <2>2 DEF StatusFollowsThread
  <2>4. status[g] \notin Open BY <1>2, <2>3
  <2>5. QED BY <1>6, <2>4 DEF Accept
<1>7. CASE Reject(h) \/ Finish(h) \/ DeliverResult(h)
  BY <1>7 DEF Reject, Finish, DeliverResult
<1>8. QED BY <1>1, <1>3, <1>4, <1>5, <1>6, <1>7 DEF GoalStep, AcceptStep, ControllerStep

\* The accept callback starts the goal with flags that nobody has set.
LEMMA OwnAccept ==
  ASSUME Facts, NEW g \in Goals, Undisturbed(g), CancelInv(g), AcceptStep(g)
  PROVE  CancelInv(g)'
<1> USE DEF Facts, PhaseInv, TypeOK, CancelInv, CancelFollowsRequest, StatusFollowsThread,
            MotionFollowsThread, HandOver, Unprovoked, Asking, Natural, Braking, LetsFinish,
            Stopped, Known, Leaving, Moved, Unaccepted, Ended, Unsent
<1>1. CASE HandleGoal(g) BY <1>1 DEF HandleGoal
<1>2. CASE ClearMoveCancel(g) BY <1>2 DEF ClearMoveCancel
<1>3. CASE ClearFjtCancel(g) BY <1>3 DEF ClearFjtCancel
<1>. QED BY <1>1, <1>2, <1>3 DEF AcceptStep

\* A goal that is canceled or fails while planning commanded nothing.
LEMMA OwnPlan ==
  ASSUME Facts, NEW g \in Goals, Undisturbed(g), CancelInv(g), PlanStep(g)
  PROVE  CancelInv(g)'
<1> USE DEF Facts, PhaseInv, TypeOK, CancelInv, CancelFollowsRequest, StatusFollowsThread,
            MotionFollowsThread, HandOver, Unprovoked, Asking, Natural, Braking, LetsFinish,
            Stopped, Known, Leaving, Moved, Unaccepted, Ended, Unsent
<1>1. CASE StartPlanning(g) BY <1>1 DEF StartPlanning
<1>2. CASE PlanFailed(g) BY <1>2 DEF PlanFailed
<1>3. CASE Planned(g) BY <1>3 DEF Planned
<1>4. CASE ReportPlanCanceled(g) BY <1>4 DEF ReportPlanCanceled
<1>5. CASE MarkPlanCanceled(g) BY <1>5 DEF MarkPlanCanceled
<1>. QED BY <1>1, <1>2, <1>3, <1>4, <1>5 DEF PlanStep

\* The execution thread stores its handle before it looks at the request, and
\* forwards or has seen forwarded whatever makes it leave its loop.
LEMMA OwnExecute ==
  ASSUME Facts, NEW g \in Goals, Undisturbed(g), CancelInv(g), ExecuteStep(g)
  PROVE  CancelInv(g)'
<1> USE DEF Facts, PhaseInv, TypeOK, CancelInv, CancelFollowsRequest, StatusFollowsThread,
            MotionFollowsThread, HandOver, Unprovoked, Asking, Natural, Braking, LetsFinish,
            Stopped, Known, Leaving, Moved, Unaccepted, Ended, Unsent
<1>1. CASE ValidateFailed(g) BY <1>1 DEF ValidateFailed
<1>2. CASE SetExecuting(g) BY <1>2 DEF SetExecuting
<1>3. CASE ServerUnavailable(g) BY <1>3 DEF ServerUnavailable
<1>4. CASE SendTrajectory(g) BY <1>4 DEF SendTrajectory
<1>5. CASE GoalResponse(g) BY <1>5 DEF GoalResponse
<1>6. CASE ResponseTimeout(g) BY <1>6 DEF ResponseTimeout
<1>7. CASE StoreHandle(g) BY <1>7 DEF StoreHandle
<1>8. CASE CheckQueued(g) BY <1>8 DEF CheckQueued
<1>9. CASE ClearFlag(g) BY <1>9 DEF ClearFlag
<1>10. CASE ClaimCancel(g) BY <1>10 DEF ClaimCancel
<1>11. CASE ForwardQueued(g) BY <1>11 DEF ForwardQueued
<1>12. CASE GetResult(g) BY <1>12 DEF GetResult
<1>13. CASE Wait(g)
  <2>1. res[g] = "CANCELED" => fjt[g] = "canceled" BY DEF HandleFollowsMotion
  <2>2. QED BY <1>13, <2>1 DEF Wait
<1>14. CASE Poll(g) BY <1>14 DEF Poll
<1>15. CASE DeadlinePassed(g) BY <1>15 DEF DeadlinePassed
<1>16. CASE ResetHandle(g) BY <1>16 DEF ResetHandle
<1>17. CASE Unflag(g) BY <1>17 DEF Unflag
<1>18. CASE ResetHandleOk(g) BY <1>18 DEF ResetHandleOk
<1>19. CASE UnflagOk(g) BY <1>19 DEF UnflagOk
<1>. QED BY <1>1, <1>2, <1>3, <1>4, <1>5, <1>6, <1>7, <1>8, <1>9, <1>10, <1>11, <1>12, <1>13, <1>14, <1>15, <1>16, <1>17, <1>18, <1>19 DEF ExecuteStep

\* CANCELED is only reported once the cancel was forwarded.
LEMMA OwnFinish ==
  ASSUME Facts, NEW g \in Goals, Undisturbed(g), CancelInv(g), FinishStep(g)
  PROVE  CancelInv(g)'
<1> USE DEF Facts, PhaseInv, TypeOK, CancelInv, CancelFollowsRequest, StatusFollowsThread,
            MotionFollowsThread, HandOver, Unprovoked, Asking, Natural, Braking, LetsFinish,
            Stopped, Known, Leaving, Moved, Unaccepted, Ended, Unsent
<1>1. CASE MarkCompleted(g) BY <1>1 DEF MarkCompleted
<1>2. CASE MarkCanceled(g) BY <1>2 DEF MarkCanceled
<1>3. CASE MarkFailed(g) BY <1>3 DEF MarkFailed
<1>4. CASE DecideCanceled(g) BY <1>4 DEF DecideCanceled
<1>5. CASE ReportSucceeded(g) BY <1>5 DEF ReportSucceeded
<1>6. CASE ReportCanceled(g) BY <1>6 DEF ReportCanceled
<1>7. CASE ReportAborted(g) BY <1>7 DEF ReportAborted
<1>. QED BY <1>1, <1>2, <1>3, <1>4, <1>5, <1>6, <1>7 DEF FinishStep

\* The cancel handler publishes the request before it looks at the handle, and
\* does neither when the trajectory is to finish.
LEMMA OwnCancel ==
  ASSUME Facts, NEW g \in Goals, Undisturbed(g), CancelInv(g), EnterCancel(g) \/ CancelStep(g)
  PROVE  CancelInv(g)'
<1> USE DEF Facts, PhaseInv, TypeOK, CancelInv, CancelFollowsRequest, StatusFollowsThread,
            MotionFollowsThread, HandOver, Unprovoked, Asking, Natural, Braking, LetsFinish,
            Stopped, Known, Leaving, Moved, Unaccepted, Ended, Unsent
<1>1. CASE EnterCancel(g) BY <1>1 DEF EnterCancel
<1>2. CASE ReadState(g)
  <2>1. moveState = "EXECUTING" => epc[g] \in Moved BY <1>2, OwnMotion DEF ReadState
  <2>2. QED BY <1>2, <2>1 DEF ReadState
<1>3. CASE StopAccepted(g) BY <1>3 DEF StopAccepted
<1>4. CASE StopReturned(g)
  <2>1. cpc[g] \in {"stopping", "stopSent"} /\ cpc' = [cpc EXCEPT ![g] = "store"]
    BY <1>4 DEF StopReturned
  <2>2. PICK b \in BOOLEAN : queue' = [queue EXCEPT ![g] = b] /\ (cpc[g] = "stopSent" => b)
    BY <1>4 DEF StopReturned, QueueAfterStop
  <2>3. UNCHANGED <<moveCancel, fjtCancel, handle, copied, cancelSent, status, epc, fjt, res>>
    BY <1>4 DEF StopReturned
  <2>4. QED BY <2>1, <2>2, <2>3
<1>5. CASE StoreCancel(g) BY <1>5 DEF StoreCancel
<1>6. CASE DropFlag(g) BY <1>6 DEF DropFlag
<1>7. CASE CopyHandle(g)
  <2>1. status[g] \in Open => handle \in {NoGoal, g} BY OwnHandle
  <2>2. QED BY <1>7, <2>1, ConstantsAssumption DEF CopyHandle
<1>8. CASE CasFlag(g) BY <1>8 DEF CasFlag
<1>9. CASE SendFjtCancel(g) BY <1>9 DEF SendFjtCancel
<1>10. CASE AcceptCancel(g) BY <1>10 DEF AcceptCancel
<1>. QED BY <1>1, <1>2, <1>3, <1>4, <1>5, <1>6, <1>7, <1>8, <1>9, <1>10 DEF CancelStep

\* The controller cancels only a trajectory whose cancel was forwarded.
LEMMA OwnController ==
  ASSUME Facts, NEW g \in Goals, Undisturbed(g), CancelInv(g), ControllerStep(g)
  PROVE  CancelInv(g)'
<1> USE DEF Facts, PhaseInv, TypeOK, CancelInv, CancelFollowsRequest, StatusFollowsThread,
            MotionFollowsThread, HandOver, Unprovoked, Asking, Natural, Braking, LetsFinish,
            Stopped, Known, Leaving, Moved, Unaccepted, Ended, Unsent
<1>1. CASE Accept(g) BY <1>1 DEF Accept
<1>2. CASE Reject(g) BY <1>2 DEF Reject
<1>3. CASE Finish(g) BY <1>3 DEF Finish
<1>4. CASE DeliverResult(g) BY <1>4 DEF DeliverResult
<1>. QED BY <1>1, <1>2, <1>3, <1>4 DEF ControllerStep

-----------------------------------------------------------------------------
(* The invariant.                                                          *)

\* The server starts with no goal, no flag and no handle.
LEMMA InitInv == Init => IInv
<1> SUFFICES ASSUME Init PROVE IInv
  OBVIOUS
<1>1. PhaseInv BY InitPhase
<1> USE DEF Init
<1>2. CancelFollowsRequest /\ HandleFollowsMotion
  BY ConstantsAssumption DEF CancelFollowsRequest, HandleFollowsMotion, Unaccepted
<1>3. OneAtATime
  <2>1. Accepted = {} BY DEF Accepted
  <2>2. QED BY <2>1, FS_EmptySet DEF OneAtATime
<1>4. ASSUME NEW g \in Goals PROVE CancelInv(g)
  BY DEF CancelInv, Asking, Natural, Braking, LetsFinish
<1>5. QED BY <1>1, <1>2, <1>3, <1>4 DEF IInv

\* Every step keeps requests behind acceptance and handles behind motions.
LEMMA StepFollows ==
  ASSUME PhaseInv, CancelFollowsRequest, HandleFollowsMotion, NEW g \in Goals, GoalStep(g)
  PROVE  CancelFollowsRequest' /\ HandleFollowsMotion'
BY AcceptFollows, PlanFollows, ExecuteFollows, FinishFollows, CancelFollows, ControllerFollows
   DEF GoalStep, ExecStep

\* Every step of a goal that is undisturbed preserves what CancelInv says of it.
LEMMA OwnStep ==
  ASSUME Facts, NEW g \in Goals, Undisturbed(g), CancelInv(g), GoalStep(g)
  PROVE  CancelInv(g)'
BY OwnAccept, OwnPlan, OwnExecute, OwnFinish, OwnCancel, OwnController DEF GoalStep, ExecStep

\* Every step of every thread, and of the controller, preserves IInv.
LEMMA StepInv == IInv /\ [Next]_vars => IInv'
<1> SUFFICES ASSUME IInv, [Next]_vars PROVE IInv'
  OBVIOUS
<1> USE DEF IInv
<1>1. CASE UNCHANGED vars
  <2> USE <1>1 DEF vars
  <2>1. PhaseInv' BY StepPhase
  <2>2. CancelFollowsRequest' /\ HandleFollowsMotion'
    BY DEF CancelFollowsRequest, HandleFollowsMotion
  <2>3. OneAtATime => OneAtATime' BY DEF OneAtATime, Accepted
  <2>4. ASSUME NEW g \in Goals PROVE Undisturbed(g)' => Undisturbed(g)
    BY DEF Undisturbed, Disturbing
  <2>5. ASSUME NEW g \in Goals, CancelInv(g) PROVE CancelInv(g)'
    BY <2>5, KeptInv DEF Kept
  <2>6. QED BY <2>1, <2>2, <2>3, <2>4, <2>5
<1>2. ASSUME NEW h \in Goals, GoalStep(h) PROVE IInv'
  <2>1. PhaseInv' BY StepPhase
  <2>2. CancelFollowsRequest' /\ HandleFollowsMotion' BY <1>2, StepFollows
  <2>3. ASSUME MaxOpen = 1 PROVE OneAtATime' BY <1>2, <2>3, OneAtATimeStep
  <2>4. ASSUME MaxOpen = 1, NEW g \in Goals, Undisturbed(g)' PROVE CancelInv(g)'
    <3>1. Facts BY <2>4 DEF Facts
    <3>2. Undisturbed(g) BY <1>2, <2>4, NothingIsUndone, UndisturbedBefore
    <3>3. CancelInv(g) BY <2>4, <3>2
    <3>4. CASE h = g BY <1>2, <3>1, <3>2, <3>3, <3>4, OwnStep
    <3>5. CASE h # g
      <4>1. Kept(g) BY <1>2, <2>4, <3>1, <3>2, <3>5, OthersKeep
      <4>2. QED BY <3>3, <4>1, KeptInv
    <3>6. QED BY <3>4, <3>5
  <2>5. QED BY <2>1, <2>2, <2>3, <2>4
<1>3. QED BY <1>1, <1>2 DEF Next, GoalStep

\* IInv holds in every reachable state.
THEOREM Invariance == Spec => []IInv
  BY InitInv, StepInv, PTL DEF Spec

\* When goals do not overlap, a goal that is reported CANCELED leaves no running
\* trajectory behind that was not sent a cancel request, however its accept
\* callback, its thread and its cancel handler interleaved.
THEOREM CancelArrives == ASSUME MaxOpen = 1 PROVE Spec => []CancelReachesOwnTrajectory
<1>1. IInv => CancelReachesOwnTrajectory
  <2> SUFFICES ASSUME IInv, NEW g \in Goals, Undisturbed(g), status[g] = "CANCELED",
                      fjt[g] \in {"sent", "active"}
               PROVE  g \in cancelSent
    BY DEF CancelReachesOwnTrajectory
  <2>1. Stopped(g) BY DEF IInv, CancelInv
  <2>2. Known(g) BY DEF IInv, PhaseInv, TypeOK, HandleFollowsMotion, Known
  <2>3. QED BY <2>1, <2>2 DEF Stopped
<1>2. QED BY <1>1, Invariance, PTL

\* When goals do not overlap, handle_move_cancel and the execution thread never
\* both miss what the other published: a thread that polls after its queued
\* request was handled has had the cancel forwarded.
THEOREM CancelIsForwarded == ASSUME MaxOpen = 1 PROVE Spec => []CancelForwarded
<1>1. IInv => CancelForwarded
  <2> SUFFICES ASSUME IInv, NEW g \in Goals, Undisturbed(g), cpc[g] = "done", queue[g],
                      epc[g] \in {"wait", "poll"}, Known(g)
               PROVE  g \in cancelSent
    BY DEF CancelForwarded
  <2>1. status[g] \in Open
    BY DEF IInv, PhaseInv, StatusFollowsThread, Unaccepted, Ended
  <2>2. Stopped(g) BY <2>1 DEF IInv, CancelInv, HandOver, Asking
  <2>3. QED BY <2>2 DEF Stopped
<1>2. QED BY <1>1, Invariance, PTL

\* When goals do not overlap, a request that the controlled stop answered with
\* NOT_REQUIRED neither cancels the trajectory nor ends the goal as CANCELED.
THEOREM FinishesNaturally == ASSUME MaxOpen = 1 PROVE Spec => []NaturalFinish
<1>1. IInv => NaturalFinish
  BY DEF IInv, CancelInv, Natural, LetsFinish, NaturalFinish
<1>2. QED BY <1>1, Invariance, PTL
=============================================================================

-------------------------- MODULE MoveActionServer --------------------------
(***************************************************************************)
(* The MoveManipulator action of ManipulatorActionServer                   *)
(* (manymove_planner/src/action_server.cpp).                               *)
(*                                                                         *)
(* Three kinds of threads share one set of members, however many goals are *)
(* open: the executor thread that accepts a goal, the detached thread that *)
(* executes it, and the executor thread that handles its cancel request.   *)
(* A step of the model is one access to the shared members: a critical     *)
(* section of move_state_mutex_, a read, a store or a compare-exchange of  *)
(* an atomic, or a call of the planner, the controller or the goal handle. *)
(*                                                                         *)
(* rclcpp_action (server and client) and the FollowJointTrajectory         *)
(* controller are outside the repository; their actions come last.         *)
(***************************************************************************)
EXTENDS Naturals, FiniteSets

CONSTANTS Goals,      \* MoveManipulator goals, each sent at most once
          NoGoal,     \* a null FollowJointTrajectory goal handle / nobody
          MaxOpen,    \* how many goals clients may have open at once
          MaxCancels  \* how many goals clients ask to cancel

ASSUME ConstantsAssumption ==
  /\ NoGoal \notin Goals
  /\ MaxOpen \in Nat \ {0}
  /\ MaxCancels \in Nat

VARIABLES
  moveState,   \* move_state_
  mutex,       \* the cancel handler holding move_state_mutex_ in a controlled stop
  moveCancel,  \* move_cancel_requested_
  fjtCancel,   \* fjt_cancel_requested_
  handle,      \* executing_fjt_goal_handle_: the goal whose FJT handle it is
  status,      \* rclcpp's status of each goal
  epc,         \* accept callback and then execution thread of each goal
  cpc,         \* cancel handler of each goal
  queue,       \* its local should_queue_cancel
  copied,      \* its local fjt_handle_copy
  fjt,         \* the controller's view of the trajectory sent for each goal
  cancelSent,  \* goals whose FJT goal was sent a cancel request
  res,         \* what the FJT result callback recorded for each goal
  crash        \* why the process was terminated by an uncaught exception

shared == <<moveState, mutex, moveCancel, fjtCancel, handle>>
cancelLocals == <<cpc, queue, copied>>
controller == <<fjt, res>>
vars == <<shared, status, epc, cancelLocals, controller, cancelSent, crash>>

Open == {"EXECUTING", "CANCELING"}
Terminal == {"SUCCEEDED", "CANCELED", "ABORTED"}

\* From the critical section that sets EXECUTING to the one that leaves it.
Executing == {"send", "response", "store", "queued", "clear", "claim",
  "forward", "getResult", "wait", "poll", "reset", "unflag", "resetOk",
  "unflagOk", "succeeding", "canceled", "failing"}

ExecPc == {"idle", "clearMove", "clearFjt", "start", "plan",
  "cancelPlanned", "planCanceled", "validate", "decide", "reportCanceled",
  "reportAbort", "reportSucceed", "done"} \cup Executing

CancelPc == {"idle", "enter", "stopping", "stopSent", "store", "copy", "drop",
  "cas", "send", "accept", "done"}

Init ==
  /\ moveState = "IDLE"
  /\ mutex = NoGoal
  /\ moveCancel = FALSE
  /\ fjtCancel = FALSE
  /\ handle = NoGoal
  /\ status = [g \in Goals |-> "NONE"]
  /\ epc = [g \in Goals |-> "idle"]
  /\ cpc = [g \in Goals |-> "idle"]
  /\ queue = [g \in Goals |-> FALSE]
  /\ copied = [g \in Goals |-> NoGoal]
  /\ fjt = [g \in Goals |-> "none"]
  /\ cancelSent = {}
  /\ res = [g \in Goals |-> "none"]
  /\ crash = "none"

-----------------------------------------------------------------------------
(* Helpers.                                                                *)

Go(g, from, to) == epc[g] = from /\ epc' = [epc EXCEPT ![g] = to]
CancelGo(g, from, to) == cpc[g] = from /\ cpc' = [cpc EXCEPT ![g] = to]

\* A critical section of move_state_mutex_ that only assigns move_state_.
SetState(s) ==
  /\ mutex = NoGoal
  /\ moveState' = s
  /\ UNCHANGED <<mutex, moveCancel, fjtCancel, handle>>

SetFjtCancel(b) ==
  /\ fjtCancel' = b
  /\ UNCHANGED <<moveState, mutex, moveCancel, handle>>

\* A critical section of move_state_mutex_ that only assigns the FJT handle.
SetHandle(h) ==
  /\ mutex = NoGoal
  /\ handle' = h
  /\ UNCHANGED <<moveState, mutex, moveCancel, fjtCancel>>

\* rclcpp_action's client forgets an FJT goal once its result has arrived:
\* async_cancel_goal and async_get_result then throw UnknownGoalHandleError.
Known(g) == res[g] = "none"

\* canceled() is legal in CANCELING only, abort() and succeed() in any open
\* status; otherwise they throw, and nothing catches in the detached thread.
Legal(g, to) == IF to = "CANCELED" THEN status[g] = "CANCELING"
                                   ELSE status[g] \in Open

Report(g, to) ==
  /\ IF Legal(g, to)
       THEN status' = [status EXCEPT ![g] = to] /\ UNCHANGED crash
       ELSE crash' = "badTransition" /\ UNCHANGED status
  /\ UNCHANGED <<shared, cancelLocals, controller, cancelSent>>

Local == UNCHANGED <<status, cancelLocals, controller, cancelSent, crash>>
Silent == UNCHANGED shared /\ Local

-----------------------------------------------------------------------------
(* handle_move_goal and handle_move_accepted.                              *)

NumOpen == Cardinality({g \in Goals : epc[g] # "idle" /\ status[g] \notin Terminal})

HandleGoal(g) ==
  /\ NumOpen < MaxOpen
  /\ Go(g, "idle", "clearMove")
  /\ SetState("PLANNING")
  /\ Local

ClearMoveCancel(g) ==
  /\ Go(g, "clearMove", "clearFjt")
  /\ moveCancel' = FALSE
  /\ UNCHANGED <<moveState, mutex, fjtCancel, handle>>
  /\ Local

\* ACCEPT_AND_EXECUTE, and handle_move_accepted detaches the thread.
ClearFjtCancel(g) ==
  /\ Go(g, "clearFjt", "start")
  /\ SetFjtCancel(FALSE)
  /\ status' = [status EXCEPT ![g] = "EXECUTING"]
  /\ UNCHANGED <<cancelLocals, controller, cancelSent, crash>>

AcceptStep(g) == HandleGoal(g) \/ ClearMoveCancel(g) \/ ClearFjtCancel(g)

-----------------------------------------------------------------------------
(* execute_move, up to the call of executeTrajectoryWithCollisionChecks.   *)

StartPlanning(g) == Go(g, "start", "plan") /\ SetState("PLANNING") /\ Local

\* plan() failed: abort, and move_state_ stays as it is.
PlanFailed(g) == Go(g, "plan", "done") /\ Report(g, "ABORTED")

\* The provided trajectory is valid, or plan() found one.
Planned(g) ==
  /\ Go(g, "plan", IF status[g] = "CANCELING" THEN "cancelPlanned" ELSE "validate")
  /\ Silent

ReportPlanCanceled(g) == Go(g, "cancelPlanned", "planCanceled") /\ Report(g, "CANCELED")

MarkPlanCanceled(g) == Go(g, "planCanceled", "done") /\ SetState("CANCELLED") /\ Local

PlanStep(g) ==
  \/ StartPlanning(g) \/ PlanFailed(g) \/ Planned(g)
  \/ ReportPlanCanceled(g) \/ MarkPlanCanceled(g)

-----------------------------------------------------------------------------
(* executeTrajectoryWithCollisionChecks.                                   *)

\* Empty trajectory, missing joint state, start or end mismatch, collision,
\* no FJT client: back to execute_move before move_state_ is EXECUTING.
ValidateFailed(g) == Go(g, "validate", "failing") /\ Silent

SetExecuting(g) == Go(g, "validate", "send") /\ SetState("EXECUTING") /\ Local

ServerUnavailable(g) == Go(g, "send", "failing") /\ Silent

SendTrajectory(g) ==
  /\ Go(g, "send", "response")
  /\ fjt' = [fjt EXCEPT ![g] = "sent"]
  /\ UNCHANGED <<shared, status, cancelLocals, res, cancelSent, crash>>

\* The 5 s wait for the response may also run out, whatever the controller did.
GoalResponse(g) ==
  /\ fjt[g] # "sent"
  /\ Go(g, "response", IF fjt[g] = "rejected" THEN "failing" ELSE "store")
  /\ Silent

ResponseTimeout(g) == Go(g, "response", "failing") /\ Silent

StoreHandle(g) == Go(g, "store", "queued") /\ SetHandle(g) /\ Local

\* Broken variant: the queued cancel request is never looked at.
CheckQueuedNever(g) == Go(g, "queued", "clear") /\ Silent

CheckQueued(g) ==
  /\ Go(g, "queued", IF moveCancel THEN "claim" ELSE "clear")
  /\ Silent

ClearFlag(g) == Go(g, "clear", "getResult") /\ SetFjtCancel(FALSE) /\ Local

\* Broken variant: the flag is set but no cancel is forwarded.
ClaimCancelSilently(g) ==
  Go(g, "claim", "getResult") /\ SetFjtCancel(TRUE) /\ Local

\* compare_exchange_strong(false, true)
ClaimCancel(g) ==
  /\ Go(g, "claim", IF fjtCancel THEN "getResult" ELSE "forward")
  /\ SetFjtCancel(TRUE)
  /\ Local

\* async_cancel_goal; an exception gives the claim back.
ForwardQueued(g) ==
  /\ Go(g, "forward", "getResult")
  /\ IF Known(g) THEN cancelSent' = cancelSent \cup {g} /\ UNCHANGED shared
                 ELSE UNCHANGED cancelSent /\ SetFjtCancel(FALSE)
  /\ UNCHANGED <<status, cancelLocals, controller, crash>>

\* async_get_result; an exception is not caught in the detached thread.
GetResult(g) ==
  /\ Go(g, "getResult", "wait")
  /\ crash' = IF Known(g) THEN crash ELSE "earlyResult"
  /\ UNCHANGED <<shared, status, cancelLocals, controller, cancelSent>>

\* One turn of the 50 ms polling loop: the result, then the cancel flag.
Wait(g) ==
  /\ \/ res[g] = "none"     /\ Go(g, "wait", "poll")
     \/ res[g] = "OK"       /\ Go(g, "wait", "resetOk")
     \/ res[g] = "CANCELED" /\ Go(g, "wait", "unflag")
     \/ res[g] = "FAILED"   /\ Go(g, "wait", "failing")
  /\ Silent

Poll(g) ==
  /\ Go(g, "poll", IF fjtCancel THEN "reset" ELSE "wait")
  /\ Silent

\* Broken variant: the deadline is computed anew in every turn of the loop.
DeadlineRestarts(g) == ~fjtCancel /\ Go(g, "poll", "wait") /\ Silent

DeadlinePassed(g) == ~fjtCancel /\ Go(g, "poll", "failing") /\ Silent

ResetHandle(g) == Go(g, "reset", "unflag") /\ SetHandle(NoGoal) /\ Local

Unflag(g) == Go(g, "unflag", "canceled") /\ SetFjtCancel(FALSE) /\ Local

ResetHandleOk(g) == Go(g, "resetOk", "unflagOk") /\ SetHandle(NoGoal) /\ Local

UnflagOk(g) == Go(g, "unflagOk", "succeeding") /\ SetFjtCancel(FALSE) /\ Local

ExecuteStep(g) ==
  \/ ValidateFailed(g) \/ SetExecuting(g) \/ ServerUnavailable(g)
  \/ SendTrajectory(g) \/ GoalResponse(g) \/ ResponseTimeout(g)
  \/ StoreHandle(g) \/ CheckQueued(g) \/ ClearFlag(g) \/ ClaimCancel(g)
  \/ ForwardQueued(g) \/ GetResult(g) \/ Wait(g) \/ Poll(g)
  \/ DeadlinePassed(g) \/ ResetHandle(g) \/ Unflag(g)
  \/ ResetHandleOk(g) \/ UnflagOk(g)

-----------------------------------------------------------------------------
(* execute_move, after executeTrajectoryWithCollisionChecks returned.      *)

MarkCompleted(g) == Go(g, "succeeding", "reportSucceed") /\ SetState("COMPLETED") /\ Local

MarkCanceled(g) == Go(g, "canceled", "decide") /\ SetState("CANCELLED") /\ Local

\* Broken variant: the failure path forgets to leave EXECUTING.
MarkFailedSilently(g) == Go(g, "failing", "reportAbort") /\ Silent

MarkFailed(g) == Go(g, "failing", "reportAbort") /\ SetState("CANCELLED") /\ Local

\* Broken variant: CANCELED is reported without asking is_canceling().
DecideUnchecked(g) == Go(g, "decide", "reportCanceled") /\ Silent

DecideCanceled(g) ==
  /\ Go(g, "decide", IF status[g] = "CANCELING" THEN "reportCanceled" ELSE "reportAbort")
  /\ Silent

ReportSucceeded(g) == Go(g, "reportSucceed", "done") /\ Report(g, "SUCCEEDED")

ReportCanceled(g) == Go(g, "reportCanceled", "done") /\ Report(g, "CANCELED")

ReportAborted(g) == Go(g, "reportAbort", "done") /\ Report(g, "ABORTED")

FinishStep(g) ==
  \/ MarkCompleted(g) \/ MarkCanceled(g) \/ MarkFailed(g) \/ DecideCanceled(g)
  \/ ReportSucceeded(g) \/ ReportCanceled(g) \/ ReportAborted(g)

ExecStep(g) == PlanStep(g) \/ ExecuteStep(g) \/ FinishStep(g)

-----------------------------------------------------------------------------
(* handle_move_cancel.                                                     *)

CancelLocal == UNCHANGED <<status, epc, controller, crash>>

\* rclcpp selects goals that can still be canceled, then calls the handler.
EnterCancel(g) ==
  /\ status[g] = "EXECUTING"
  /\ Cardinality({h \in Goals : cpc[h] # "idle"}) < MaxCancels
  /\ CancelGo(g, "idle", "enter")
  /\ UNCHANGED <<shared, queue, copied, cancelSent>> /\ CancelLocal

\* The mutex is kept while sendControlledStop runs.
ReadState(g) ==
  /\ mutex = NoGoal
  /\ CancelGo(g, "enter", IF moveState = "EXECUTING" THEN "stopping" ELSE "store")
  /\ mutex' = IF moveState = "EXECUTING" THEN g ELSE NoGoal
  /\ queue' = [queue EXCEPT ![g] = TRUE]
  /\ UNCHANGED <<moveState, moveCancel, fjtCancel, handle, copied, cancelSent>>
  /\ CancelLocal

\* sendControlledStop: the controller accepts the stop goal, which preempts
\* what it is executing.
StopAccepted(g) ==
  /\ CancelGo(g, "stopping", "stopSent")
  /\ \E how \in {"aborted", "canceled"} :
        fjt' = [h \in Goals |-> IF fjt[h] = "active" THEN how ELSE fjt[h]]
  /\ UNCHANGED <<shared, status, epc, queue, copied, res, cancelSent, crash>>

\* NOT_REQUIRED lets the trajectory finish; STOP_SENT and FAILED queue the cancel.
QueueAfterStop(stop) == stop # "NOT_REQUIRED"

StopReturned(g) ==
  /\ \E stop \in IF cpc[g] = "stopping" THEN {"NOT_REQUIRED", "FAILED"}
                                        ELSE {"STOP_SENT", "FAILED"} :
        queue' = [queue EXCEPT ![g] = QueueAfterStop(stop)]
  /\ CancelGo(g, IF cpc[g] = "stopSent" THEN "stopSent" ELSE "stopping", "store")
  /\ mutex' = NoGoal
  /\ UNCHANGED <<moveState, moveCancel, fjtCancel, handle, copied, cancelSent>>
  /\ CancelLocal

\* Broken variant: the request is queued whatever the controlled stop said.
StoreCancelAlways(g) ==
  /\ CancelGo(g, "store", IF queue[g] THEN "copy" ELSE "drop")
  /\ moveCancel' = TRUE
  /\ UNCHANGED <<moveState, mutex, fjtCancel, handle, queue, copied, cancelSent>>
  /\ CancelLocal

StoreCancel(g) ==
  /\ CancelGo(g, "store", IF queue[g] THEN "copy" ELSE "drop")
  /\ moveCancel' = queue[g]
  /\ UNCHANGED <<moveState, mutex, fjtCancel, handle, queue, copied, cancelSent>>
  /\ CancelLocal

DropFlag(g) ==
  /\ CancelGo(g, "drop", "accept")
  /\ SetFjtCancel(FALSE)
  /\ UNCHANGED <<queue, copied, cancelSent>> /\ CancelLocal

CopyHandle(g) ==
  /\ mutex = NoGoal
  /\ CancelGo(g, "copy", IF handle # NoGoal THEN "cas" ELSE "accept")
  /\ copied' = [copied EXCEPT ![g] = handle]
  /\ UNCHANGED <<shared, queue, cancelSent>> /\ CancelLocal

CasFlag(g) ==
  /\ CancelGo(g, "cas", IF fjtCancel THEN "accept" ELSE "send")
  /\ SetFjtCancel(TRUE)
  /\ UNCHANGED <<queue, copied, cancelSent>> /\ CancelLocal

\* async_cancel_goal; an exception is caught and the flag stays set.
SendFjtCancel(g) ==
  /\ CancelGo(g, "send", "accept")
  /\ cancelSent' = IF Known(copied[g]) THEN cancelSent \cup {copied[g]} ELSE cancelSent
  /\ UNCHANGED <<shared, queue, copied>> /\ CancelLocal

\* The handler always returns ACCEPT; rclcpp then moves the goal to CANCELING,
\* or rejects the request when the goal has already ended.
AcceptCancel(g) ==
  /\ CancelGo(g, "accept", "done")
  /\ status' = [status EXCEPT ![g] = IF @ = "EXECUTING" THEN "CANCELING" ELSE @]
  /\ UNCHANGED <<shared, epc, queue, copied, controller, cancelSent, crash>>

CancelStep(g) ==
  \/ ReadState(g) \/ StopAccepted(g) \/ StopReturned(g) \/ StoreCancel(g)
  \/ DropFlag(g) \/ CopyHandle(g) \/ CasFlag(g) \/ SendFjtCancel(g) \/ AcceptCancel(g)

-----------------------------------------------------------------------------
(* The FollowJointTrajectory controller and the messages it sends.         *)

ControllerLocal == UNCHANGED <<shared, status, epc, cancelLocals, cancelSent, crash>>

\* The controller follows one trajectory at a time: a new one preempts it.
Accept(g) ==
  /\ fjt[g] = "sent"
  /\ \E how \in {"aborted", "canceled"} :
        fjt' = [h \in Goals |-> IF h = g THEN "active"
                                ELSE IF fjt[h] = "active" THEN how ELSE fjt[h]]
  /\ UNCHANGED res /\ ControllerLocal

Reject(g) ==
  /\ fjt[g] = "sent"
  /\ fjt' = [fjt EXCEPT ![g] = "rejected"]
  /\ UNCHANGED res /\ ControllerLocal

Finish(g) ==
  /\ fjt[g] = "active"
  /\ \E how \in {"succeeded", "aborted"} \cup (IF g \in cancelSent THEN {"canceled"} ELSE {}) :
        fjt' = [fjt EXCEPT ![g] = how]
  /\ UNCHANGED res /\ ControllerLocal

\* Broken variant: success is the absence of a collision, whatever the code.
OutcomesIgnoringCode(g) ==
  IF fjt[g] \in {"succeeded", "aborted"} THEN {"OK", "FAILED"}
  ELSE IF fjt[g] = "canceled" THEN {"CANCELED"} ELSE {}

\* The result callback counts SUCCEEDED as success only while no feedback
\* callback has flagged a collision on the remaining trajectory.
Outcomes(g) == IF fjt[g] = "canceled" THEN {"CANCELED"}
               ELSE IF fjt[g] = "succeeded" THEN {"OK", "FAILED"}
               ELSE IF fjt[g] = "aborted" THEN {"FAILED"} ELSE {}

\* The result arrives and the result callback runs.
DeliverResult(g) ==
  /\ Known(g)
  /\ \E r \in Outcomes(g) : res' = [res EXCEPT ![g] = r]
  /\ UNCHANGED fjt /\ ControllerLocal

ControllerStep(g) ==
  \/ Accept(g) \/ Reject(g) \/ Finish(g) \/ DeliverResult(g)

-----------------------------------------------------------------------------
Next ==
  /\ crash = "none"
  /\ \E g \in Goals : \/ AcceptStep(g) \/ EnterCancel(g) \/ ExecStep(g)
                      \/ CancelStep(g) \/ ControllerStep(g)

(* Threads run: the executor serves accepted requests, std::mutex is held   *)
(* for a bounded time (every wait in sendControlledStop has a timeout) and  *)
(* the polling loop has a steady-clock deadline.  Nothing is assumed of the *)
(* clients, the controller or the delivery of its messages.                 *)
Fairness ==
  \A g \in Goals :
    /\ WF_vars(crash = "none" /\ (ClearMoveCancel(g) \/ ClearFjtCancel(g)))
    /\ WF_vars(crash = "none" /\ ExecStep(g))
    /\ WF_vars(crash = "none" /\ CancelStep(g))
    /\ SF_vars(crash = "none" /\ DeadlinePassed(g))

Spec == Init /\ [][Next]_vars
FairSpec == Spec /\ Fairness

-----------------------------------------------------------------------------
(* Properties.                                                             *)

\* Every member and local keeps its type; in particular only existing FJT
\* goals are ever sent a cancel request.
TypeOK ==
  /\ moveState \in {"IDLE", "PLANNING", "EXECUTING", "COMPLETED", "CANCELLED"}
  /\ mutex \in Goals \cup {NoGoal}
  /\ moveCancel \in BOOLEAN
  /\ fjtCancel \in BOOLEAN
  /\ handle \in Goals \cup {NoGoal}
  /\ status \in [Goals -> {"NONE"} \cup Open \cup Terminal]
  /\ epc \in [Goals -> ExecPc]
  /\ cpc \in [Goals -> CancelPc]
  /\ queue \in [Goals -> BOOLEAN]
  /\ copied \in [Goals -> Goals \cup {NoGoal}]
  /\ fjt \in [Goals -> {"none", "sent", "rejected", "active", "succeeded", "aborted", "canceled"}]
  /\ cancelSent \in SUBSET Goals
  /\ res \in [Goals -> {"none", "OK", "CANCELED", "FAILED"}]
  /\ crash \in {"none", "badTransition", "earlyResult"}

\* The execution thread never asks rclcpp for a transition the goal cannot
\* take, whatever cancel requests arrive between its checks and its reports
\* (execute_move, "Only report CANCELED if the goal_handle is actually
\* canceling"): such a call would throw and end the process.
NoBadTransition == crash # "badTransition"

\* move_state_ is EXECUTING only while some execution thread is between the
\* critical section that set it and the one that leaves it, so a cancel
\* request never brakes the controller for a motion that is over.
NoPhantomExecuting == moveState = "EXECUTING" => \E g \in Goals : epc[g] \in Executing

\* A goal reported CANCELED leaves no trajectory running that was never asked
\* to stop ("Also propagate cancel to the underlying FollowJointTrajectory
\* goal if present", handle_move_cancel).
CanceledGoalIsStopped ==
  \A g \in Goals : status[g] = "CANCELED" /\ fjt[g] \in {"sent", "active"} => g \in cancelSent

\* A goal that fails after its trajectory was sent leaves its handle behind, and
\* its trajectory may still be accepted and preempt another one; a goal that is
\* canceled may leave its handle behind, and its cancel handler may outlive it.
Disturbing(h) == cpc[h] # "idle" \/ (status[h] = "ABORTED" /\ fjt[h] # "none")

Undisturbed(g) == \A h \in Goals \ {g} : ~Disturbing(h)

\* The same for a goal that no other goal disturbs, as long as goals do not
\* overlap: a cancel is then never lost or misdirected, however the accept
\* handler, the execution thread and the cancel handler interleave.
CancelReachesOwnTrajectory ==
  \A g \in Goals :
    Undisturbed(g) /\ status[g] = "CANCELED" /\ fjt[g] \in {"sent", "active"} => g \in cancelSent

\* The two sides of the hand-over of a cancel request (the handler publishes
\* move_cancel_requested_ then reads the FJT handle; the thread publishes the
\* handle then reads move_cancel_requested_) never both miss it: a thread in
\* its polling loop whose client's queued cancel was handled has forwarded it.
CancelForwarded ==
  \A g \in Goals :
    /\ Undisturbed(g)
    /\ cpc[g] = "done" /\ queue[g] /\ epc[g] \in {"wait", "poll"} /\ Known(g)
    => g \in cancelSent

\* A cancel request answered with NOT_REQUIRED lets the trajectory finish: it
\* is not canceled behind the stop's back and the goal does not end CANCELED.
NaturalFinish ==
  \A g \in Goals :
    Undisturbed(g) /\ cpc[g] \in {"drop", "accept", "done"} /\ ~queue[g]
      => g \notin cancelSent /\ status[g] # "CANCELED"

\* Every accepted goal gets a result, even if the controller never answers.
GoalTerminates ==
  \A g \in Goals :
    status[g] = "EXECUTING" ~> status[g] \in Terminal \/ crash # "none"

\* Per goal, the server does what GoalLifecycle promises.
MotionOf(f) == IF f = "none" THEN "none"
               ELSE IF f \in {"sent", "active"} THEN "commanded"
               ELSE IF f = "succeeded" THEN "reached" ELSE "stopped"

motion == [g \in Goals |-> MotionOf(fjt[g])]

Lifecycle == INSTANCE GoalLifecycle WITH status <- status, motion <- motion
ImplementsLifecycle == Lifecycle!GLSpec

-----------------------------------------------------------------------------
(* The inductive invariant behind the theorems.                            *)

Unaccepted == {"idle", "clearMove", "clearFjt"}
Ended == {"planCanceled", "done"}
Unsent == Unaccepted \cup {"start", "plan", "cancelPlanned", "planCanceled", "validate", "send"}

\* The client sees the status that the goal's thread has brought it to.
StatusFollowsThread ==
  \A g \in Goals :
    /\ epc[g] \in Unaccepted => status[g] = "NONE"
    /\ epc[g] \in Ended => status[g] \in Terminal
    /\ epc[g] \notin Unaccepted \cup Ended => status[g] \in Open
    /\ epc[g] \in {"cancelPlanned", "reportCanceled"} => status[g] = "CANCELING"

\* A trajectory is sent after validation, and success follows its end.
MotionFollowsThread ==
  \A g \in Goals :
    /\ epc[g] \in Unsent => fjt[g] = "none"
    /\ res[g] = "OK" => fjt[g] = "succeeded"
    /\ epc[g] \in {"resetOk", "unflagOk", "succeeding", "reportSucceed"} => res[g] = "OK"

\* Past the null check, a cancel handler holds the handle of some goal.
HandleCopied == \A g \in Goals : cpc[g] \in {"cas", "send"} => copied[g] \in Goals

PhaseInv ==
  /\ TypeOK
  /\ StatusFollowsThread
  /\ MotionFollowsThread
  /\ HandleCopied
  /\ NoBadTransition
  /\ NoPhantomExecuting

\* A cancel request follows acceptance and precedes CANCELING, and its handler
\* goes on with the cancel only if it is to be queued.
CancelFollowsRequest ==
  \A g \in Goals :
    /\ cpc[g] # "idle" => epc[g] \notin Unaccepted
    /\ status[g] \in {"CANCELING", "CANCELED"} => cpc[g] = "done"
    /\ epc[g] = "planCanceled" => status[g] = "CANCELED"
    /\ cpc[g] \in {"copy", "cas", "send"} => queue[g]
    /\ cpc[g] = "drop" => ~queue[g]

\* A result follows the end of its trajectory, and the handle that is stored is
\* that of a trajectory that was sent, for a goal that has not succeeded.
HandleFollowsMotion ==
  \A g \in Goals :
    /\ epc[g] \in {"response", "store"} => fjt[g] # "none"
    /\ res[g] # "none" => fjt[g] \in {"succeeded", "aborted", "canceled"}
    /\ res[g] = "CANCELED" => fjt[g] = "canceled"
    /\ status[g] = "SUCCEEDED" => fjt[g] = "succeeded"
    /\ handle = g => /\ fjt[g] # "none" /\ status[g] # "SUCCEEDED"
                     /\ epc[g] \notin {"unflagOk", "succeeding", "reportSucceed"}

Accepted == {g \in Goals : epc[g] # "idle"}

\* With MaxOpen = 1 every goal but one has ended.
OneAtATime ==
  /\ IsFiniteSet(Accepted)
  /\ \A g, h \in Accepted : g # h => status[g] \in Terminal \/ status[h] \in Terminal

\* The handler has published the cancel, or lets the trajectory finish; it did
\* so, or decides about it, in view of a motion.
Asking(g) == queue[g] /\ cpc[g] \in {"copy", "cas", "send", "accept", "done"}
LetsFinish(g) == ~queue[g] /\ cpc[g] \in {"store", "drop", "accept", "done"}
Braking(g) == cpc[g] \in {"stopping", "stopSent"} \/ LetsFinish(g)
Natural(g) == cpc[g] \in {"idle", "enter", "stopping"} \/ LetsFinish(g)

Stopped(g) == g \in cancelSent \/ ~Known(g)
Leaving == {"reset", "unflag", "canceled", "decide"}
Moved == Executing \cup {"decide", "reportCanceled", "reportAbort", "reportSucceed", "done"}

\* While a goal is open: the flags are those of its own request, the handle is
\* its own from when it is stored until the loop is left, whoever sets the flag sends
\* the cancel, and one of the two sides sees what the other has published.
HandOver(g) ==
  /\ epc[g] \in {"queued", "clear", "claim", "forward", "getResult", "wait", "poll"} => handle = g
  /\ cpc[g] \in {"cas", "send"} => copied[g] = g
  /\ fjtCancel => Stopped(g) \/ cpc[g] = "send" \/ epc[g] = "forward"
  /\ Asking(g) /\ cpc[g] \in {"accept", "done"} /\ epc[g] \in {"clear", "getResult", "wait", "poll"}
       => Stopped(g)
  /\ epc[g] \in Leaving => Stopped(g) \/ cpc[g] = "send"
  /\ epc[g] = "reportCanceled" => Stopped(g)

\* And nothing cancels it unless its own request is to be queued.
Unprovoked(g) ==
  /\ ~fjtCancel /\ fjt[g] # "canceled"
  /\ epc[g] \notin Leaving \cup {"claim", "forward", "reportCanceled"}

CancelInv(g) ==
  /\ status[g] \in Open \/ epc[g] = "clearFjt" => (moveCancel <=> Asking(g))
  /\ status[g] \in Open => HandOver(g) /\ (Natural(g) => Unprovoked(g))
  /\ Braking(g) => epc[g] \in Moved
  /\ Natural(g) => g \notin cancelSent /\ status[g] # "CANCELED"
  /\ status[g] = "CANCELED" => Stopped(g) \/ fjt[g] \notin {"sent", "active"}

\* What every step preserves: where each thread is, what its client sees and
\* what was commanded go together; and, when goals do not overlap, a cancel
\* request, the shared flags and the handle.
IInv == /\ PhaseInv
        /\ CancelFollowsRequest
        /\ HandleFollowsMotion
        /\ MaxOpen = 1 => /\ OneAtATime
                          /\ \A g \in Goals : Undisturbed(g) => CancelInv(g)
=============================================================================

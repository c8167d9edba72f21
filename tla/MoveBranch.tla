----------------------------- MODULE MoveBranch -----------------------------
(***************************************************************************)
(* The branch of the behaviour tree that executes a block of moves for one *)
(* robot, as buildMoveXML composes it: a Sequence of RetryPauseResetNodes, *)
(* each around one MoveManipulatorAction; together with the blackboard     *)
(* keys they share with the HMI and the MoveManipulator action server,     *)
(* which is taken to do what GoalLifecycle promises.                       *)
(*                                                                         *)
(* The process is one loop: executor.spin_some(), tree.tickRoot(), sleep.  *)
(* Callbacks (results, feedback, the HMI's service) run in the "spin"      *)
(* phase, never inside a tick; requests and answers travel between the two *)
(* processes at any time.  The members of a node that is not RUNNING are   *)
(* overwritten by its onStart() before they are read, so one set of them,  *)
(* that of the current move's node, is enough.                             *)
(***************************************************************************)
EXTENDS Integers, FiniteSets

CONSTANTS Goals,       \* the goals the branch can still send: a bound
          NoGoal,      \* no goal: goal_sent_ or result_received_ is false, ...
          NumMoves,    \* moves of the block
          MaxTries,    \* max_tries, -1 for no limit
          ResetTrajs,  \* reset_trajs, and so invalidate_traj_on_exec
          Patient,     \* START is pressed only when every goal has its result
          Collisions   \* feedback may report a collision ahead

ASSUME BranchAssumption ==
  /\ NoGoal \notin Goals
  /\ NumMoves \in Nat \ {0}
  /\ MaxTries \in Nat \cup {-1}
  /\ {ResetTrajs, Patient, Collisions} \subseteq BOOLEAN

VARIABLES
  stop, reset, collision,  \* <prefix>stop_execution, reset, collision_detected
  traj,      \* trajectory_<id>: the goal that executed it, NoGoal when empty
  cur,       \* the child the Sequence is at
  node,      \* status of that child's MoveManipulatorAction
  phase,     \* what the loop is doing
  sent,      \* goal_sent_, as the goal that was sent
  answer,    \* result_received_ and action_result_, as the goal it came from
  tries,     \* current_try_
  owner,     \* the move each goal was sent for, 0 when it was not sent
  heard,     \* goals whose result the client has received
  cancels,   \* cancel-all requests on their way to the server
  toCancel,  \* goals such a request selected and the server has yet to handle
  early,     \* history: the node was started before the last goal's result came
  status, motion  \* the server's side, as in GoalLifecycle

Server == INSTANCE GoalLifecycle WITH status <- status, motion <- motion

keys == <<stop, reset, collision>>
members == <<sent, answer, tries>>
wire == <<heard, cancels, toCancel>>
server == <<status, motion>>
vars == <<keys, traj, cur, node, phase, members, owner, wire, early, server>>

Moves == 1..NumMoves
Sent(g) == owner[g] # 0
CanSend == \E g \in Goals : ~Sent(g)
AllHeard == \A g \in Goals : Sent(g) => g \in heard

Init ==
  /\ stop = TRUE /\ reset = FALSE /\ collision = FALSE
  /\ traj = [m \in Moves |-> NoGoal]
  /\ cur = 1 /\ node = "IDLE" /\ phase = "spin"
  /\ sent = NoGoal /\ answer = NoGoal /\ tries = 0
  /\ owner = [g \in Goals |-> 0]
  /\ heard = {} /\ cancels = 0 /\ toCancel = {} /\ early = FALSE
  /\ Server!GLInit

-----------------------------------------------------------------------------
(* The tick.                                                               *)

TickLocal == UNCHANGED <<heard, toCancel, early, server>>

\* The bound on goals stops the loop where a goal would have to be sent.
BeginTick ==
  /\ phase = "spin"
  /\ stop \/ reset \/ collision \/ node # "RUNNING" \/ sent # NoGoal \/ CanSend
  /\ phase' = "tick"
  /\ UNCHANGED <<keys, traj, cur, node, members, owner, wire, early, server>>

Ticking == phase = "tick" /\ node \in {"IDLE", "RUNNING"}

\* Broken variant: a reported collision does not hold the child back.
ClearIgnoringCollision == ~reset /\ ~stop

Clear == ~reset /\ ~stop /\ ~collision

\* halt() of a RUNNING child: onHalted() asks the server to cancel whatever it
\* is doing if the goal is in progress, and drops the stored trajectory.
HaltChild ==
  /\ cancels' = IF node = "RUNNING" /\ sent # NoGoal /\ answer = NoGoal
                  THEN cancels + 1 ELSE cancels
  /\ traj' = IF node = "RUNNING" THEN [traj EXCEPT ![cur] = NoGoal] ELSE traj
  /\ sent' = NoGoal
  /\ answer' = NoGoal

\* onStart(): RetryPauseResetNode ticks its child only with the flags clear,
\* so its own checks of collision_detected and stop_execution pass.
OnStart ==
  /\ node' = "RUNNING"
  /\ sent' = NoGoal
  /\ answer' = NoGoal
  /\ tries' = 0

\* FAILURE goes up to the tree's retry node, which starts over from the first
\* move once the startup sequence has run again.
TickReset ==
  /\ Ticking /\ reset
  /\ reset' = FALSE
  /\ HaltChild
  /\ node' = "IDLE"
  /\ cur' = 1
  /\ phase' = "spin"
  /\ UNCHANGED <<stop, collision, tries, owner>> /\ TickLocal

TickPaused ==
  /\ Ticking /\ ~reset /\ stop
  /\ HaltChild
  /\ node' = "IDLE"
  /\ phase' = "spin"
  /\ UNCHANGED <<keys, cur, tries, owner>> /\ TickLocal

\* The child is halted "but keep going": it is started again in the same tick.
TickCollision ==
  /\ Ticking /\ ~reset /\ ~stop /\ collision
  /\ collision' = FALSE
  /\ HaltChild
  /\ OnStart
  /\ phase' = "spin"
  /\ early' = (early \/ ~AllHeard)
  /\ UNCHANGED <<stop, reset, cur, owner, heard, toCancel, server>>

TickStart ==
  /\ Ticking /\ Clear /\ node = "IDLE"
  /\ OnStart
  /\ phase' = "spin"
  /\ UNCHANGED <<keys, traj, cur, owner, cancels>> /\ TickLocal

\* Broken variant: goal_sent_ is never looked at.
SendAlways(s) ==
  s \in Goals /\ ~Sent(s) /\ owner' = [owner EXCEPT ![s] = cur]

\* onRunning() first sends a goal if none was sent, then looks at the result.
SendIfNone(s) ==
  IF sent # NoGoal THEN s = sent /\ UNCHANGED owner
  ELSE s \in Goals /\ ~Sent(s) /\ owner' = [owner EXCEPT ![s] = cur]

OnRunning ==
  /\ Ticking /\ Clear /\ node = "RUNNING"
  /\ UNCHANGED cancels /\ TickLocal

Failed == answer # NoGoal /\ status[answer] # "SUCCEEDED"

TickWait ==
  /\ OnRunning
  /\ answer = NoGoal
  /\ \E s \in Goals : SendIfNone(s) /\ sent' = s
  /\ phase' = "spin"
  /\ UNCHANGED <<keys, traj, cur, node, answer, tries>>

\* The decorator clears collision_detected and the Sequence goes on.
TickSuccess ==
  /\ OnRunning
  /\ answer # NoGoal /\ ~Failed
  /\ \E s \in Goals : SendIfNone(s) /\ sent' = s
  /\ traj' = [traj EXCEPT ![cur] = IF ResetTrajs THEN NoGoal ELSE answer]
  /\ node' = "SUCCESS"
  /\ collision' = FALSE
  /\ UNCHANGED <<stop, reset, cur, phase, answer, tries>>

\* The attempts are used up: FAILURE, and execution stops until START.
TickGiveUp ==
  /\ OnRunning
  /\ Failed
  /\ MaxTries # -1 /\ tries + 1 >= MaxTries
  /\ \E s \in Goals : SendIfNone(s)
  /\ traj' = [traj EXCEPT ![cur] = NoGoal]
  /\ tries' = tries + 1
  /\ stop' = TRUE
  /\ node' = "IDLE" /\ sent' = NoGoal /\ answer' = NoGoal
  /\ phase' = "spin"
  /\ UNCHANGED <<reset, collision, cur>>

\* Broken variant: goal_sent_ stays set.
RetryKeepsSent ==
  /\ OnRunning
  /\ Failed
  /\ MaxTries = -1 \/ tries + 1 < MaxTries
  /\ \E s \in Goals : SendIfNone(s) /\ sent' = s
  /\ traj' = [traj EXCEPT ![cur] = NoGoal]
  /\ tries' = tries + 1
  /\ answer' = NoGoal
  /\ phase' = "spin"
  /\ UNCHANGED <<keys, cur, node>>

TickRetry ==
  /\ OnRunning
  /\ Failed
  /\ MaxTries = -1 \/ tries + 1 < MaxTries
  /\ \E s \in Goals : SendIfNone(s)
  /\ traj' = [traj EXCEPT ![cur] = NoGoal]
  /\ tries' = tries + 1
  /\ sent' = NoGoal /\ answer' = NoGoal
  /\ phase' = "spin"
  /\ UNCHANGED <<keys, cur, node>>

\* Broken variant: the Sequence runs past its last child.
NextMovePastEnd ==
  /\ phase = "tick" /\ node = "SUCCESS"
  /\ cur' = cur + 1
  /\ node' = "IDLE" /\ sent' = NoGoal /\ answer' = NoGoal
  /\ UNCHANGED <<keys, traj, phase, tries, owner, cancels>> /\ TickLocal

\* The Sequence ticks the next child at once; after the last one come
\* ResetTrajectories, if asked for, and leaves that take at least a tick.
NextMove ==
  /\ phase = "tick" /\ node = "SUCCESS"
  /\ IF cur < NumMoves
       THEN cur' = cur + 1 /\ UNCHANGED <<traj, phase>>
       ELSE /\ cur' = 1 /\ phase' = "spin"
            /\ traj' = IF ResetTrajs THEN [m \in Moves |-> NoGoal] ELSE traj
  /\ node' = "IDLE" /\ sent' = NoGoal /\ answer' = NoGoal
  /\ UNCHANGED <<keys, tries, owner, cancels>> /\ TickLocal

Tick ==
  \/ BeginTick \/ TickReset \/ TickPaused \/ TickCollision \/ TickStart
  \/ TickWait \/ TickSuccess \/ TickGiveUp \/ TickRetry \/ NextMove

-----------------------------------------------------------------------------
(* Callbacks run by spin_some().                                           *)

CallbackLocal ==
  /\ phase = "spin"
  /\ UNCHANGED <<cur, node, phase, sent, tries, owner, cancels, toCancel, server>>

\* Broken variant: the trajectory is stored whatever the result code.
ResultStoresAlways(g) ==
  /\ CallbackLocal
  /\ status[g] \in Server!Terminal /\ g \notin heard
  /\ heard' = heard \cup {g}
  /\ traj' = [traj EXCEPT ![owner[g]] = g]
  /\ answer' = IF node = "RUNNING" /\ owner[g] = cur THEN g ELSE answer
  /\ UNCHANGED <<keys, early>>

\* resultCallback stores the trajectory or drops it, and the node that sent
\* the goal takes the result for that of the goal it is waiting for.
Result(g) ==
  /\ CallbackLocal
  /\ status[g] \in Server!Terminal /\ g \notin heard
  /\ heard' = heard \cup {g}
  /\ traj' = [traj EXCEPT ![owner[g]] = IF status[g] = "SUCCEEDED" THEN g ELSE NoGoal]
  /\ answer' = IF node = "RUNNING" /\ owner[g] = cur THEN g ELSE answer
  /\ UNCHANGED <<keys, early>>

\* feedbackCallback with in_collision; it arrives until the result does.
Feedback(g) ==
  /\ CallbackLocal
  /\ Collisions /\ motion[g] # "none" /\ g \notin heard
  /\ collision' = TRUE
  /\ UNCHANGED <<stop, reset, traj, answer, heard, early>>

PressStart ==
  /\ CallbackLocal
  /\ Patient => AllHeard
  /\ early' = (early \/ ~AllHeard)
  /\ stop' = FALSE
  /\ UNCHANGED <<reset, collision, traj, answer, heard>>

PressStop ==
  /\ CallbackLocal
  /\ stop' = TRUE
  /\ UNCHANGED <<reset, collision, traj, answer, heard, early>>

\* Both keys are in one request of update_blackboard.
PressReset ==
  /\ CallbackLocal
  /\ stop' = TRUE /\ reset' = TRUE
  /\ UNCHANGED <<collision, traj, answer, heard, early>>

Spin ==
  \/ PressStart \/ PressStop \/ PressReset
  \/ \E g \in Goals : Result(g) \/ Feedback(g)

-----------------------------------------------------------------------------
(* The action server, and the requests it receives.  Goal and cancel       *)
(* requests are different services: nothing orders one after the other.    *)

ClientLocal == UNCHANGED <<keys, traj, cur, node, phase, members, owner, heard, early>>

AcceptGoal(g) ==
  /\ Sent(g) /\ Server!AcceptGoal(g)
  /\ UNCHANGED <<cancels, toCancel>> /\ ClientLocal

ReceiveCancelAll ==
  /\ cancels > 0
  /\ cancels' = cancels - 1
  /\ toCancel' = toCancel \cup {g \in Goals : status[g] = "EXECUTING"}
  /\ UNCHANGED server /\ ClientLocal

HandleCancel(g) ==
  /\ g \in toCancel
  /\ toCancel' = toCancel \ {g}
  /\ Server!GrantCancel(g) \/ (status[g] # "EXECUTING" /\ UNCHANGED server)
  /\ UNCHANGED cancels /\ ClientLocal

Execute(g) ==
  /\ \/ Server!Command(g) \/ Server!Reach(g) \/ Server!Stop({g})
  /\ UNCHANGED <<cancels, toCancel>> /\ ClientLocal

EndGoal(g) ==
  /\ Server!Cancel(g) \/ Server!Succeed(g) \/ Server!Abort(g)
  /\ UNCHANGED <<cancels, toCancel>> /\ ClientLocal

Serve ==
  \/ ReceiveCancelAll
  \/ \E g \in Goals : AcceptGoal(g) \/ HandleCancel(g) \/ Execute(g) \/ EndGoal(g)

-----------------------------------------------------------------------------
Next == Tick \/ Spin \/ Serve
Spec == Init /\ [][Next]_vars

(* The loop runs at 100 Hz, requests and results are delivered, and a goal  *)
(* that was accepted ends (GoalTerminates of MoveActionServer).             *)
Fairness ==
  /\ WF_vars(Tick)
  /\ \A g \in Goals : SF_vars(Result(g)) /\ WF_vars(AcceptGoal(g)) /\ WF_vars(EndGoal(g))

FairSpec == Spec /\ Fairness

-----------------------------------------------------------------------------
(* Properties.                                                             *)

\* Every key, member and message keeps its type.
TypeOK ==
  /\ stop \in BOOLEAN /\ reset \in BOOLEAN /\ collision \in BOOLEAN
  /\ traj \in [Moves -> Goals \cup {NoGoal}]
  /\ cur \in Moves
  /\ node \in {"IDLE", "RUNNING", "SUCCESS"}
  /\ phase \in {"spin", "tick"}
  /\ sent \in Goals \cup {NoGoal}
  /\ answer \in Goals \cup {NoGoal}
  /\ tries \in Nat
  /\ owner \in [Goals -> Moves \cup {0}]
  /\ heard \subseteq Goals
  /\ cancels \in Nat
  /\ toCancel \subseteq Goals
  /\ early \in BOOLEAN
  /\ Server!GLTypeOK

\* A trajectory stored for a move, which the next goal of that move offers for
\* re-execution, was executed to its end by a goal of that same move, however
\* late, or in whatever order, the results of its goals arrive.
StoredTrajectoryWasExecuted ==
  \A m \in Moves : traj[m] # NoGoal =>
    owner[traj[m]] = m /\ motion[traj[m]] = "reached" /\ status[traj[m]] = "SUCCEEDED"

\* No goal is sent in a tick that finds execution stopped, a reset requested
\* or a collision reported, whichever of them arrived since the last tick.
HeldWhilePaused == [][owner' # owner => ~stop /\ ~reset /\ ~collision]_vars

\* The server has at most one goal of the branch to work on at a time.
OneGoalAtATime ==
  \A g, h \in Goals :
    /\ Sent(g) /\ status[g] \notin Server!Terminal
    /\ Sent(h) /\ status[h] \notin Server!Terminal
    => g = h

\* A move succeeds only if the goal it sent last has succeeded.
SuccessIsOwn == node = "SUCCESS" => sent # NoGoal /\ status[sent] = "SUCCEEDED"

\* Both hold, whatever the operator, the server and the network do, as long as
\* no node is started before the result of every earlier goal has arrived, as a
\* collision (TickCollision) and a quick STOP and START do start it: the
\* retries within a move, and the hand-over from one move to the next, never
\* put two goals before the server or take one goal's result for another's.
OrderlyBranch == ~early => OneGoalAtATime /\ SuccessIsOwn

\* A started move does not wait for ever: it succeeds, fails or is halted
\* (unless the model has run out of goals to send).
MoveConcludes == node = "RUNNING" ~> (node # "RUNNING" \/ ~CanSend)

-----------------------------------------------------------------------------
(* The inductive invariant behind the theorems.                            *)

\* The result a node holds is that of a goal of its own move.
AnswerIsOfThisMove == answer # NoGoal => owner[answer] = cur

\* The server knows only goals the branch has sent.
AcceptedWasSent == \A g \in Goals : status[g] # "NONE" => Sent(g)

\* The server reports success for trajectories that reached their end.
SuccessWasReached == \A g \in Goals : status[g] = "SUCCEEDED" => motion[g] = "reached"

\* What every step preserves: results, goals and moves go together.
BranchInv ==
  /\ TypeOK
  /\ AnswerIsOfThisMove
  /\ AcceptedWasSent
  /\ SuccessWasReached
  /\ StoredTrajectoryWasExecuted

\* A goal whose result has arrived has ended.
HeardHasEnded == \A g \in Goals : g \in heard => status[g] \in Server!Terminal

Outstanding(g) == Sent(g) /\ g \notin heard

\* While nothing was started early, at most one result is outstanding, and it
\* is that of the running node or of a node halted until START.
OneOutstanding ==
  /\ \A g, h \in Goals : Outstanding(g) /\ Outstanding(h) => g = h
  /\ \A g \in Goals : Outstanding(g) =>
       \/ node = "RUNNING" /\ sent = g /\ answer = NoGoal
       \/ node = "IDLE" /\ stop
  /\ reset /\ ~stop => AllHeard
  /\ answer # NoGoal => answer = sent
  /\ SuccessIsOwn

\* What every step preserves, and OrderlyBranch follows from.
OrderlyInv == BranchInv /\ HeardHasEnded /\ (~early => OneOutstanding)
=============================================================================

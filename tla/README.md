# A TLA+ verification project for ManyMove

ManyMove is a ROS 2 framework for one or more manipulators. Behaviour trees
(`manymove_cpp_trees`) sequence moves, grippers, signals and objects; an action
server (`manymove_planner`) plans each move with MoveIt and executes it through
a `FollowJointTrajectory` controller; an object manager keeps MoveIt's planning
scene up to date; an operator starts, stops and resets everything from an HMI.
This directory holds TLA+ models of its control logic, the TLC runs that check
them and TLAPS proofs of what matters most. `PROJECT.json` says which lines each
definition models, which run checks which property, and where each hazard is.

## 1. Inventory

| Part | State it keeps | Operations | Talks to | What must be right |
|---|---|---|---|---|
| `ManipulatorActionServer`, MoveManipulator (`action_server.cpp`) | `move_state_`, `move_cancel_requested_`, `fjt_cancel_requested_`, `executing_fjt_goal_handle_` shared by all goals; one detached thread per goal | accept, cancel, plan, execute, report | planner, controller, clients | a cancel is never lost; statuses stay legal; every goal ends; what is reported is what the robot did |
| the same, watching a trajectory | `collision_detected` and the clock of one execution | feedback and result callbacks | planning scene, controller, client | no collision ahead is missed, none behind is reported, no success after a warning |
| the same, load and unload of controllers | a chain of asynchronous service calls per goal | deactivate, unload, load, configure, activate | `controller_manager` | every goal ends, and a success leaves the controller in the state it names |
| `MoveGroupPlanner`, `MoveItCppPlanner` | current joint positions | plan and pick a candidate, time-parameterise, align, validate, controlled stop | MoveIt, controller | validity checks test what they claim |
| `MoveManipulatorAction`, `ResetTrajectories` (`action_nodes_planner.cpp`) | `goal_sent_`, `result_received_`, `action_result_`, `current_try_`; `trajectory_<id>` on the blackboard | onStart, onRunning, onHalted, three callbacks | action server, blackboard | one goal at a time; its own result; only executed trajectories are offered again |
| `RetryPauseResetNode` (`action_nodes_logic.cpp`) | none: it reads `stop_execution`, `reset`, `collision_detected` | tick, halt | its child, blackboard | nothing moves while execution is held |
| signal, object, gripper and Isaac nodes, key waits | sent and received flags, poll times, the last result | one request each, or polling | vendor, object manager, gripper and simulator servers | a late answer is not taken for the next request's; success rests on an answer; waits end |
| `ResetRobotStateAction` (`action_nodes_signals.cpp`) | the flags of three clients | unload, reset, load in turn | load and unload servers, vendor | the robot is reset without its controller; success leaves it active |
| object manager (`object_manager_node.cpp`) | `planning_scene_ready_`, the retry timer | add, remove, attach, detach, check, pose; verify up to `max_retries` times | planning scene service and two topics | a reported success is true of the scene; no object is in two places; every goal is answered |
| tree helper, client applications (`tree_helper.cpp`, `bt_client_*.cpp`) | the tree, the keys of the blackboard | start-up, then cycles of one or two robots, in parallel | all the leaves | the start-up repairs what any failure left; two robots do not meet in the handover (they may, by an old key: finding 4); the cycle goes on |
| `HMIServiceNode`, `Ros2Worker`, windows (`hmi_service_node.cpp`, `ros2_worker.cpp`, `app_module.cpp`, `hmi_gui.cpp`) | the blackboard; current, typed and edited value of each field; the switch | SEND, the switch, START, STOP, RESET, periodic status | each other | numbers within limits; a recipe is applied as a whole, never while the cycle is on; the panel shows the blackboard |
| collision spawner, messages, bring-up | configuration | | | |

How they interact: the process of a `bt_client` is one loop, `spin_some()`, `tickRoot()`,
`sleep()` at 100 Hz, so its callbacks never run inside a tick; it talks to the
servers by asynchronous action calls. The move server uses a multi-threaded executor
*and* a detached thread per goal, so accept, cancel, execution and the
controller's callbacks all interleave on the shared members. The object manager
serves one goal at a time, but its timer runs on another thread and MoveIt takes its
messages whenever it likes. The operator's panel runs in a process of its own: all it
knows of the blackboard is a status message, all it can do are calls that may time out.

What is hard to test, therefore: the hand-over of a cancel between two threads
(`action_server.cpp:990` against `:242`), reports that race a cancel (`:391`), a
handle or a phase left by an earlier goal (`:209`, `:242`), the mutex that is
held during a controlled stop of several seconds (`:193`), results that arrive after
the node that asked for them was halted (`action_nodes_planner.cpp:299`,
`action_nodes_signals.cpp:184`, `:678`), flags that change between two ticks
(`action_nodes_logic.cpp:66`), clocks that do not agree with the robot
(`action_server.cpp:933`), questions that go unanswered and messages that take effect
after their goal was given up (`object_manager_node.cpp:1017`, `:437`), a tree that is
started over from anywhere (`bt_client_app_dual.cpp:799`), and edits that meet an old
status (`app_module.cpp:449`). `PROJECT.json` lists all of them.

## 2. Modules

    GoalLifecycle              what the server promises for each goal
       ^ implemented by                 ^ assumed by
    MoveActionServer                 MoveBranch             CollisionMonitor
       ^ EXTENDS                        ^                      ^
    MoveActionServerProofs           MoveBranchProofs       CollisionMonitorProofs

    ControllerSwitch           LeafNodes            PlanningScene
       ^ EXTENDS                  ^                    ^              ^
    RobotReset                 LeafNodesProofs      SceneRequests <- ObjectManager
       ^                                               implements     ^
    RobotResetProofs                                            ObjectManagerProofs

    ApplicationTrees <- Application                 OperatorPanel
                           ^ EXTENDS                   ^ EXTENDS
                        ApplicationProofs           OperatorPanelProofs

    MC<module> gives a module its instances for TLC.

**GoalLifecycle** is the interface between the two processes: per goal a status (as
`rclcpp_action` shows it) and what became of the trajectory that was commanded
for it. A trajectory is commanded once and only while the goal is open; success
needs a trajectory that reached its end; CANCELED needs a granted cancel request.

**MoveActionServer** models `handle_move_goal`, `handle_move_accepted`,
`handle_move_cancel`, `execute_move` and `executeTrajectoryWithCollisionChecks`.
Every member is a variable under its own name; `epc` and `cpc` are the program
counters of a goal's execution thread and cancel handler, `queue` and `copied`
the handler's locals. A step is one access to shared state: a critical section
of `move_state_mutex_`, a read, store or compare-exchange of an atomic, or one call
of the planner, the controller or the goal handle. `mutex` is explicit only where the
lock outlives a step: during `sendControlledStop`. `fjt` and `res` are the
controller's side: it runs one trajectory at a time, a new one preempts the old,
and results reach the callback at any later time. `crash` records calls that
throw in the detached thread, where nothing catches.

**MoveBranch** models the branch that `buildMoveXML` composes: a Sequence of
`RetryPauseResetNode`s, each around one `MoveManipulatorAction`. `phase` is the
loop (callbacks only while "spin", one pass over the tree while "tick"); `sent`
and `answer` are `goal_sent_` and `result_received_`, remembering which goal they are
about, which the code does not; `traj` are the `trajectory_<id>` keys, a
trajectory being represented by the goal that executed it. `cancels` and `toCancel`
are the `async_cancel_all_goals` requests in flight and the goals the server
selected for them; a goal request and a cancel request may overtake each
other. The server is `GoalLifecycle`. START, STOP and RESET arrive through
`update_blackboard`, each as one request. One set of node members is enough: only
the Sequence's current child can be RUNNING, and `onStart()` overwrites the rest.
`early` remembers that a node was started before the last result had come.

**CollisionMonitor** models the two callbacks of one execution, and
`isTrajectoryValid` of both planners as the set of points they ask the planning
scene about. `elapsed` is the node's clock since `start_time`, `at` how far the
robot has come; `blocked` changes at will. `published` is the last feedback with what it
was computed from.

**LeafNodes** is the one state machine that sixteen leaf nodes share, in
`action_nodes_signals.cpp`, `_objects.cpp`, `_gripper.cpp`, `_isaac.cpp` and the key waits
of `_logic.cpp`: start, tick, halt, and the callbacks of a goal. What they decide
differently is the record `kind`: whether the server is looked for in the constructor, at
the start or in every tick, what a rejection leaves behind, which result codes are
believed, whether the node polls, and up to when. Like in MoveBranch, `sent` and
`answer` remember a request where the code has a flag.

**ControllerSwitch** models the load and unload servers: per goal the step of its chain
of `controller_manager` calls, and the controller's state. **RobotReset** adds
`ResetRobotStateAction`, which drives them and the vendor's reset server; its five flags
keep their names. A slot of `goal` is used again once the node has heard the result.

**PlanningScene** is MoveIt's scene as the manager uses it (external), the requests
and what a client takes a success to mean. **ObjectManager** models the five action
servers. `step` names the next question of the goal being served; every question is
answered truly, or goes unanswered, and then counts as "no" and leaves the timer set. `watching` is where
the callback of that timer stands, on a thread of its own: it finds the service or misses it, stores that it missed it
(by which time a goal may have found the service and cancelled the timer: `overtaken`), and waits one more second.
The two topics are queues that `move_group` empties in either order, and loses with
the scene when it goes down. `blind` and `doubt` remember, for the properties only, that a
decision was made without an answer and which objects that may concern.
**SceneRequests** is the abstract specification: refuse, accept, take effect, answer.

**ApplicationTrees** writes the tree of every client as data: stages, branches,
leaves, in the order the helper functions compose them; wrappers (Retry, Fallback with
AlwaysSuccess, Parallel) are part of the leaf or of the engine. **Application** is the
engine: the leaves of two branches conclude in any order, each may fail, and a
failure or a RESET starts the tree again. `world` has the place of each object, the
grippers, where each robot was sent, and the keys. `fresh` and `misled` are history,
for the properties only: no detach or removal was given up since the last start-up, and robot 2 has acted since then
on a `robot_1_in_working_position_key` left over from before it. `TreesAssumption` says what the proofs need of
the trees; it contains no constant, and TLC evaluates it.

**OperatorPanel** models `AppModule` (current, override and edited value of a field, the
switch, the computed keys, when SEND is enabled), the buttons of `HmiGui`, the calls of
`Ros2Worker` and `HMIServiceNode`'s update and status. Two typed keys and one key
computed from both stand for all of them.

## 3. Runs

| Run | Instance | Checks | Shows |
|---|---|---|---|
| `move_sequential` | two goals, one open at a time, one cancel each, fair | NoBadTransition, NoPhantomExecuting, IInv, CancelReachesOwnTrajectory, CancelForwarded, NaturalFinish, GoalTerminates, ImplementsLifecycle | no interleaving of the threads loses a cancel or sends it to a stranger's trajectory, unless an earlier goal was aborted; a cancel that needs no stop does not cancel; each goal gets a result; the server refines GoalLifecycle |
| `move_stale_handle` | the same | CanceledGoalIsStopped: **violated** | finding 1 |
| `branch_interrupted` | two moves, two goals, two attempts, any operator, collisions, fair | StoredTrajectoryWasExecuted, BranchInv, OrderlyBranch, HeldWhilePaused, MoveConcludes | late results never leave an unexecuted trajectory stored; no goal is sent while held; goals do not cross unless a node was started early; no combination of flags leaves a move waiting for a result that has come |
| `branch_stale_result` | impatient operator | SuccessIsOwn: **violated** | finding 2 |
| `monitor_moveit_cpp` | MoveItCppPlanner, four points at 0, 2, 3, 4, lag up to 2, any scene changes, empty feedback | QuietMeansClear, WarnedNeverSucceeds, MonitorInv, AlarmIsAhead | the remaining part is found exactly, and all of it is checked; warnings are final |
| `leaf_nodes` | every kind of leaf, two request slots, one cancel under way, fair | LeafInv, SuccessHasGrounds, OneRequest, NodeConcludes | success rests on an answer of the same run; one request at a time; what may not wait for ever ends, except an Isaac node that found no service (section 4) |
| `robot_reset` | three goal slots, fair | ResetInv, ResetWithoutController, SuccessIsActive, JobsEnd, WaitsOnlyForFailures | no reset under a loaded controller, even after halts; success leaves it active; only a failed unload or load keeps the node RUNNING |
| `object_manager` | one object, two links, three goals of any kind, two attempts, one slow answer, one outage, fair | ManagerInv, NoDuplicate, SuccessMeansDone, Answered, KeepsPromise | a success is true of the scene, no object is in two places, every goal is answered as long as the process runs, the manager refines SceneRequests |
| `manager_return` | the same, nothing slow, no outage but `move_group` starts late; fair | ResumesOperations: **violated** | finding 3 |
| `applications` | every client's tree, four failures or RESETs, fair | AppInv, MovesWhatItHolds, CycleSucceeds, HandoverIsSafe, KeepsWorking | from whatever failures leave behind the start-up makes a cycle that works, and robots in a handover do not meet, both unless robot 2 acted on an old key; the giver never lets go too early, even then |
| `handover_old_key` | the same, one failure or RESET | OneInWorkingPosition: **violated** | finding 4 |
| `operator_panel` | two numbers within the limits, one outside; two clicks, one of them maybe a lost call or a restart; fair | PanelInv, RecipeAgrees, RecipeHeldWhileCycling, PanelCatchesUp | nothing typed outside the limits is applied, nor anything computed outside them if the operator waits for a status, when computed and typed keys agree, too; the recipe holds while the cycle is on unless a call was lost; the fields (not the switch) catch up with the blackboard |

Type invariants are conjuncts of IInv, BranchInv, MonitorInv, LeafInv, ResetInv,
ManagerInv, PanelInv and AppInv.

Bounds. A move goal is sent at most once, so the number of goals bounds a
behaviour: two are what it takes for one to find what another left behind, and for
a halt and a restart. In MoveBranch two moves show what crosses from one to the next.
`CanSend` is part of `MoveConcludes`, `NodeConcludes` and `WaitsOnlyForFailures` because the
model, not the program, runs out of goals or slots. In LeafNodes and RobotReset slots
are used again, so behaviours are unbounded: two requests let a late answer meet the
next run, and three jobs fill a run of the reset node plus what a halted one left.
Four points of a trajectory, two of them adjacent, contain an erased prefix, a
boundary hit by the clock exactly, and a rest. One object suffices for the manager, whose
decisions never relate two; three goals let a late message of the first meet the
success of the second and the look of the third; the third may also be a request that
leaves the scene alone. The first is one that
changes the scene, on link `l1`: the two links are alike. Four faults reach the start-up again while it repairs what an earlier one
left. On the panel two clicks are a SEND and one more SEND, switch, button or
loss; typing and statuses are not bounded.

Symmetry is used only in `branch_stale_result`, which checks no liveness. Deadlock checking is
off where the model comes to rest: goals used up, the execution over, the process
gone, or (applications) a branch waits for the other's object after a detach was given up;
it is on for the two branch runs, leaf_nodes, robot_reset and operator_panel.

Fairness. `move_sequential`: threads keep running, and the deadline of the polling
loop, a steady clock, passes eventually (strong fairness, because the loop
alternates between two places). Nothing is assumed of the clients, of the
controller or of its messages: `GoalTerminates` holds even if it never answers.
`branch_interrupted`: the loop ticks, goal requests are delivered, goals end (which
`GoalTerminates` establishes), and results are handled in some later "spin"
(strong fairness, because ticks interrupt it). `leaf_nodes`: ticks, timers, and requests
that reach a server are answered; servers need not be up. `robot_reset`: ticks, and
`controller_manager` answers each call, well or not. `object_manager`: the executor
serves goals and the timer; `move_group` owes nothing. `applications`: a leaf that
can conclude does, or fails of itself; faults and RESETs are never fair.
`operator_panel`: the executor serves calls and its timer, the GUI its event queue; clicking
and typing are never fair.

## 4. Findings

1. `move_stale_handle`: `executing_fjt_goal_handle_` is not reset on the failure
   and timeout exits. A cancel of the *next* goal, arriving before it stores its
   own handle, claims `fjt_cancel_requested_` for the stale one; the goal ends CANCELED
   while its own trajectory was never asked to stop. The handle is stale after an ordinary
   successful cancel, too: that exit (`action_server.cpp:1042`) does not reset it either, so
   two canceled goals in a row are enough, without any failure (`Disturbing`).
2. `branch_stale_result`: the result callback does not look at which goal the
   result belongs to; after a quick STOP and START the late success of the halted goal
   makes the new attempt succeed at once while its goal is still running. A collision goes the
   same way without any operator: the child is halted, which only posts a cancel
   (`action_nodes_planner.cpp:263`), and restarted in the same tick, so the next goal is sent
   while the previous one may still be moving or stopping, although the port is described as
   "Stops current move when true, then retries planning" (`action_nodes_logic.hpp:66`).
3. `manager_return`: when `move_group` comes up after the manager, the retry timer's callback
   calls `spin_some()` on a node that is in an executor already (`object_manager_node.cpp:247`, from `:344`),
   which throws and ends the process: none of its goals is answered. The log of `:339` says
   "Resuming operations", that of `:84` "Retrying periodically in the background", and
   `QUALITY_DECLARATION.md:83` of the package "Node retries service connections and handles
   `ServiceNotAvailable` conditions".
4. `handover_old_key`: `robot_1_in_working_position_key` is set to false once, before the tree of
   `bt_client_app_dual` is built (`:556`), and by robot 1 after its first move; the start-up (`:799`) leaves it
   alone. After one RESET during the handover robot 2 takes the old key for the new run's: robot 1 moves to
   drop while robot 2 moves to insert, which the waits ("to wait for the robots to be in position, or outside the
   working zone", `:550`, `:561`) are there to prevent. Robot 2 may also look for the tube before it
   is there, which forces the start-up again, or take the renamed tube away before robot 1 has seen it;
   and the two may wait for each other for ever, with no RESET heard in these waits.

The code disagrees with the repository's own text in other places, too. They have no run of their
own; where a property meets one, its comment names the exception:

- `MoveGroupPlanner::isTrajectoryValid` computes the remaining part and then hands the whole trajectory to
  `isPathValid` (`move_group_planner.cpp:1090`, `:1099`), so an obstacle behind the robot stops it; the comment at
  `:1035` says "If (time_from_start > 0) only check the trajectory after that time from start". `CheckedAll` is
  that planner's check: put in the place of MoveItCppPlanner's it violates AlarmIsAhead, which `AlarmIsAhead` and
  the theorem `AlarmsAreAhead` therefore claim for MoveItCppPlanner only.
- The Isaac nodes: "If service not up yet, keep trying (node will be ticked again)" (`action_nodes_isaac.cpp:101`)
  and "If the service is not available yet, the node keeps returning RUNNING" (`action_nodes_isaac.hpp:79`, `:142`).
  It does so once; nothing was sent, and the next tick fails (`action_nodes_isaac.cpp:121`, `:228`). NodeConcludes
  does not take that failure for an end that is wanted (`KeepsTrying`).
- `ResetRobotStateAction` has a port "True if robot reset is successful" (`action_nodes_signals.hpp:217`), which it
  sets to true after a reset that was rejected or failed as well (`action_nodes_signals.cpp:602`); and it waits
  for ever after an unload or load that failed, where `QUALITY_DECLARATION.md:77` of `manymove_cpp_trees` says "Asynchronous
  operations use timeouts and check action server availability". WaitsOnlyForFailures states exactly that.

Modelled as the code has it, and no text found that says otherwise:

- `handle_move_goal` clears the shared cancel flags whenever another goal arrives, so with
  overlapping goals a cancel can be forgotten. The behaviour trees send overlapping
  goals to one server only as in finding 2.
- `GripperCommandAction` never clears `action_result_`: a rejection after an earlier success
  counts as success. A wait for absence takes a failed check for "does not exist".
- In the object manager an `optional` is dereferenced when the link of an attached object cannot
  be read, which ends the process (`alive`). The retry timer's callback checks the service and stores that it is
  gone in two steps; a goal that finds it in between cancels the timer, and the store then
  leaves "not ready" behind with no timer, until the next goal reads (`overtaken`).
- Detach and removal are wrapped so as never to fail: one that is given up leaves an object the
  other robot waits for (`fresh`). The second stage of the start-up of `bt_client_app_dual` sends both robots to rest in
  parallel, from wherever a RESET has caught them; HandoverIsSafe speaks of the cycle only.
- In `bt_client_foundationpose` the robot may attach an object that was announced and not
  yet added (excepted in CycleSucceeds).
- On the panel: `editableValues_` outlives a SEND and a restart, a computed label keeps what an
  erased edit left in it while other numbers are unknown, a lost call of a computed key leaves
  the blackboard inconsistent (the "hasty" of PanelInv and RecipeAgrees); the switch shows what was clicked
  last, whatever the blackboard says; STOP is disabled until a status says that it is running.

## 5. Proofs

All proofs hold for every value of the constants that satisfies the named
assumptions (`ConstantsAssumption`, `BranchAssumption`, `MonitorAssumption`, `LeafAssumption`,
`ManagerAssumption`, `NowhereAssumption`, `MaxFaultsAssumption`), and for all clients of
`TreeOf`. `TreesAssumption` is a closed formula about the trees, evaluated by TLC in the run.

*MoveActionServerProofs.* `PhaseInv` joins four relations that no single property contains: the
client's status follows the thread's program counter, what was commanded and reported
follows it too, a cancel handler past its null check holds a real handle, and
`move_state_` is EXECUTING only while some thread owns it. NoBadTransition needs
the first: at `reportCanceled` the goal *is* CANCELING, and no other
thread can take it out of that status. There is one step per action;
`PhasesInvariance` gives `TypeCorrect`, `ReportsAreLegal` and `ExecutingIsOwned`.
`Refinement` then shows every step to be a step of GoalLifecycle or a stutter;
`MotionFollowsThread` supplies the guards of Command (nothing was commanded before) and
Succeed (the trajectory reached its end). These theorems hold for overlapping goals, too.

The second half of the module is the hand-over of a cancel: the thread stores its handle and then
looks at the flag (`:1006`), the handler sets the flag and then looks at the handle (`:242`),
each in a step of its own, so that whoever comes second sees the other. `IInv` adds to
`PhaseInv` what holds of a goal that no other goal disturbs (`Undisturbed`: no other goal was
canceled, or aborted after its motion began, and could have left its handle behind): its flags and
handle are its own (CancelInv), a cancel handler is under way only after a request, and the
handle outlives no motion that ended well. The proof has
three parts. `Irreversible`: no step takes back what a goal has done. `HandleGoalAlone`
and `Kept`: with `MaxOpen = 1` goals do not overlap, and what a thread of an earlier goal still
does leaves the flags, the handle and the trajectory of an undisturbed goal alone. `HandOver` and
`Unprovoked`: the goal's own steps. `CancelArrives`, `CancelIsForwarded` and
`FinishesNaturally` then hold for any number of goals and cancel requests under
`MaxOpen = 1`, which is a client that waits for a result before it sends the next goal;
without it they are false (section 4), because `handle_move_goal` clears the flags of a goal
that is still running.

*MoveBranchProofs.* `BranchInv` says that an answer belongs to the current move, that the server
knows only goals that were sent, and that SUCCEEDED means the end was reached; from it
`StoredIsExecuted` follows for any order of late results. `OrderlyInv` adds what holds as long as
no node was started early: at most one result is outstanding, and what the node waits for
or has in hand is that goal's; `Orderly` follows. `Held` needs no invariant: only four actions send a goal,
and all of them are guarded by the three flags.

*CollisionMonitorProofs.* `TailIsLater` shows that erasing up to the first later point keeps
exactly the later points, whatever the times, since they do not decrease; `LaterIsChecked` and
`CheckedIsLater` draw from it what each planner covers. `NothingMissed`,
`WarningIsFinal` and, for MoveItCppPlanner, `AlarmsAreAhead` follow.

*LeafNodesProofs.* `LeafInv` says of a run that was not begun early that what is under way is
the request the node has sent, or nothing once its answer is in hand, and that an answer
that would end the run well is one the properties allow. `SuccessIsGrounded` and
`OneRequestOfAClient` are read off it, for every kind and number of requests.

*RobotResetProofs.* `ResetInv` places the controller at every step of a chain that has it to
itself (`ChainInv`), orders the five flags (`FlagsInv`) and ties both to the job under way (`RunInv`);
it gives `SuccessLeavesActive` and `JobsInTurn`. Its part `OneKeeper` needs no such premise: from
the deactivation of the controller to its activation one job, or the node between two jobs, keeps
it, also across halts and restarts, and only the keeper, or the next deactivation, moves it.
`ResetApart` follows: the reset is a keeper, and finds the controller unloaded.

*ObjectManagerProofs.* NoDuplicate is not inductive: an addition on its way would violate it later.
`SceneInv` adds that the object of an addition that was decided, or sent, by the goal being
served is not on the robot unless it is in doubt (AddedIsLoose); that needs to know that
a message was asked for by its goal, that no request both adds and attaches
(`OperationsOfAKind`), and that one goal is served at a time. `GoesOn`, `Answers`,
`Publishes`, `LooksAgain` and `Crashes` are the shapes that steps have; every action is an
instance of them. `ManagerInv` adds that what the goal has seen of its object still holds when it
acts on it (SeenStillHolds): only the goal's own messages, which cannot undo what it looked for,
and an outage, which empties the scene, move an object that is not in doubt. `NeverInTwoPlaces`
follows, `ReportedIsDone` (SuccessMeansDone), and `KeepsItsPromise`: an addition is only
reported done on an answer, not on a silence, and a late message is its request's own effect.

*ApplicationProofs.* What is known at a leaf is what the leaves before it in its branch have
done since the stage began (`Since`), provided that nothing was given up (`fresh`). `AppInv` says so
for what robots hold (HeldIsTaken), for their jaws (ShutIsClosed) and for the objects that one
branch adds and removes (SceneIsPrepared); `SinceStep` takes each of them over a leaf. One
part must survive what halted leaves leave behind, and not only what concluded ones do: a robot never
holds what it does not take (`LeftBehindHeld`, `RestartInv`), which is all that the start-up,
which detaches that, relies on; so the number of faults does not matter. Two clients pass
something from one branch to the other. For the camera's, CameraInv ties the announcement
to the part. For the two robots', `GiverInv` and `TakerInv` say where each stands and what it has said
at each of its 27 and 16 leaves, and `InStep` which pairs of leaves go together: the waits are
what keeps the pairs few (`GiverHandsOver`, `TakerHandsOver`). After robot 2 has acted on an old key the pairs no longer go together,
and only `InTurn` is left of it: when the giver waits for the taker or is past that wait, the taker is where the
giver needs it, which is enough for the giver's jaws. `HeldObjectsMoveInClosedJaws`
(MovesWhatItHolds), `StartUpPreparesCycle` (CycleSucceeds) and `RobotsHandOverSafely`
(HandoverIsSafe) are read off, with the exceptions that both properties name. What each tree must satisfy for this, that it is well formed, gives
back each object it takes, and prepares the leaves that need an object, is `TreesAssumption`;
that the client of the two robots is prepared is proved leaf by leaf (`DualPrepared`).

*OperatorPanelProofs.* The panel, the service node and the switch know of each other
only what calls and status messages have told them. `PanelInv` therefore speaks of what is
under way: the calls of one SEND stand in the queue as one block with the computed key
behind the typed ones; `Becomes` is what the blackboard will hold once the queue has been served, and
as long as nobody was hasty it is a consistent recipe within the limits; a status on its way is
true of the blackboard, or of what it was before those calls; and a switch that was
clicked is served in its order with the recipe before it. There is one step per action; `PanelInvariance`
gives `ComputedAgrees` (RecipeAgrees). `RecipeIsHeld` is the action property: what the cycle
uses does not change while it is on.

Only model-checked: liveness (GoalTerminates, MoveConcludes, NodeConcludes, JobsEnd,
WaitsOnlyForFailures, Answered, KeepsWorking, PanelCatchesUp) is outside the prover's
reach.

## 6. What is not modelled

- MoveIt's planning, kinematics and geometry: a plan exists or not, a point is
  blocked or not. Wording, logging, HMI messages and the `progress` value. Of the
  planners, therefore: the choice of the best candidate, time parameterisation, the
  alignment of joints and the points of the controlled stop, which are
  sequential arithmetic over real numbers; that the stop is sent, fails or is not needed is in
  MoveActionServer, what a validity check looks at in CollisionMonitor.
- In MoveBranch: keys that are missing from the blackboard (exceptions when the tree
  is ticked), a server that rejects goals (it never does), and update requests with
  arbitrary keys.
- In MoveActionServer: the feedback callback, which is CollisionMonitor's subject
  and appears only as a result that may be FAILED although the controller
  succeeded; the dangling captures after an early return, which have no
  defined outcome.
- In CollisionMonitor: what the lag hides. The clock starts before the goal is
  even sent, and what it has passed counts as past; `QuietMeansClear` is therefore
  stated by the clock, and says nothing of points between it and the robot. A planning
  scene or robot state that cannot be obtained, which the check before execution has
  ruled out; collisions between points, which the code does not check either.
- In LeafNodes: what the nodes write to the blackboard besides their verdict, and the
  geometry of the Isaac nodes. The vendor servers are external.
- In ObjectManager: poses and meshes (an object loads or does not), transforms (there or not). The pointer
  `service_wait_timer_` is read and reset by the service thread and by the timer's without a lock; a step on it is
  atomic here.
- In Application: how long anything takes, and what a move does on its way; a move goes from one
  named place to another. Retries inside a leaf are part of its concluding or failing. What a halted leaf may still
  effect (`LeftBehind`) is applied at the instant of the restart, or never; the manager may in fact publish a message that
  is applied later (`object_manager_node.cpp:437`), while the start-up is already at work. SceneRequests has that case.
- In OperatorPanel: more than two typed keys, other units than one number, the texts of
  well-formed messages, two status messages under way at once, and the TCP echo. A status is shown in one step, although
  `statusCallback` posts `updateStatus` and each `updateField` as events of their own (`ros2_worker.cpp:81`, `:191`), so that
  typing may come between two of them. Each robot has a worker that posts for the same keys (`main_app.cpp:170`): the model
  has one, so that an old status of one robot never follows a newer one of the other. Numbers are rounded nowhere, where
  the program keeps six decimals (`to_string`, `ros2_worker.cpp:133`) and six digits (`QString::number`,
  `app_module.cpp:440`). A
  recipe that is inconsistent from the start stays so until SEND.
- The collision spawner, which adds objects from a file once, layout, XML text,
  configuration, launch files and message definitions.

## 7. Plan

Done: MoveActionServer with GoalLifecycle, MoveBranch, CollisionMonitor, LeafNodes,
ControllerSwitch with RobotReset, ObjectManager with SceneRequests, ApplicationTrees with
Application, OperatorPanel. What would come next, in order:

- **BranchOnServer**: MoveBranch composed with MoveActionServer itself instead of its
  lifecycle, to see findings 1 and 2 meet; and what a STOP guarantees end to end.
- **TrajectoryAlgorithms**: choice of the best candidate, the stop trajectory (times and
  joint order), the parameterisation loop, alignment of revolute joints, as functions checked
  against reference definitions.

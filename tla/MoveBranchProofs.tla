-------------------------- MODULE MoveBranchProofs --------------------------
(***************************************************************************)
(* Theorems about MoveBranch, for any number of moves and goals, any limit *)
(* on attempts and any operator: what a stored trajectory stands for, and  *)
(* that no goal is sent while execution is held.                           *)
(***************************************************************************)
EXTENDS MoveBranch, TLAPS

\* The lemmas expand the groups of variables and the helpers of the actions.
USE DEF keys, members, wire, server, Moves, Sent, TickLocal, Ticking, Clear, HaltChild,
        OnStart, OnRunning, SendIfNone, Failed, CallbackLocal, ClientLocal

-----------------------------------------------------------------------------
\* The initial state satisfies the invariant.
LEMMA InitBranch == Init => BranchInv
<1> SUFFICES ASSUME Init PROVE BranchInv
  OBVIOUS
<1>1. TypeOK
  <2>1. stop \in BOOLEAN /\ reset \in BOOLEAN /\ collision \in BOOLEAN /\ early \in BOOLEAN
    BY Zenon DEF Init
  <2>2. QED BY <2>1, BranchAssumption DEF Init, TypeOK, Server!GLInit, Server!GLTypeOK
<1>2. AnswerIsOfThisMove /\ AcceptedWasSent /\ SuccessWasReached /\ StoredTrajectoryWasExecuted
  BY BranchAssumption
  DEF Init, AnswerIsOfThisMove, AcceptedWasSent, SuccessWasReached,
      StoredTrajectoryWasExecuted, Server!GLInit
<1>3. QED BY <1>1, <1>2 DEF BranchInv

\* A tick leaves every key, member and message well typed.
LEMMA TickTypes ==
  ASSUME TypeOK, Tick
  PROVE  TypeOK'
<1>1. stop' \in BOOLEAN /\ reset' \in BOOLEAN /\ collision' \in BOOLEAN /\ early' \in BOOLEAN
  BY Zenon DEF TypeOK, Tick, BeginTick, TickReset, TickPaused, TickCollision, TickStart,
               TickWait, TickSuccess, TickGiveUp, TickRetry, NextMove
<1> USE BranchAssumption, <1>1 DEF TypeOK, Server!GLTypeOK
<1>2. CASE BeginTick BY <1>2 DEF BeginTick
<1>3. CASE TickReset BY <1>3 DEF TickReset
<1>4. CASE TickPaused BY <1>4 DEF TickPaused
<1>5. CASE TickCollision BY <1>5 DEF TickCollision
<1>6. CASE TickStart BY <1>6 DEF TickStart
<1>7. CASE TickWait BY <1>7 DEF TickWait
<1>8. CASE TickSuccess BY <1>8 DEF TickSuccess
<1>9. CASE TickGiveUp BY <1>9 DEF TickGiveUp
<1>10. CASE TickRetry BY <1>10 DEF TickRetry
<1>11. CASE NextMove BY <1>11 DEF NextMove
<1>. QED BY <1>2, <1>3, <1>4, <1>5, <1>6, <1>7, <1>8, <1>9, <1>10, <1>11 DEF Tick

\* A tick keeps results, goals and moves together.
LEMMA TickBranch ==
  ASSUME BranchInv, Tick
  PROVE  BranchInv'
<1>1. TypeOK'
  BY TickTypes DEF BranchInv
<1> SUFFICES (AnswerIsOfThisMove /\ AcceptedWasSent /\ SuccessWasReached
                 /\ StoredTrajectoryWasExecuted)'
  BY <1>1 DEF BranchInv
<1> USE BranchAssumption
    DEF BranchInv, TypeOK, AnswerIsOfThisMove, AcceptedWasSent, SuccessWasReached,
        StoredTrajectoryWasExecuted, Server!GLTypeOK
<1>2. CASE BeginTick BY <1>2 DEF BeginTick
<1>3. CASE TickReset BY <1>3 DEF TickReset
<1>4. CASE TickPaused BY <1>4 DEF TickPaused
<1>5. CASE TickCollision BY <1>5 DEF TickCollision
<1>6. CASE TickStart BY <1>6 DEF TickStart
<1>7. CASE TickWait BY <1>7 DEF TickWait
<1>8. CASE TickSuccess BY <1>8 DEF TickSuccess
<1>9. CASE TickGiveUp BY <1>9 DEF TickGiveUp
<1>10. CASE TickRetry BY <1>10 DEF TickRetry
<1>11. CASE NextMove BY <1>11 DEF NextMove
<1>. QED BY <1>2, <1>3, <1>4, <1>5, <1>6, <1>7, <1>8, <1>9, <1>10, <1>11 DEF Tick

\* A callback preserves the invariant.
LEMMA SpinBranch ==
  ASSUME BranchInv, Spin
  PROVE  BranchInv'
<1> USE BranchAssumption
    DEF BranchInv, TypeOK, AnswerIsOfThisMove, AcceptedWasSent, SuccessWasReached,
        StoredTrajectoryWasExecuted, Server!GLTypeOK
<1>1. CASE PressStart BY <1>1 DEF PressStart
<1>2. CASE PressStop BY <1>2 DEF PressStop
<1>3. CASE PressReset BY <1>3 DEF PressReset
<1>4. ASSUME NEW g \in Goals, Result(g) PROVE BranchInv'
  BY <1>4 DEF Result, Server!Terminal
<1>5. ASSUME NEW g \in Goals, Feedback(g) PROVE BranchInv'
  BY <1>5 DEF Feedback
<1>6. QED BY <1>1, <1>2, <1>3, <1>4, <1>5 DEF Spin

\* The server and its requests preserve the invariant.
LEMMA ServeBranch ==
  ASSUME BranchInv, Serve
  PROVE  BranchInv'
<1> USE BranchAssumption
    DEF BranchInv, TypeOK, AnswerIsOfThisMove, AcceptedWasSent, SuccessWasReached,
        StoredTrajectoryWasExecuted, Server!GLTypeOK, Server!Move, Server!Open, Server!Terminal
<1>1. CASE ReceiveCancelAll BY <1>1 DEF ReceiveCancelAll
<1>2. ASSUME NEW g \in Goals, AcceptGoal(g) PROVE BranchInv'
  BY <1>2 DEF AcceptGoal, Server!AcceptGoal
<1>3. ASSUME NEW g \in Goals, HandleCancel(g) PROVE BranchInv'
  BY <1>3 DEF HandleCancel, Server!GrantCancel
<1>4. ASSUME NEW g \in Goals, Execute(g) PROVE BranchInv'
  BY <1>4 DEF Execute, Server!Command, Server!Reach, Server!Stop
<1>5. ASSUME NEW g \in Goals, EndGoal(g) PROVE BranchInv'
  BY <1>5 DEF EndGoal, Server!Cancel, Server!Succeed, Server!Abort
<1>6. QED BY <1>1, <1>2, <1>3, <1>4, <1>5 DEF Serve

\* BranchInv holds in every reachable state.
THEOREM BranchInvariance == Spec => []BranchInv
<1>1. BranchInv /\ [Next]_vars => BranchInv'
  <2> SUFFICES ASSUME BranchInv, [Next]_vars PROVE BranchInv'
    OBVIOUS
  <2>1. CASE UNCHANGED vars
    BY <2>1 DEF vars, BranchInv, TypeOK, AnswerIsOfThisMove, AcceptedWasSent,
                SuccessWasReached, StoredTrajectoryWasExecuted, Server!GLTypeOK
  <2>2. QED BY <2>1, TickBranch, SpinBranch, ServeBranch DEF Next
<1>2. QED BY <1>1, InitBranch, PTL DEF Spec

\* A trajectory offered for re-execution was executed to its end by a goal of
\* the same move, in whatever order results arrive.
THEOREM StoredIsExecuted == Spec => []StoredTrajectoryWasExecuted
<1>1. BranchInv => StoredTrajectoryWasExecuted BY DEF BranchInv
<1>2. QED BY <1>1, BranchInvariance, PTL

\* No goal is sent in a tick that finds one of the three flags set.
THEOREM Held == Spec => HeldWhilePaused
<1>1. [Next]_vars => [owner' # owner => ~stop /\ ~reset /\ ~collision]_vars
  <2> SUFFICES ASSUME Next, owner' # owner PROVE ~stop /\ ~reset /\ ~collision
    BY DEF vars
  <2>1. TickWait \/ TickSuccess \/ TickGiveUp \/ TickRetry
    BY DEF Next, Tick, BeginTick, TickReset, TickPaused, TickCollision, TickStart, NextMove,
           Spin, PressStart, PressStop, PressReset, Result, Feedback, Serve,
           ReceiveCancelAll, AcceptGoal, HandleCancel, Execute, EndGoal
  <2>2. QED BY <2>1 DEF TickWait, TickSuccess, TickGiveUp, TickRetry
<1>2. QED BY <1>1, PTL DEF Spec, HeldWhilePaused

-----------------------------------------------------------------------------
(* One goal at a time, and each result is that of the goal waited for.      *)

\* A tick keeps at most one result outstanding, unless it starts a node early.
LEMMA TickOrderly ==
  ASSUME OrderlyInv, Tick
  PROVE  HeardHasEnded' /\ (~early' => OneOutstanding')
<1> USE BranchAssumption
    DEF OrderlyInv, BranchInv, TypeOK, HeardHasEnded, OneOutstanding, Outstanding, AllHeard,
        SuccessIsOwn, Server!GLTypeOK
<1>1. CASE BeginTick BY <1>1 DEF BeginTick
<1>2. CASE TickReset BY <1>2 DEF TickReset
<1>3. CASE TickPaused BY <1>3 DEF TickPaused
<1>4. CASE TickCollision BY <1>4 DEF TickCollision
<1>5. CASE TickStart BY <1>5 DEF TickStart
<1>6. CASE TickWait BY <1>6 DEF TickWait
<1>7. CASE TickSuccess BY <1>7 DEF TickSuccess
<1>8. CASE TickGiveUp BY <1>8 DEF TickGiveUp
<1>9. CASE TickRetry BY <1>9 DEF TickRetry
<1>10. CASE NextMove BY <1>10 DEF NextMove
<1>. QED BY <1>1, <1>2, <1>3, <1>4, <1>5, <1>6, <1>7, <1>8, <1>9, <1>10 DEF Tick

\* So does a callback: a result is handled by the node that waits for it.
LEMMA SpinOrderly ==
  ASSUME OrderlyInv, Spin
  PROVE  HeardHasEnded' /\ (~early' => OneOutstanding')
<1> USE BranchAssumption
    DEF OrderlyInv, BranchInv, TypeOK, HeardHasEnded, OneOutstanding, Outstanding, AllHeard,
        SuccessIsOwn, Server!GLTypeOK
<1>1. CASE PressStart BY <1>1 DEF PressStart
<1>2. CASE PressStop BY <1>2 DEF PressStop
<1>3. CASE PressReset BY <1>3 DEF PressReset
<1>4. ASSUME NEW g \in Goals, Result(g) PROVE HeardHasEnded' /\ (~early' => OneOutstanding')
  BY <1>4 DEF Result, Server!Terminal
<1>5. ASSUME NEW g \in Goals, Feedback(g) PROVE HeardHasEnded' /\ (~early' => OneOutstanding')
  BY <1>5 DEF Feedback
<1>6. QED BY <1>1, <1>2, <1>3, <1>4, <1>5 DEF Spin

\* The server never takes back how a goal ended.
LEMMA ServeOrderly ==
  ASSUME OrderlyInv, Serve
  PROVE  HeardHasEnded' /\ (~early' => OneOutstanding')
<1> USE BranchAssumption
    DEF OrderlyInv, BranchInv, TypeOK, HeardHasEnded, OneOutstanding, Outstanding, AllHeard,
        SuccessIsOwn, Server!GLTypeOK, Server!Move, Server!Open, Server!Terminal
<1>1. CASE ReceiveCancelAll BY <1>1 DEF ReceiveCancelAll
<1>2. ASSUME NEW g \in Goals, AcceptGoal(g) PROVE HeardHasEnded' /\ (~early' => OneOutstanding')
  BY <1>2 DEF AcceptGoal, Server!AcceptGoal
<1>3. ASSUME NEW g \in Goals, HandleCancel(g) PROVE HeardHasEnded' /\ (~early' => OneOutstanding')
  BY <1>3 DEF HandleCancel, Server!GrantCancel
<1>4. ASSUME NEW g \in Goals, Execute(g) PROVE HeardHasEnded' /\ (~early' => OneOutstanding')
  BY <1>4 DEF Execute, Server!Command, Server!Reach, Server!Stop
<1>5. ASSUME NEW g \in Goals, EndGoal(g) PROVE HeardHasEnded' /\ (~early' => OneOutstanding')
  BY <1>5 DEF EndGoal, Server!Cancel, Server!Succeed, Server!Abort
<1>6. QED BY <1>1, <1>2, <1>3, <1>4, <1>5 DEF Serve

\* Unless a node is started before the last goal's result has come, the server
\* has one goal at a time and a move succeeds by its own last goal: for any
\* number of moves and goals, any limit on attempts and any operator.
THEOREM Orderly == Spec => []OrderlyBranch
<1>1. Init => OrderlyInv
  <2> SUFFICES ASSUME Init PROVE OrderlyInv
    OBVIOUS
  <2>1. BranchInv BY InitBranch
  <2>2. HeardHasEnded /\ OneOutstanding
    BY BranchAssumption DEF Init, HeardHasEnded, OneOutstanding, Outstanding, AllHeard, SuccessIsOwn
  <2>3. QED BY <2>1, <2>2 DEF OrderlyInv
<1>2. OrderlyInv /\ [Next]_vars => OrderlyInv'
  <2> SUFFICES ASSUME OrderlyInv, [Next]_vars PROVE OrderlyInv'
    OBVIOUS
  <2>1. CASE UNCHANGED vars
    BY <2>1 DEF vars, OrderlyInv, HeardHasEnded, OneOutstanding, Outstanding, AllHeard, SuccessIsOwn,
                BranchInv, TypeOK, AnswerIsOfThisMove, AcceptedWasSent, SuccessWasReached,
                StoredTrajectoryWasExecuted, Server!GLTypeOK
  <2>2. CASE Next
    <3>1. BranchInv'
      BY <2>2, TickBranch, SpinBranch, ServeBranch DEF OrderlyInv, Next
    <3>2. HeardHasEnded' /\ (~early' => OneOutstanding')
      BY <2>2, TickOrderly, SpinOrderly, ServeOrderly DEF Next
    <3>3. QED BY <3>1, <3>2 DEF OrderlyInv
  <2>3. QED BY <2>1, <2>2
<1>3. OrderlyInv => OrderlyBranch
  <2> SUFFICES ASSUME OrderlyInv, ~early PROVE OneGoalAtATime /\ SuccessIsOwn
    BY DEF OrderlyBranch
  <2>1. \A g \in Goals : Sent(g) /\ status[g] \notin Server!Terminal => Outstanding(g)
    BY DEF OrderlyInv, HeardHasEnded, Outstanding
  <2>2. QED BY <2>1 DEF OrderlyInv, OneOutstanding, OneGoalAtATime
<1>4. QED BY <1>1, <1>2, <1>3, PTL DEF Spec
=============================================================================

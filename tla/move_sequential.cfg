SPECIFICATION FairSpec
CONSTANTS
  g1 = g1
  g2 = g2
  Goals <- TwoGoals
  NoGoal = NoGoal
  MaxOpen = 1
  MaxCancels = 1
INVARIANTS
  NoBadTransition
  NoPhantomExecuting
  IInv
  CancelReachesOwnTrajectory
  CancelForwarded
  NaturalFinish
PROPERTIES
  GoalTerminates
  ImplementsLifecycle
CHECK_DEADLOCK FALSE

SPECIFICATION Spec
CONSTANTS
  g1 = g1
  g2 = g2
  Goals <- TwoGoals
  NoGoal = NoGoal
  MaxOpen = 1
  MaxCancels = 1
INVARIANTS
  CanceledGoalIsStopped
CHECK_DEADLOCK FALSE

SPECIFICATION FairSpec
CONSTANTS
  g1 = g1
  g2 = g2
  g3 = g3
  Goals <- TwoGoals
  NoGoal = NoGoal
  NumMoves = 2
  MaxTries = 2
  ResetTrajs = FALSE
  Patient = FALSE
  Collisions = TRUE
INVARIANTS StoredTrajectoryWasExecuted BranchInv OrderlyBranch
PROPERTIES HeldWhilePaused MoveConcludes

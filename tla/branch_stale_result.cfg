SPECIFICATION Spec
CONSTANTS
  g1 = g1
  g2 = g2
  g3 = g3
  NoGoal = NoGoal
  Goals <- TwoGoals
  NumMoves = 1
  MaxTries <- NoLimit
  ResetTrajs = FALSE
  Patient = FALSE
  Collisions = FALSE
SYMMETRY Symmetry
INVARIANT
  SuccessIsOwn

SPECIFICATION FairSpec
CONSTANTS
  g1 = g1
  g2 = g2
  g3 = g3
  Goals <- ThreeGoals
INVARIANTS ResetInv ResetWithoutController SuccessIsActive
PROPERTIES JobsEnd WaitsOnlyForFailures

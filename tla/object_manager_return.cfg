SPECIFICATION FairSpec
CONSTANTS
  o1 = o1
  l1 = l1
  l2 = l2
  Nowhere = Nowhere
  Objects <- OneObject
  Links <- TwoLinks
  Plans <- ChangesFirst
  NumGoals = 3
  MaxRetries = 2
  MaxSlow = 0
  MaxOutages = 0
PROPERTIES ResumesOperations
CHECK_DEADLOCK FALSE

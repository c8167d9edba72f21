SPECIFICATION FairSpec
CONSTANTS
  o1 = o1
  l1 = l1
  l2 = l2
  Nowhere = Nowhere
  Objects <- OneObject
  Links <- TwoLinks
  Plans <- ChangesFirst
  NumGoals = 3
  MaxRetries = 2
  MaxSlow = 1
  MaxOutages = 1
INVARIANTS ManagerInv NoDuplicate
PROPERTIES SuccessMeansDone Answered KeepsPromise
CHECK_DEADLOCK FALSE

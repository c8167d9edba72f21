SPECIFICATION FairSpec
CONSTANTS
  r1 = r1
  r2 = r2
  Requests <- TwoRequests
  None = None
  MaxCancels = 1
INVARIANTS LeafInv SuccessHasGrounds OneRequest
PROPERTIES NodeConcludes

SPECIFICATION FairSpec
CONSTANT MaxFaults = 4
INVARIANTS AppInv MovesWhatItHolds CycleSucceeds HandoverIsSafe
PROPERTY KeepsWorking
CHECK_DEADLOCK FALSE

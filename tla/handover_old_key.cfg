SPECIFICATION Spec
CONSTANT MaxFaults = 1
INVARIANT OneInWorkingPosition
CHECK_DEADLOCK FALSE

SPECIFICATION Spec
CONSTANTS
  NumPoints = 4
  Time <- FourTimes
  SkipsPast = TRUE
  MaxLag = 2
INVARIANTS QuietMeansClear WarnedNeverSucceeds MonitorInv
PROPERTY AlarmIsAhead
CHECK_DEADLOCK FALSE

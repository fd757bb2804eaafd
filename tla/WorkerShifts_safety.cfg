SPECIFICATION SweptSpec
CONSTANTS
  Steps = {s1, s2}
  Batch = {s2}
  Reasons = {r1}
  DayLength = 4
  Delay = 2
  LockWait = 2
  MaxTime = 5
INVARIANTS
  TypeOK
  OpenInCurrentShift
  ShiftsInPlace
  ClosedTimeline
  LiveStateAgrees
PROPERTIES
  StaleShiftEnds
CHECK_DEADLOCK FALSE

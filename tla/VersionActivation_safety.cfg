CONSTANTS
  Rows = {r1,r2}
  Owners = {1,2}
  Runners = {n1}
  BatchLimit = 2
  MaxTime = 2
  MaxFaults = 1
  MaxLag = 1
SPECIFICATION Spec
SYMMETRY Twins
INVARIANTS TypeOK FiresOnce RowServesItsDraft NoScheduleIsLost ConstraintsHold
PROPERTIES LaterPlanWins OnlyAtItsDate
CHECK_DEADLOCK FALSE

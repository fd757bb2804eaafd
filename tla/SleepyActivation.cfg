CONSTANTS
  Rows = {r1,r2}
  Owners = {1,2}
  Runners = {n1}
  BatchLimit = 1
  MaxTime = 2
  MaxFaults = 1
  MaxLag = 0
SPECIFICATION SleepyFairSpec
PROPERTIES EveryPlanSettles
CHECK_DEADLOCK FALSE

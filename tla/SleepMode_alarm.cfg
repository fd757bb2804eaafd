SPECIFICATION FairSpec
CONSTANTS
  Rows = {r1, r2}
  Owners = {1}
  Runners = {n1}
  BatchLimit = 2
  MaxTime = 3
  MaxFaults = 1
  Threshold = 2
  ProgressOn = FALSE
  Requests = TRUE
  Outsiders = TRUE
PROPERTIES CachedAlarmRings

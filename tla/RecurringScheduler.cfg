SPECIFICATION FairSpec
CONSTANTS
  Jobs = {j1, j2}
  Intervals = {0, 2}
  Runners = {r1}
  BatchLimit = 2
  Requests = TRUE
  MaxTime = 3
  MaxFaults = 1
INVARIANTS TypeOK SlotFiresOnce
PROPERTIES NoDrift DueJobsFire

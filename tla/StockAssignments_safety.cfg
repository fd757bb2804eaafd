SPECIFICATION Spec
CONSTANTS
  r1 = r1
  t1 = t1
  t2 = t2
  i1 = i1
  i2 = i2
  a1 = a1
  a2 = a2
  a3 = a3
  None = None
  Rows = {r1}
  Tasks = {t1, t2}
  Items = {i1, i2}
  ItemOf <- MCItemOf
  Asgs = {a1, a2, a3}
  RowOf <- MCRowOf
  TaskOf <- MCTaskOf
  Quantities = {1, 2}
  Moves = {"PENDING", "READY", "FAILED"}
  Sessions = {x, y}
  MaxGoals = 2
  MaxEdits = 4
SYMMETRY Symmetric
INVARIANTS TypeOK LedgersAddUp AssignmentFollowsTask MissingWithinCeiling

SPECIFICATION Spec
CONSTANTS
  None = None
  Items = {i1, i2}
  Fabrics = {f1}
  Slots = {k1, k2, k3}
  Orders = {o1}
  Selections <- SomeSelections
  Amounts = {1, 2}
  Thresholds = {1}
  MaxStock = 2
  MaxOnOrder = 2
  MaxSteps = 4
SYMMETRY Symmetric
CHECK_DEADLOCK FALSE
INVARIANTS TypeOK AmountsAddUp AvailableIsCovered NothingIdle

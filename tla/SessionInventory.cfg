CONSTANTS
  Requests = {q, r}
  Files = {f}
  None = none
  MaxEdits = 1
SPECIFICATION Spec
INVARIANT InventoryFresh
CHECK_DEADLOCK FALSE

SPECIFICATION Spec
CONSTANTS
  MaxOrders = 2
  MaxId = 6
  MaxComing = 2
INVARIANTS
  OrderIdsAreNew
CHECK_DEADLOCK FALSE

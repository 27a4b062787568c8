SPECIFICATION Spec
CONSTANTS
  MaxOrders = 2
  MaxId = 6
  MaxComing = 2
INVARIANTS
  TypeOK
  SettledIdsAreNew
  ReportedAreReturned
CHECK_DEADLOCK FALSE

CONSTANT HasBalance = TRUE
SPECIFICATION Spec
INVARIANTS
  Consistent
  WaitingHasLink
  DeliveredWillComplete
PROPERTIES
  WaitEndRetiresLink
  EndedOrderQueuesNothing
CHECK_DEADLOCK FALSE

CONSTANTS
  HasBalance = TRUE
  MaxAttempts = 2
  Presses = {press}
  Links = TRUE
  MaxTroubles = 1
SPECIFICATION Spec
CONSTRAINT
  FewAttempts
INVARIANTS
  Consistent
  BalanceKeptOnce
PROPERTIES
  ReturnIsPaid
  ImplementsLifecycle
CHECK_DEADLOCK FALSE

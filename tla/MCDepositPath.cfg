CONSTANTS
  HasBalance = TRUE
  MaxAttempts = 2
  Tabs = {t1, t2}
  Deliveries = {d1}
  Declines = TRUE
  Faults = TRUE
  MaxTries = 2
  MaxCrashes = 1
SYMMETRY TabsAlike
SPECIFICATION Spec
INVARIANTS
  Consistent
  ConfirmedIsPaid
PROPERTIES
  ExpirySparesRefusedCharge
  ImplementsLifecycle
CHECK_DEADLOCK FALSE

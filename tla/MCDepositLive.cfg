CONSTANTS
  HasBalance = TRUE
  MaxAttempts = 2
  Tabs = {t1}
  Deliveries = {d1}
  Declines = TRUE
  Faults = TRUE
  MaxTries = 2
  MaxCrashes = 1
SPECIFICATION Spec
PROPERTIES
  UnpaidHoldEnds
  LateCaptureGoesBack
CHECK_DEADLOCK FALSE

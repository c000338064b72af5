CONSTANTS
  HasBalance = TRUE
  MaxAttempts = 2
  Presses = {first, second}
  Links = FALSE
  MaxTroubles = 2
SPECIFICATION Spec
INVARIANTS
  PressedTwiceChargesOnce
CHECK_DEADLOCK FALSE

CONSTANTS
  HasBalance = FALSE
  Cases = {c1, c2}
  Admins = {a1, a2}
  Outcomes = {"dismissed"}
  Free = Free
SPECIFICATION Spec
INVARIANTS
  TypeOK
PROPERTIES
  ClosingIsFinal
  FreeingClosesTheCases
  EveryCallEnds
  ImplementsLifecycle
CHECK_DEADLOCK FALSE

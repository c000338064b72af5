CONSTANTS
  HasBalance = TRUE
  DepositCharge = 2
  BalanceCharge = 2
  DepositShare = 1
  BalanceShare = 1
  MaxRefunds = 0
  Mortal = {}
  Overlap = {}
  MaxTroubles = 0
SPECIFICATION Spec
INVARIANTS
  HeldShareIsCarried
CHECK_DEADLOCK FALSE

CONSTANTS
  HasBalance = TRUE
  DepositCharge = 2
  BalanceCharge = 2
  DepositShare = 1
  BalanceShare = 1
  MaxRefunds = 3
  Mortal = {"cooling_window_transfer", "refund"}
  Overlap = {}
  MaxTroubles = 1
SPECIFICATION Spec
INVARIANTS
  Consistent
  SharePaidOnce
  SuspensionLeavesNothing
  SolventOrFlagged
CHECK_DEADLOCK FALSE

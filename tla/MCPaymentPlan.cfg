CONSTANTS
  Prices = {0, 3, 8, 49}
  CommissionRates = {850, 1500}
  HstRates = {0, 1300}
  DepositRates = {100, 2000, 5000}
  LeadDays = {1, 3}
  Windows = {0, 2}
  FullPaymentBelow = 4
  EventDay = 4
  MaxEdits = 1
SPECIFICATION Spec
INVARIANTS
  Consistent
  ChargedAsAgreed
  SharesComeOut
CHECK_DEADLOCK FALSE

CONSTANTS
  HasBalance = TRUE
  AutoSend = {"balance_failed", "balance_charged"}
  Runners = {r1, r2}
  Nobody = Nobody
  MaxMessages = 2
  MaxMints = 2
  MaxTroubles = 1
SPECIFICATION OutboxSpec
INVARIANTS
  SentAsSaid
  WorkingLinkIsMailed
PROPERTIES
  VerdictStands
  DecidedIsSettled
CHECK_DEADLOCK FALSE

-------------------------- MODULE OrderTransitions --------------------------
(***************************************************************************)
(* What an order may become, and what follows from a move: the pure tables *)
(* of packages/core/src/ordering/transitions.ts.  Nothing here has state.  *)
(* A job's anchor and offset, and the wording of an email, are left out;   *)
(* which jobs and which email a move carries are kept.                     *)
(***************************************************************************)

OrderStates ==
  {"pending_payment", "confirmed", "balance_due", "action_required", "issue",
   "fulfilled", "completed", "cancelled", "refunded"}

\* The legal moves, and only these.
Allowed(from) ==
  CASE from = "pending_payment" -> {"confirmed", "cancelled"}
    [] from = "confirmed"       -> {"balance_due", "fulfilled", "issue", "cancelled"}
    [] from = "balance_due"     -> {"confirmed", "action_required", "issue", "cancelled"}
    [] from = "action_required" -> {"confirmed", "issue", "cancelled"}
    [] from = "issue"           -> {"confirmed", "fulfilled", "cancelled"}
    [] from = "fulfilled"       -> {"completed", "issue"}
    [] from = "completed"       -> {"refunded"}
    [] from = "cancelled"       -> {"refunded"}
    [] OTHER                    -> {}

\* assertTransition: refuses an unchanged state and an unlisted move alike.
CanTransition(from, to) == to \in Allowed(from)

\* What the booked slot is doing while an order sits in a state.
CapacityIn(state) ==
  CASE state = "pending_payment"                                         -> "held"
    [] state \in {"confirmed", "balance_due", "action_required", "issue"} -> "locked"
    [] state \in {"fulfilled", "completed"}                              -> "consumed"
    [] OTHER                                                             -> "released"

ReleasesCapacity(state) == CapacityIn(state) = "released"

IsTerminal(state) ==
  Allowed(state) = {} \/ state = "completed" \/ ReleasesCapacity(state)

\* Whether money may move to the vendor.
PayoutAllowed(state) == state \in {"confirmed", "fulfilled", "completed"}

JobTypes ==
  {"expire_unpaid", "cooling_window_transfer", "charge_balance",
   "balance_grace_expiry", "auto_complete_order"}

OnEntering(to) ==
  CASE to = "pending_payment" -> {"expire_unpaid"}
    [] to = "confirmed"       -> {"cooling_window_transfer", "charge_balance"}
    [] to = "action_required" -> {"balance_grace_expiry"}
    [] to = "fulfilled"       -> {"auto_complete_order"}
    [] OTHER                  -> {}

\* confirmed schedules work only for a first deposit, and a balance charge
\* only for an order that has a balance.
JobsOnEntering(from, to, hasBalance) ==
  IF to = "confirmed" /\ from # "pending_payment"
  THEN {}
  ELSE {j \in OnEntering(to) : j = "charge_balance" => hasBalance}

\* Mutant: a completed order is forgotten, as its date is not released.
CancelsWhenReleased(state) == ReleasesCapacity(state)

CancelsQueuedJobs(state) == IsTerminal(state)

JobsCancelledOnLeaving(from) ==
  IF from = "pending_payment" THEN {"expire_unpaid"} ELSE {}

\* Mutant: a link is retired only when the order ends.
RetiresAtTheEnd(from, to) == IsTerminal(to)

RetiresPaymentLinks(from, to) == from = "action_required" \/ IsTerminal(to)

=============================================================================

--------------------------- MODULE OrderLifecycle ---------------------------
(***************************************************************************)
(* What the ordering domain promises about one order, whoever calls it and *)
(* in whatever order: the abstract specification the payment components    *)
(* implement.  An action is a committed transaction, or a job row changing *)
(* hands; how a caller decides to commit one is left to those components.  *)
(***************************************************************************)
EXTENDS OrderRows

Init == OrderCreated

-----------------------------------------------------------------------------
(* Moves, one per caller of applyTransition.                               *)

\* confirmFromWebhook on a settled deposit or balance, chargeBalance on a
\* capture: whatever state the order is in, the table of moves decides.
ConfirmPaid == Move("confirmed")

\* chargeBalance, for the charge_balance job or for an administrator's retry.
StartBalanceCharge == HasBalance /\ Move("balance_due")

\* Mutant: the link is left to a later call.
DeclineWithoutLink == ApplyTransition("action_required", FALSE)

DeclineBalance == ApplyTransition("action_required", TRUE)

\* A decline of an order that was already waiting when the charge began: a
\* fresh link, the old one voided, whatever became of the order meanwhile.
ReissueLink ==
  /\ link # "none"
  /\ link' = "payable"
  /\ UNCHANGED <<state, graceOpen, job, dateHeld>>

MarkFulfilled == Move("fulfilled")

AutoComplete == Move("completed")

RaiseIssue == Move("issue")

\* Asks for the move, and not whether the order is flagged.
ResolveIssue(to) == Move(to)

\* Mutant: an order cancelled by an update of its own.
CancelKeepsDate ==
  /\ CanTransition(state, "cancelled")
  /\ state' = "cancelled"
  /\ job' = JobsAfterMove(state, "cancelled")
  /\ link' = IF link = "payable" THEN "void" ELSE link
  /\ UNCHANGED <<graceOpen, dateHeld>>

CancelOrder == Move("cancelled")

RefundOrder == Move("refunded")

-----------------------------------------------------------------------------
(* The queue's side of a job row.                                          *)

ClaimJob(type) ==
  /\ ClaimRow(type)
  /\ UNCHANGED <<state, graceOpen, dateHeld, link>>

\* Mutant: an auto-completion that finds the booking flagged answers `done`.
MayFinishFlagged(type) ==
  CASE type = "expire_unpaid"       -> state # "pending_payment"
    [] type = "auto_complete_order" -> state # "fulfilled"
    [] OTHER                        -> TRUE

\* A handler answers `done` only when nothing is left for it to do.  It read
\* the order earlier, but an order neither returns to the unpaid hold nor
\* comes back once it has ended, so what it read is still so.
MayFinish(type) ==
  CASE type = "expire_unpaid"       -> state # "pending_payment"
    [] type = "auto_complete_order" -> IsTerminal(state)
    [] OTHER                        -> TRUE

\* `held`: parked for a person, which a grace window that ran out never is.
\* What the handler read of the order may have changed since.
MayHold(type) == type # "balance_grace_expiry"

FinishJob(type) ==
  /\ job[type] = "running"
  /\ MayFinish(type)
  /\ SetJob(type, "done")
  /\ UNCHANGED <<state, graceOpen, dateHeld, link>>

HoldJob(type) ==
  /\ job[type] = "running"
  /\ MayHold(type)
  /\ SetJob(type, "held")
  /\ UNCHANGED <<state, graceOpen, dateHeld, link>>

\* The handler threw or asked to come back: queued again, or given up on.
RetryJob(type) ==
  /\ job[type] = "running"
  /\ \E status \in {"queued", "failed"} : SetJob(type, status)
  /\ UNCHANGED <<state, graceOpen, dateHeld, link>>

RequeueJob(type) ==
  /\ RequeueRow(type)
  /\ UNCHANGED <<state, graceOpen, dateHeld, link>>

\* The vendor is suspended: a payout that is queued is parked with the vendor.
\* Reinstatement puts it back as a person would.
ParkTransfer ==
  /\ job["cooling_window_transfer"] = "queued"
  /\ SetJob("cooling_window_transfer", "held")
  /\ UNCHANGED <<state, graceOpen, dateHeld, link>>

-----------------------------------------------------------------------------

MoveOrder ==
  \/ ConfirmPaid
  \/ StartBalanceCharge
  \/ DeclineBalance
  \/ ReissueLink
  \/ MarkFulfilled
  \/ AutoComplete
  \/ RaiseIssue
  \/ \E to \in {"confirmed", "fulfilled", "cancelled"} : ResolveIssue(to)
  \/ CancelOrder
  \/ RefundOrder

RunQueue ==
  \E type \in JobTypes :
    \/ ClaimJob(type)
    \/ FinishJob(type)
    \/ HoldJob(type)
    \/ RetryJob(type)
    \/ RequeueJob(type)

Next == MoveOrder \/ RunQueue \/ ParkTransfer

Spec == Init /\ [][Next]_rows

-----------------------------------------------------------------------------

\* Every row holds a value of its column's type.
TypeOK == RowsTypeOK

\* The vendor's date is off the market exactly while the booking is alive or
\* delivered: every way an order ends undelivered puts the date back, and no
\* move frees the date of an order that goes on (releaseCapacity in
\* applyTransition).
DateHeldUnlessReleased == dateHeld <=> ~ReleasesCapacity(state)

\* A customer who is asked to pay has a link that pays: no decline, reissue or
\* return to the wait leaves an order waiting without one.
WaitingHasLink == state = "action_required" => link = "payable"

\* The deadline a customer is shown is the wait's own: set on entering
\* action_required and cleared on every way out.
GraceIffWaiting == graceOpen <=> state = "action_required"

\* An unpaid hold always has an expiry that somebody can still run: without
\* one an abandoned cart keeps the vendor's date for ever.
UnpaidHoldHasExpiry ==
  state = "pending_payment" =>
    job["expire_unpaid"] \in {"queued", "running", "held", "failed"}

\* An order's rows never part: each move writes the date, the shown deadline and
\* the expiry's row together with the state (applyTransition).
Consistent ==
  /\ TypeOK
  /\ DateHeldUnlessReleased
  /\ GraceIffWaiting
  /\ UnpaidHoldHasExpiry

\* A delivered booking has an auto-completion that was not used up: whatever it
\* was flagged for and resolved to on the way, somebody can still run it.
DeliveredWillComplete ==
  state = "fulfilled" =>
    job["auto_complete_order"] \in {"queued", "running", "held", "failed"}

\* A booking paid in full at checkout never has a balance charge queued and
\* never enters the two states that collect one.
NoBalanceOnPaidInFull ==
  ~HasBalance =>
    /\ job["charge_balance"] = "none"
    /\ state \notin {"balance_due", "action_required"}

\* A job that finished is finished: no replayed confirmation and no later move
\* queues the same charge or payout again.
FinishedStaysFinished ==
  [][\A type \in JobTypes : job[type] = "done" => job'[type] = "done"]_rows

\* Every return to `fulfilled` wakes the auto-completion, or finds a runner
\* with it: a job parked while the booking was flagged is armed again by the
\* upsert of enqueue, and none was finished in between.
DeliveryWakesCompletion ==
  [][state # "fulfilled" /\ state' = "fulfilled" =>
       job'["auto_complete_order"] \in {"queued", "running"}]_rows

\* The move that ends the wait, or the order, leaves no link that pays, whoever
\* asks for it (retiresPaymentLinks).  A decline decided on before that move may
\* mint another after it (ReissueLink): that link is refused when it is opened.
WaitEndRetiresLink ==
  [][state # state' /\ (state = "action_required" \/ IsTerminal(state')) =>
       link' # "payable"]_rows

\* Ending an order calls off what is still queued for it, and nothing is
\* queued for an ended order except by the job's own retry or a person.
EndedOrderQueuesNothing ==
  [][IsTerminal(state') =>
       \A type \in JobTypes :
         job'[type] = "queued" =>
           /\ IsTerminal(state)
           /\ job[type] \in {"queued", "running", "held", "failed"}]_rows

=============================================================================

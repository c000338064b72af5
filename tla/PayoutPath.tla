------------------------------ MODULE PayoutPath ------------------------------
(***************************************************************************)
(* From captured money to the vendor, or back to the customer.  Two jobs   *)
(* pay the vendor one share each; a customer inside the free window, or an *)
(* administrator with a refund made in the provider's dashboard, takes the *)
(* money the other way; and an administrator may suspend the vendor under  *)
(* all of them.  An action is one transaction, one statement that writes,  *)
(* or one provider call; reads that follow each other are one action.      *)
(*                                                                         *)
(* How the charges are captured is the business of DepositPath and         *)
(* BalancePath: here each succeeds in one step.                            *)
(***************************************************************************)
EXTENDS OrderRows, Integers, FiniteSets, Functions

CONSTANTS
  DepositCharge, BalanceCharge, \* what the customer paid, by instalment
  DepositShare, BalanceShare,   \* what the vendor is owed of each
  MaxRefunds,                   \* bound on refund rows
  Mortal,                       \* the calls a process may die in the middle of, or
                                \* lose the provider's answer to
  Overlap,                      \* bound: the calls in whose midst something else may begin
  MaxTroubles                   \* bound on deaths and lost answers, together

Kinds == {"deposit", "balance"}
Charge == [deposit |-> DepositCharge, balance |-> BalanceCharge]
Share  == [deposit |-> DepositShare,  balance |-> BalanceShare]

Payouts == {"cooling_window_transfer", "auto_complete_order"}
KindOf(type) == IF type = "cooling_window_transfer" THEN "deposit" ELSE "balance"
Calls == Payouts \cup {"refund", "record"}

ASSUME PayoutAssumption ==
  /\ {DepositCharge, BalanceCharge, DepositShare, BalanceShare} \subseteq Nat
  /\ DepositShare <= DepositCharge /\ BalanceShare <= BalanceCharge
  /\ HasBalance = (BalanceCharge > 0)
  /\ MaxRefunds \in Nat /\ MaxTroubles \in Nat
  /\ Mortal \subseteq Calls /\ Overlap \subseteq Calls

VARIABLES
  payment,    \* payments.state of each instalment; "none" before it is captured
  left,       \* what the provider still holds of each charge
  refund,     \* the refund rows, by age
  dashboard,  \* a refund made in the provider's dashboard, not yet recorded
  transfer,   \* the transfer row of each share and why it is held
  moved,      \* how many transfers the provider made for each share
  standing,   \* vendors.status
  account,    \* whether the vendor has a connected account
  windowOpen, \* whether orders.cooling_window_ends_at is ahead
  parkedBy,   \* jobs.held_reason of the deposit share's job
  call,       \* the calls in progress
  late,       \* history: charges captured while a refund was in progress
  troubles

money == <<payment, left, refund, dashboard>>
shares == <<transfer, moved>>
vendor == <<standing, account>>
vars == <<rows, money, shares, vendor, windowOpen, parkedBy, call, late, troubles>>

RefundRows == 1 .. MaxRefunds
NoRefund == [state |-> "none", of |-> "deposit", amount |-> 0, made |-> FALSE]
Idle == [pc |-> "idle", todo |-> {}, row |-> 0, reason |-> "none", full |-> FALSE]

At(c, pc) == call[c].pc = pc
GoTo(c, pc) == call' = [call EXCEPT ![c].pc = pc]
End(c, pc) == call' = [call EXCEPT ![c] = [Idle EXCEPT !.pc = pc]]
InProgress(c) == ~At(c, "idle")
Quiet == \A c \in Calls \ Overlap : ~InProgress(c)

Given(r) == IF refund[r].state \in {"settled", "needs_attention"} THEN refund[r].amount ELSE 0

\* What the rows say was taken from the customer, net of what went back.
NetCaptured ==
  SumFunction([k \in Kinds |-> IF payment[k] = "none" THEN 0 ELSE Charge[k]])
    - SumFunction([r \in RefundRows |-> Given(r)])

Init ==
  /\ OrderCreated
  /\ payment = [k \in Kinds |-> "none"]
  /\ left = [k \in Kinds |-> 0]
  /\ refund = [r \in RefundRows |-> NoRefund]
  /\ dashboard = 0
  /\ transfer = [k \in Kinds |-> [state |-> "none", reason |-> "none"]]
  /\ moved = [k \in Kinds |-> 0]
  /\ standing = "approved" /\ account \in BOOLEAN
  /\ windowOpen = TRUE
  /\ parkedBy = "none"
  /\ call = [c \in Calls |-> Idle]
  /\ late = {}
  /\ troubles = 0

-----------------------------------------------------------------------------
(* The booking goes on.                                                    *)

Elsewhere == UNCHANGED <<refund, dashboard, shares, vendor, parkedBy, call, troubles>>

Capture(kind) ==
  /\ Quiet /\ payment[kind] = "none"
  /\ kind = "deposit" => state = "pending_payment"
  /\ kind = "balance" => state \in {"balance_due", "action_required"}
  /\ payment' = [payment EXCEPT ![kind] = "succeeded"]
  /\ left' = [left EXCEPT ![kind] = Charge[kind]]
  /\ Move("confirmed")
  /\ late' = IF InProgress("refund") \/ InProgress("record") THEN late \cup {kind} ELSE late
  /\ UNCHANGED windowOpen /\ Elsewhere

\* The balance falls due, the vendor delivers, somebody flags the booking, an
\* administrator resolves it.  Bound: a booking is delivered once it is paid.
Proceed ==
  /\ Quiet
  /\ \E to \in {"balance_due", "fulfilled", "issue", "confirmed", "cancelled"} :
       /\ state \in {"balance_due", "action_required", "pending_payment"} => to \notin {"confirmed"}
       /\ to = "balance_due" => payment["balance"] = "none" /\ HasBalance
       /\ to = "fulfilled" => (payment["balance"] # "none" \/ ~HasBalance)
       /\ Move(to)
  /\ UNCHANGED <<payment, left, windowOpen, late>> /\ Elsewhere

\* From none to thirty days after the deposit, by the order's own terms.
CloseWindow ==
  /\ windowOpen /\ state # "pending_payment" /\ Quiet
  /\ windowOpen' = FALSE
  /\ UNCHANGED <<rows, payment, left, late>> /\ Elsewhere

-----------------------------------------------------------------------------
(* transferShare, as the two jobs run it.                                  *)

\* Claimed when due: forty-eight hours after the deposit and days after the
\* event, whatever the length of the free window.
StartJob(type) ==
  /\ ~InProgress(type) /\ Quiet
  /\ ClaimRow(type)
  /\ GoTo(type, IF type = "auto_complete_order" THEN "read" ELSE "decide")
  /\ UNCHANGED <<state, graceOpen, dateHeld, link>>
  /\ UNCHANGED <<money, shares, vendor, windowOpen, parkedBy, late, troubles>>

\* autoCompleteOrder: only a delivered booking is completed, and one that may
\* yet be delivered again is waited for.
ReadDelivered ==
  LET c == "auto_complete_order"
  IN /\ At(c, "read")
     /\ CASE state = "fulfilled" -> GoTo(c, "complete")
          [] IsTerminal(state)   -> End(c, "done")
          [] OTHER               -> End(c, "held")
     /\ UNCHANGED <<rows, money, shares, vendor, windowOpen, parkedBy, late, troubles>>

CompleteOrder ==
  LET c == "auto_complete_order"
  IN /\ At(c, "complete")
     /\ \/ Move("completed") /\ IF HasBalance THEN GoTo(c, "decide") ELSE End(c, "done")
        \/ ~CanTransition(state, "completed") /\ End(c, "threw") /\ UNCHANGED rows
     /\ UNCHANGED <<money, shares, vendor, windowOpen, parkedBy, late, troubles>>

\* payoutBlockedReason: the order first, then the vendor.
BlockedReason ==
  IF ~PayoutAllowed(state) THEN "order"
  ELSE IF standing # "approved" THEN "vendor"
  ELSE IF ~account THEN "account" ELSE "none"

\* Mutant: nobody asks what was refunded.
HeldWhenBlocked(kind) == BlockedReason

\* heldReason: what was refunded comes before everything.
HeldReason(kind) ==
  LET alreadyMoved == SumFunctionOnSet(Share, {k \in Kinds \ {kind} : transfer[k].state = "paid"})
  IN IF NetCaptured - alreadyMoved - Share[kind] < 0 THEN "refunded" ELSE BlockedReason

Decide(type) ==
  LET kind == KindOf(type)
  IN /\ At(type, "decide")
     /\ IF payment[kind] = "succeeded"
        THEN call' = [call EXCEPT ![type].pc = "claim", ![type].reason = HeldReason(kind)]
        ELSE End(type, "held")
     /\ UNCHANGED <<rows, money, shares, vendor, windowOpen, parkedBy, late, troubles>>

\* One row per order and kind: whoever comes second finds the first one's.
ClaimTransfer(type) ==
  LET kind == KindOf(type)
      reason == call[type].reason
      opened == [state |-> IF reason = "none" THEN "pending" ELSE "held", reason |-> reason]
      claim == IF transfer[kind].state = "none" THEN opened ELSE transfer[kind]
  IN /\ At(type, "claim")
     /\ transfer' = [transfer EXCEPT ![kind] = claim]
     /\ \/ claim.state = "paid" /\ End(type, "done")
        \/ claim.state # "paid" /\ reason # "none"
           /\ IF claim.state = "held" THEN End(type, "held") ELSE GoTo(type, "hold")
        \/ claim.state # "paid" /\ reason = "none" /\ GoTo(type, "provider")
     /\ UNCHANGED <<rows, money, moved, vendor, windowOpen, parkedBy, late, troubles>>

HoldTransfer(type) ==
  /\ At(type, "hold")
  /\ transfer' = [transfer EXCEPT ![KindOf(type)] =
                    [state |-> "held", reason |-> call[type].reason]]
  /\ End(type, "held")
  /\ UNCHANGED <<rows, money, moved, vendor, windowOpen, parkedBy, late, troubles>>

\* An answer may be lost, and the call is then made again by a later run.
Answer(c, then) ==
  \/ GoTo(c, then) /\ UNCHANGED troubles
  \/ c \in Mortal /\ End(c, IF c \in Payouts THEN "threw" ELSE "idle") /\ troubles < MaxTroubles /\ troubles' = troubles + 1

\* Mutant: every call carries a key of its own.
TransferAnew(type) ==
  /\ At(type, "provider")
  /\ moved' = [moved EXCEPT ![KindOf(type)] = @ + 1]
  /\ Answer(type, "mark")
  /\ UNCHANGED <<rows, money, transfer, vendor, windowOpen, parkedBy, late>>

\* The key is the row's: the provider makes the transfer once.
CreateTransfer(type) ==
  /\ At(type, "provider")
  /\ moved' = [moved EXCEPT ![KindOf(type)] = 1]
  /\ Answer(type, "mark")
  /\ UNCHANGED <<rows, money, transfer, vendor, windowOpen, parkedBy, late>>

MarkTransferPaid(type) ==
  /\ At(type, "mark")
  /\ transfer' = [transfer EXCEPT ![KindOf(type)] = [state |-> "paid", reason |-> "none"]]
  /\ End(type, "done")
  /\ UNCHANGED <<rows, money, moved, vendor, windowOpen, parkedBy, late, troubles>>

\* The deposit share's job parks itself with a reason of its own.
FinishJob(type) ==
  /\ \/ At(type, "done") /\ SetJob(type, "done")
     \/ At(type, "held") /\ SetJob(type, "held")
     \/ At(type, "threw") /\ \E status \in {"queued", "failed"} : SetJob(type, status)
  /\ parkedBy' = IF At(type, "held") /\ type = "cooling_window_transfer" THEN "own" ELSE parkedBy
  /\ End(type, "idle")
  /\ UNCHANGED <<state, graceOpen, dateHeld, link, money, shares, vendor, windowOpen, late, troubles>>

Requeue(type) ==
  /\ RequeueRow(type)
  /\ UNCHANGED <<state, graceOpen, dateHeld, link>>
  /\ UNCHANGED <<money, shares, vendor, windowOpen, parkedBy, call, late, troubles>>

-----------------------------------------------------------------------------
(* refundWithinCoolingWindow.                                              *)

FreeRow == {r \in RefundRows : refund[r].state = "none" /\ \A q \in 1 .. r - 1 : refund[q].state # "none"}

StartRefund ==
  /\ ~InProgress("refund") /\ Quiet
  /\ windowOpen /\ NetCaptured > 0 /\ transfer["deposit"].state # "paid"
  /\ LET settled == {k \in Kinds : payment[k] = "succeeded"}
     IN /\ settled # {}
        /\ call' = [call EXCEPT !["refund"].pc = "open", !["refund"].todo = settled]
  /\ UNCHANGED <<rows, money, shares, vendor, windowOpen, parkedBy, late, troubles>>

\* Each charge in turn, the deposit first.
NextCharge == IF "deposit" \in call["refund"].todo THEN "deposit" ELSE "balance"

OpenRow ==
  \E r \in FreeRow :
    /\ refund' = [refund EXCEPT ![r] =
         [state |-> "requested", of |-> NextCharge, amount |-> Charge[NextCharge], made |-> FALSE]]
    /\ call' = [call EXCEPT !["refund"].pc = "provider", !["refund"].row = r,
                            !["refund"].todo = @ \ {NextCharge}]

\* Mutant: the payment is labelled before the provider is asked.
OpenAndLabel ==
  /\ At("refund", "open") /\ call["refund"].todo # {} /\ OpenRow
  /\ payment' = [payment EXCEPT ![NextCharge] = "refunded"]
  /\ UNCHANGED <<rows, left, dashboard, shares, vendor, windowOpen, parkedBy, late, troubles>>

OpenRefund ==
  /\ At("refund", "open") /\ call["refund"].todo # {} /\ OpenRow
  /\ UNCHANGED <<rows, payment, left, dashboard, shares, vendor, windowOpen, parkedBy, late, troubles>>

\* The provider gives back what the charge still holds, once per row's key.
CreateRefund ==
  LET r == call["refund"].row
      of == refund[r].of
  IN /\ At("refund", "provider")
     /\ \/ /\ left[of] >= refund[r].amount
           /\ left' = [left EXCEPT ![of] = @ - refund[r].amount]
           /\ refund' = [refund EXCEPT ![r].made = TRUE]
           /\ Answer("refund", "settle")
        \/ /\ left[of] < refund[r].amount
           /\ End("refund", "idle")
           /\ UNCHANGED <<left, refund, troubles>>
     /\ UNCHANGED <<rows, payment, dashboard, shares, vendor, windowOpen, parkedBy, late>>

SettleRefund ==
  /\ At("refund", "settle")
  /\ refund' = [refund EXCEPT ![call["refund"].row].state = "settled"]
  /\ GoTo("refund", "label")
  /\ UNCHANGED <<rows, payment, left, dashboard, shares, vendor, windowOpen, parkedBy, late, troubles>>

MarkPaymentRefunded ==
  /\ At("refund", "label")
  /\ payment' = [payment EXCEPT ![refund[call["refund"].row].of] = "refunded"]
  /\ call' = [call EXCEPT !["refund"].row = 0,
                          !["refund"].pc = IF call["refund"].todo = {} THEN "cancel" ELSE "open"]
  /\ UNCHANGED <<rows, left, refund, dashboard, shares, vendor, windowOpen, parkedBy, late, troubles>>

\* Both refunds end by cancelling the order and then closing it as refunded, in
\* two transactions; a move the lifecycle refuses ends the call.
CloseOrder(c) ==
  /\ \/ /\ At(c, "cancel")
        /\ \/ Move("cancelled") /\ GoTo(c, "close")
           \/ ~CanTransition(state, "cancelled") /\ End(c, "idle") /\ UNCHANGED rows
     \/ /\ At(c, "close")
        /\ End(c, "idle")
        /\ \/ Move("refunded")
           \/ ~CanTransition(state, "refunded") /\ UNCHANGED rows
  /\ UNCHANGED <<money, shares, vendor, windowOpen, parkedBy, late, troubles>>

-----------------------------------------------------------------------------
(* recordExternalRefund.                                                   *)

\* An administrator gives back part or all of a charge in the dashboard.
RefundInDashboard ==
  /\ dashboard = 0 /\ Quiet
  /\ \E k \in Kinds : \E amount \in {1, left[k]} \ {0} :
       /\ amount <= left[k]
       /\ left' = [left EXCEPT ![k] = @ - amount]
       /\ dashboard' = amount
  /\ UNCHANGED <<rows, payment, refund, shares, vendor, windowOpen, parkedBy, call, late, troubles>>

\* The order and what is still captured, read before the row is opened.
StartRecord ==
  /\ ~InProgress("record") /\ Quiet
  /\ dashboard > 0 /\ dashboard <= NetCaptured
  /\ call' = [call EXCEPT !["record"].pc = "open", !["record"].reason = state,
                          !["record"].full = dashboard >= NetCaptured]
  /\ UNCHANGED <<rows, money, shares, vendor, windowOpen, parkedBy, late, troubles>>

\* The row names the deposit, whichever charge gave the money back.
OpenRecorded ==
  /\ At("record", "open")
  /\ \E r \in FreeRow :
       /\ refund' = [refund EXCEPT ![r] =
            [state |-> "requested", of |-> "deposit", amount |-> dashboard, made |-> TRUE]]
       /\ call' = [call EXCEPT !["record"].pc = "settle", !["record"].row = r]
  /\ UNCHANGED <<rows, payment, left, dashboard, shares, vendor, windowOpen, parkedBy, late, troubles>>

SettleRecorded ==
  /\ At("record", "settle")
  /\ refund' = [refund EXCEPT ![call["record"].row].state = "settled"]
  /\ dashboard' = 0
  /\ GoTo("record", "flag")
  /\ UNCHANGED <<rows, payment, left, shares, vendor, windowOpen, parkedBy, late, troubles>>

\* Only a refund of all that was captured ends the order, by the state it was
\* read in.
AfterFlag ==
  IF ~call["record"].full \/ call["record"].reason = "refunded"
  THEN End("record", "idle")
  ELSE GoTo("record", IF call["record"].reason = "cancelled" THEN "close" ELSE "cancel")

\* The customer has their money and the vendor has theirs: somebody must look.
FlagForAttention ==
  /\ At("record", "flag")
  /\ refund' = IF transfer["deposit"].state = "paid"
               THEN [refund EXCEPT ![call["record"].row].state = "needs_attention"]
               ELSE refund
  /\ AfterFlag
  /\ UNCHANGED <<rows, payment, left, dashboard, shares, vendor, windowOpen, parkedBy, late, troubles>>

-----------------------------------------------------------------------------
(* The vendor's standing.                                                  *)

\* changeStatus to suspended: what is owed is parked, and the work that would
\* owe more.  One transaction; a row that is running is not touched.
Suspend ==
  /\ Quiet /\ standing = "approved"
  /\ standing' = "suspended"
  /\ transfer' = [k \in Kinds |-> IF transfer[k].state = "pending"
                                  THEN [state |-> "held", reason |-> "standing"] ELSE transfer[k]]
  /\ IF job["cooling_window_transfer"] = "queued"
     THEN SetJob("cooling_window_transfer", "held") /\ parkedBy' = "standing"
     ELSE UNCHANGED <<job, parkedBy>>
  /\ UNCHANGED <<state, graceOpen, dateHeld, link, money, moved, account, windowOpen, call, late, troubles>>

ReleasedTransfers ==
  [k \in Kinds |-> IF transfer[k] = [state |-> "held", reason |-> "standing"]
                   THEN [state |-> "pending", reason |-> "none"] ELSE transfer[k]]

\* Mutant: the money is released and the work that moves it is not.
ReinstateRowsOnly ==
  /\ Quiet /\ standing = "suspended"
  /\ standing' = "approved"
  /\ transfer' = ReleasedTransfers
  /\ UNCHANGED <<rows, money, moved, account, windowOpen, parkedBy, call, late, troubles>>

\* changeStatus back to approved: only what a standing parked is released.
Reinstate ==
  /\ Quiet /\ standing = "suspended"
  /\ standing' = "approved"
  /\ transfer' = ReleasedTransfers
  /\ IF job["cooling_window_transfer"] = "held" /\ parkedBy = "standing"
     THEN SetJob("cooling_window_transfer", "queued") ELSE UNCHANGED job
  /\ UNCHANGED <<state, graceOpen, dateHeld, link, money, moved, account, windowOpen, parkedBy, call, late, troubles>>

\* startConnectOnboarding: the account is written as soon as it exists.
Onboard ==
  /\ Quiet /\ ~account
  /\ account' = TRUE
  /\ UNCHANGED <<rows, money, shares, standing, windowOpen, parkedBy, call, late, troubles>>

-----------------------------------------------------------------------------

\* A process dies in the middle of a call: a job's row stays running.
Die ==
  /\ troubles < MaxTroubles /\ troubles' = troubles + 1
  /\ \E c \in Mortal : InProgress(c) /\ End(c, "idle")
  /\ UNCHANGED <<rows, money, shares, vendor, windowOpen, parkedBy, late>>

Pay(type) ==
  \/ Decide(type) \/ ClaimTransfer(type) \/ HoldTransfer(type)
  \/ CreateTransfer(type) \/ MarkTransferPaid(type) \/ FinishJob(type)

RunJobs == ReadDelivered \/ CompleteOrder \/ \E type \in Payouts : Pay(type)

RefundInApp ==
  \/ StartRefund \/ OpenRefund \/ CreateRefund \/ SettleRefund \/ MarkPaymentRefunded
  \/ CloseOrder("refund")

RecordRefund ==
  \/ StartRecord \/ OpenRecorded \/ SettleRecorded \/ FlagForAttention
  \/ CloseOrder("record")

Next ==
  \/ \E k \in Kinds : Capture(k)
  \/ Proceed \/ CloseWindow
  \/ \E type \in Payouts : StartJob(type) \/ Requeue(type)
  \/ RunJobs
  \/ RefundInApp
  \/ RefundInDashboard \/ RecordRefund
  \/ Suspend \/ Reinstate \/ Onboard
  \/ Die

Spec == Init /\ [][Next]_vars

-----------------------------------------------------------------------------

Reasons == {"none", "order", "vendor", "account", "refunded", "standing"}

\* Every row, provider object and program counter holds a value its code can
\* write, and a share's row has a reason exactly while it is held.
TypeOK ==
  /\ RowsTypeOK
  /\ payment \in [Kinds -> {"none", "succeeded", "refunded"}]
  /\ \A k \in Kinds : left[k] \in 0 .. Charge[k]
  /\ \A r \in RefundRows : refund[r].state \in {"none", "requested", "settled", "needs_attention"}
  /\ \A k \in Kinds :
       /\ transfer[k].state \in {"none", "pending", "held", "paid"} /\ transfer[k].reason \in Reasons
       /\ transfer[k].state = "held" <=> transfer[k].reason # "none"
  /\ standing \in {"approved", "suspended"} /\ account \in BOOLEAN /\ windowOpen \in BOOLEAN
  /\ parkedBy \in {"none", "own", "standing"} /\ late \subseteq Kinds
  /\ troubles \in 0 .. MaxTroubles

\* A share leaves once, whatever dies or is asked again between the transfer and
\* its row (createOrAdoptTransfer, claimTransfer), and a row says paid only when
\* the money left.
SharePaidOnce ==
  \A k \in Kinds : moved[k] <= 1 /\ (transfer[k].state = "paid" => moved[k] = 1)

\* The ledger never says that more went back than was taken (netCaptured).
LedgerNeverNegative == NetCaptured >= 0

\* A charge that is labelled refunded holds nothing.
RefundedIsReturned == \A k \in Kinds : payment[k] = "refunded" => left[k] = 0

\* An order that ended as refunded keeps nothing of the customer's but what was
\* captured while its refund was in progress, which nothing gives back.
RefundedOrderIsEmpty == state = "refunded" => NetCaptured <= SumFunctionOnSet(Charge, late)

\* A delivered booking is still on its way to completion: its job was never
\* finished under it (autoCompleteOrder parks what may be delivered again).
FulfilledIsAwaited == state = "fulfilled" => job["auto_complete_order"] \notin {"none", "done"}

\* The ledger says what the provider did: what went back was taken, a charge or
\* an order labelled refunded holds nothing; and a delivered booking's
\* completion, which pays the rest out, is never spent.
Consistent ==
  /\ TypeOK
  /\ LedgerNeverNegative
  /\ RefundedIsReturned
  /\ RefundedOrderIsEmpty
  /\ FulfilledIsAwaited

\* What a suspension parked, shares and their job, its reinstatement released,
\* whatever calls were in progress (releaseHeldForVendor).  A share that a payout
\* parked itself because the vendor was suspended is in other words than the
\* suspension's, and stays parked for the reinstated vendor.
SuspensionLeavesNothing ==
  standing = "approved" =>
    /\ \A k \in Kinds : transfer[k].reason # "standing"
    /\ ~(job["cooling_window_transfer"] = "held" /\ parkedBy = "standing")

\* The platform pays nobody out of its own pocket unseen: when the rows agree
\* with the provider, the shares that left fit in what is still held, or a refund
\* is flagged.  The flag looks at the deposit's share alone (recordExternalRefund),
\* so a balance share paid before it is left out.
BooksAgree ==
  /\ dashboard = 0 /\ \A c \in Calls : ~InProgress(c)
  /\ \A k \in Kinds : transfer[k].state = "paid" <=> moved[k] > 0
  /\ \A r \in RefundRows : ~(refund[r].state = "requested" /\ refund[r].made)
\* Bounds: Overlap is empty, and a recording does not die.
SolventOrFlagged ==
  BooksAgree /\ (moved["balance"] > 0 => moved["deposit"] > 0) =>
    \/ SumFunctionOnSet(Share, {k \in Kinds : moved[k] > 0}) <= SumFunction(left)
    \/ \E r \in RefundRows : refund[r].state = "needs_attention"

\* Payouts, refunds and the vendor's standing are one way of driving the
\* abstract lifecycle: a payout job answers done only of an order that is over.
Lifecycle == INSTANCE OrderLifecycle
  WITH HasBalance <- HasBalance, state <- state, graceOpen <- graceOpen,
       job <- job, dateHeld <- dateHeld, link <- link
ImplementsLifecycle == Lifecycle!Spec

-----------------------------------------------------------------------------
(* What the documentation promises and the code does not keep.             *)

\* jobs/handlers.ts: "a held payout does not undo the completion — the booking
\* is finished either way, and the money is a separate fact the queue keeps
\* carrying".  A parked share has a job that somebody can put back.
HeldShareIsCarried ==
  state = "completed" =>
    \A type \in Payouts : transfer[KindOf(type)].state = "held" => job[type] # "done"

=============================================================================

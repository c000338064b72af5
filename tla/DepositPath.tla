----------------------------- MODULE DepositPath -----------------------------
(***************************************************************************)
(* From an unpaid hold to a confirmed booking, or back to a free date: the *)
(* customer's tabs (chargeDeposit), the payment provider, the deliveries   *)
(* of its events (the webhook route and the sweep run the same             *)
(* applyWebhook), and the expire_unpaid job.  None of them is one          *)
(* transaction: an action here is one database transaction, one statement  *)
(* outside a transaction, or one provider call.                            *)
(* Not here: an administrator's resolution, which may confirm or cancel    *)
(* any order (OrderLifecycle's ResolveIssue).                              *)
(***************************************************************************)
EXTENDS OrderRows, Integers, Sequences, FiniteSets

CONSTANTS
  MaxAttempts, \* bound on the payment rows the order opens
  Tabs,        \* pages the customer may have open on the checkout
  Deliveries,  \* concurrent executions of the webhook handler
  Declines,    \* whether a card may be declined
  Faults,      \* whether a cancellation call may fail without an answer
  MaxTries,    \* MAX_ATTEMPTS of the job queue
  MaxCrashes   \* bound on processes dying between two steps

ASSUME DepositAssumption ==
  /\ MaxAttempts \in Nat \ {0}
  /\ {Declines, Faults} \subseteq BOOLEAN
  /\ IsFiniteSet(Deliveries)
  /\ MaxTries \in Nat \ {0} /\ MaxCrashes \in Nat

Attempts == 1 .. MaxAttempts   \* numbered by age

VARIABLES
  payment,    \* payments.state by attempt; "none" before the row is opened
  attached,   \* attempts whose row names the provider's intent
  refund,     \* the states of an attempt's refund rows, oldest first
  intent,     \* the provider's intent for an attempt
  returned,   \* the refund row under whose key the provider gave the money back
  sent,       \* events the provider has emitted, delivered until acknowledged
  processed,  \* events whose inbox row has processed_at
  tab,        \* each tab's chargeDeposit call
  delivery,   \* each handler execution
  runner,     \* the runner's execution of expire_unpaid
  tries,      \* jobs.attempts of expire_unpaid
  crashes

ledger   == <<payment, attached, refund>>
provider == <<intent, returned, sent>>
vars == <<rows, ledger, provider, processed, tab, delivery, runner, tries, crashes>>

Events == [kind : {"succeeded", "failed"}, attempt : Attempts]
Capture(a) == [kind |-> "succeeded", attempt |-> a]
Decline(a) == [kind |-> "failed", attempt |-> a]

IdleTab      == [pc |-> "idle", attempt |-> 0]
IdleDelivery == [pc |-> "idle", event |-> {}, marks |-> FALSE, sawState |-> "none", row |-> 0]
IdleRunner   == [pc |-> "idle", asked |-> {}, todo |-> {}, fault |-> FALSE]

Init ==
  /\ OrderCreated
  /\ payment = [a \in Attempts |-> "none"]
  /\ attached = {}
  /\ refund = [a \in Attempts |-> <<>>]
  /\ intent = [a \in Attempts |-> "none"]
  /\ returned = [a \in Attempts |-> 0]
  /\ sent = {} /\ processed = {}
  /\ tab = [t \in Tabs |-> IdleTab]
  /\ delivery = [d \in Deliveries |-> IdleDelivery]
  /\ runner = IdleRunner
  /\ tries = 0 /\ crashes = 0

-----------------------------------------------------------------------------
(* chargeDeposit                                                           *)

Opened == {a \in Attempts : payment[a] # "none"}
Latest == CHOOSE a \in Opened : \A b \in Opened : b <= a
LatestIs(status) == Opened # {} /\ payment[Latest] = status

TabStep(t, from, to) == tab[t].pc = from /\ tab' = [tab EXCEPT ![t].pc = to]

\* The order and its latest attempt, read before the lock is taken.  A tab may
\* ask again at any time: it was reloaded, or the call it made died or failed.
ReadForDeposit(t) ==
  /\ state = "pending_payment"
  /\ ~LatestIs("succeeded")
  /\ tab' = [tab EXCEPT ![t] = [pc |-> "checked", attempt |-> 0]]
  /\ UNCHANGED <<rows, ledger, provider, processed, delivery, runner, tries, crashes>>

\* Mutant: every call opens an attempt of its own.
AttemptAnew(a) == a = Cardinality(Opened) + 1

\* Under the order's lock: the open attempt again, or a new row.
AttemptToUse(a) ==
  IF LatestIs("pending") THEN a = Latest ELSE a = Cardinality(Opened) + 1

OpenAttempt(t) ==
  /\ tab[t].pc = "checked"
  /\ \E a \in Attempts :
       /\ AttemptToUse(a)
       /\ payment' = [payment EXCEPT ![a] = "pending"]
       /\ tab' = [tab EXCEPT ![t] = [pc |-> "opened", attempt |-> a]]
  /\ UNCHANGED <<rows, attached, refund, provider, processed, delivery, runner, tries, crashes>>

\* The attempt's id is the idempotency key: a second call adopts the first.
CreateIntent(t) ==
  /\ TabStep(t, "opened", "created")
  /\ intent' = [intent EXCEPT ![tab[t].attempt] = IF @ = "none" THEN "open" ELSE @]
  /\ UNCHANGED <<rows, ledger, returned, sent, processed, delivery, runner, tries, crashes>>

\* The tab is handed the client secret: from here the customer may pay.
AttachIntent(t) ==
  /\ TabStep(t, "created", "paying")
  /\ attached' = attached \cup {tab[t].attempt}
  /\ UNCHANGED <<rows, payment, refund, provider, processed, delivery, runner, tries, crashes>>

-----------------------------------------------------------------------------
(* The provider.  A declined intent stays payable with another card.       *)

PayDeposit(t) ==
  /\ tab[t].pc = "paying"
  /\ intent[tab[t].attempt] = "open"
  /\ intent' = [intent EXCEPT ![tab[t].attempt] = "processing"]
  /\ UNCHANGED <<rows, ledger, returned, sent, processed, tab, delivery, runner, tries, crashes>>

Settle(a, status, event) ==
  /\ intent[a] = "processing"
  /\ intent' = [intent EXCEPT ![a] = status]
  /\ sent' = sent \cup {event}
  /\ UNCHANGED <<rows, ledger, returned, processed, tab, delivery, runner, tries, crashes>>

CaptureDeposit(a) == Settle(a, "succeeded", Capture(a))

\* Bound: one decline per attempt.
DeclineDeposit(a) ==
  /\ Declines
  /\ Decline(a) \notin sent
  /\ Settle(a, "open", Decline(a))

-----------------------------------------------------------------------------
(* applyWebhook: confirmFromWebhook, refundLateCapture and the failure.    *)

DeliveryAt(d, pc) == delivery[d].pc = pc
DeliveryTo(d, pc) == delivery' = [delivery EXCEPT ![d].pc = pc]
EventOf(d) == CHOOSE e \in delivery[d].event : TRUE
PaidBy(d) == EventOf(d).attempt

\* The inbox row is not processed; the payment row is read.  An event may come
\* after a later one of its attempt, and twice at once.
Deliver(d, e) ==
  /\ DeliveryAt(d, "idle")
  /\ e \in sent \ processed
  /\ delivery' = [delivery EXCEPT ![d] =
       [pc |-> IF e.kind = "failed" THEN "fail" ELSE "load", event |-> {e},
        marks |-> payment[e.attempt] # "succeeded", sawState |-> "none", row |-> 0]]
  /\ UNCHANGED <<rows, ledger, provider, processed, tab, runner, tries, crashes>>

\* Mutant: the order is confirmed before its payment row is marked.
LoadSkipsMark(d) ==
  /\ DeliveryAt(d, "load")
  /\ delivery' = [delivery EXCEPT ![d].sawState = state, ![d].pc = "branch"]
  /\ UNCHANGED <<rows, ledger, provider, processed, tab, runner, tries, crashes>>

LoadOrder(d) ==
  /\ DeliveryAt(d, "load")
  /\ delivery' = [delivery EXCEPT ![d].sawState = state,
                                  ![d].pc = IF delivery[d].marks THEN "mark" ELSE "branch"]
  /\ UNCHANGED <<rows, ledger, provider, processed, tab, runner, tries, crashes>>

MarkPaymentFailed(d) ==
  /\ DeliveryAt(d, "fail") /\ DeliveryTo(d, "ack")
  /\ payment' = [payment EXCEPT ![PaidBy(d)] = "failed"]
  /\ UNCHANGED <<rows, attached, refund, provider, processed, tab, runner, tries, crashes>>

\* The handler learns the intent's id from the event before marking the row.
MarkPaymentSucceeded(d) ==
  /\ DeliveryAt(d, "mark") /\ DeliveryTo(d, "branch")
  /\ payment' = [payment EXCEPT ![PaidBy(d)] = "succeeded"]
  /\ attached' = attached \cup {PaidBy(d)}
  /\ UNCHANGED <<rows, refund, provider, processed, tab, runner, tries, crashes>>

\* Decided on the order as it was read, then tried on the order as it is: a
\* move already made is swallowed, a move the lifecycle refuses is thrown.
ConfirmOrder(d) ==
  /\ DeliveryAt(d, "branch") /\ ~ReleasesCapacity(delivery[d].sawState)
  /\ \/ /\ delivery[d].sawState = "confirmed" \/ state = "confirmed"
        /\ DeliveryTo(d, "ack")
        /\ UNCHANGED rows
     \/ /\ delivery[d].sawState # "confirmed"
        /\ Move("confirmed")
        /\ DeliveryTo(d, "ack")
     \/ /\ delivery[d].sawState # "confirmed" /\ state # "confirmed"
        /\ ~CanTransition(state, "confirmed")
        /\ delivery' = [delivery EXCEPT ![d] = IdleDelivery]
        /\ UNCHANGED rows
  /\ UNCHANGED <<ledger, provider, processed, tab, runner, tries, crashes>>

\* Mutant: a row that stands is enough.
StandingIsEnough(d) ==
  /\ DeliveryAt(d, "branch") /\ ReleasesCapacity(delivery[d].sawState)
  /\ DeliveryTo(d, IF refund[PaidBy(d)] = <<>> THEN "open" ELSE "ack")
  /\ UNCHANGED <<rows, ledger, provider, processed, tab, runner, tries, crashes>>

\* The oldest refund row of the payment is the one standing.
FindStandingRefund(d) ==
  LET standing == refund[PaidBy(d)]
  IN /\ DeliveryAt(d, "branch") /\ ReleasesCapacity(delivery[d].sawState)
     /\ delivery' = [delivery EXCEPT
          ![d].pc = IF standing = <<>> THEN "open"
                    ELSE IF Head(standing) = "requested" THEN "refund" ELSE "ack",
          ![d].row = IF standing = <<>> THEN 0 ELSE 1]
     /\ UNCHANGED <<rows, ledger, provider, processed, tab, runner, tries, crashes>>

OpenRefund(d) ==
  LET a == PaidBy(d)
  IN /\ DeliveryAt(d, "open")
     /\ refund' = [refund EXCEPT ![a] = Append(@, "requested")]
     /\ delivery' = [delivery EXCEPT ![d].pc = "refund", ![d].row = Len(refund[a]) + 1]
     /\ UNCHANGED <<rows, payment, attached, provider, processed, tab, runner, tries, crashes>>

\* A repeated key answers as before; a second key finds nothing left to refund
\* and is refused, which the handler throws.
ProviderRefund(d) ==
  LET a == PaidBy(d)
  IN /\ DeliveryAt(d, "refund")
     /\ IF returned[a] \in {0, delivery[d].row}
        THEN /\ returned' = [returned EXCEPT ![a] = delivery[d].row]
             /\ DeliveryTo(d, "settle")
        ELSE /\ delivery' = [delivery EXCEPT ![d] = IdleDelivery]
             /\ UNCHANGED returned
     /\ UNCHANGED <<rows, ledger, intent, sent, processed, tab, runner, tries, crashes>>

SettleRefund(d) ==
  /\ DeliveryAt(d, "settle") /\ DeliveryTo(d, "label")
  /\ refund' = [refund EXCEPT ![PaidBy(d)][delivery[d].row] = "settled"]
  /\ UNCHANGED <<rows, payment, attached, provider, processed, tab, runner, tries, crashes>>

MarkPaymentRefunded(d) ==
  /\ DeliveryAt(d, "label") /\ DeliveryTo(d, "ack")
  /\ payment' = [payment EXCEPT ![PaidBy(d)] = "refunded"]
  /\ UNCHANGED <<rows, attached, refund, provider, processed, tab, runner, tries, crashes>>

\* processed_at, and the answer that stops the provider from retrying.
Acknowledge(d) ==
  /\ DeliveryAt(d, "ack")
  /\ processed' = processed \cup delivery[d].event
  /\ delivery' = [delivery EXCEPT ![d] = IdleDelivery]
  /\ UNCHANGED <<rows, ledger, provider, tab, runner, tries, crashes>>

DeliveryDies(d) ==
  /\ delivery[d].pc # "idle" /\ crashes < MaxCrashes
  /\ crashes' = crashes + 1
  /\ delivery' = [delivery EXCEPT ![d] = IdleDelivery]
  /\ UNCHANGED <<rows, ledger, provider, processed, tab, runner, tries>>

-----------------------------------------------------------------------------
(* The expire_unpaid handler, with releaseUnpaidIntent and cancelOrder.    *)

RunnerStep(from, to) == runner.pc = from /\ runner' = [runner EXCEPT !.pc = to]

\* A running row is taken over when its lease ran out.
ClaimExpiry ==
  /\ RunnerStep("idle", "read")
  /\ ClaimRow("expire_unpaid")
  /\ UNCHANGED <<state, graceOpen, dateHeld, link>>
  /\ UNCHANGED <<ledger, provider, processed, tab, delivery, tries, crashes>>

ReadOrder ==
  /\ RunnerStep("read", IF state = "pending_payment" THEN "list" ELSE "done")
  /\ UNCHANGED <<rows, ledger, provider, processed, tab, delivery, tries, crashes>>

\* A failed attempt is taken to have nothing left to cancel.
ListAttempts ==
  /\ runner.pc = "list"
  /\ LET live == {a \in attached : payment[a] \notin {"failed", "refunded"}}
     IN runner' = [pc |-> "release", asked |-> live, todo |-> live, fault |-> FALSE]
  /\ UNCHANGED <<rows, ledger, provider, processed, tab, delivery, tries, crashes>>

Oldest(as) == CHOOSE a \in as : \A b \in as : a <= b
NextToCancel == Oldest(runner.todo)

\* Mutant: a refusal is taken for a fault, and the run goes on.
CancelRegardless ==
  LET a == NextToCancel
  IN /\ runner.pc = "release" /\ runner.todo # {}
     /\ intent' = [intent EXCEPT ![a] = IF @ = "open" THEN "canceled" ELSE @]
     /\ runner' = [runner EXCEPT !.todo = @ \ {a}]
     /\ UNCHANGED <<rows, ledger, returned, sent, processed, tab, delivery, tries, crashes>>

\* The provider cancels an open intent and refuses any other, one it has
\* already cancelled included: the adapter turns that error into `refused`.
CancelIntent ==
  LET a == NextToCancel
  IN /\ runner.pc = "release" /\ runner.todo # {}
     /\ IF intent[a] = "open"
        THEN /\ intent' = [intent EXCEPT ![a] = "canceled"]
             /\ runner' = [runner EXCEPT !.todo = @ \ {a}]
        ELSE /\ runner' = [runner EXCEPT !.pc = "retry"]
             /\ UNCHANGED intent
     /\ UNCHANGED <<rows, ledger, returned, sent, processed, tab, delivery, tries, crashes>>

\* No answer: the intent may have been cancelled, and the run goes on.
CancelIntentFault ==
  LET a == NextToCancel
  IN /\ Faults
     /\ runner.pc = "release" /\ runner.todo # {}
     /\ intent' \in {intent, [intent EXCEPT ![a] = IF @ = "open" THEN "canceled" ELSE @]}
     /\ runner' = [runner EXCEPT !.todo = @ \ {a}, !.fault = TRUE]
     /\ UNCHANGED <<rows, ledger, returned, sent, processed, tab, delivery, tries, crashes>>

\* cancelOrder asks for the move, not for the state the order was read in.
CancelUnpaid ==
  /\ runner.pc = "release" /\ runner.todo = {}
  /\ IF CanTransition(state, "cancelled")
     THEN Move("cancelled") /\ RunnerStep("release", "done")
     ELSE UNCHANGED rows /\ RunnerStep("release", "throw")
  /\ UNCHANGED <<ledger, provider, processed, tab, delivery, tries, crashes>>

FinishExpiry ==
  /\ runner.pc = "done" /\ runner' = IdleRunner
  /\ SetJob("expire_unpaid", "done")
  /\ UNCHANGED <<state, graceOpen, dateHeld, link>>
  /\ UNCHANGED <<ledger, provider, processed, tab, delivery, tries, crashes>>

\* rearmRunningJob holds at the ceiling, markFailed gives up there.
PutBackExpiry(pc, exhausted) ==
  /\ runner.pc = pc /\ runner' = IdleRunner
  /\ tries' = tries + 1
  /\ SetJob("expire_unpaid", IF tries + 1 >= MaxTries THEN exhausted ELSE "queued")
  /\ UNCHANGED <<state, graceOpen, dateHeld, link>>
  /\ UNCHANGED <<ledger, provider, processed, tab, delivery, crashes>>

\* Mutant: an expiry that runs out of retries is finished.
RetryEndsDone == PutBackExpiry("retry", "done")

RetryExpiry == PutBackExpiry("retry", "held")
FailExpiry  == PutBackExpiry("throw", "failed")

\* An administrator puts a held or failed expiry back, attempts forgiven.
RequeueExpiry ==
  /\ RequeueRow("expire_unpaid")
  /\ tries' = 0
  /\ UNCHANGED <<state, graceOpen, dateHeld, link>>
  /\ UNCHANGED <<ledger, provider, processed, tab, delivery, runner, crashes>>

RunnerDies ==
  /\ runner.pc # "idle" /\ crashes < MaxCrashes
  /\ crashes' = crashes + 1
  /\ runner' = IdleRunner
  /\ UNCHANGED <<rows, ledger, provider, processed, tab, delivery, tries>>

-----------------------------------------------------------------------------

TabNext(t) ==
  \/ ReadForDeposit(t) \/ OpenAttempt(t) \/ CreateIntent(t) \/ AttachIntent(t)
  \/ PayDeposit(t)

ProviderNext == \E a \in Attempts : CaptureDeposit(a) \/ DeclineDeposit(a)

Handle(d) ==
  \/ LoadOrder(d) \/ MarkPaymentFailed(d) \/ MarkPaymentSucceeded(d)
  \/ ConfirmOrder(d) \/ FindStandingRefund(d) \/ OpenRefund(d) \/ ProviderRefund(d)
  \/ SettleRefund(d) \/ MarkPaymentRefunded(d) \/ Acknowledge(d)

RunExpiry ==
  \/ ClaimExpiry \/ ReadOrder \/ ListAttempts
  \/ CancelIntent \/ CancelIntentFault \/ CancelUnpaid
  \/ FinishExpiry \/ RetryExpiry \/ FailExpiry

Next ==
  \/ \E t \in Tabs : TabNext(t)
  \/ ProviderNext
  \/ \E d \in Deliveries : (\E e \in Events : Deliver(d, e)) \/ Handle(d) \/ DeliveryDies(d)
  \/ RunExpiry
  \/ RequeueExpiry
  \/ RunnerDies

\* The tick runs the queue, the provider settles what it is processing, and an
\* unacknowledged event is delivered again and swept.
Fairness ==
  /\ WF_vars(RunExpiry)
  /\ WF_vars(ProviderNext)
  /\ \A d \in Deliveries : WF_vars(Handle(d))
  /\ \A e \in Events : WF_vars(\E d \in Deliveries : Deliver(d, e))

Spec == Init /\ [][Next]_vars /\ Fairness

-----------------------------------------------------------------------------

PaymentStates == {"none", "pending", "succeeded", "failed", "refunded"}

\* Every row, intent and program counter holds a value its code can write.
TypeOK ==
  /\ RowsTypeOK
  /\ payment \in [Attempts -> PaymentStates]
  /\ attached \subseteq Opened
  /\ \A a \in Attempts : refund[a] \in Seq({"requested", "settled"})
  /\ intent \in [Attempts -> {"none", "open", "processing", "succeeded", "canceled"}]
  /\ \A a \in Attempts : returned[a] \in 0 .. Len(refund[a])
  /\ processed \subseteq sent /\ sent \subseteq Events
  /\ \A t \in Tabs : tab[t].attempt \in {0} \cup Opened
  /\ \A d \in Deliveries : delivery[d].event \subseteq sent
  /\ runner.todo \subseteq runner.asked /\ runner.asked \subseteq attached
  /\ tries \in 0 .. MaxTries /\ crashes \in 0 .. MaxCrashes

\* The provider holds a's money, and its row says so, or a decline of the same
\* attempt was applied over that.
Charged(a) ==
  /\ intent[a] = "succeeded"
  /\ payment[a] = "succeeded" \/ (payment[a] = "failed" /\ Decline(a) \in sent)

\* A booking is confirmed on money the provider holds, and the payment row says
\* so unless a card of that very attempt was declined before: whatever else is
\* being delivered, in whatever order, declined or cancelled meanwhile.
ConfirmedIsPaid == state = "confirmed" => \E a \in Attempts : Charged(a)

\* Two tabs pressing pay at once share one attempt and so one idempotency key:
\* of an order's attempts at most one is pending (the lock in chargeDeposit).
OneOpenAttempt == Cardinality({a \in Attempts : payment[a] = "pending"}) <= 1

\* A refund retried after a crash, or whose event comes again, finds the row
\* already standing, so its key: a charge never has more rows than there are
\* handlers that could look for one at once.  Two that do look at once open two:
\* the lookup is no guarantee, though the comment on refundLateCapture says so.
RefundRowsStand == \A a \in Attempts : Len(refund[a]) <= Cardinality(Deliveries)

\* Money goes back only for a charge that was captured, and no row claims a
\* refund settled that the provider did not make.
SettledMeansReturned ==
  \A a \in Attempts :
    /\ returned[a] # 0 => intent[a] = "succeeded"
    /\ \A i \in DOMAIN refund[a] : refund[a][i] = "settled" => returned[a] = i

\* An order has one charge in flight, no retry opens a refund of its own, and
\* its rows claim no more than the provider did, through every crash.
Consistent ==
  /\ TypeOK
  /\ OneOpenAttempt
  /\ RefundRowsStand
  /\ SettledMeansReturned

\* The expiry gives the date back only after every charge it asked the provider
\* about is cancelled, or the provider did not answer: a refusal stops it.
ExpirySparesRefusedCharge ==
  [][state = "pending_payment" /\ state' = "cancelled" =>
       runner.fault \/ \A a \in runner.asked : intent[a] = "canceled"]_vars

\* An abandoned hold does not keep a vendor's date for ever: the order is paid,
\* or expired, or its expiry is parked where an administrator sees it.
UnpaidHoldEnds ==
  state = "pending_payment" ~>
    state # "pending_payment" \/ job["expire_unpaid"] \in {"held", "failed"}

\* A charge that lands after the date was given back goes back too, through
\* every crash and redelivery, unless the card declines it after all.
LateCaptureGoesBack ==
  \A a \in Attempts :
    state = "cancelled" /\ intent[a] = "processing" ~>
      intent[a] = "open" \/ returned[a] # 0

\* The deposit's path is one way of driving the abstract lifecycle.
Lifecycle == INSTANCE OrderLifecycle
  WITH HasBalance <- HasBalance, state <- state, graceOpen <- graceOpen,
       job <- job, dateHeld <- dateHeld, link <- link
ImplementsLifecycle == Lifecycle!Spec

=============================================================================

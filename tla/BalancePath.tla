----------------------------- MODULE BalancePath -----------------------------
(***************************************************************************)
(* From a confirmed booking to a paid one.  Four parties collect one       *)
(* balance: the charge_balance job, an administrator's retry, the customer *)
(* with the emailed link, and the deliveries that report what the provider *)
(* took; the grace expiry gives up on it, and an administrator may flag    *)
(* the order under all of them.  An action is one database transaction,    *)
(* one statement outside a transaction, or one provider call.              *)
(*                                                                         *)
(* The deposit is DepositPath's: here it settles in one step.  So does the *)
(* refund of a late capture, whose steps are taken one by one there.       *)
(***************************************************************************)
EXTENDS OrderRows, Integers, FiniteSets

CONSTANTS
  MaxAttempts,    \* bound on the balance attempts the order opens
  Presses,        \* administrators' concurrent presses of Retry
  Links,          \* whether the customer may open the emailed link
  MaxTroubles     \* bound on presses and processes dying, together

ASSUME BalanceAssumption ==
  /\ HasBalance
  /\ MaxAttempts \in Nat \ {0} /\ MaxTroubles \in Nat
  /\ "job" \notin Presses /\ "customer" \notin Presses
  /\ Links \in BOOLEAN

Attempts == 1 .. MaxAttempts     \* numbered by age
Chargers == {"job"} \cup Presses
Openers  == Chargers \cup {"customer"}

VARIABLES
  payment,   \* payments.state of a balance attempt; "none" before it is opened
  intent,    \* what the provider has under the attempt's key
  returned,  \* attempts whose money went back
  disowned,  \* kept for the properties: pages whose attempt was closed as failed
  sent,      \* events the provider has emitted
  processed, \* events whose inbox row has processed_at
  opener,    \* chargeBalance calls, and the customer's startLinkCheckout
  delivery,  \* the execution of the webhook handler
  grace,     \* the runner's execution of balance_grace_expiry
  overtaken, \* history: deciders since whose look an attempt became pending or succeeded
  raced,     \* history: whether one of them opened an attempt all the same
  troubles

provider == <<intent, sent>>
ledger == <<payment, returned, disowned>>
vars == <<rows, payment, intent, returned, disowned, sent, processed, opener, delivery, grace,
          overtaken, raced, troubles>>

Events == [kind : {"succeeded", "failed"}, attempt : Attempts]

Captured == {a \in Attempts : intent[a] \in {"charged", "paid"}}
Settled  == \E a \in Attempts : payment[a] = "succeeded"
Opened   == {a \in Attempts : payment[a] # "none"}
Latest   == Cardinality(Opened)

IdleOpener == [pc |-> "idle", saw |-> "none", attempt |-> 0]
IdleDelivery == [pc |-> "idle", event |-> {}, saw |-> "none"]

Resting(o) == opener[o].pc = "idle"
At(o, pc) == opener[o].pc = pc
GoTo(o, pc) == opener' = [opener EXCEPT ![o].pc = pc]
EndAt(pc) == [IdleOpener EXCEPT !.pc = pc]     \* what it read, it needs no more
End(o, pc) == opener' = [opener EXCEPT ![o] = EndAt(IF o \in Presses /\ pc # "confirm" THEN "idle" ELSE pc)]
\* An opener has looked for a settled balance and has not yet named its attempt.
Deciding(o) == opener[o].pc \in {"begin", "card", "pick", "open"}

Init ==
  /\ OrderCreated
  /\ payment = [a \in Attempts |-> "none"]
  /\ intent = [a \in Attempts |-> "none"]
  /\ returned = {} /\ disowned = {} /\ sent = {} /\ processed = {}
  /\ opener = [o \in Openers |-> IdleOpener]
  /\ delivery = IdleDelivery
  /\ grace = "idle"
  /\ overtaken = {} /\ raced = FALSE
  /\ troubles = 0

\* What the history variables record of a step, whichever it is.
BecomesLive == \E a \in Attempts : payment'[a] \in {"pending", "succeeded"} /\ payment'[a] # payment[a]
Overtake ==
  /\ overtaken' = {o \in Openers : /\ Deciding(o) /\ Deciding(o)'
                                   /\ o \in overtaken \/ BecomesLive}
  /\ raced' = (raced \/ \E o \in overtaken : At(o, "open") /\ opener'[o].pc = "provider")

-----------------------------------------------------------------------------
(* chargeBalance.                                                          *)

ConfirmDeposit ==
  /\ state = "pending_payment"
  /\ Move("confirmed")
  /\ UNCHANGED <<ledger, provider, processed, opener, delivery, grace, troubles>>
  /\ Overtake

StartJob ==
  /\ Resting("job")
  /\ ClaimRow("charge_balance")
  /\ GoTo("job", "read")
  /\ UNCHANGED <<state, graceOpen, dateHeld, link>>
  /\ UNCHANGED <<ledger, provider, processed, delivery, grace, troubles>>
  /\ Overtake

\* The handler's own read: an order that has ended has nothing to charge.
ReadForJob ==
  /\ At("job", "read")
  /\ GoTo("job", IF IsTerminal(state) THEN "answered" ELSE "load")
  /\ UNCHANGED <<rows, ledger, provider, processed, delivery, grace, troubles>>
  /\ Overtake

\* retryBalance, refused unless the order is waiting.
PressRetry(p) ==
  /\ Resting(p)
  /\ state = "action_required"
  /\ GoTo(p, "load")
  /\ troubles < MaxTroubles /\ troubles' = troubles + 1
  /\ UNCHANGED <<rows, ledger, provider, processed, delivery, grace>>
  /\ Overtake

\* The read every later decision of the call is made on.
LoadOrder(c) ==
  /\ At(c, "load")
  /\ opener' = [opener EXCEPT ![c].pc = "check", ![c].saw = state]
  /\ UNCHANGED <<rows, ledger, provider, processed, delivery, grace, troubles>>
  /\ Overtake

\* By the state the order was loaded in.
ByState(c) ==
  \/ opener[c].saw = "confirmed" /\ GoTo(c, "begin")
  \/ opener[c].saw \in {"balance_due", "action_required"} /\ GoTo(c, "card")
  \/ opener[c].saw \notin {"confirmed", "balance_due", "action_required"} /\ End(c, "refused")

CheckSettled(c) ==
  /\ At(c, "check")
  /\ \/ Settled /\ End(c, "answered")
     \/ ~Settled /\ ByState(c)
  /\ UNCHANGED <<rows, ledger, provider, processed, delivery, grace, troubles>>
  /\ Overtake

\* A move the lifecycle refuses is a ValidationError to the caller.
TryMove(c, to, mintsLink, then) ==
  \/ ApplyTransition(to, mintsLink) /\ then
  \/ ~CanTransition(state, to) /\ End(c, "refused") /\ UNCHANGED rows

BeginCharge(c) ==
  /\ At(c, "begin")
  /\ TryMove(c, "balance_due", FALSE, GoTo(c, "card"))
  /\ UNCHANGED <<ledger, provider, processed, delivery, grace, troubles>>
  /\ Overtake

\* The provider may no longer have a card: then nothing is charged.
FindCard(c) ==
  /\ At(c, "card")
  /\ \E next \in {"pick", "handoff"} : GoTo(c, next)
  /\ UNCHANGED <<rows, ledger, provider, processed, delivery, grace, troubles>>
  /\ Overtake

-----------------------------------------------------------------------------
(* The attempt: read, then opened, with no lock between.                   *)

\* Mutant: an attempt whose outcome was never learned is not used again.
PickAnew(o) ==
  /\ At(o, "pick")
  /\ opener' = [opener EXCEPT ![o].pc = "open", ![o].attempt = 0]
  /\ UNCHANGED <<rows, ledger, provider, processed, delivery, grace, troubles>>
  /\ Overtake

PickAttempt(o) ==
  /\ At(o, "pick")
  /\ opener' = IF Latest # 0 /\ payment[Latest] = "pending"
               THEN [opener EXCEPT ![o].pc = "provider", ![o].attempt = Latest]
               ELSE [opener EXCEPT ![o].pc = "open", ![o].attempt = 0]
  /\ UNCHANGED <<rows, ledger, provider, processed, delivery, grace, troubles>>
  /\ Overtake

OpenAttempt(o) ==
  /\ At(o, "open")
  /\ Latest < MaxAttempts
  /\ payment' = [payment EXCEPT ![Latest + 1] = "pending"]
  /\ opener' = [opener EXCEPT ![o].pc = "provider", ![o].attempt = Latest + 1]
  /\ UNCHANGED <<rows, returned, disowned, provider, processed, delivery, grace, troubles>>
  /\ Overtake

-----------------------------------------------------------------------------
(* The provider.  One key, one object: a repeated call is answered with    *)
(* the object it made before, and a key first used for a charge is refused *)
(* for a hosted session, as the other way about.                           *)

Emit(kind, a) == sent' = sent \cup {[kind |-> kind, attempt |-> a]}

Answered(c, taken) == GoTo(c, IF taken THEN "taken" ELSE "declined")

\* The outcome of a first charge; the answer may be lost.
ChargeOffSession(c) ==
  LET a == opener[c].attempt
  IN /\ c \in Chargers /\ At(c, "provider") /\ intent[a] = "none"
     /\ \E taken \in BOOLEAN :
          /\ intent' = [intent EXCEPT ![a] = IF taken THEN "charged" ELSE "declined"]
          /\ Emit(IF taken THEN "succeeded" ELSE "failed", a)
          /\ Answered(c, taken) \/ End(c, "threw")
     /\ UNCHANGED <<rows, ledger, processed, delivery, grace, troubles>>
     /\ Overtake

\* The key's own charge again; or, once the key is old, whatever the attempt's
\* metadata finds, a hosted page's intent included, which is refused before.
AdoptCharge(c) ==
  LET a == opener[c].attempt
  IN /\ c \in Chargers /\ At(c, "provider") /\ intent[a] # "none"
     /\ Answered(c, a \in Captured) \/ End(c, "threw")
     /\ UNCHANGED <<rows, ledger, provider, processed, delivery, grace, troubles>>
     /\ Overtake

\* createCheckoutSession, or the one this key already made.
OpenHostedPage ==
  LET a == opener["customer"].attempt
  IN /\ At("customer", "provider")
     /\ intent' = [intent EXCEPT ![a] = IF @ = "none" THEN "hosted" ELSE @]
     /\ opener' = [opener EXCEPT !["customer"] = IdleOpener]
     /\ UNCHANGED <<rows, ledger, sent, processed, delivery, grace, troubles>>
     /\ Overtake

\* A hosted page stays payable until it is paid, whatever became of the order.
PayHostedPage(a) ==
  /\ intent[a] = "hosted"
  /\ intent' = [intent EXCEPT ![a] = "paid"]
  /\ Emit("succeeded", a)
  /\ UNCHANGED <<rows, ledger, processed, opener, delivery, grace, troubles>>
  /\ Overtake

\* Bound: one decline per page, which stays payable.
DeclineHostedPage(a) ==
  /\ intent[a] = "hosted"
  /\ [kind |-> "failed", attempt |-> a] \notin sent
  /\ Emit("failed", a)
  /\ UNCHANGED <<rows, ledger, intent, processed, opener, delivery, grace, troubles>>
  /\ Overtake

-----------------------------------------------------------------------------
(* What the charger writes down.                                           *)

\* markPaymentFailed.
CloseAttempt(a) ==
  /\ payment' = [payment EXCEPT ![a] = "failed"]
  /\ disowned' = IF intent[a] \in {"hosted", "paid"} THEN disowned \cup {a} ELSE disowned

MarkTaken(c) ==
  /\ At(c, "taken")
  /\ payment' = [payment EXCEPT ![opener[c].attempt] = "succeeded"]
  /\ End(c, "confirm")
  /\ UNCHANGED <<rows, returned, disowned, provider, processed, delivery, grace, troubles>>
  /\ Overtake

\* Mutant: the order is confirmed on a decline too.
ConfirmDeclined(c) ==
  /\ At(c, "declined")
  /\ CloseAttempt(opener[c].attempt)
  /\ End(c, "confirm")
  /\ UNCHANGED <<rows, returned, provider, processed, delivery, grace, troubles>>
  /\ Overtake

MarkDeclined(c) ==
  /\ At(c, "declined")
  /\ CloseAttempt(opener[c].attempt)
  /\ opener' = [opener EXCEPT ![c].pc = "handoff", ![c].attempt = 0]
  /\ UNCHANGED <<rows, returned, provider, processed, delivery, grace, troubles>>
  /\ Overtake

\* Mutant: the order's row is written, and nothing that follows from a move.
ConfirmByHand(c) ==
  /\ At(c, "confirm")
  /\ state' = "confirmed" /\ End(c, "answered")
  /\ UNCHANGED <<graceOpen, job, dateHeld, link>>
  /\ UNCHANGED <<ledger, provider, processed, delivery, grace, troubles>>
  /\ Overtake

ConfirmCaptured(c) ==
  /\ At(c, "confirm")
  /\ TryMove(c, "confirmed", FALSE, End(c, "answered"))
  /\ UNCHANGED <<ledger, provider, processed, delivery, grace, troubles>>
  /\ Overtake

\* Mutant: the customer is asked later, by somebody else.
HandOffNothing(c) ==
  /\ At(c, "handoff")
  /\ End(c, "answered")
  /\ UNCHANGED <<rows, ledger, provider, processed, delivery, grace, troubles>>
  /\ Overtake

\* Decided on the order as it was loaded: a second decline mints a fresh link
\* and looks no further, a first one moves the order.
HandOffToLink(c) ==
  /\ At(c, "handoff")
  /\ \/ /\ opener[c].saw = "action_required"
        /\ link' = "payable" /\ End(c, "answered")
        /\ UNCHANGED <<state, graceOpen, job, dateHeld>>
     \/ /\ opener[c].saw # "action_required"
        /\ TryMove(c, "action_required", TRUE, End(c, "answered"))
  /\ UNCHANGED <<ledger, provider, processed, delivery, grace, troubles>>
  /\ Overtake

\* done; held on a refusal that names the order's condition; retried or given
\* up on after anything else.
JobOutcomes(pc) ==
  CASE pc = "answered" -> {"done"}
    [] pc = "refused"  -> {"held"}
    [] pc = "threw"    -> {"queued", "failed"}
    [] OTHER           -> {}

FinishJob ==
  /\ \E status \in JobOutcomes(opener["job"].pc) : SetJob("charge_balance", status)
  /\ opener' = [opener EXCEPT !["job"] = IdleOpener]
  /\ UNCHANGED <<state, graceOpen, dateHeld, link>>
  /\ UNCHANGED <<ledger, provider, processed, delivery, grace, troubles>>
  /\ Overtake

-----------------------------------------------------------------------------
(* startLinkCheckout.                                                      *)

\* Under the order's lock: the link is live, the order waits and still owes.
OpenLink ==
  /\ Links /\ Resting("customer")
  /\ link = "payable" /\ state = "action_required" /\ ~Settled
  /\ GoTo("customer", "pick")
  /\ UNCHANGED <<rows, ledger, provider, processed, delivery, grace, troubles>>
  /\ Overtake

-----------------------------------------------------------------------------
(* applyWebhook.                                                           *)

EventOf == CHOOSE e \in delivery.event : TRUE
PaidBy == EventOf.attempt
DeliveryStep(from, to) ==
  /\ delivery.pc = from
  /\ delivery' = [delivery EXCEPT !.pc = to, !.saw = IF to = "ack" THEN "none" ELSE @]

\* A page's decline is applied before its payment: module DepositPath has the
\* other order.
Deliver(e) ==
  /\ delivery.pc = "idle" /\ e \in sent \ processed
  /\ e.kind = "succeeded" =>
       LET decline == [kind |-> "failed", attempt |-> e.attempt]
       IN decline \in sent => decline \in processed
  /\ delivery' = IF e.kind = "failed"
                  THEN [pc |-> "fail", event |-> {e}, saw |-> "none"]
                  ELSE [pc |-> "mark", event |-> {e}, saw |-> state]
  /\ UNCHANGED <<rows, ledger, provider, processed, opener, grace, troubles>>
  /\ Overtake

MarkPaymentFailed ==
  /\ DeliveryStep("fail", "ack")
  /\ CloseAttempt(PaidBy)
  /\ UNCHANGED <<rows, returned, provider, processed, opener, grace, troubles>>
  /\ Overtake

MarkPaymentSucceeded ==
  /\ DeliveryStep("mark", "branch")
  /\ payment' = [payment EXCEPT ![PaidBy] = "succeeded"]
  /\ UNCHANGED <<rows, returned, disowned, provider, processed, opener, grace, troubles>>
  /\ Overtake

\* As module DepositPath's ConfirmOrder: decided on the order as it was read.
ConfirmOrder ==
  /\ delivery.pc = "branch" /\ ~ReleasesCapacity(delivery.saw)
  /\ \/ /\ delivery.saw = "confirmed" \/ state = "confirmed"
        /\ DeliveryStep("branch", "ack")
        /\ UNCHANGED rows
     \/ /\ delivery.saw # "confirmed"
        /\ Move("confirmed")
        /\ DeliveryStep("branch", "ack")
     \/ /\ delivery.saw # "confirmed" /\ state # "confirmed"
        /\ ~CanTransition(state, "confirmed")
        /\ delivery' = IdleDelivery
        /\ UNCHANGED rows
  /\ UNCHANGED <<ledger, provider, processed, opener, grace, troubles>>
  /\ Overtake

RefundLateCapture ==
  /\ delivery.pc = "branch" /\ ReleasesCapacity(delivery.saw)
  /\ DeliveryStep("branch", "ack")
  /\ payment' = [payment EXCEPT ![PaidBy] = "refunded"]
  /\ returned' = returned \cup {PaidBy}
  /\ UNCHANGED <<rows, disowned, provider, processed, opener, grace, troubles>>
  /\ Overtake

Acknowledge ==
  /\ delivery.pc = "ack"
  /\ processed' = processed \cup delivery.event
  /\ delivery' = IdleDelivery
  /\ UNCHANGED <<rows, ledger, provider, opener, grace, troubles>>
  /\ Overtake

-----------------------------------------------------------------------------
(* The balance_grace_expiry handler.                                       *)

StartGrace ==
  /\ grace = "idle" /\ grace' = "read"
  /\ ClaimRow("balance_grace_expiry")
  /\ UNCHANGED <<state, graceOpen, dateHeld, link>>
  /\ UNCHANGED <<ledger, provider, processed, opener, delivery, troubles>>
  /\ Overtake

ReadForGrace ==
  /\ grace = "read"
  /\ grace' = IF state = "action_required" THEN "cancel" ELSE "done"
  /\ UNCHANGED <<rows, ledger, provider, processed, opener, delivery, troubles>>
  /\ Overtake

CancelUnpaid ==
  /\ grace = "cancel"
  /\ \/ Move("cancelled") /\ grace' = "done"
     \/ ~CanTransition(state, "cancelled") /\ grace' = "threw" /\ UNCHANGED rows
  /\ UNCHANGED <<ledger, provider, processed, opener, delivery, troubles>>
  /\ Overtake

FinishGrace ==
  /\ grace \in {"done", "threw"} /\ grace' = "idle"
  /\ \E status \in IF grace = "done" THEN {"done"} ELSE {"queued", "failed"} :
       SetJob("balance_grace_expiry", status)
  /\ UNCHANGED <<state, graceOpen, dateHeld, link>>
  /\ UNCHANGED <<ledger, provider, processed, opener, delivery, troubles>>
  /\ Overtake

-----------------------------------------------------------------------------
(* Administrators.                                                         *)

Administer(action) ==
  /\ action
  /\ UNCHANGED <<ledger, provider, processed, opener, delivery, grace, troubles>>
  /\ Overtake

\* A resolution asks for the move, and not whether the order is flagged: one
\* decided on an old page may find the order waiting for its balance.
\* Bound: a delivered order is not flagged.
FlagOrResolve ==
  \E to \in {"issue", "confirmed", "fulfilled", "cancelled"} :
    /\ to = "issue" => state # "fulfilled"
    /\ Administer(Move(to))

Requeue ==
  \E type \in {"charge_balance", "balance_grace_expiry"} :
    /\ Administer(RequeueRow(type) /\ UNCHANGED <<state, graceOpen, dateHeld, link>>)

\* A process dies where it stands: its job row stays running, its event is
\* delivered again, its press is forgotten.
Die ==
  /\ troubles < MaxTroubles /\ troubles' = troubles + 1
  /\ \/ \E o \in Openers :
          /\ ~Resting(o) /\ End(o, "idle")
          /\ UNCHANGED <<delivery, grace>>
     \/ /\ delivery.pc # "idle" /\ delivery' = IdleDelivery
        /\ UNCHANGED <<opener, grace>>
     \/ /\ grace # "idle" /\ grace' = "idle"
        /\ UNCHANGED <<opener, delivery>>
  /\ UNCHANGED <<rows, ledger, provider, processed>>
  /\ Overtake

-----------------------------------------------------------------------------

Charge(c) ==
  \/ LoadOrder(c) \/ CheckSettled(c) \/ BeginCharge(c) \/ FindCard(c)
  \/ ChargeOffSession(c) \/ AdoptCharge(c)
  \/ MarkTaken(c) \/ MarkDeclined(c) \/ ConfirmCaptured(c) \/ HandOffToLink(c)

Handle ==
  \/ MarkPaymentFailed \/ MarkPaymentSucceeded \/ ConfirmOrder
  \/ RefundLateCapture \/ Acknowledge

RunGrace == StartGrace \/ ReadForGrace \/ CancelUnpaid \/ FinishGrace

Next ==
  \/ ConfirmDeposit
  \/ StartJob \/ ReadForJob \/ FinishJob
  \/ \E p \in Presses : PressRetry(p)
  \/ \E c \in Chargers : Charge(c)
  \/ \E o \in Openers : PickAttempt(o) \/ OpenAttempt(o)
  \/ OpenLink \/ OpenHostedPage
  \/ \E a \in Attempts : PayHostedPage(a) \/ DeclineHostedPage(a)
  \/ (\E e \in Events : Deliver(e)) \/ Handle
  \/ RunGrace
  \/ FlagOrResolve \/ Requeue
  \/ Die

Spec == Init /\ [][Next]_vars

-----------------------------------------------------------------------------

OpenerSteps ==
  {"idle", "read", "load", "check", "begin", "card", "pick", "open", "provider",
   "taken", "declined", "confirm", "handoff", "answered", "refused", "threw"}

\* Every row, provider object and program counter holds a value its code can
\* write, and attempts are opened in order of age.
TypeOK ==
  /\ RowsTypeOK
  /\ payment \in [Attempts -> {"none", "pending", "succeeded", "failed", "refunded"}]
  /\ intent \in [Attempts -> {"none", "charged", "declined", "hosted", "paid"}]
  /\ Opened = 1 .. Latest
  /\ processed \subseteq sent /\ sent \subseteq Events
  /\ \A o \in Openers : opener[o].pc \in OpenerSteps /\ opener[o].attempt \in {0} \cup Opened
  /\ delivery.event \subseteq sent
  /\ grace \in {"idle", "read", "cancel", "done", "threw"}
  /\ disowned \subseteq Opened /\ overtaken \subseteq Openers /\ raced \in BOOLEAN
  /\ troubles \in 0 .. MaxTroubles

\* One balance is kept once, by whichever of the job, the retry and the link
\* gets there: an attempt whose answer was lost is asked about again under its
\* own key, after any crash (the pending attempt reused in chargeBalance and
\* startLinkCheckout).  Two things may break it.  A page whose attempt was
\* closed as failed, by a decline or by a retry that found it unpaid, stays
\* payable.  And nothing locks the order between a caller's look at its payments
\* and the attempt it opens, so two callers that looked in step each open one
\* (raced): PressedTwiceChargesOnce is what the code claims of that, and fails.
BalanceKeptOnce == Cardinality(Captured \ returned) > 1 => disowned # {} \/ raced

\* What retryBalance says of itself: pressing this twice cannot charge twice.
PressedTwiceChargesOnce ==
  \A p, q \in Presses : At(p, "taken") /\ At(q, "taken") => opener[p].attempt = opener[q].attempt

\* The charge's job never ends in silence: when it is done the balance was
\* taken, the customer was sent a link, or the order is over.
ChargeJobIsAnswered ==
  job["charge_balance"] = "done" =>
    IsTerminal(state) \/ link # "none" \/ \E a \in Attempts : payment[a] \in {"succeeded", "refunded"}

\* However the charge's job ended, its order, its attempts and its link say why.
Consistent ==
  /\ TypeOK
  /\ ChargeJobIsAnswered

\* A booking leaves its wait for the balance as a confirmed one only when the
\* provider took the balance, or when a person says so: resolveIssue is the one
\* way to confirm it unpaid, from a page drawn before the wait began too, which
\* then marks the link paid.
ReturnIsPaid ==
  [][(state \in {"balance_due", "action_required"} /\ state' = "confirmed")
       => Captured # {} \/ FlagOrResolve]_vars

\* The balance's path is one way of driving the abstract lifecycle.
Lifecycle == INSTANCE OrderLifecycle
               WITH state <- state, graceOpen <- graceOpen, job <- job,
                    dateHeld <- dateHeld, link <- link, HasBalance <- HasBalance
ImplementsLifecycle == Lifecycle!Spec

=============================================================================

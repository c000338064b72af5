# A model of the booking platform's core

This directory is a TLA+ development of the core of the platform: what an order
may become, the money that moves it, the dates it holds and the queue that runs
what it scheduled.  Modules are checked by TLC on small instances and, where
listed, proved by TLAPS for every value of their constants.  Paths below are
relative to `packages/core/src` unless they start otherwise.

## The system

A customer plans an event, puts services of several vendors in a cart, and
checks out: one order per vendor, each holding the vendor's date.  A deposit
confirms an order; a balance is charged before the event; delivery, a complaint
or a cancellation ends it; the vendor is paid in two shares.  Four kinds of
process act on the same PostgreSQL rows with no common owner: web requests
(customer, vendor, administrator), the payment provider's webhook deliveries,
the scheduler's tick, and an administrator's run of the queue on a clock she may
have moved.

| component | state it keeps | operations | hard because |
|---|---|---|---|
| order lifecycle (`ordering/`) | `orders.state`, its deadlines, its job rows, its payment links | `applyTransition` and its callers | every caller decides on a state read earlier; consequences are many rows |
| deposit (`payments/`, webhook route) | `payments`, `refunds`, the provider's intents | `chargeDeposit`, `confirmFromWebhook`, `refundLateCapture`, `releaseUnpaidIntent` | database and provider cannot commit together; events are late, repeated, reordered |
| checkout and capacity (`ordering/`, `planning/`) | `capacity_blocks`, `events` | `createCheckout`, `updateEvent`, `cancelEvent` | one long transaction against others; an exclusion constraint is the only double-booking guard |
| job queue (`jobs/`) | `jobs` | `enqueue`, `claimDue`, `runOne`, `requeue`, cancellations | at-least-once execution, leases, crashes, two clocks |
| balance (`payments/`, `ordering/admin-service.ts`) | balance attempts, links, grace deadline | `chargeBalance`, `retryBalance`, `startLinkCheckout`, `balanceGraceExpiry` | four ways to pay one amount, none of them under one lock |
| payouts and refunds (`payments/`) | `transfers`, `refunds` | `transferShare`, `refundWithinCoolingWindow`, `recordExternalRefund` | several provider calls and rows per operation |
| webhook inbox | `provider_webhooks` | `recordWebhook`, `applyWebhook`, `sweepParkedWebhooks` | parked and replayed events |
| disputes | cases | `openDispute`, `resolveDispute`, `closeDisputesForOrder` | two rows locked in two orders |
| email outbox | `email_sends`, their jobs | `queueTransactional`, `send_email`, the provider's verdicts | a provider call between two writes, verdicts in any order |
| money and plans (`payments/money.ts`, `plan.ts`, `agreement.ts`) | an order's figures, the settings | `computeOrderMoney`, `buildPaymentPlan`, `allocate` | figures shown, priced again and read back at different times |
| vendor standing | `vendors.status`, held payouts | suspension, reinstatement, onboarding | it holds and releases rows other components own |
| quotes, planning slots, clock | their own rows | | a handful of interactions with the above |
| identity, catalogue, moderation, audit, analytics, reference, UI, seeds | | | reads, single-row writes, text |

What makes each correct is stated in the modules; the hazards it is exposed to,
line by line, are in `PROJECT.json`.

## Modules

`OrderTransitions` holds the pure tables of `ordering/transitions.ts`: the legal
moves, what a move does to the date, the jobs it queues or calls off, the links
it retires.  It has no state.

`OrderRows` adds the rows one order owns (`state`, `graceOpen`, `job`,
`dateHeld`, `link`) and `ApplyTransition`, the one transaction that moves an
order.  Deadlines are not numbers: a job row that is `queued` may be claimed at
any later moment.

`OrderLifecycle` is the abstract specification: each caller of `applyTransition`
as one action asking for its move, and the queue's side of a job row.  It does
not say why a caller asks, and it gives callers the freedom the code gives them:
`resolveIssue` and `confirmFromWebhook` do not look at the state they move from,
`handOffToLink` mints on a state it read earlier, a handler parks a row on an
order it read earlier.  A vendor's suspension, which parks a queued payout, is
its one action that is neither a caller nor a runner (`ParkTransfer`).

`DepositPath` is the first detailed component.  An action is one database
transaction, one statement outside a transaction, or one provider call:

| part | actions | code |
|---|---|---|
| a customer's tab | `ReadForDeposit`, `OpenAttempt`, `CreateIntent`, `AttachIntent`, `PayDeposit` | `chargeDeposit` |
| the provider | `CaptureDeposit`, `DeclineDeposit` | external |
| a delivery (webhook or sweep) | `Deliver`, `LoadOrder`, `MarkPayment…`, `ConfirmOrder`, `FindStandingRefund` … `Acknowledge` | `applyWebhook`, `confirmFromWebhook`, `refundLateCapture` |
| the expiry | `ClaimExpiry`, `ReadOrder`, `ListAttempts`, `CancelIntent`, `CancelUnpaid`, `FinishExpiry`, … | `expireUnpaid`, `releaseUnpaidIntent`, `cancelOrder` |
| failures | `DeliveryDies`, `RunnerDies`, `CancelIntentFault`, redelivery, `RequeueExpiry` | leases, the inbox, `requeueJob` |

It EXTENDS `OrderRows`, so the order moves by the same `ApplyTransition`, and it
implements `OrderLifecycle` (`ImplementsLifecycle`, checked and proved).  Events
may arrive in any order and any number of times at once.  An administrator's
resolution, which may confirm or cancel any order, is `OrderLifecycle`'s and
`BalancePath`'s and is not repeated here.

`CheckoutCapacity` is the checkout transaction, statement by statement: the
event's lock, one cart per vendor resumed or inserted, one block per line, the
commit.  A block that another open transaction has inserted makes an insert wait;
a committed one makes the checkout roll back.  A block's range starts at the
event's start and runs to the next local midnight, so two blocks of a service
overlap exactly when their days are equal; a day is all that is kept.

`JobQueue` is the jobs table with any number of runners.  `line` orders the rows
that are due; a row that is not in it is not due.  A handler is any of its four
answers.  A row whose runner died may be claimed again (`Abandoned`), and so may one
whose runner is still at work when its fifteen minutes are over (`Overrun`); both
runners then write their answers by the row's id.  `contested` remembers the claims
that met on a row, so that a property can say what slowness may break and what it
may not.

`BalancePath` follows a confirmed booking to a paid one.  Four openers and payers
share one balance, and none of them holds the order's lock for long:

| part | actions | code |
|---|---|---|
| the job, an administrator's retry | `ReadForJob`, `PressRetry`, `LoadOrder` … `FindCard`, `PickAttempt`, `OpenAttempt`, `ChargeOffSession`, `AdoptCharge`, `MarkTaken`, `MarkDeclined`, `ConfirmCaptured`, `HandOffToLink`, `FinishJob` | `chargeBalance` handler, `retryBalance`, `chargeBalance`, `handOffToLink` |
| the customer's link | `OpenLink`, `PickAttempt`, `OpenAttempt`, `OpenHostedPage` | `startLinkCheckout` |
| the provider | `PayHostedPage`, `DeclineHostedPage` | external |
| a delivery | `Deliver`, `MarkPayment…`, `ConfirmOrder`, `RefundLateCapture`, `Acknowledge` | `applyWebhook`, `confirmFromWebhook` |
| the grace expiry | `StartGrace`, `ReadForGrace`, `CancelUnpaid`, `FinishGrace` | `balanceGraceExpiry` |
| the rest | `FlagOrResolve`, `Requeue`, `Die` | `flagOrder`, `resolveOrderIssue`, `requeueJob`, leases |

The deposit, and the refund of a late capture, are one step each; `DepositPath`
takes theirs apart.  Nothing locks the order between a caller's look at its
payments and the attempt it opens, so two callers may be there at once;
`overtaken` and `raced` remember when that happened.  `FlagOrResolve` asks for any
legal move, as `resolveIssue` does: a resolution decided on an old page may find
the order waiting for its balance.

`PayoutPath` moves captured money out: two payout jobs (`StartJob`, `Decide`,
`ClaimTransfer`, `HoldTransfer`, `CreateTransfer`, `MarkTransferPaid`,
`FinishJob`, and `CompleteOrder` before the second: `transferShare`,
`autoCompleteOrder`), the refund inside the free window (`StartRefund` …
`CloseOrder`: `refundWithinCoolingWindow`), the recording of a dashboard refund
(`StartRecord` … `FlagForAttention`: `recordExternalRefund`), and a vendor's
`Suspend`, `Reinstate` and `Onboard`.  Each charge and each row is kept apart from
what the provider really did (`left`, `moved`, `refund[r].made`), which is what
the properties compare.  `Overlap` names the calls in whose midst something else
may begin, and `late` the charges captured in the midst of a refund.

`Disputes` is about locks.  `resolveDispute` locks a case, then its order, then
the sibling cases; `resolveOrderIssue` the order, then its cases.  Both are one
transaction, so an action takes one lock and `Commit` writes everything; a cycle
of waiting transactions is broken by the database (`BreakDeadlock`).

`EmailOutbox` queues a message inside the move, or the decline, that made it news
(`MoveAndTell`, `HandOffToLink`), and carries it with `send_email` jobs: `Claim`,
`ReadSend`, `CallProvider`, `MarkSent`, `MarkFailed`, `Settle`.  A lease may be
taken while its runner lives, a runner may die, the provider's answer may be lost,
and `RecordDeliveryEvent` brings verdicts in any order.  `declined` keeps what each link
was minted for, which the message's key is made of: an attempt or, without a card,
the wait's deadline, and either may come again.

`PaymentPlan` is the arithmetic and the dates: `ComputeOrderMoney`,
`BuildPaymentPlan` and `Allocate` as operators, and one booking going through
quote, checkout, resumption, charges and shares while rates, lead days and prices
are edited.  It says what is priced again, what is read back, and what an edit in
between changes.

How they fit: `OrderRows` is shared, so the order moves by one `ApplyTransition`
in every module, and `DepositPath`, `BalancePath`, `PayoutPath`, `Disputes` and
`EmailOutbox` are each proved to implement `OrderLifecycle`, which therefore is the
contract between them: one may be read while the others are any caller of the lifecycle.  `JobQueue`
justifies what the paths assume of a claimed row.

The `MC…` modules fix instances for TLC; the `…_proofs` modules hold theorems.

## Runs

| run | instance | shows |
|---|---|---|
| `MCOrderLifecycle` | one order with a balance, unbounded moves | date, link, deadline and job rows stay in step with the state |
| `MCDepositPath` | 2 tabs, 2 attempts, 1 delivery at a time in any order, declines, faults, 1 crash, 2 tries | money and booking agree; the lifecycle is implemented |
| `MCDepositLive` | 1 tab, otherwise as above | the hold ends, a late capture goes back |
| `MCCheckoutCapacity` | 2 events, 3 services of 2 vendors, 2 days, 2 orders, 2 checkouts | no double booking, no stranded date, no booking without its day |
| `MCJobQueue` | 3 rows, a tick and a button, batch 2, ceiling 2, 1 crash, 2 overruns | an unmet claim is exclusive, the ceiling, the demo filter, who may touch a finished row, every armed row is answered |
| `MCBalancePath` | the job, the link and its page, 2 attempts, 1 trouble: a press of Retry, a death or a lost answer | one balance is kept once, the wait ends on money, the lifecycle is implemented |
| `MCPayoutPath` | charges of 2 and 2, shares of 1 and 1, 3 refund rows, deaths in a payout or a refund, 1 trouble, no overlap | a share leaves once, the ledger and the provider agree, what was paid out is covered or flagged |
| `MCDisputes` | 2 administrators, 2 cases | a closed case frees its order, a decision stands, every call is answered |
| `MCEmailOutbox` | 2 runners, 2 messages, 2 links, 1 trouble | one copy, the working link is mailed, verdicts stand, every message is settled |
| `MCPaymentPlan` | prices 0, 3, 8, 49 cents, 2 commission, 2 tax and 3 deposit rates, 2 lead days, windows of 0 and 2 days, 1 edit, event on day 4 | what the screen said is charged, and the shares come out to the cent |

A run checks a module's headline properties by name, and its other invariants as
the named parts of one, `Consistent`: the type invariant with, for instance,
`OneOpenAttempt`, `RefundRowsStand` and `SettledMeansReturned` in `DepositPath`, or
`LedgerNeverNegative`, `RefundedIsReturned`, `RefundedOrderIsEmpty` and
`FulfilledIsAwaited` in `PayoutPath`.  `ClosingIsFinal` and `SharesComeOut` are made
of parts in the same way.  `FinishedStaysFinished` and `DeliveryWakesCompletion`
of `OrderLifecycle`, and that `PayoutPath` and `EmailOutbox` implement the
lifecycle, are proved and need no run.

Two of everything that can race is enough for every race of two actors, and the
properties relate at most two attempts, two orders, two cases or two runners.  A
third service gives one vendor a cart of two lines; a batch smaller than the
number of rows makes a backlog; a ceiling of two is the smallest that
distinguishes a first failure from the last.  A share of one out of a charge of
two is the least that leaves the platform something and lets a refund eat into
it; three refund rows let both charges be refunded after one row was left behind
by a death.  Of the amounts, 3 is below the small-total line, 8 makes a deposit of
1 % round to nothing, 49 makes both shares round, and 0 is refused; the rates
include a deposit rate that rounds to nothing and a tax of zero.  The
vendor starts without an account and may be suspended at any point.

Counters are bounded by `MaxAttempts`, `MaxTries`, `MaxRearms`, `MaxCrashes`,
`MaxOverruns`, `MaxTroubles`, `MaxRefunds`, `MaxMessages`, `MaxMints`, `MaxEdits` and
by the sizes of `Orders` and `Presses`; `Mortal` names the calls that may die in
`PayoutPath`.  An attempt is declined at most once in `DepositPath` and in
`BalancePath`, where a page's decline is applied before its payment.  Symmetry is
used in `MCCheckoutCapacity`, whose orders, events, days and sessions are
interchangeable, and in `MCDepositPath` for its tabs; no liveness is checked in
these.  Deadlock is not checked where the system may
stop: an order that is refunded, a queue with nothing left, bounds used up.

`MCBalancePath` has a state constraint, `FewAttempts`: once the link was used and
Retry pressed, or a process died or lost an answer, behaviours are followed only as
long as one attempt was opened.  What is cut off, and two ticks or more in
`MCJobQueue`, is covered by the theorems.  So is the overlap of payouts: in
`MCPayoutPath` nothing else begins while a payout or a refund is in progress, except
that it may die there, and the theorems about `Consistent`, `SharePaidOnce` and
`SuspensionLeavesNothing` hold for any `Overlap`.  `SolventOrFlagged` is the
exception.  It is checked where calls do not overlap and a recording does not die,
and it is not proved: the code keeps it in no other case.

Two runs end in a counterexample.  Each checks one sentence that the repository says
of the program, and `PROJECT.json` quotes it:

| run | the sentence fails because |
|---|---|
| `MCPressedTwice` | two presses of Retry look for a pending attempt before either has opened one, and charge one each; `BalanceKeptOnce` says how far the code does go |
| `MCShareForgotten` | the share of a vendor without an account is parked with its job; completing the order calls off held jobs with queued ones, so nothing carries the share any more |

### Noticed, with no run of their own

Each was met while modelling, is in the model, and the properties above are stated
beside it, never over it:

- A suspension that commits between a payout's look at the vendor's standing and its
  transfer is not seen, and the suspended vendor is paid (`payments/service.ts:938`);
  `assertVendorMayBePaid`, which `vendors/service.ts:459-461` says refuses exactly
  that, is called by nothing.
- A payout that runs while its vendor is suspended parks the share in words the
  reinstatement does not look for (`vendors/repo.ts:470`), and it stays parked for an
  approved vendor, against `:453` and `payments/service.ts:961-962`.
- A runner that outlived its lease writes its answer by the row's id alone
  (`jobs/repo.ts:438`) and may queue again what another runner finished, which
  `:359` rules out for `requeue`.
- Two deliveries of a late capture may both find no refund standing and open a row, and
  so a key, each (`payments/service.ts:289`, against `:273-277`).
- A resolution decided on a page drawn while the order was flagged confirms one that is
  waiting for its balance and marks its link paid (`ordering/service.ts:804`), a move
  that `ordering/lifecycle.md:37` gives one meaning, "paid through the emailed link".
- The key of a decline's message is its attempt or the wait's deadline, and both come
  again: the second decline voids the first link and its message is dropped
  (`payments/service.ts:640`, against `:637-639`).
- The vendor's share leaves after forty-eight hours whatever the order's free window
  (`ordering/transitions.ts:164`), which a policy template
  (`packages/db/src/seed/data/reference.ts:256`) or the setting may make longer;
  cancelling is then refused while it is free, against `payments/service.ts:1119` and
  `reference/settings.ts:90`.
- The expiry cancels an order confirmed after it was read (`ordering/service.ts:847`,
  against the comment at `jobs/handlers.ts:76`).
- A declined deposit intent stays payable beside its successor
  (`payments/service.ts:105`), and the expiry skips a declined attempt.
- Cancelling a cancelled intent is read as a charge in flight
  (`apps/web/src/lib/adapters/stripe.ts:214`).
- A decline applied late overwrites a succeeded row, and a capture delivered again
  overwrites a refunded one (`payments/service.ts:1467`).
- A checkout does not look at `cancelled_at` (`ordering/service.ts:271`).
- A declined balance finishes its job; an order flagged and resolved to confirmed
  afterwards has nothing that collects it (`jobs/handlers.ts:162`), and a grace
  expiry that finished while the order was flagged is not armed again (`:188`).
- `resolveDispute` and `resolveOrderIssue` take their locks in opposite orders, which
  the comment at `disputes/service.ts:412` means to avoid; the database breaks it.
- The balance date the customer agreed to is computed again at confirmation
  (`ordering/service.ts:586`).
- An in-app refund of an order that completes meanwhile returns the money and is
  then refused its move; a balance captured in the midst of the deposit's refund
  stays with an order that ends as refunded (`payments/service.ts:1186`);
  `recordExternalRefund` flags a paid deposit share only, and looks for it after
  settling its row.
- A capture delivered to a flagged order takes it out of `issue` with its cases open.
- `markSent` and `markFailed` of the outbox are unguarded, and an event that arrives
  before `markSent` is dropped; a confirmation after an issue sends no message.

## Fairness

`DepositPath`: the expiry's runner takes its enabled steps (the tick is scheduled
and a handler returns or throws), the provider settles what it is processing, a
delivery that started goes on unless its process dies, and an event that is not
acknowledged is delivered again (the provider retries, and the tick sweeps the
inbox).  Nothing is assumed of customers, administrators or crashes.
`JobQueue`: time passes for each row, each tick claims when it can, each handler
answers.  No fairness is assumed of the administrator's button.
`Disputes`: each administrator's transaction takes its next step if it can again
and again (SF, since a lock it waits for is given and taken: the database hands
rows out in turn), and a deadlock is found (WF).  A form may be left open for ever.
`EmailOutbox`: each runner goes on (WF), since the tick is scheduled.
Elsewhere fairness is weak, and it is stated only where a run checks liveness.

## Proofs

Where a theorem and a run speak of one property, the run shows it on its small
instance and the theorem for every value of the constants.  Each module has an
inductive invariant of its own: the headline property says too little about what
happens between its cause and its effect, and the invariant follows the rows, and
what each process has read of them, through every step in between.

`OrderLifecycle_proofs` proves every property of `MCOrderLifecycle` (`RowsKeepStep`
is `Consistent`), the two that have no run, and `NoBalanceOnPaidInFull`, which
speaks of orders the run's instance does not have: an order paid in full at
checkout never meets the balance path.  The inductive invariant `IInv` adds
`CompletionSpentOnlyAtEnd` to the invariants: the auto-completion's row is `done`
only for an order that has ended.  `DeliveredWillComplete` speaks of `fulfilled`
alone and says nothing of an order flagged on the way, which is where a spent row
would do its harm.  All moves are one lemma (`MoveKeepsInvariant`) about
`ApplyTransition`, all queue actions another (`QueueStepKeepsInvariant`).

Its last part reads `EmailOutbox` beside the lifecycle, on the same rows, which is
why that module's specification has names of its own (`OutboxSpec`).  It proves the
safety of `MCEmailOutbox` for any runners, templates, messages and troubles:
`SentAsSaid`, `WorkingLinkIsMailed` and `VerdictStands`; and that the outbox
implements the lifecycle, a decline of an order that already waits being
a `ReissueLink` because `IInv` says that such an order has a link.  The invariant
`MailInv` follows a message from its row through a lease taken over.  `RowSound`
ties what a row says to what the provider took, and the key of a decline's message to
what some link so far was minted for, so that a decline about anything new has a key
no row has.  `RunnerSound`
says that a runner which was not outrun holds the lease of its row: no one else
writes there, and the row it read as unsent still is, which is why its unguarded
`markSent` writes over no verdict.

`DepositPath_proofs` proves that `DepositPath` implements `OrderLifecycle` for any
number of tabs, attempts, deliveries and crashes, each step being a step of the
lifecycle or leaving the order's rows alone; the lifecycle's theorems therefore
hold of the deposit path too.  `Sound` says what the processes carry: an expiry
that runs owns its row, attempts are numbered by age and only the last may be
pending, a delivery's refund goes on under the row it opened, what the expiry
asked about and stopped waiting for is cancelled.  From it follow
`ExpirySparesRefusedCharge`, `OneOpenAttempt` and `SettledMeansReturned`.
`RefundRowsCounted` is what the last part of `Consistent` needs: every refund row of a
charge but the first was opened by a delivery that was already looking when the first
was, so rows and deliveries about to open one are never more than the deliveries.
`ConfirmedIsPaid` follows from `Paid`: a row says what the provider said or was told
before, and a delivery takes its branch only when the row is marked.  It holds for any
order of events, since a booking whose row was overwritten by a late decline is
excused by `Charged`, which asks for that very decline.

`BalancePath_proofs` proves the refinement in the same way, `Consistent` and
`ReturnIsPaid`.  Its `Sound` ties each caller's step to what the provider did for
the attempt it names, and a finished charge job to a charge, a link or an order
that is over.  `BalanceKeptOnce` needs `OneCharge`, which speaks of the callers that
are `Undisturbed`: nobody opened an attempt since they looked, so they decide on
payments as they stand, and unless a caller that was overtaken opened one (`raced`)
every attempt but the last is `Spent`: declined, disowned or returned.

`CheckoutCapacity_proofs` proves all of `MCCheckoutCapacity` for any number of
sessions, services, events and days, without a hypothesis.  `IInv` speaks of the
blocks of open transactions as well as of committed ones (`BlocksApart`), of what
each checkout has locked, made and inserted so far (`LockedStillWaits`,
`HeldForMade`, `CartsHeld`) and of the day it works to (`WorksToTheDay`).

`PayoutPath_proofs` proves that a share leaves once (`SharePaidOnce`), that
reinstatement releases all that a suspension parked (`SuspensionLeavesNothing`),
that a charge labelled refunded is returned (`RefundedIsReturned`), that a
delivered booking's completion is still awaited (`FulfilledIsAwaited`) and that the
ledger never goes below nothing (`LedgerNeverNegative`), under any interleaving, any
overlap of calls and any deaths.

The ledger adds up a set of refund rows with a fold of the community modules, and
what a sum over a set is can be shown without an induction rule: of the subsets for
which a law fails one would be minimal, and taking a row out of it gives a smaller
one (`SmallestSubset`).  From that come the laws the ledger needs: a sum splits,
depends on the values alone, and grows by what one row adds (`SumSplits`,
`OneRowChanges`, `RowsGrow`).  `LedgerInv` bounds the rows from both
sides: what they say went back, what a refund in flight or on the dashboard has
taken, and what the provider still holds come to no more than was captured, and to
no less once the rows that a death left behind are counted.
`RefundedOrderIsEmpty` follows from invariants about the call that is on its way, each
of which leaves out what was captured in its midst (`late`, added up in `LateSum`): a
refund inside the application still has on its list every other charge that holds
money (`WholeRefund`), one recorded from the dashboard ends the order only with all
that was left (`RestIsRecorded`), and nothing is captured on an order that ended so
(`RefundedIsOver`).  What was captured in the midst of a refund stays with the order:
that is the code's doing, and the property says so.

`PayoutPath` implements the lifecycle whether calls overlap or not: a
payout in progress has a running row (`RunnersOwnRows`), and by `IInv` it answers
`done` of a completion only once the order is over.

`Disputes_proofs` proves the safety of `MCDisputes` and the refinement for any
administrators and cases.  `IInv` says that what a call asked for it holds
(`AskedIsHeld`, `OrderIsHeld`), and that its list of siblings stays complete while
it holds the order (`ListIsComplete`), which is why freeing the order closes the
case that was opened last.

`JobQueue_proofs` proves the safety of `MCJobQueue` for any runners, rows and batch
size, however slow a handler is.  `ContestedAtWork` says that a contested claim is one
its runner has not answered for yet: a claim that no other met owns its row, and a
finished row is in nobody's batch but a contested one's, which is all that exclusivity
and the finality of `done` need.

`PaymentPlan_proofs` proves all of `MCPaymentPlan` for every price, rate, window and
lead time.  `SplitToTheCent` is arithmetic: `Allocate`'s two parts add up to the
amount, none exceeds its weight and each is its proportion to the nearest cent,
since two remainders that leave a whole number of cents leave none or one.
`Sound` says which figures a charge and a transfer were worked out from, and that
no edit reaches them once the row is written.

The only hypotheses are the named assumptions on constants, `HasBalanceAssumption`,
`DepositAssumption`, `BalanceAssumption`, `CapacityAssumption`, `QueueAssumption`,
`PayoutAssumption`, `DisputesAssumption`, `PlanAssumption` and `OutboxAssumption`,
which TLC evaluates: they say what the constants are, and rule out no
interleaving.

Model-checked only are `SolventOrFlagged` and liveness (`UnpaidHoldEnds`, `LateCaptureGoesBack`,
`EveryJobIsAnswered`, `EveryCallEnds`, `DecidedIsSettled`): the prover has no rules
for fairness and ENABLED.

## Not modelled

Most of the repository's lines are not behaviour of this kind: pages, components
and forms, seeds and schema declarations, reads with their joins and row shapes,
search ranking, text, reports.  They keep no state, or write one row in one
statement, and no order of steps makes them wrong; what is modelled is the core
that does, and it is a small share of the whole.

Of that core: the agreement's text; the twenty-four hour life of an idempotency
key and the search that replaces it; the wording of messages, broadcasts, consent
and unsubscribing; audit entries; authorisation (a pure predicate of the caller's
role); `job_runs` and pruning; planning slots, guests and budget; the inbox's
ceiling of ten attempts, account updates and dispute events from the provider;
quotes; a vendor's approval and sessions; notes and assignment of cases; a cart of
several lines in `PaymentPlan`; calendar arithmetic, where an instant is a whole
day.  In `OrderLifecycle` and the paths a handler writes its job row
only while it is `running`: the answer of one that outlived its lease is in
`JobQueue` and `EmailOutbox` alone.

## Plan

1. `Quotes` (expiry of a request against its acceptance), the inbox's ceiling, and a
   vendor's approval against the requests that reach it.

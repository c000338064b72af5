-------------------------- MODULE DepositPath_proofs --------------------------
(***************************************************************************)
(* The deposit's path, for any number of tabs, deliveries, attempts and    *)
(* crashes.  It drives the abstract lifecycle, so every safety theorem of  *)
(* OrderLifecycle_proofs holds of it; Sound is the inductive invariant its *)
(* rows, its provider and its program counters keep, and two more stand    *)
(* on it: RefundRowsCounted, over the handlers about to open a refund row, *)
(* and Paid, over the orders in which an attempt's events are applied.     *)
(***************************************************************************)
EXTENDS DepositPath, SequenceTheorems, FiniteSetTheorems, TLAPS

\* While the runner works the row is its own, and it reports the expiry done
\* only for an order that is no longer waiting: what FinishJob asks for.
RunnerOwnsRow ==
  /\ runner = [pc |-> runner.pc, asked |-> runner.asked, todo |-> runner.todo,
                fault |-> runner.fault]
  /\ job \in [JobTypes -> JobStatus]
  /\ runner.pc # "idle" => job["expire_unpaid"] = "running"
  /\ runner.pc = "done" => state # "pending_payment"

LEMMA MoveLeavesRunner ==
  ASSUME RunnerOwnsRow, NEW to, Move(to)
  PROVE  /\ job' \in [JobTypes -> JobStatus]
         /\ runner.pc # "idle" => job'["expire_unpaid"] = "running"
         /\ state' # "pending_payment"
<1>1. /\ state' = to /\ to \in Allowed(state) /\ job' = JobsAfterMove(state, to)
  BY DEF Move, ApplyTransition, CanTransition
<1>2. to # "pending_payment"
  BY <1>1 DEF Allowed
<1>3. \A status \in JobStatus : Enqueued(status) \in JobStatus /\ CalledOff(status) \in JobStatus
  BY DEF JobStatus, Enqueued, CalledOff
<1>4. Enqueued("running") = "running" /\ CalledOff("running") = "running"
  BY DEF Enqueued, CalledOff
<1>5. "expire_unpaid" \in JobTypes
  BY DEF JobTypes
<1> QED BY <1>1, <1>2, <1>3, <1>4, <1>5 DEF RunnerOwnsRow, JobsAfterMove

LEMMA RunnerOwnsRowInductive ==
  ASSUME RunnerOwnsRow, [Next]_vars
  PROVE  RunnerOwnsRow'
<1> "expire_unpaid" \in JobTypes
  BY DEF JobTypes
<1>1. CASE \E t \in Tabs : TabNext(t)
  BY <1>1 DEF TabNext, ReadForDeposit, OpenAttempt, CreateIntent, AttachIntent,
              PayDeposit, rows, RunnerOwnsRow
<1>2. CASE ProviderNext
  BY <1>2 DEF ProviderNext, CaptureDeposit, DeclineDeposit, Settle, rows, RunnerOwnsRow
<1>3. ASSUME NEW d \in Deliveries, (\E e \in Events : Deliver(d, e)) \/ Handle(d) \/ DeliveryDies(d)
      PROVE  RunnerOwnsRow'
  <2>1. runner' = runner /\ (UNCHANGED rows \/ Move("confirmed"))
    BY <1>3 DEF Deliver, Handle, DeliveryDies, LoadOrder, MarkPaymentFailed,
                MarkPaymentSucceeded, ConfirmOrder, FindStandingRefund, OpenRefund,
                ProviderRefund, SettleRefund, MarkPaymentRefunded, Acknowledge
  <2> QED BY <2>1, MoveLeavesRunner DEF rows, RunnerOwnsRow
<1>4. CASE ClaimExpiry
  BY <1>4 DEF ClaimExpiry, RunnerStep, ClaimRow, SetJob, RunnerOwnsRow, JobStatus
<1>5. CASE ReadOrder
  BY <1>5 DEF ReadOrder, RunnerStep, rows, RunnerOwnsRow
<1>6. CASE ListAttempts
  BY <1>6 DEF ListAttempts, rows, RunnerOwnsRow
<1>7. CASE CancelIntent \/ CancelIntentFault
  BY <1>7 DEF CancelIntent, CancelIntentFault, rows, RunnerOwnsRow
<1>8. CASE CancelUnpaid
  BY <1>8, MoveLeavesRunner DEF CancelUnpaid, RunnerStep, rows, RunnerOwnsRow
<1>9. CASE FinishExpiry \/ RetryExpiry \/ FailExpiry
  BY <1>9 DEF FinishExpiry, RetryExpiry, FailExpiry, PutBackExpiry, SetJob, IdleRunner,
              RunnerOwnsRow, JobStatus
<1>10. CASE RequeueExpiry
  BY <1>10 DEF RequeueExpiry, RequeueRow, SetJob, RunnerOwnsRow, JobStatus
<1>11. CASE RunnerDies
  BY <1>11 DEF RunnerDies, IdleRunner, rows, RunnerOwnsRow
<1>12. CASE UNCHANGED vars
  BY <1>12 DEF vars, rows, RunnerOwnsRow
<1> QED BY <1>1, <1>2, <1>3, <1>4, <1>5, <1>6, <1>7, <1>8, <1>9, <1>10, <1>11, <1>12
        DEF Next, RunExpiry

\* The abstract module's move is the same transaction.
LEMMA SameMove ==
  ASSUME NEW to
  PROVE  Move(to) <=> Lifecycle!Move(to)
<1>1. JobsAfterMove(state, to) = Lifecycle!JobsAfterMove(state, to)
  BY DEF JobsAfterMove, JobsOnEntering, OnEntering, JobTypes, CancelsQueuedJobs,
         JobsCancelledOnLeaving, Enqueued, CalledOff, IsTerminal, Allowed,
         ReleasesCapacity, CapacityIn,
         Lifecycle!JobsAfterMove, Lifecycle!JobsOnEntering, Lifecycle!OnEntering,
         Lifecycle!JobTypes, Lifecycle!CancelsQueuedJobs,
         Lifecycle!JobsCancelledOnLeaving, Lifecycle!Enqueued, Lifecycle!CalledOff,
         Lifecycle!IsTerminal, Lifecycle!Allowed, Lifecycle!ReleasesCapacity,
         Lifecycle!CapacityIn
<1>2. Retired(to) = Lifecycle!Retired(to)
  BY DEF Retired, Lifecycle!Retired
<1>3. CanTransition(state, to) <=> Lifecycle!CanTransition(state, to)
  BY DEF CanTransition, Allowed, Lifecycle!CanTransition, Lifecycle!Allowed
<1>4. /\ ReleasesCapacity(to) <=> Lifecycle!ReleasesCapacity(to)
      /\ RetiresPaymentLinks(state, to) <=> Lifecycle!RetiresPaymentLinks(state, to)
  BY DEF ReleasesCapacity, CapacityIn, RetiresPaymentLinks, IsTerminal, Allowed,
         Lifecycle!ReleasesCapacity, Lifecycle!CapacityIn,
         Lifecycle!RetiresPaymentLinks, Lifecycle!IsTerminal, Lifecycle!Allowed
<1> QED BY <1>1, <1>2, <1>3, <1>4
        DEF Move, ApplyTransition, GraceAfterMove,
            Lifecycle!Move, Lifecycle!ApplyTransition, Lifecycle!GraceAfterMove

LEMMA StepImplementsLifecycle ==
  ASSUME RunnerOwnsRow, [Next]_vars
  PROVE  [Lifecycle!Next]_rows
<1> DEFINE Type == "expire_unpaid"
<1>0. Type \in Lifecycle!JobTypes
  BY DEF Lifecycle!JobTypes
<1>1. CASE \E t \in Tabs : TabNext(t)
  BY <1>1 DEF TabNext, ReadForDeposit, OpenAttempt, CreateIntent, AttachIntent, PayDeposit
<1>2. CASE ProviderNext
  BY <1>2 DEF ProviderNext, CaptureDeposit, DeclineDeposit, Settle
<1>3. ASSUME NEW d \in Deliveries, (\E e \in Events : Deliver(d, e)) \/ Handle(d) \/ DeliveryDies(d)
      PROVE  [Lifecycle!Next]_rows
  <2>1. UNCHANGED rows \/ Move("confirmed")
    BY <1>3 DEF Deliver, Handle, DeliveryDies, LoadOrder, MarkPaymentFailed,
                MarkPaymentSucceeded, ConfirmOrder, FindStandingRefund, OpenRefund,
                ProviderRefund, SettleRefund, MarkPaymentRefunded, Acknowledge
  <2> QED BY <2>1, SameMove DEF Lifecycle!Next, Lifecycle!MoveOrder, Lifecycle!ConfirmPaid
<1>4. CASE ClaimExpiry
  <2>1. Lifecycle!ClaimJob(Type)
    BY <1>4 DEF ClaimExpiry, ClaimRow, SetJob, Lifecycle!ClaimJob, Lifecycle!ClaimRow, Lifecycle!SetJob
  <2> QED BY <1>0, <2>1 DEF Lifecycle!Next, Lifecycle!RunQueue
<1>5. CASE ReadOrder \/ ListAttempts \/ CancelIntent \/ CancelIntentFault \/ RunnerDies
  BY <1>5 DEF ReadOrder, ListAttempts, CancelIntent, CancelIntentFault, RunnerDies
<1>6. CASE CancelUnpaid
  <2>1. UNCHANGED rows \/ Lifecycle!CancelOrder
    BY <1>6, SameMove DEF CancelUnpaid, Lifecycle!CancelOrder
  <2> QED BY <2>1 DEF Lifecycle!Next, Lifecycle!MoveOrder
<1>7. CASE FinishExpiry
  <2>1. Lifecycle!FinishJob(Type)
    BY <1>7 DEF FinishExpiry, RunnerOwnsRow, SetJob, Lifecycle!FinishJob, Lifecycle!MayFinish, Lifecycle!SetJob
  <2> QED BY <1>0, <2>1 DEF Lifecycle!Next, Lifecycle!RunQueue
<1>8. CASE RetryExpiry
  <2>1. Lifecycle!HoldJob(Type) \/ Lifecycle!RetryJob(Type)
    BY <1>8 DEF RetryExpiry, PutBackExpiry, RunnerOwnsRow, SetJob, Lifecycle!SetJob, Lifecycle!HoldJob,
                Lifecycle!MayHold, Lifecycle!RetryJob
  <2> QED BY <1>0, <2>1 DEF Lifecycle!Next, Lifecycle!RunQueue
<1>9. CASE FailExpiry
  <2>1. Lifecycle!RetryJob(Type)
    BY <1>9 DEF FailExpiry, PutBackExpiry, RunnerOwnsRow, SetJob, Lifecycle!SetJob, Lifecycle!RetryJob
  <2> QED BY <1>0, <2>1 DEF Lifecycle!Next, Lifecycle!RunQueue
<1>10. CASE RequeueExpiry
  <2>1. Lifecycle!RequeueJob(Type)
    BY <1>10 DEF RequeueExpiry, RequeueRow, SetJob, Lifecycle!RequeueJob, Lifecycle!RequeueRow, Lifecycle!SetJob
  <2> QED BY <1>0, <2>1 DEF Lifecycle!Next, Lifecycle!RunQueue
<1>11. CASE UNCHANGED vars
  BY <1>11 DEF vars
<1> QED BY <1>1, <1>2, <1>3, <1>4, <1>5, <1>6, <1>7, <1>8, <1>9, <1>10, <1>11
        DEF Next, RunExpiry

\* Tabs, provider, deliveries and runner together, crashes included, only ever
\* move the order as its lifecycle allows.
THEOREM DepositImplementsLifecycle == Spec => ImplementsLifecycle
<1>1. Init => RunnerOwnsRow
  BY DEF Init, OrderCreated, RunnerOwnsRow, IdleRunner, JobTypes, JobStatus, Enqueued
<1>2. Init => Lifecycle!Init
  BY DEF Init, OrderCreated, JobsOnEntering, OnEntering, JobTypes, Enqueued,
         Lifecycle!Init, Lifecycle!OrderCreated, Lifecycle!JobsOnEntering,
         Lifecycle!OnEntering, Lifecycle!JobTypes, Lifecycle!Enqueued
<1>3. RunnerOwnsRow /\ [Next]_vars => RunnerOwnsRow'
  BY RunnerOwnsRowInductive
<1>4. RunnerOwnsRow /\ [Next]_vars => [Lifecycle!Next]_(Lifecycle!rows)
  BY StepImplementsLifecycle DEF rows, Lifecycle!rows
<1>5. Spec => []RunnerOwnsRow
  BY <1>1, <1>3, PTL DEF Spec
<1> QED BY <1>2, <1>4, <1>5, PTL DEF Spec, ImplementsLifecycle, Lifecycle!Spec
-----------------------------------------------------------------------------
(* What the rows, the provider's objects and the program counters hold.    *)

TabRow == [pc : {"idle", "checked", "opened", "created", "paying"}, attempt : {0} \cup Attempts]

\* A delivery that is past the branch of an order that has released its date.
GivingBack == {"open", "refund", "settle", "label"}
Succeeding == {"load", "mark", "branch"} \cup GivingBack

DeliveryRow == [pc : {"idle", "fail", "ack"} \cup Succeeding, event : SUBSET Events,
                marks : BOOLEAN, sawState : OrderStates \cup {"none"}, row : Nat]

RunnerRow == [pc : {"idle", "read", "list", "release", "done", "retry", "throw"},
              asked : SUBSET Attempts, todo : SUBSET Attempts, fault : BOOLEAN]

RowsTyped ==
  /\ RowsTypeOK
  /\ payment \in [Attempts -> PaymentStates]
  /\ attached \subseteq Attempts
  /\ refund \in [Attempts -> Seq({"requested", "settled"})]
  /\ intent \in [Attempts -> {"none", "open", "processing", "succeeded", "canceled"}]
  /\ returned \in [Attempts -> Nat]
  /\ sent \subseteq Events /\ processed \subseteq sent
  /\ tab \in [Tabs -> TabRow]
  /\ delivery \in [Deliveries -> DeliveryRow]
  /\ runner \in RunnerRow
  /\ tries \in Nat /\ crashes \in 0 .. MaxCrashes

\* A delivery is of one event that was sent, and goes the way of its kind.
DeliverySound(d) ==
  /\ delivery[d].pc = "idle" => delivery[d].event = {}
  /\ delivery[d].pc # "idle" => \E e \in sent :
       /\ delivery[d].event = {e}
       /\ delivery[d].pc = "fail" => e.kind = "failed"
       /\ delivery[d].pc \in Succeeding => e.kind = "succeeded"

\* A tab that has an attempt keeps it.
TabSound(t) == tab[t].pc \in {"opened", "created", "paying"} => tab[t].attempt \in Attempts

Typed ==
  /\ RowsTyped
  /\ \A t \in Tabs : TabSound(t)
  /\ \A d \in Deliveries : DeliverySound(d)

\* Attempts are opened by age and only the last may be waiting to be paid.
Numbered ==
  \E n \in Nat : Opened = 1 .. n /\ \A a \in Attempts : payment[a] = "pending" => a = n

\* What a tab, the provider or an event names was opened, and a capture is for good.
NamesOpened ==
  /\ attached \subseteq Opened
  /\ \A a \in Attempts : intent[a] # "none" => a \in Opened
  /\ \A t \in Tabs :
       /\ tab[t].attempt \in {0} \cup Opened
       /\ tab[t].pc \in {"opened", "created", "paying"} => tab[t].attempt \in Opened
  /\ \A e \in sent : /\ intent[e.attempt] # "none"
                     /\ e.kind = "succeeded" => intent[e.attempt] = "succeeded"

AttemptsSound == Numbered /\ NamesOpened

\* A refund goes on under the row it was opened with, and that row's key.
RefundsSound ==
  /\ SettledMeansReturned
  /\ \A a \in Attempts : returned[a] \in 0 .. Len(refund[a])
  /\ \A d \in Deliveries :
       /\ delivery[d].pc \in {"refund", "settle"} =>
            delivery[d].row \in 1 .. Len(refund[PaidBy(d)])
       /\ delivery[d].pc = "settle" => returned[PaidBy(d)] = delivery[d].row

\* What the expiry has asked about and is no longer waiting for is cancelled.
RunnerSound ==
  /\ runner.todo \subseteq runner.asked /\ runner.asked \subseteq attached
  /\ runner.pc = "release" =>
       runner.fault \/ \A a \in runner.asked \ runner.todo : intent[a] = "canceled"

\* A row that can still run has tries left.
TriesLeft ==
  /\ tries \in 0 .. MaxTries
  /\ job["expire_unpaid"] \notin {"held", "failed", "done"} => tries < MaxTries

Sound == Typed /\ RunnerOwnsRow /\ AttemptsSound /\ RefundsSound /\ RunnerSound /\ TriesLeft

\* The handlers that found no refund of a standing and have not opened one yet.
Opening(a) == {d \in Deliveries : delivery[d].pc = "open" /\ PaidBy(d) = a}

\* Every row but the first was opened by a handler that was already looking when
\* the first was.
RefundRowsCounted ==
  \A a \in Attempts :
    refund[a] # <<>> => Len(refund[a]) + Cardinality(Opening(a)) <= Cardinality(Deliveries)

\* A row that says what the provider said, or was told before.
MarksTrue ==
  \A a \in Attempts :
    /\ payment[a] \in {"succeeded", "refunded"} => intent[a] = "succeeded"
    /\ payment[a] = "failed" => Decline(a) \in sent

\* A delivery gives money back only for an order that has ended for good, and
\* takes the other branch only once the payment row is marked.
BranchSound(d) ==
  /\ delivery[d].pc \in GivingBack => ReleasesCapacity(state)
  /\ delivery[d].pc \in {"mark", "branch"} /\ ReleasesCapacity(delivery[d].sawState) =>
       ReleasesCapacity(state)
  /\ delivery[d].pc = "branch" \/ (delivery[d].pc = "load" /\ ~delivery[d].marks) =>
       payment[PaidBy(d)] \in {"succeeded", "failed"} \/ ReleasesCapacity(state)

BranchesSound == \A d \in Deliveries : BranchSound(d)

Paid == MarksTrue /\ BranchesSound /\ ConfirmedIsPaid

-----------------------------------------------------------------------------
(* The statements, and what an event names.                                *)

LEMMA MoveTyped ==
  ASSUME RowsTypeOK, NEW to, Move(to)
  PROVE  RowsTypeOK' /\ state' = to /\ CanTransition(state, to)
<1>1. /\ state' = to /\ to \in Allowed(state) /\ job' = JobsAfterMove(state, to)
  BY DEF Move, ApplyTransition, CanTransition
<1>2. to \in OrderStates
  BY <1>1 DEF Allowed, OrderStates
<1>3. \A status \in JobStatus : Enqueued(status) \in JobStatus /\ CalledOff(status) \in JobStatus
  BY DEF JobStatus, Enqueued, CalledOff
<1>4. job' \in [JobTypes -> JobStatus]
  BY <1>1, <1>3 DEF JobsAfterMove, RowsTypeOK
<1>5. graceOpen' \in BOOLEAN
  BY DEF Move, ApplyTransition, GraceAfterMove
<1>6. dateHeld' \in BOOLEAN
  BY DEF Move, ApplyTransition
<1>7. link' \in LinkState
  BY DEF Move, ApplyTransition, Retired, LinkState, RowsTypeOK
<1> QED BY <1>1, <1>2, <1>4, <1>5, <1>6, <1>7 DEF RowsTypeOK, CanTransition

\* A delivery under way names one event, and its attempt.
LEMMA NamedByDelivery ==
  ASSUME Typed, NEW d \in Deliveries, delivery[d].pc # "idle"
  PROVE  /\ EventOf(d) \in sent /\ delivery[d].event = {EventOf(d)}
         /\ PaidBy(d) \in Attempts
         /\ delivery[d].pc = "fail" => EventOf(d).kind = "failed"
         /\ delivery[d].pc \in Succeeding => EventOf(d).kind = "succeeded"
<1>1. PICK e \in sent :
        /\ delivery[d].event = {e}
        /\ delivery[d].pc = "fail" => e.kind = "failed"
        /\ delivery[d].pc \in Succeeding => e.kind = "succeeded"
  BY DEF Typed, DeliverySound
<1>2. EventOf(d) = e
  BY <1>1 DEF EventOf
<1>3. e \in Events
  BY DEF Typed, RowsTyped
<1> QED BY <1>1, <1>2, <1>3 DEF PaidBy, Events

\* What an event of a given kind is once its attempt is known.
LEMMA EventIs ==
  ASSUME NEW e \in Events
  PROVE  /\ e.attempt \in Attempts
         /\ e.kind = "succeeded" => e = Capture(e.attempt)
         /\ e.kind = "failed" => e = Decline(e.attempt)
  BY DEF Events, Capture, Decline

-----------------------------------------------------------------------------
(* Typed, action by action.                                                *)

LEMMA TabStepsTyped ==
  ASSUME Typed, NEW t \in Tabs, TabNext(t)
  PROVE  Typed'
<1>1. UNCHANGED <<rows, refund, returned, sent, processed, delivery, runner, tries, crashes>>
  BY DEF TabNext, ReadForDeposit, OpenAttempt, CreateIntent, AttachIntent, PayDeposit,
         TabStep, rows, ledger, provider
<1>2. tab \in [Tabs -> TabRow] /\ TabSound(t)
  BY DEF Typed, RowsTyped
<1>3. CASE ReadForDeposit(t)
  <2>1. tab' \in [Tabs -> TabRow] /\ tab' = [tab EXCEPT ![t] = [pc |-> "checked", attempt |-> 0]]
    BY <1>2, <1>3 DEF ReadForDeposit, TabRow
  <2> QED BY <1>1, <1>3, <2>1
          DEF ReadForDeposit, Typed, RowsTyped, RowsTypeOK, rows, ledger, provider, TabSound, DeliverySound
<1>4. CASE OpenAttempt(t)
  <2>1. PICK a \in Attempts :
          /\ payment' = [payment EXCEPT ![a] = "pending"]
          /\ tab' = [tab EXCEPT ![t] = [pc |-> "opened", attempt |-> a]]
    BY <1>4 DEF OpenAttempt
  <2>2. tab' \in [Tabs -> TabRow] /\ \A u \in Tabs : TabSound(u)'
    BY <1>2, <2>1 DEF TabRow, Typed, TabSound
  <2>3. payment' \in [Attempts -> PaymentStates]
    BY <2>1 DEF Typed, RowsTyped, PaymentStates
  <2> QED BY <1>1, <1>4, <2>2, <2>3
          DEF OpenAttempt, Typed, RowsTyped, RowsTypeOK, rows, provider, DeliverySound
<1>5. ASSUME NEW from, NEW to \in {"created", "paying"}, TabStep(t, from, to),
             from \in {"opened", "created"}
      PROVE  tab' \in [Tabs -> TabRow] /\ \A u \in Tabs : TabSound(u)'
  BY <1>2, <1>5 DEF TabStep, TabRow, Typed, TabSound
<1>6. CASE CreateIntent(t)
  <2>1. intent' \in [Attempts -> {"none", "open", "processing", "succeeded", "canceled"}]
    BY <1>6 DEF CreateIntent, Typed, RowsTyped
  <2>2. tab' \in [Tabs -> TabRow] /\ \A u \in Tabs : TabSound(u)'
    BY <1>5, <1>6 DEF CreateIntent
  <2> QED BY <1>1, <1>6, <2>1, <2>2
          DEF CreateIntent, Typed, RowsTyped, RowsTypeOK, rows, ledger, DeliverySound
<1>7. CASE AttachIntent(t)
  <2>1. attached' \subseteq Attempts
    BY <1>2, <1>7 DEF AttachIntent, TabStep, Typed, RowsTyped, TabSound
  <2>2. tab' \in [Tabs -> TabRow] /\ \A u \in Tabs : TabSound(u)'
    BY <1>5, <1>7 DEF AttachIntent
  <2> QED BY <1>1, <1>7, <2>1, <2>2
          DEF AttachIntent, Typed, RowsTyped, RowsTypeOK, rows, provider, DeliverySound
<1>8. CASE PayDeposit(t)
  <2>1. intent' \in [Attempts -> {"none", "open", "processing", "succeeded", "canceled"}]
    BY <1>8 DEF PayDeposit, Typed, RowsTyped
  <2> QED BY <1>1, <1>8, <2>1
          DEF PayDeposit, Typed, RowsTyped, RowsTypeOK, rows, ledger, TabSound, DeliverySound
<1> QED BY <1>3, <1>4, <1>6, <1>7, <1>8 DEF TabNext

LEMMA ProviderStepsTyped ==
  ASSUME Typed, ProviderNext
  PROVE  Typed'
<1>1. PICK a \in Attempts, status \in {"succeeded", "open"}, e \in Events : Settle(a, status, e)
  BY DEF ProviderNext, CaptureDeposit, DeclineDeposit, Events, Capture, Decline
<1>2. intent' \in [Attempts -> {"none", "open", "processing", "succeeded", "canceled"}]
  BY <1>1 DEF Settle, Typed, RowsTyped
<1>3. sent \subseteq sent' /\ sent' \subseteq Events
  BY <1>1 DEF Settle, Typed, RowsTyped, Events
<1>4. UNCHANGED <<rows, ledger, returned, processed, tab, delivery, runner, tries, crashes>>
  BY <1>1 DEF Settle
<1> QED BY <1>2, <1>3, <1>4
        DEF Typed, RowsTyped, RowsTypeOK, rows, ledger, TabSound, DeliverySound

DeliveryStep(d) == (\E e \in Events : Deliver(d, e)) \/ Handle(d) \/ DeliveryDies(d)

LEMMA DeliveryElsewhere ==
  ASSUME NEW d \in Deliveries, DeliveryStep(d)
  PROVE  /\ UNCHANGED <<tab, runner, tries, intent, sent>>
         /\ UNCHANGED rows \/ (ConfirmOrder(d) /\ Move("confirmed"))
BY DEF DeliveryStep, Deliver, Handle, DeliveryDies, LoadOrder, MarkPaymentFailed,
       MarkPaymentSucceeded, ConfirmOrder, FindStandingRefund, OpenRefund, ProviderRefund,
       SettleRefund, MarkPaymentRefunded, Acknowledge, ledger, provider

\* A delivery that starts holds the event it was sent.
LEMMA DeliverStarts ==
  ASSUME Typed, NEW d \in Deliveries, NEW e \in Events, Deliver(d, e)
  PROVE  /\ delivery' \in [Deliveries -> DeliveryRow]
         /\ \A c \in Deliveries \ {d} : delivery'[c] = delivery[c]
         /\ delivery[d].pc = "idle" /\ e \in sent \ processed
         /\ delivery'[d].pc = IF e.kind = "failed" THEN "fail" ELSE "load"
         /\ delivery'[d].event = {e}
         /\ delivery'[d].marks = (payment[e.attempt] # "succeeded")
         /\ delivery'[d].sawState = "none" /\ delivery'[d].row = 0
<1> DEFINE row == [pc |-> IF e.kind = "failed" THEN "fail" ELSE "load", event |-> {e},
                   marks |-> (payment[e.attempt] # "succeeded"), sawState |-> "none", row |-> 0]
<1>1. delivery' = [delivery EXCEPT ![d] = row]
  BY DEF Deliver
<1>2. row \in DeliveryRow
  BY DEF DeliveryRow, Succeeding, GivingBack, OrderStates
<1>3. /\ row.pc = IF e.kind = "failed" THEN "fail" ELSE "load"
      /\ row.event = {e} /\ row.marks = (payment[e.attempt] # "succeeded")
      /\ row.sawState = "none" /\ row.row = 0
  OBVIOUS
<1> HIDE DEF row
<1>4. delivery \in [Deliveries -> DeliveryRow]
  BY DEF Typed, RowsTyped
<1>5. delivery[d].pc = "idle" /\ e \in sent \ processed
  BY DEF Deliver, DeliveryAt
<1> QED BY <1>1, <1>2, <1>3, <1>4, <1>5

\* A delivery that goes on keeps its event.
LEMMA HandleGoesOn ==
  ASSUME Typed, NEW d \in Deliveries, Handle(d) \/ DeliveryDies(d)
  PROVE  /\ delivery' \in [Deliveries -> DeliveryRow]
         /\ \A c \in Deliveries \ {d} : delivery'[c] = delivery[c]
         /\ delivery[d].pc # "idle"
         /\ \/ delivery'[d].pc = "idle" /\ delivery'[d].event = {}
            \/ /\ delivery'[d].event = delivery[d].event
               /\ delivery'[d].pc \in {"ack", "mark", "branch"} \cup GivingBack
               /\ delivery'[d].pc # "ack" => delivery[d].pc \in Succeeding
<1> DEFINE P == /\ delivery' \in [Deliveries -> DeliveryRow]
                /\ \A c \in Deliveries \ {d} : delivery'[c] = delivery[c]
                /\ delivery[d].pc # "idle"
                /\ \/ delivery'[d].pc = "idle" /\ delivery'[d].event = {}
                   \/ /\ delivery'[d].event = delivery[d].event
                      /\ delivery'[d].pc \in {"ack", "mark", "branch"} \cup GivingBack
                      /\ delivery'[d].pc # "ack" => delivery[d].pc \in Succeeding
<1>1. delivery \in [Deliveries -> DeliveryRow]
  BY DEF Typed, RowsTyped
<1>2. ASSUME NEW pc \in {"ack", "branch", "settle", "label"}, DeliveryTo(d, pc),
             delivery[d].pc # "idle", pc # "ack" => delivery[d].pc \in Succeeding
      PROVE  P
  BY <1>1, <1>2 DEF DeliveryTo, DeliveryRow, Succeeding, GivingBack
<1>3. ASSUME delivery' = [delivery EXCEPT ![d] = IdleDelivery], delivery[d].pc # "idle"
      PROVE  P
  <2>1. IdleDelivery \in DeliveryRow /\ IdleDelivery.pc = "idle" /\ IdleDelivery.event = {}
    BY DEF IdleDelivery, DeliveryRow, Succeeding, GivingBack, OrderStates
  <2> QED BY <1>1, <1>3, <2>1
<1>4. CASE LoadOrder(d)
  <2>1. state \in OrderStates
    BY DEF Typed, RowsTyped, RowsTypeOK
  <2> QED BY <1>1, <1>4, <2>1 DEF LoadOrder, DeliveryAt, DeliveryRow, Succeeding, GivingBack
<1>5. CASE MarkPaymentFailed(d) \/ MarkPaymentSucceeded(d) \/ SettleRefund(d) \/ MarkPaymentRefunded(d)
  BY <1>2, <1>5 DEF MarkPaymentFailed, MarkPaymentSucceeded, SettleRefund, MarkPaymentRefunded,
                    DeliveryAt, Succeeding, GivingBack
<1>6. CASE ConfirmOrder(d)
  BY <1>2, <1>3, <1>6 DEF ConfirmOrder, DeliveryAt
<1>7. CASE FindStandingRefund(d)
  <2> DEFINE pc == IF refund[PaidBy(d)] = <<>> THEN "open"
                   ELSE IF Head(refund[PaidBy(d)]) = "requested" THEN "refund" ELSE "ack"
             row == IF refund[PaidBy(d)] = <<>> THEN 0 ELSE 1
  <2>1. delivery' = [delivery EXCEPT ![d].pc = pc, ![d].row = row]
    BY <1>7 DEF FindStandingRefund
  <2>2. pc \in {"open", "refund", "ack"} /\ row \in Nat
    OBVIOUS
  <2> HIDE DEF pc, row
  <2>3. delivery[d].pc = "branch"
    BY <1>7 DEF FindStandingRefund, DeliveryAt
  <2> QED BY <1>1, <2>1, <2>2, <2>3 DEF DeliveryRow, Succeeding, GivingBack
<1>8. CASE OpenRefund(d)
  <2>1. PaidBy(d) \in Attempts
    BY <1>8, NamedByDelivery DEF OpenRefund, DeliveryAt
  <2>2. Len(refund[PaidBy(d)]) + 1 \in Nat
    BY <2>1 DEF Typed, RowsTyped
  <2> QED BY <1>1, <1>8, <2>2 DEF OpenRefund, DeliveryAt, DeliveryRow, Succeeding, GivingBack
<1>9. CASE ProviderRefund(d)
  BY <1>2, <1>3, <1>9 DEF ProviderRefund, DeliveryAt, Succeeding, GivingBack
<1>10. CASE Acknowledge(d) \/ DeliveryDies(d)
  BY <1>3, <1>10 DEF Acknowledge, DeliveryDies, DeliveryAt
<1> QED BY <1>4, <1>5, <1>6, <1>7, <1>8, <1>9, <1>10 DEF Handle

LEMMA DeliveryStepsTyped ==
  ASSUME Typed, NEW d \in Deliveries, DeliveryStep(d)
  PROVE  Typed'
<1>1. /\ UNCHANGED <<tab, runner, tries, intent, sent>>
      /\ UNCHANGED rows \/ Move("confirmed")
  BY DeliveryElsewhere
<1>2. RowsTypeOK'
  BY <1>1, MoveTyped DEF Typed, RowsTyped, RowsTypeOK, rows
<1>3. /\ delivery' \in [Deliveries -> DeliveryRow]
      /\ \A c \in Deliveries \ {d} : delivery'[c] = delivery[c]
      /\ DeliverySound(d)'
  <2>1. CASE \E e \in Events : Deliver(d, e)
    <3>1. PICK e \in Events : Deliver(d, e)
      BY <2>1
    <3>2. e.kind \in {"succeeded", "failed"}
      BY DEF Events
    <3>3. DeliverySound(d)'
      BY <1>1, <3>1, <3>2, DeliverStarts DEF DeliverySound, Succeeding, GivingBack
    <3> QED BY <3>1, <3>3, DeliverStarts
  <2>2. CASE Handle(d) \/ DeliveryDies(d)
    <3>1. PICK e \in sent :
            /\ delivery[d].event = {e}
            /\ delivery[d].pc \in Succeeding => e.kind = "succeeded"
      BY <2>2, HandleGoesOn DEF Typed, DeliverySound
    <3>2. DeliverySound(d)'
      BY <1>1, <2>2, <3>1, HandleGoesOn DEF DeliverySound, Succeeding, GivingBack
    <3> QED BY <2>2, <3>2, HandleGoesOn
  <2> QED BY <2>1, <2>2 DEF DeliveryStep
<1>4. /\ payment' \in [Attempts -> PaymentStates] /\ attached' \subseteq Attempts
      /\ refund' \in [Attempts -> Seq({"requested", "settled"})]
      /\ returned' \in [Attempts -> Nat]
      /\ processed' \subseteq sent' /\ crashes' \in 0 .. MaxCrashes
  <2>1. CASE MarkPaymentFailed(d) \/ MarkPaymentSucceeded(d) \/ MarkPaymentRefunded(d)
    <3>1. PaidBy(d) \in Attempts
      BY <2>1, NamedByDelivery
         DEF MarkPaymentFailed, MarkPaymentSucceeded, MarkPaymentRefunded, DeliveryAt
    <3> QED BY <1>1, <2>1, <3>1
            DEF MarkPaymentFailed, MarkPaymentSucceeded, MarkPaymentRefunded, provider,
                Typed, RowsTyped, PaymentStates
  <2>2. CASE OpenRefund(d)
    <3>1. PaidBy(d) \in Attempts
      BY <2>2, NamedByDelivery DEF OpenRefund, DeliveryAt
    <3>2. refund[PaidBy(d)] \in Seq({"requested", "settled"})
      BY <3>1 DEF Typed, RowsTyped
    <3>3. Append(refund[PaidBy(d)], "requested") \in Seq({"requested", "settled"})
      BY <3>2
    <3> QED BY <1>1, <2>2, <3>3 DEF OpenRefund, provider, Typed, RowsTyped
  <2>3. CASE SettleRefund(d)
    <3>1. PaidBy(d) \in Attempts
      BY <2>3, NamedByDelivery DEF SettleRefund, DeliveryAt
    <3>2. refund[PaidBy(d)] \in Seq({"requested", "settled"})
      BY <3>1 DEF Typed, RowsTyped
    <3>3. [refund[PaidBy(d)] EXCEPT ![delivery[d].row] = "settled"] \in Seq({"requested", "settled"})
      <4>1. CASE delivery[d].row \in 1 .. Len(refund[PaidBy(d)])
        BY <3>2, <4>1, ExceptSeq
      <4>2. CASE delivery[d].row \notin 1 .. Len(refund[PaidBy(d)])
        <5>1. DOMAIN refund[PaidBy(d)] = 1 .. Len(refund[PaidBy(d)])
          BY <3>2
        <5>2. [refund[PaidBy(d)] EXCEPT ![delivery[d].row] = "settled"] = refund[PaidBy(d)]
          BY <3>2, <4>2, <5>1
        <5> QED BY <3>2, <5>2
      <4> QED BY <4>1, <4>2
    <3> QED BY <1>1, <2>3, <3>3 DEF SettleRefund, provider, Typed, RowsTyped
  <2>4. CASE ProviderRefund(d)
    <3>1. delivery[d].row \in Nat
      BY DEF Typed, RowsTyped, DeliveryRow
    <3> QED BY <1>1, <2>4, <3>1 DEF ProviderRefund, ledger, Typed, RowsTyped
  <2>5. CASE Acknowledge(d)
    <3>1. delivery[d].event \subseteq sent
      BY <2>5, NamedByDelivery DEF Acknowledge, DeliveryAt
    <3> QED BY <1>1, <2>5, <3>1 DEF Acknowledge, ledger, provider, Typed, RowsTyped
  <2>6. CASE DeliveryDies(d)
    BY <1>1, <2>6, DepositAssumption DEF DeliveryDies, ledger, provider, Typed, RowsTyped
  <2>7. CASE \/ \E e \in Events : Deliver(d, e)
             \/ LoadOrder(d) \/ ConfirmOrder(d) \/ FindStandingRefund(d)
    BY <1>1, <2>7 DEF Deliver, LoadOrder, ConfirmOrder, FindStandingRefund, ledger, provider,
                      Typed, RowsTyped
  <2> QED BY <2>1, <2>2, <2>3, <2>4, <2>5, <2>6, <2>7 DEF DeliveryStep, Handle
<1>5. \A c \in Deliveries : DeliverySound(c)'
  BY <1>1, <1>3 DEF Typed, DeliverySound
<1>6. \A t \in Tabs : TabSound(t)'
  BY <1>1 DEF Typed, TabSound
<1>7. /\ intent' \in [Attempts -> {"none", "open", "processing", "succeeded", "canceled"}]
      /\ sent' \subseteq Events /\ tab' \in [Tabs -> TabRow] /\ runner' \in RunnerRow /\ tries' \in Nat
  BY <1>1 DEF Typed, RowsTyped
<1> QED BY <1>2, <1>3, <1>4, <1>5, <1>6, <1>7 DEF Typed, RowsTyped

-----------------------------------------------------------------------------
(* The runner.                                                             *)

RunnerStepAny == RunExpiry \/ RequeueExpiry \/ RunnerDies

LEMMA RunnerElsewhere ==
  ASSUME RunnerStepAny
  PROVE  UNCHANGED <<ledger, returned, sent, processed, tab, delivery>>
BY DEF RunnerStepAny, RunExpiry, ClaimExpiry, ReadOrder, ListAttempts, CancelIntent,
       CancelIntentFault, CancelUnpaid, FinishExpiry, RetryExpiry, FailExpiry, PutBackExpiry,
       RequeueExpiry, RunnerDies, ledger, provider

LEMMA RunnerStepsTyped ==
  ASSUME Typed, RunnerStepAny
  PROVE  Typed'
<1>1. UNCHANGED <<ledger, returned, sent, processed, tab, delivery>>
  BY RunnerElsewhere
<1>2. runner \in RunnerRow /\ RowsTypeOK
  BY DEF Typed, RowsTyped
<1>3. runner' \in RunnerRow
  <2>1. CASE ListAttempts
    <3> DEFINE live == {a \in attached : payment[a] \notin {"failed", "refunded"}}
    <3>1. runner' = [pc |-> "release", asked |-> live, todo |-> live, fault |-> FALSE]
      BY <2>1 DEF ListAttempts
    <3>2. live \subseteq Attempts
      BY DEF Typed, RowsTyped
    <3> HIDE DEF live
    <3> QED BY <3>1, <3>2 DEF RunnerRow
  <2>2. CASE ReadOrder \/ ClaimExpiry \/ CancelUnpaid
    BY <1>2, <2>2 DEF ReadOrder, ClaimExpiry, CancelUnpaid, RunnerStep, RunnerRow
  <2>3. CASE CancelIntent \/ CancelIntentFault
    BY <1>2, <2>3 DEF CancelIntent, CancelIntentFault, RunnerRow
  <2>4. CASE FinishExpiry \/ RetryExpiry \/ FailExpiry \/ RunnerDies \/ RequeueExpiry
    <3>1. IdleRunner \in RunnerRow
      BY DEF IdleRunner, RunnerRow
    <3> QED BY <1>2, <2>4, <3>1 DEF FinishExpiry, RetryExpiry, FailExpiry, PutBackExpiry,
                                    RunnerDies, RequeueExpiry
  <2> QED BY <2>1, <2>2, <2>3, <2>4 DEF RunnerStepAny, RunExpiry
<1>4. intent' \in [Attempts -> {"none", "open", "processing", "succeeded", "canceled"}]
  <2>1. intent \in [Attempts -> {"none", "open", "processing", "succeeded", "canceled"}]
    BY DEF Typed, RowsTyped
  <2>2. CASE CancelIntent \/ CancelIntentFault
    BY <2>1, <2>2 DEF CancelIntent, CancelIntentFault
  <2>3. CASE ~(CancelIntent \/ CancelIntentFault)
    BY <2>1, <2>3 DEF RunnerStepAny, RunExpiry, ClaimExpiry, ReadOrder, ListAttempts,
       CancelUnpaid, FinishExpiry, RetryExpiry, FailExpiry, PutBackExpiry, RequeueExpiry,
       RunnerDies, provider
  <2> QED BY <2>2, <2>3
<1>5. RowsTypeOK'
  <2>1. CASE CancelUnpaid
    BY <1>2, <2>1, MoveTyped DEF CancelUnpaid, rows, RowsTypeOK
  <2>2. ASSUME NEW status \in JobStatus, SetJob("expire_unpaid", status),
               UNCHANGED <<state, graceOpen, dateHeld, link>>
        PROVE  RowsTypeOK'
    BY <1>2, <2>2 DEF SetJob, RowsTypeOK
  <2>3. CASE ClaimExpiry \/ FinishExpiry \/ RetryExpiry \/ FailExpiry \/ RequeueExpiry
    BY <2>2, <2>3 DEF ClaimExpiry, FinishExpiry, RetryExpiry, FailExpiry, PutBackExpiry,
                      RequeueExpiry, ClaimRow, RequeueRow, JobStatus
  <2>4. CASE ReadOrder \/ ListAttempts \/ CancelIntent \/ CancelIntentFault \/ RunnerDies
    BY <1>2, <2>4 DEF ReadOrder, ListAttempts, CancelIntent, CancelIntentFault, RunnerDies,
                      rows, RowsTypeOK
  <2> QED BY <2>1, <2>3, <2>4 DEF RunnerStepAny, RunExpiry
<1>6. tries' \in Nat /\ crashes' \in 0 .. MaxCrashes
  BY DepositAssumption
     DEF Typed, RowsTyped, RunnerStepAny, RunExpiry, ClaimExpiry, ReadOrder, ListAttempts, CancelIntent,
         CancelIntentFault, CancelUnpaid, FinishExpiry, RetryExpiry, FailExpiry, PutBackExpiry,
         RequeueExpiry, RunnerDies
<1> QED BY <1>1, <1>3, <1>4, <1>5, <1>6 DEF Typed, RowsTyped, ledger, DeliverySound, TabSound

-----------------------------------------------------------------------------
(* Attempts are numbered, and everything names one that was opened.        *)

\* Marking an opened row neither opens nor reopens one.
LEMMA MarkingOpensNothing ==
  ASSUME Typed, Numbered, NEW a \in Opened, NEW status \in {"succeeded", "failed", "refunded"},
         payment' = [payment EXCEPT ![a] = status]
  PROVE  Numbered' /\ Opened' = Opened
<1>1. payment \in [Attempts -> PaymentStates] /\ a \in Attempts
  BY DEF Typed, RowsTyped, Opened
<1>2. Opened' = Opened
  BY <1>1 DEF Opened
<1>3. PICK n \in Nat : Opened = 1 .. n /\ \A b \in Attempts : payment[b] = "pending" => b = n
  BY DEF Numbered
<1>4. \A b \in Attempts : payment'[b] = "pending" => b = n
  BY <1>1, <1>3
<1> QED BY <1>2, <1>3, <1>4 DEF Numbered

\* Under the order's lock a call takes the open attempt, or opens the next one
\* when none is open.
LEMMA OpeningKeepsNumbers ==
  ASSUME Typed, Numbered, NEW a \in Attempts, AttemptToUse(a),
         payment' = [payment EXCEPT ![a] = "pending"]
  PROVE  Numbered' /\ Opened' = Opened \cup {a} /\ (payment[a] = "pending" \/ a \notin Opened)
<1>1. payment \in [Attempts -> PaymentStates]
  BY DEF Typed, RowsTyped
<1>2. Opened' = Opened \cup {a}
  BY <1>1 DEF Opened
<1>3. PICK n \in Nat : Opened = 1 .. n /\ \A b \in Attempts : payment[b] = "pending" => b = n
  BY DEF Numbered
<1>4. CASE LatestIs("pending")
  <2>1. payment[a] = "pending" /\ payment' = payment
    BY <1>1, <1>4 DEF AttemptToUse, LatestIs
  <2> QED BY <1>2, <1>3, <2>1 DEF Numbered, Opened
<1>5. CASE ~LatestIs("pending")
  <2>1. Cardinality(Opened) = n
    BY <1>3, FS_Interval
  <2>2. a = n + 1
    BY <1>5, <2>1 DEF AttemptToUse
  <2>3. Opened' = 1 .. n + 1 /\ a \notin Opened
    BY <1>2, <1>3, <2>2
  <2>4. \A b \in Attempts : payment[b] # "pending"
    <3>1. SUFFICES ASSUME n \in Attempts, payment[n] = "pending"
                   PROVE  FALSE
      BY <1>3
    <3>2. n \in Opened /\ \A b \in Opened : b <= n
      BY <1>3, <3>1 DEF Opened
    <3>3. Latest = n
      BY <1>3, <3>2 DEF Latest
    <3> QED BY <1>5, <3>1, <3>2, <3>3 DEF LatestIs
  <2>5. \A b \in Attempts : payment'[b] = "pending" => b = n + 1
    BY <1>1, <2>2, <2>4
  <2> QED BY <1>2, <2>3, <2>5 DEF Numbered
<1> QED BY <1>4, <1>5

LEMMA TabsNameOpened ==
  ASSUME Typed, AttemptsSound, NEW t \in Tabs, TabNext(t)
  PROVE  AttemptsSound'
<1>1. UNCHANGED sent /\ tab \in [Tabs -> TabRow] /\ sent \subseteq Events
  BY DEF Typed, RowsTyped, TabNext, ReadForDeposit, OpenAttempt, CreateIntent, AttachIntent,
         PayDeposit, provider
<1>2. intent \in [Attempts -> {"none", "open", "processing", "succeeded", "canceled"}]
  BY DEF Typed, RowsTyped
<1>3. CASE ReadForDeposit(t)
  <2>1. UNCHANGED <<payment, attached, intent>>
    BY <1>3 DEF ReadForDeposit, ledger, provider
  <2>2. tab' = [tab EXCEPT ![t] = [pc |-> "checked", attempt |-> 0]]
    BY <1>3 DEF ReadForDeposit
  <2> QED BY <1>1, <2>1, <2>2 DEF AttemptsSound, Numbered, NamesOpened, Opened
<1>4. CASE OpenAttempt(t)
  <2>1. PICK a \in Attempts :
          /\ AttemptToUse(a)
          /\ payment' = [payment EXCEPT ![a] = "pending"]
          /\ tab' = [tab EXCEPT ![t] = [pc |-> "opened", attempt |-> a]]
    BY <1>4 DEF OpenAttempt
  <2>2. Numbered' /\ Opened' = Opened \cup {a}
    BY <2>1, OpeningKeepsNumbers DEF AttemptsSound
  <2>3. UNCHANGED <<attached, intent>>
    BY <1>4 DEF OpenAttempt, provider
  <2> QED BY <1>1, <2>1, <2>2, <2>3 DEF AttemptsSound, NamesOpened
<1>5. ASSUME NEW from \in {"opened", "created"}, NEW to, TabStep(t, from, to)
      PROVE  /\ tab[t].attempt \in Opened
             /\ \A u \in Tabs : tab'[u].attempt = tab[u].attempt /\ (u # t => tab'[u] = tab[u])
  BY <1>1, <1>5 DEF TabStep, TabRow, AttemptsSound, NamesOpened
<1>6. CASE CreateIntent(t)
  <2>1. UNCHANGED <<payment, attached>> /\ Opened' = Opened
    BY <1>6 DEF CreateIntent, ledger, Opened
  <2>2. /\ tab[t].attempt \in Opened
        /\ \A u \in Tabs : tab'[u].attempt = tab[u].attempt /\ (u # t => tab'[u] = tab[u])
    BY <1>5, <1>6 DEF CreateIntent
  <2>3. intent' = [intent EXCEPT ![tab[t].attempt] = IF @ = "none" THEN "open" ELSE @]
    BY <1>6 DEF CreateIntent
  <2> QED BY <1>1, <1>2, <2>1, <2>2, <2>3 DEF AttemptsSound, Numbered, NamesOpened, Events, Opened
<1>7. CASE AttachIntent(t)
  <2>1. UNCHANGED <<payment, intent>> /\ Opened' = Opened
    BY <1>7 DEF AttachIntent, provider, Opened
  <2>2. /\ tab[t].attempt \in Opened
        /\ \A u \in Tabs : tab'[u].attempt = tab[u].attempt /\ (u # t => tab'[u] = tab[u])
    BY <1>5, <1>7 DEF AttachIntent
  <2>3. attached' = attached \cup {tab[t].attempt}
    BY <1>7 DEF AttachIntent
  <2> QED BY <1>1, <2>1, <2>2, <2>3 DEF AttemptsSound, Numbered, NamesOpened
<1>8. CASE PayDeposit(t)
  <2>1. UNCHANGED <<payment, attached, tab>> /\ Opened' = Opened
    BY <1>8 DEF PayDeposit, ledger, Opened
  <2>2. /\ intent[tab[t].attempt] = "open"
        /\ intent' = [intent EXCEPT ![tab[t].attempt] = "processing"]
    BY <1>8 DEF PayDeposit
  <2> QED BY <1>1, <1>2, <2>1, <2>2 DEF AttemptsSound, Numbered, NamesOpened, Events
<1> QED BY <1>3, <1>4, <1>6, <1>7, <1>8 DEF TabNext

LEMMA ProviderNamesOpened ==
  ASSUME Typed, AttemptsSound, ProviderNext
  PROVE  AttemptsSound'
<1>1. PICK a \in Attempts, status \in {"succeeded", "open"}, kind \in {"succeeded", "failed"} :
        /\ Settle(a, status, [kind |-> kind, attempt |-> a])
        /\ kind = "succeeded" => status = "succeeded"
  BY DEF ProviderNext, CaptureDeposit, DeclineDeposit, Capture, Decline
<1>2. intent \in [Attempts -> {"none", "open", "processing", "succeeded", "canceled"}] /\ sent \subseteq Events
  BY DEF Typed, RowsTyped
<1>3. UNCHANGED <<payment, attached, tab>>
  BY <1>1 DEF Settle, ledger
<1>4. intent[a] = "processing" /\ intent' = [intent EXCEPT ![a] = status]
  BY <1>1 DEF Settle
<1>5. ASSUME NEW e \in sent'
      PROVE  intent'[e.attempt] # "none" /\ (e.kind = "succeeded" => intent'[e.attempt] = "succeeded")
  <2>1. CASE e \in sent
    BY <1>2, <1>4, <2>1 DEF AttemptsSound, NamesOpened, Events
  <2>2. CASE e = [kind |-> kind, attempt |-> a]
    BY <1>1, <1>2, <1>4, <2>2
  <2> QED BY <1>1, <2>1, <2>2 DEF Settle
<1>6. \A b \in Attempts : intent'[b] # "none" => b \in Opened
  BY <1>2, <1>4 DEF AttemptsSound, NamesOpened
<1> QED BY <1>3, <1>5, <1>6 DEF AttemptsSound, Numbered, NamesOpened, Opened

\* A delivery's payment row was opened.
LEMMA DeliveriesNameOpened ==
  ASSUME Typed, AttemptsSound, NEW d \in Deliveries, delivery[d].pc # "idle"
  PROVE  /\ PaidBy(d) \in Opened
         /\ delivery[d].pc \in Succeeding => intent[PaidBy(d)] = "succeeded"
  BY NamedByDelivery DEF AttemptsSound, NamesOpened, PaidBy

LEMMA DeliveriesKeepNames ==
  ASSUME Typed, AttemptsSound, NEW d \in Deliveries, DeliveryStep(d)
  PROVE  AttemptsSound'
<1>1. UNCHANGED <<tab, intent, sent>>
  BY DeliveryElsewhere
<1>2. CASE MarkPaymentFailed(d) \/ MarkPaymentSucceeded(d) \/ MarkPaymentRefunded(d)
  <2>1. PaidBy(d) \in Opened
    BY <1>2, DeliveriesNameOpened
       DEF MarkPaymentFailed, MarkPaymentSucceeded, MarkPaymentRefunded, DeliveryAt
  <2>2. \E status \in {"succeeded", "failed", "refunded"} : payment' = [payment EXCEPT ![PaidBy(d)] = status]
    BY <1>2 DEF MarkPaymentFailed, MarkPaymentSucceeded, MarkPaymentRefunded
  <2>3. Numbered' /\ Opened' = Opened
    BY <2>1, <2>2, MarkingOpensNothing DEF AttemptsSound
  <2>4. attached' \subseteq attached \cup {PaidBy(d)}
    BY <1>2 DEF MarkPaymentFailed, MarkPaymentSucceeded, MarkPaymentRefunded
  <2> QED BY <1>1, <2>1, <2>3, <2>4 DEF AttemptsSound, NamesOpened
<1>3. CASE ~(MarkPaymentFailed(d) \/ MarkPaymentSucceeded(d) \/ MarkPaymentRefunded(d))
  <2>1. UNCHANGED <<payment, attached>>
    BY <1>3 DEF DeliveryStep, Deliver, Handle, DeliveryDies, LoadOrder, ConfirmOrder,
                FindStandingRefund, OpenRefund, ProviderRefund, SettleRefund, Acknowledge, ledger
  <2> QED BY <1>1, <2>1 DEF AttemptsSound, Numbered, NamesOpened, Opened
<1> QED BY <1>2, <1>3

\* The runner cancels intents, and only open ones.
LEMMA RunnerCancelsOpen ==
  ASSUME Typed, RunnerStepAny
  PROVE  \A a \in Attempts : intent'[a] = intent[a] \/ (intent[a] = "open" /\ intent'[a] = "canceled")
<1>1. intent \in [Attempts -> {"none", "open", "processing", "succeeded", "canceled"}]
  BY DEF Typed, RowsTyped
<1>2. CASE CancelIntent \/ CancelIntentFault
  BY <1>1, <1>2 DEF CancelIntent, CancelIntentFault
<1>3. CASE ~(CancelIntent \/ CancelIntentFault)
  BY <1>1, <1>3 DEF RunnerStepAny, RunExpiry, ClaimExpiry, ReadOrder, ListAttempts,
     CancelUnpaid, FinishExpiry, RetryExpiry, FailExpiry, PutBackExpiry, RequeueExpiry,
     RunnerDies, provider
<1> QED BY <1>2, <1>3

LEMMA RunnerKeepsNames ==
  ASSUME Typed, AttemptsSound, RunnerStepAny
  PROVE  AttemptsSound'
<1>1. UNCHANGED <<payment, attached, sent, tab>>
  BY RunnerElsewhere DEF ledger
<1>2. \A a \in Attempts : intent'[a] = intent[a] \/ (intent[a] = "open" /\ intent'[a] = "canceled")
  BY RunnerCancelsOpen
<1>3. \A e \in sent : e.attempt \in Attempts
  BY DEF Typed, RowsTyped, Events
<1> QED BY <1>1, <1>2, <1>3 DEF AttemptsSound, Numbered, NamesOpened, Opened

-----------------------------------------------------------------------------
(* Refunds.                                                                *)

\* Nobody but the delivery gives money back, and a capture is for good.
LEMMA OthersLeaveRefunds ==
  ASSUME Typed, (\E t \in Tabs : TabNext(t)) \/ ProviderNext \/ RunnerStepAny
  PROVE  /\ UNCHANGED <<refund, returned, delivery>>
         /\ \A a \in Attempts : intent[a] = "succeeded" => intent'[a] = "succeeded"
<1>0. intent \in [Attempts -> {"none", "open", "processing", "succeeded", "canceled"}]
  BY DEF Typed, RowsTyped
<1>1. CASE \E t \in Tabs : TabNext(t)
  BY <1>0, <1>1 DEF TabNext, ReadForDeposit, OpenAttempt, CreateIntent, AttachIntent, PayDeposit,
              ledger, provider
<1>2. CASE ProviderNext
  BY <1>0, <1>2 DEF ProviderNext, CaptureDeposit, DeclineDeposit, Settle, ledger
<1>3. CASE RunnerStepAny
  BY <1>3, RunnerElsewhere, RunnerCancelsOpen DEF ledger
<1> QED BY <1>1, <1>2, <1>3

LEMMA OthersKeepRefunds ==
  ASSUME Typed, RefundsSound, (\E t \in Tabs : TabNext(t)) \/ ProviderNext \/ RunnerStepAny
  PROVE  RefundsSound'
  BY OthersLeaveRefunds DEF RefundsSound, SettledMeansReturned, PaidBy, EventOf

\* What the other deliveries are doing is not disturbed when the rows of one
\* attempt's refund only grow and its key stays the one first used.
LEMMA OtherRefundsGoOn ==
  ASSUME Typed, Typed', RefundsSound, NEW d \in Deliveries, NEW c \in Deliveries \ {d},
         delivery'[c] = delivery[c],
         \A a \in Attempts : Len(refund'[a]) >= Len(refund[a]),
         \A a \in Attempts : returned'[a] = returned[a] \/ returned[a] = 0
  PROVE  /\ delivery'[c].pc \in {"refund", "settle"} =>
              delivery'[c].row \in 1 .. Len(refund'[PaidBy(c)'])
         /\ delivery'[c].pc = "settle" => returned'[PaidBy(c)'] = delivery'[c].row
<1>1. PaidBy(c)' = PaidBy(c)
  BY DEF PaidBy, EventOf
<1>2. SUFFICES ASSUME delivery[c].pc \in {"refund", "settle"}
               PROVE  /\ delivery[c].row \in 1 .. Len(refund'[PaidBy(c)])
                      /\ delivery[c].pc = "settle" => returned'[PaidBy(c)] = delivery[c].row
  BY <1>1
<1>3. PaidBy(c) \in Attempts
  BY <1>2, NamedByDelivery
<1>4. /\ delivery[c].row \in 1 .. Len(refund[PaidBy(c)])
      /\ delivery[c].pc = "settle" => returned[PaidBy(c)] = delivery[c].row
  BY <1>2 DEF RefundsSound
<1>5. Len(refund[PaidBy(c)]) \in Nat /\ Len(refund'[PaidBy(c)]) \in Nat
  BY <1>3 DEF Typed, RowsTyped
<1>6. Len(refund'[PaidBy(c)]) >= Len(refund[PaidBy(c)])
      /\ (returned'[PaidBy(c)] = returned[PaidBy(c)] \/ returned[PaidBy(c)] = 0)
  BY <1>3
<1> QED BY <1>4, <1>5, <1>6

LEMMA DeliveriesKeepRefunds ==
  ASSUME Typed, Typed', AttemptsSound, RefundsSound, NEW d \in Deliveries, DeliveryStep(d)
  PROVE  RefundsSound'
<1> DEFINE a == PaidBy(d)
           Ongoing(c) ==
             /\ delivery[c].pc \in {"refund", "settle"} =>
                  delivery[c].row \in 1 .. Len(refund[PaidBy(c)])
             /\ delivery[c].pc = "settle" => returned[PaidBy(c)] = delivery[c].row
           Books == /\ SettledMeansReturned
                    /\ \A b \in Attempts : returned[b] \in 0 .. Len(refund[b])
<1>0. RefundsSound <=> Books /\ \A c \in Deliveries : Ongoing(c)
  BY DEF RefundsSound
<1>1. /\ UNCHANGED intent
      /\ delivery' \in [Deliveries -> DeliveryRow]
      /\ \A c \in Deliveries \ {d} : delivery'[c] = delivery[c]
  BY DeliveryElsewhere, DeliverStarts, HandleGoesOn DEF DeliveryStep
<1>2. refund \in [Attempts -> Seq({"requested", "settled"})] /\ returned \in [Attempts -> Nat]
  BY DEF Typed, RowsTyped
<1>3. \A b \in Attempts : Len(refund[b]) \in Nat /\ DOMAIN refund[b] = 1 .. Len(refund[b])
  BY <1>2
<1>4. ASSUME \A b \in Attempts : Len(refund'[b]) >= Len(refund[b]),
             \A b \in Attempts : returned'[b] = returned[b] \/ returned[b] = 0
      PROVE  \A c \in Deliveries \ {d} : Ongoing(c)'
  BY <1>1, <1>4, OtherRefundsGoOn
<1>5. ASSUME delivery[d].pc # "idle", delivery'[d].event = delivery[d].event
      PROVE  a' = a
  BY <1>5 DEF PaidBy, EventOf
<1>6. CASE OpenRefund(d)
  <2>1. a \in Attempts /\ delivery[d].pc = "open"
    BY <1>6, NamedByDelivery DEF OpenRefund, DeliveryAt
  <2>2. /\ refund' = [refund EXCEPT ![a] = Append(@, "requested")]
        /\ delivery' = [delivery EXCEPT ![d].pc = "refund", ![d].row = Len(refund[a]) + 1]
        /\ UNCHANGED returned
    BY <1>6 DEF OpenRefund, provider
  <2>3. delivery'[d].event = delivery[d].event /\ delivery'[d].pc = "refund"
        /\ delivery'[d].row = Len(refund[a]) + 1
    BY <1>1, <2>2 DEF Typed, RowsTyped, DeliveryRow
  <2>4. a' = a
    BY <1>5, <2>1, <2>3
  <2>5. /\ refund'[a] \in Seq({"requested", "settled"}) /\ Len(refund'[a]) = Len(refund[a]) + 1
        /\ refund'[a][Len(refund[a]) + 1] = "requested"
        /\ \A i \in 1 .. Len(refund[a]) : refund'[a][i] = refund[a][i]
        /\ \A b \in Attempts \ {a} : refund'[b] = refund[b]
    <3>1. refund[a] \in Seq({"requested", "settled"}) /\ refund'[a] = Append(refund[a], "requested")
      BY <1>2, <2>1, <2>2
    <3>2. \A b \in Attempts \ {a} : refund'[b] = refund[b]
      BY <1>2, <2>2
    <3> QED BY <3>1, <3>2, AppendProperties
  <2>6. DOMAIN refund'[a] = 1 .. Len(refund[a]) + 1
    BY <2>5
  <2> HIDE DEF a
  <2>7. \A b \in Attempts : Len(refund'[b]) >= Len(refund[b])
    BY <1>3, <2>1, <2>5
  <2>8. Books'
    <3>1. Books
      BY <1>0
    <3>2. ASSUME NEW b \in Attempts
          PROVE  /\ returned[b] # 0 => intent[b] = "succeeded"
                 /\ \A i \in DOMAIN refund'[b] : refund'[b][i] = "settled" => returned[b] = i
                 /\ returned[b] \in 0 .. Len(refund'[b])
      BY <1>3, <2>1, <2>5, <2>6, <3>1 DEF SettledMeansReturned
    <3> QED BY <1>1, <2>2, <3>2 DEF SettledMeansReturned
  <2>9. \A c \in Deliveries \ {d} : Ongoing(c)'
    BY <1>4, <2>2, <2>7
  <2>10. Ongoing(d)'
    BY <1>3, <2>1, <2>3, <2>4, <2>5 DEF a
  <2> QED BY <1>0, <2>8, <2>9, <2>10 DEF RefundsSound
<1>7. CASE ProviderRefund(d)
  <2>1. a \in Attempts /\ delivery[d].pc = "refund" /\ intent[a] = "succeeded"
    BY <1>7, NamedByDelivery, DeliveriesNameOpened DEF ProviderRefund, DeliveryAt, Succeeding, GivingBack
  <2>2. delivery[d].row \in 1 .. Len(refund[a])
    BY <1>0, <2>1
  <2>3. UNCHANGED refund
    BY <1>7 DEF ProviderRefund, ledger
  <2>4. CASE returned[a] \in {0, delivery[d].row}
    <3>1. /\ returned' = [returned EXCEPT ![a] = delivery[d].row]
          /\ delivery' = [delivery EXCEPT ![d].pc = "settle"]
      BY <1>7, <2>4 DEF ProviderRefund, DeliveryTo
    <3>2. delivery'[d].event = delivery[d].event /\ delivery'[d].pc = "settle"
          /\ delivery'[d].row = delivery[d].row
      BY <1>1, <3>1 DEF Typed, RowsTyped, DeliveryRow
    <3>3. a' = a
      BY <1>5, <2>1, <3>2
    <3>4. returned'[a] = delivery[d].row /\ \A b \in Attempts \ {a} : returned'[b] = returned[b]
      BY <1>2, <2>1, <3>1
    <3> HIDE DEF a
    <3>5. Books'
      BY <1>0, <1>1, <1>3, <2>1, <2>2, <2>3, <2>4, <3>4 DEF SettledMeansReturned
    <3>6. \A c \in Deliveries \ {d} : Ongoing(c)'
      <4>1. \A b \in Attempts : returned'[b] = returned[b] \/ returned[b] = 0
        BY <2>1, <2>4, <3>4
      <4>2. \A b \in Attempts : Len(refund'[b]) >= Len(refund[b])
        BY <1>3, <2>3
      <4> QED BY <1>4, <4>1, <4>2
    <3>7. Ongoing(d)'
      BY <2>2, <2>3, <3>2, <3>3, <3>4 DEF a
    <3> QED BY <1>0, <3>5, <3>6, <3>7 DEF RefundsSound
  <2>5. CASE returned[a] \notin {0, delivery[d].row}
    <3>1. UNCHANGED returned /\ delivery' = [delivery EXCEPT ![d] = IdleDelivery]
      BY <1>7, <2>5 DEF ProviderRefund
    <3>2. delivery'[d].pc = "idle"
      BY <3>1 DEF IdleDelivery, Typed, RowsTyped
    <3> QED BY <1>0, <1>1, <1>3, <1>4, <2>3, <3>1, <3>2 DEF RefundsSound, SettledMeansReturned
  <2> QED BY <2>4, <2>5
<1>8. CASE SettleRefund(d)
  <2>1. a \in Attempts /\ delivery[d].pc = "settle"
    BY <1>8, NamedByDelivery DEF SettleRefund, DeliveryAt
  <2>2. delivery[d].row \in 1 .. Len(refund[a]) /\ returned[a] = delivery[d].row
    BY <1>0, <2>1
  <2>3. /\ refund' = [refund EXCEPT ![a] = [@ EXCEPT ![delivery[d].row] = "settled"]]
        /\ delivery' = [delivery EXCEPT ![d].pc = "label"] /\ UNCHANGED returned
    BY <1>8 DEF SettleRefund, DeliveryTo, provider
  <2>4. delivery'[d].pc = "label"
    BY <1>1, <2>3 DEF Typed, RowsTyped, DeliveryRow
  <2>5. /\ refund'[a] \in Seq({"requested", "settled"}) /\ Len(refund'[a]) = Len(refund[a])
        /\ \A i \in 1 .. Len(refund[a]) :
             refund'[a][i] = IF i = delivery[d].row THEN "settled" ELSE refund[a][i]
        /\ \A b \in Attempts \ {a} : refund'[b] = refund[b]
    <3>1. refund[a] \in Seq({"requested", "settled"})
          /\ refund'[a] = [refund[a] EXCEPT ![delivery[d].row] = "settled"]
      BY <1>2, <2>1, <2>3
    <3>2. \A b \in Attempts \ {a} : refund'[b] = refund[b]
      BY <1>2, <2>3
    <3> QED BY <2>2, <3>1, <3>2, ExceptSeq
  <2>6. DOMAIN refund'[a] = 1 .. Len(refund[a])
    BY <2>5
  <2> HIDE DEF a
  <2>7. \A b \in Attempts : Len(refund'[b]) >= Len(refund[b])
    BY <1>3, <2>1, <2>5
  <2>8. Books'
    <3>1. Books
      BY <1>0
    <3>2. ASSUME NEW b \in Attempts
          PROVE  /\ returned[b] # 0 => intent[b] = "succeeded"
                 /\ \A i \in DOMAIN refund'[b] : refund'[b][i] = "settled" => returned[b] = i
                 /\ returned[b] \in 0 .. Len(refund'[b])
      BY <1>3, <2>1, <2>2, <2>5, <2>6, <3>1 DEF SettledMeansReturned
    <3> QED BY <1>1, <2>3, <3>2 DEF SettledMeansReturned
  <2>9. \A c \in Deliveries \ {d} : Ongoing(c)'
    BY <1>4, <2>3, <2>7
  <2>10. Ongoing(d)'
    BY <2>4
  <2> QED BY <1>0, <2>8, <2>9, <2>10 DEF RefundsSound
<1>9. CASE FindStandingRefund(d)
  <2>1. a \in Attempts /\ delivery[d].pc = "branch" /\ UNCHANGED <<refund, returned>>
    BY <1>9, NamedByDelivery DEF FindStandingRefund, DeliveryAt, ledger, provider
  <2> DEFINE pc == IF refund[a] = <<>> THEN "open"
                   ELSE IF Head(refund[a]) = "requested" THEN "refund" ELSE "ack"
             row == IF refund[a] = <<>> THEN 0 ELSE 1
  <2>2. delivery' = [delivery EXCEPT ![d].pc = pc, ![d].row = row]
    BY <1>9 DEF FindStandingRefund
  <2>3. refund[a] # <<>> => 1 \in 1 .. Len(refund[a])
    BY <1>2, <2>1
  <2>4. pc \in {"open", "refund", "ack"} /\ (pc = "refund" => row \in 1 .. Len(refund[a]))
    BY <2>3
  <2> HIDE DEF pc, row
  <2>5. delivery'[d].event = delivery[d].event /\ delivery'[d].pc = pc /\ delivery'[d].row = row
    BY <1>1, <2>2 DEF Typed, RowsTyped, DeliveryRow
  <2>6. a' = a
    BY <1>5, <2>1, <2>5
  <2>7. Ongoing(d)'
    BY <2>1, <2>4, <2>5, <2>6
  <2>8. Books'
    BY <1>0, <1>1, <2>1 DEF SettledMeansReturned
  <2>9. \A c \in Deliveries \ {d} : Ongoing(c)'
    BY <1>3, <1>4, <2>1
  <2> QED BY <1>0, <2>7, <2>8, <2>9 DEF RefundsSound
<1>10. CASE \/ (\E e \in Events : Deliver(d, e)) \/ LoadOrder(d) \/ MarkPaymentFailed(d)
            \/ MarkPaymentSucceeded(d) \/ ConfirmOrder(d) \/ MarkPaymentRefunded(d)
            \/ Acknowledge(d) \/ DeliveryDies(d)
  <2>1. UNCHANGED <<refund, returned>>
    BY <1>10 DEF Deliver, LoadOrder, MarkPaymentFailed, MarkPaymentSucceeded, ConfirmOrder,
                 MarkPaymentRefunded, Acknowledge, DeliveryDies, ledger, provider
  <2>2. delivery'[d].pc \notin {"refund", "settle"}
    <3>1. delivery \in [Deliveries -> DeliveryRow]
      BY DEF Typed, RowsTyped
    <3> QED BY <1>10, <3>1
            DEF Deliver, LoadOrder, MarkPaymentFailed, MarkPaymentSucceeded, ConfirmOrder,
                MarkPaymentRefunded, Acknowledge, DeliveryDies, IdleDelivery, DeliveryTo, DeliveryRow
  <2>3. Books'
    BY <1>0, <1>1, <2>1 DEF SettledMeansReturned
  <2>4. \A c \in Deliveries \ {d} : Ongoing(c)'
    BY <1>3, <1>4, <2>1
  <2> QED BY <1>0, <2>2, <2>3, <2>4 DEF RefundsSound
<1> QED BY <1>6, <1>7, <1>8, <1>9, <1>10 DEF DeliveryStep, Handle

-----------------------------------------------------------------------------
(* The expiry: what it asked the provider about, and its tries.            *)

\* An intent that is cancelled stays so, whoever acts.
LEMMA CancelledStays ==
  ASSUME Typed, NEW a \in Attempts, intent[a] = "canceled",
         (\E t \in Tabs : TabNext(t)) \/ ProviderNext \/ (\E d \in Deliveries : DeliveryStep(d))
  PROVE  intent'[a] = "canceled"
<1>0. intent \in [Attempts -> {"none", "open", "processing", "succeeded", "canceled"}]
  BY DEF Typed, RowsTyped
<1>1. CASE \E t \in Tabs : TabNext(t)
  BY <1>0, <1>1 DEF TabNext, ReadForDeposit, OpenAttempt, CreateIntent, AttachIntent, PayDeposit, provider
<1>2. CASE ProviderNext
  BY <1>0, <1>2 DEF ProviderNext, CaptureDeposit, DeclineDeposit, Settle
<1>3. CASE \E d \in Deliveries : DeliveryStep(d)
  BY <1>3, DeliveryElsewhere
<1> QED BY <1>1, <1>2, <1>3

LEMMA OthersLeaveExpiry ==
  ASSUME Typed, RunnerSound, TriesLeft,
         (\E t \in Tabs : TabNext(t)) \/ ProviderNext \/ (\E d \in Deliveries : DeliveryStep(d))
  PROVE  RunnerSound' /\ TriesLeft'
<1>1. UNCHANGED <<runner, tries>> /\ attached \subseteq attached'
  <2>1. CASE \E t \in Tabs : TabNext(t)
    BY <2>1 DEF TabNext, ReadForDeposit, OpenAttempt, CreateIntent, AttachIntent, PayDeposit, ledger
  <2>2. CASE ProviderNext
    BY <2>2 DEF ProviderNext, CaptureDeposit, DeclineDeposit, Settle, ledger
  <2>3. CASE \E d \in Deliveries : DeliveryStep(d)
    <3>1. PICK d \in Deliveries : DeliveryStep(d)
      BY <2>3
    <3>2. attached \subseteq attached'
      BY <3>1 DEF DeliveryStep, Deliver, Handle, DeliveryDies, LoadOrder, MarkPaymentFailed,
         MarkPaymentSucceeded, ConfirmOrder, FindStandingRefund, OpenRefund, ProviderRefund,
         SettleRefund, MarkPaymentRefunded, Acknowledge, ledger
    <3> QED BY <3>1, <3>2, DeliveryElsewhere
  <2> QED BY <2>1, <2>2, <2>3
<1>2. runner.asked \subseteq Attempts
  BY DEF Typed, RowsTyped, RunnerRow
<1>3. RunnerSound'
  BY <1>1, <1>2, CancelledStays DEF RunnerSound
<1>4. job'["expire_unpaid"] \in {job["expire_unpaid"], "done"}
  <2>1. UNCHANGED rows \/ Move("confirmed")
    <3>1. CASE \E t \in Tabs : TabNext(t)
      BY <3>1 DEF TabNext, ReadForDeposit, OpenAttempt, CreateIntent, AttachIntent, PayDeposit
    <3>2. CASE ProviderNext
      BY <3>2 DEF ProviderNext, CaptureDeposit, DeclineDeposit, Settle
    <3>3. CASE \E d \in Deliveries : DeliveryStep(d)
      BY <3>3, DeliveryElsewhere
    <3> QED BY <3>1, <3>2, <3>3
  <2>2. CASE Move("confirmed")
    BY <2>2 DEF Move, ApplyTransition, JobsAfterMove, JobsOnEntering, OnEntering, CalledOff, JobTypes
  <2> QED BY <2>1, <2>2 DEF rows
<1> QED BY <1>1, <1>3, <1>4 DEF TriesLeft

LEMMA RunnerKeepsExpiry ==
  ASSUME Typed, RunnerOwnsRow, RunnerSound, TriesLeft, RunnerStepAny
  PROVE  RunnerSound' /\ TriesLeft'
<1>1. UNCHANGED <<attached, payment>> /\ runner \in RunnerRow /\ runner.asked \subseteq Attempts
  BY RunnerElsewhere DEF ledger, Typed, RowsTyped, RunnerRow
<1>2. intent \in [Attempts -> {"none", "open", "processing", "succeeded", "canceled"}]
  BY DEF Typed, RowsTyped
<1>3. RunnerSound'
  <2>1. CASE ListAttempts
    BY <1>1, <2>1 DEF ListAttempts, RunnerSound
  <2>2. CASE CancelIntent
    <3>1. CASE intent[NextToCancel] = "open"
      <4>1. /\ intent' = [intent EXCEPT ![NextToCancel] = "canceled"]
            /\ runner' = [runner EXCEPT !.todo = @ \ {NextToCancel}]
            /\ runner.pc = "release"
        BY <2>2, <3>1 DEF CancelIntent
      <4>2. /\ runner'.pc = runner.pc /\ runner'.asked = runner.asked
            /\ runner'.fault = runner.fault /\ runner'.todo = runner.todo \ {NextToCancel}
        BY <1>1, <4>1 DEF RunnerRow
      <4>3. ASSUME ~runner.fault, NEW a \in runner.asked \ runner'.todo
            PROVE  intent'[a] = "canceled"
        <5>1. a \in Attempts
          BY <1>1
        <5>2. CASE a = NextToCancel
          BY <1>2, <4>1, <5>1, <5>2
        <5>3. CASE a # NextToCancel
          <6>1. intent[a] = "canceled"
            BY <4>1, <4>2, <4>3, <5>3 DEF RunnerSound
          <6> QED BY <1>2, <4>1, <5>1, <5>3, <6>1
        <5> QED BY <5>2, <5>3
      <4> QED BY <1>1, <4>2, <4>3 DEF RunnerSound
    <3>2. CASE intent[NextToCancel] # "open"
      <4>1. runner' = [runner EXCEPT !.pc = "retry"]
        BY <2>2, <3>2 DEF CancelIntent
      <4> QED BY <1>1, <4>1 DEF RunnerSound, RunnerRow
    <3> QED BY <3>1, <3>2
  <2>3. CASE CancelIntentFault
    <3>1. runner' = [runner EXCEPT !.todo = @ \ {NextToCancel}, !.fault = TRUE]
      BY <2>3 DEF CancelIntentFault
    <3>2. /\ runner'.asked = runner.asked /\ runner'.fault
          /\ runner'.todo = runner.todo \ {NextToCancel}
      BY <1>1, <3>1 DEF RunnerRow
    <3> QED BY <1>1, <3>2 DEF RunnerSound
  <2>4. CASE ClaimExpiry \/ ReadOrder \/ CancelUnpaid
    BY <1>1, <2>4 DEF ClaimExpiry, ReadOrder, CancelUnpaid, RunnerStep, RunnerRow, RunnerSound
  <2>5. CASE FinishExpiry \/ RetryExpiry \/ FailExpiry \/ RunnerDies
    BY <1>1, <2>5 DEF FinishExpiry, RetryExpiry, FailExpiry, PutBackExpiry, RunnerDies,
                      IdleRunner, RunnerSound
  <2>6. CASE RequeueExpiry
    BY <1>1, <2>6 DEF RequeueExpiry, provider, RunnerSound
  <2> QED BY <2>1, <2>2, <2>3, <2>4, <2>5, <2>6 DEF RunnerStepAny, RunExpiry
<1>4. TriesLeft'
  <2>0. job \in [JobTypes -> JobStatus] /\ "expire_unpaid" \in JobTypes
    BY DEF Typed, RowsTyped, RowsTypeOK, JobTypes
  <2>1. CASE CancelUnpaid
    <3>1. job'["expire_unpaid"] \in {job["expire_unpaid"], "done"}
      BY <2>1 DEF CancelUnpaid, rows, Move, ApplyTransition, JobsAfterMove, JobsOnEntering,
                  OnEntering, CalledOff, JobTypes
    <3> QED BY <2>1, <3>1 DEF CancelUnpaid, TriesLeft
  <2>2. CASE ReadOrder \/ ListAttempts \/ CancelIntent \/ CancelIntentFault \/ RunnerDies
    BY <2>2 DEF ReadOrder, ListAttempts, CancelIntent, CancelIntentFault, RunnerDies, rows, TriesLeft
  <2>3. CASE RetryExpiry \/ FailExpiry
    BY <2>0, <2>3, DepositAssumption
       DEF RetryExpiry, FailExpiry, PutBackExpiry, SetJob, RunnerOwnsRow, TriesLeft
  <2>4. CASE ClaimExpiry \/ FinishExpiry \/ RequeueExpiry
    BY <2>0, <2>4, DepositAssumption
       DEF ClaimExpiry, FinishExpiry, RequeueExpiry, ClaimRow, RequeueRow, SetJob, TriesLeft
  <2> QED BY <2>1, <2>2, <2>3, <2>4 DEF RunnerStepAny, RunExpiry
<1> QED BY <1>3, <1>4

-----------------------------------------------------------------------------
(* The invariant.                                                          *)

LEMMA NextByActor ==
  ASSUME Next
  PROVE  \/ \E t \in Tabs : TabNext(t)
         \/ ProviderNext
         \/ \E d \in Deliveries : DeliveryStep(d)
         \/ RunnerStepAny
  BY DEF Next, DeliveryStep, RunnerStepAny

LEMMA SoundInitially ==
  ASSUME Init
  PROVE  Sound
<1>1. Typed
  <2>1. RowsTypeOK
    BY DEF Init, OrderCreated, RowsTypeOK, OrderStates, JobStatus, LinkState, Enqueued
  <2>2. refund \in [Attempts -> Seq({"requested", "settled"})] /\ returned \in [Attempts -> Nat]
    BY DEF Init
  <2>3. IdleTab \in TabRow /\ IdleDelivery \in DeliveryRow /\ IdleRunner \in RunnerRow
    BY DEF IdleTab, TabRow, IdleDelivery, DeliveryRow, IdleRunner, RunnerRow
  <2>4. /\ payment \in [Attempts -> PaymentStates] /\ attached \subseteq Attempts
        /\ intent \in [Attempts -> {"none", "open", "processing", "succeeded", "canceled"}]
        /\ sent \subseteq Events /\ processed \subseteq sent
    BY DEF Init, PaymentStates
  <2>5. tries \in Nat /\ crashes \in 0 .. MaxCrashes
    BY DepositAssumption DEF Init
  <2>6. /\ tab \in [Tabs -> TabRow] /\ delivery \in [Deliveries -> DeliveryRow] /\ runner \in RunnerRow
    BY <2>3 DEF Init
  <2>7. /\ \A t \in Tabs : TabSound(t)
        /\ \A d \in Deliveries : DeliverySound(d)
    BY DEF Init, IdleTab, IdleDelivery, TabSound, DeliverySound
  <2> QED BY <2>1, <2>2, <2>4, <2>5, <2>6, <2>7 DEF Typed, RowsTyped
<1>2. AttemptsSound
  <2>1. Opened = {}
    BY DEF Init, Opened
  <2>2. Opened = 1 .. 0
    BY <2>1
  <2>3. \A a \in Attempts : payment[a] # "pending" /\ intent[a] = "none"
    BY DEF Init
  <2>4. Numbered
    BY <2>2, <2>3 DEF Numbered
  <2> QED BY <2>3, <2>4 DEF Init, IdleTab, AttemptsSound, NamesOpened
<1>3. RefundsSound
  BY DEF Init, IdleDelivery, RefundsSound, SettledMeansReturned
<1>4. RunnerSound
  BY DEF Init, IdleRunner, RunnerSound
<1>5. TriesLeft
  BY DepositAssumption DEF Init, TriesLeft
<1>6. RunnerOwnsRow
  BY DEF Init, OrderCreated, RunnerOwnsRow, IdleRunner, JobTypes, JobStatus, Enqueued
<1> QED BY <1>1, <1>2, <1>3, <1>4, <1>5, <1>6 DEF Sound

LEMMA SoundInductive ==
  ASSUME Sound, [Next]_vars
  PROVE  Sound'
<1> USE DEF Sound
<1>1. RunnerOwnsRow'
  BY RunnerOwnsRowInductive
<1>2. CASE \E t \in Tabs : TabNext(t)
  BY <1>1, <1>2, TabStepsTyped, TabsNameOpened, OthersKeepRefunds, OthersLeaveExpiry
<1>3. CASE ProviderNext
  BY <1>1, <1>3, ProviderStepsTyped, ProviderNamesOpened, OthersKeepRefunds, OthersLeaveExpiry
<1>4. CASE \E d \in Deliveries : DeliveryStep(d)
  <2>1. PICK d \in Deliveries : DeliveryStep(d)
    BY <1>4
  <2>2. Typed'
    BY <2>1, DeliveryStepsTyped
  <2> QED BY <1>1, <1>4, <2>1, <2>2, DeliveriesKeepNames, DeliveriesKeepRefunds, OthersLeaveExpiry
<1>5. CASE RunnerStepAny
  BY <1>1, <1>5, RunnerStepsTyped, RunnerKeepsNames, OthersKeepRefunds, RunnerKeepsExpiry
<1>6. CASE UNCHANGED vars
  <2>1. UNCHANGED <<rows, payment, attached, refund, intent, returned, sent, processed, tab,
                    delivery, runner, tries, crashes>>
    BY <1>6 DEF vars, ledger, provider
  <2>2. Typed'
    BY <2>1 DEF rows, Typed, RowsTyped, RowsTypeOK, DeliverySound, TabSound
  <2>3. AttemptsSound'
    BY <2>1 DEF AttemptsSound, Numbered, NamesOpened, Opened
  <2>4. RefundsSound'
    BY <2>1 DEF RefundsSound, SettledMeansReturned, PaidBy, EventOf
  <2>5. RunnerSound' /\ TriesLeft'
    BY <2>1 DEF rows, RunnerSound, TriesLeft
  <2> QED BY <1>1, <2>2, <2>3, <2>4, <2>5
<1> QED BY <1>2, <1>3, <1>4, <1>5, <1>6, NextByActor

LEMMA SoundAlways == Spec => []Sound
<1>1. Init => Sound
  BY SoundInitially
<1>2. Sound /\ [Next]_vars => Sound'
  BY SoundInductive
<1> QED BY <1>1, <1>2, PTL DEF Spec

-----------------------------------------------------------------------------
(* Theorems.                                                               *)

\* The expiry gives a date back only after the provider cancelled every charge
\* it was asked about, or did not answer, whatever tabs, cards and events do
\* between the requests.
THEOREM RefusedChargeIsSpared == Spec => ExpirySparesRefusedCharge
<1>1. ASSUME Sound, [Next]_vars
      PROVE  [state = "pending_payment" /\ state' = "cancelled" =>
                runner.fault \/ \A a \in runner.asked : intent[a] = "canceled"]_vars
  <2>1. SUFFICES ASSUME Next, state = "pending_payment", state' = "cancelled"
                 PROVE  runner.fault \/ \A a \in runner.asked : intent[a] = "canceled"
    BY <1>1
  <2>2. CancelUnpaid
    <3>1. CASE \E t \in Tabs : TabNext(t)
      BY <2>1, <3>1 DEF TabNext, ReadForDeposit, OpenAttempt, CreateIntent, AttachIntent, PayDeposit, rows
    <3>2. CASE ProviderNext
      BY <2>1, <3>2 DEF ProviderNext, CaptureDeposit, DeclineDeposit, Settle, rows
    <3>3. CASE \E d \in Deliveries : DeliveryStep(d)
      <4>1. UNCHANGED rows \/ Move("confirmed")
        BY <3>3, DeliveryElsewhere
      <4> QED BY <2>1, <4>1 DEF rows, Move, ApplyTransition
    <3>4. CASE RunnerStepAny
      BY <2>1, <3>4 DEF RunnerStepAny, RunExpiry, ClaimExpiry, ReadOrder, ListAttempts, CancelIntent,
         CancelIntentFault, FinishExpiry, RetryExpiry, FailExpiry, PutBackExpiry, RequeueExpiry,
         RunnerDies, rows
    <3> QED BY <2>1, <3>1, <3>2, <3>3, <3>4, NextByActor
  <2>3. runner.pc = "release" /\ runner.todo = {}
    BY <2>2 DEF CancelUnpaid
  <2> QED BY <1>1, <2>3 DEF Sound, RunnerSound
<1> QED BY <1>1, SoundAlways, PTL DEF Spec, ExpirySparesRefusedCharge

LEMMA SoundIsTyped ==
  ASSUME Sound
  PROVE  TypeOK /\ OneOpenAttempt /\ SettledMeansReturned
<1>1. Typed /\ AttemptsSound /\ RefundsSound /\ RunnerSound /\ TriesLeft
  BY DEF Sound
<1>2. \A d \in Deliveries : delivery[d].event \subseteq sent
  BY <1>1 DEF Typed, DeliverySound
<1>3. \A a \in Attempts : refund[a] \in Seq({"requested", "settled"})
  BY <1>1 DEF Typed, RowsTyped
<1>4. TypeOK
  BY <1>1, <1>2, <1>3 DEF TypeOK, Typed, RowsTyped, AttemptsSound, NamesOpened, RefundsSound,
                          RunnerSound, TriesLeft
<1>5. OneOpenAttempt
  <2> DEFINE open == {a \in Attempts : payment[a] = "pending"}
  <2>1. PICK n \in Nat : \A a \in Attempts : payment[a] = "pending" => a = n
    BY <1>1 DEF AttemptsSound, Numbered
  <2>2. open = {} \/ open = {n}
    BY <2>1
  <2>3. Cardinality(open) <= 1
    <3> HIDE DEF open
    <3>1. CASE open = {}
      BY <3>1, FS_EmptySet
    <3>2. CASE open = {n}
      <4>1. Cardinality(open) = 1
        BY <3>2, FS_Singleton
      <4>2. 1 <= 1
        OBVIOUS
      <4> QED BY <4>1, <4>2, Zenon
    <3> QED BY <2>2, <3>1, <3>2
  <2> QED BY <2>3 DEF OneOpenAttempt
<1> QED BY <1>1, <1>4, <1>5 DEF RefundsSound

\* However many tabs press pay at once, an order has one charge in flight.
THEOREM OneChargeInFlight == Spec => []OneOpenAttempt
<1>1. Sound => OneOpenAttempt
  BY SoundIsTyped
<1> QED BY <1>1, SoundAlways, PTL

\* Money goes back only for a captured charge, and no row claims a refund the
\* provider did not make, however many deliveries of one event run at once.
THEOREM SettledIsReturned == Spec => []SettledMeansReturned
<1>1. Sound => SettledMeansReturned
  BY SoundIsTyped
<1> QED BY <1>1, SoundAlways, PTL

-----------------------------------------------------------------------------
(* Handlers that look for a refund at once.                                *)

LEMMA OpeningFinite ==
  ASSUME NEW a
  PROVE  /\ IsFiniteSet(Opening(a)) /\ Cardinality(Opening(a)) \in Nat
         /\ Cardinality(Opening(a)) <= Cardinality(Deliveries)
         /\ Cardinality(Deliveries) \in Nat
<1>1. Opening(a) \subseteq Deliveries /\ IsFiniteSet(Deliveries)
  BY DepositAssumption DEF Opening
<1> QED BY <1>1, FS_Subset, FS_CardinalityType

\* Nobody joins the handlers about to open a row of a refund that stands, and
\* none but they opens one.
LEMMA RefundRowsStep ==
  ASSUME Sound, Sound', RefundRowsCounted, Next
  PROVE  RefundRowsCounted'
<1>1. Typed /\ Typed'
  BY DEF Sound
<1>2. /\ refund \in [Attempts -> Seq({"requested", "settled"})]
      /\ refund' \in [Attempts -> Seq({"requested", "settled"})]
      /\ delivery \in [Deliveries -> DeliveryRow]
  BY <1>1 DEF Typed, RowsTyped
<1>3. ASSUME NEW a \in Attempts, refund'[a] # <<>>,
             Len(refund'[a]) = Len(refund[a]), Opening(a)' \subseteq Opening(a)
      PROVE  Len(refund'[a]) + Cardinality(Opening(a)') <= Cardinality(Deliveries)
  <2>1. Len(refund[a]) + Cardinality(Opening(a)) <= Cardinality(Deliveries)
    <3>1. refund[a] # <<>>
      BY <1>2, <1>3
    <3> QED BY <3>1 DEF RefundRowsCounted
  <2>2. IsFiniteSet(Opening(a))
    BY OpeningFinite
  <2>3. Cardinality(Opening(a)') <= Cardinality(Opening(a)) /\ Cardinality(Opening(a)') \in Nat
    BY <1>3, <2>2, FS_Subset, FS_CardinalityType
  <2>4. Cardinality(Opening(a)) \in Nat /\ Cardinality(Deliveries) \in Nat
    BY OpeningFinite
  <2>5. Len(refund[a]) \in Nat
    <3>1. refund[a] \in Seq({"requested", "settled"})
      BY <1>2
    <3> QED BY <3>1, LenProperties
  <2> QED BY <1>3, <2>1, <2>3, <2>4, <2>5
<1>4. CASE (\E t \in Tabs : TabNext(t)) \/ ProviderNext \/ RunnerStepAny
  <2>1. UNCHANGED <<refund, delivery>>
    BY <1>1, <1>4, OthersLeaveRefunds
  <2>2. \A a \in Attempts : Opening(a)' = Opening(a)
    BY <2>1 DEF Opening, PaidBy, EventOf
  <2> QED BY <1>3, <2>1, <2>2 DEF RefundRowsCounted
<1>5. ASSUME NEW d \in Deliveries, DeliveryStep(d)
      PROVE  RefundRowsCounted'
  <2>1. /\ \A c \in Deliveries \ {d} : delivery'[c] = delivery[c]
        /\ delivery' \in [Deliveries -> DeliveryRow]
    BY <1>1, <1>5, DeliverStarts, HandleGoesOn DEF DeliveryStep
  <2>2. \A c \in Deliveries \ {d} : PaidBy(c)' = PaidBy(c)
    BY <2>1 DEF PaidBy, EventOf
  <2>3. ASSUME delivery'[d].pc # "open"
        PROVE  \A a \in Attempts : Opening(a)' \subseteq Opening(a) \ {d}
    BY <2>1, <2>2, <2>3 DEF Opening
  <2>4. CASE OpenRefund(d)
    <3>0. PaidBy(d) \in Attempts
      BY <1>1, <2>4, NamedByDelivery DEF OpenRefund, DeliveryAt
    <3> PICK b \in Attempts : b = PaidBy(d)
      BY <3>0
    <3>1. /\ b \in Attempts /\ delivery[d].pc = "open"
          /\ refund' = [refund EXCEPT ![b] = Append(refund[b], "requested")]
          /\ delivery'[d].pc # "open"
      BY <1>2, <2>4 DEF OpenRefund, DeliveryAt, DeliveryRow
    <3>2. d \in Opening(b) /\ Opening(b)' \subseteq Opening(b) \ {d}
      BY <2>3, <3>1 DEF Opening
    <3>3. /\ IsFiniteSet(Opening(b)) /\ Cardinality(Opening(b)) \in Nat
          /\ Cardinality(Opening(b)) <= Cardinality(Deliveries)
          /\ Cardinality(Deliveries) \in Nat
      BY OpeningFinite
    <3>4. /\ IsFiniteSet(Opening(b) \ {d})
          /\ Cardinality(Opening(b) \ {d}) = Cardinality(Opening(b)) - 1
      BY <3>2, <3>3, FS_RemoveElement
    <3>5. /\ Cardinality(Opening(b)') \in Nat
          /\ Cardinality(Opening(b)') <= Cardinality(Opening(b)) - 1
      BY <3>2, <3>4, FS_Subset, FS_CardinalityType
    <3>6. Len(refund'[b]) = Len(refund[b]) + 1 /\ Len(refund[b]) \in Nat
      BY <1>2, <3>1, AppendProperties
    <3>7. Len(refund'[b]) + Cardinality(Opening(b)') <= Cardinality(Deliveries)
      <4>1. CASE refund[b] = <<>>
        <5>1. Len(refund[b]) = 0
          BY <4>1
        <5> QED BY <3>3, <3>5, <3>6, <5>1
      <4>2. CASE refund[b] # <<>>
        <5>1. Len(refund[b]) + Cardinality(Opening(b)) <= Cardinality(Deliveries)
          BY <3>1, <4>2 DEF RefundRowsCounted
        <5> QED BY <3>3, <3>5, <3>6, <5>1
      <4> QED BY <4>1, <4>2
    <3>8. ASSUME NEW a \in Attempts, a # b, refund'[a] # <<>>
          PROVE  Len(refund'[a]) + Cardinality(Opening(a)') <= Cardinality(Deliveries)
      <4>1. refund'[a] = refund[a]
        BY <1>2, <3>1, <3>8
      <4>2. Opening(a)' \subseteq Opening(a)
        BY <2>3, <3>1
      <4> QED BY <1>3, <3>8, <4>1, <4>2
    <3> QED BY <3>7, <3>8 DEF RefundRowsCounted
  <2>5. CASE SettleRefund(d)
    <3>1. PaidBy(d) \in Attempts /\ delivery[d].row \in 1 .. Len(refund[PaidBy(d)])
      BY <1>1, <2>5, NamedByDelivery DEF SettleRefund, DeliveryAt, Sound, RefundsSound
    <3>2. refund' = [refund EXCEPT ![PaidBy(d)] = [refund[PaidBy(d)] EXCEPT ![delivery[d].row] = "settled"]]
      BY <2>5 DEF SettleRefund
    <3>3. Len(refund'[PaidBy(d)]) = Len(refund[PaidBy(d)])
      BY <1>2, <3>1, <3>2, ExceptSeq
    <3>4. \A a \in Attempts : Len(refund'[a]) = Len(refund[a])
      <4>1. \A a \in Attempts \ {PaidBy(d)} : refund'[a] = refund[a]
        BY <1>2, <3>2
      <4> QED BY <3>3, <4>1
    <3>5. delivery'[d].pc # "open"
      BY <1>2, <2>5 DEF SettleRefund, DeliveryTo, DeliveryRow
    <3>6. \A a \in Attempts : Opening(a)' \subseteq Opening(a)
      BY <2>3, <3>5
    <3>7. ASSUME NEW a \in Attempts, refund'[a] # <<>>
          PROVE  Len(refund'[a]) + Cardinality(Opening(a)') <= Cardinality(Deliveries)
      BY <1>3, <3>4, <3>6, <3>7
    <3> QED BY <3>7 DEF RefundRowsCounted
  <2>6. CASE FindStandingRefund(d)
    <3>1. UNCHANGED refund /\ delivery[d].pc = "branch"
      BY <2>6 DEF FindStandingRefund, DeliveryAt, ledger
    <3>2. delivery'[d].event = delivery[d].event
          /\ (delivery'[d].pc = "open" => refund[PaidBy(d)] = <<>>)
      BY <1>2, <2>6 DEF FindStandingRefund, DeliveryRow
    <3>3. PaidBy(d)' = PaidBy(d)
      BY <3>2 DEF PaidBy, EventOf
    <3>4. ASSUME NEW a \in Attempts, refund'[a] # <<>>
          PROVE  Opening(a)' \subseteq Opening(a)
      <4>1. ~(delivery'[d].pc = "open" /\ PaidBy(d)' = a)
        BY <3>1, <3>2, <3>3, <3>4
      <4> QED BY <2>1, <2>2, <4>1 DEF Opening
    <3> QED BY <1>3, <3>1, <3>4 DEF RefundRowsCounted
  <2>7. CASE ~(OpenRefund(d) \/ SettleRefund(d) \/ FindStandingRefund(d))
    <3>1. UNCHANGED refund
      BY <1>5, <2>7 DEF DeliveryStep, Handle, Deliver, DeliveryDies, LoadOrder, MarkPaymentFailed,
         MarkPaymentSucceeded, ConfirmOrder, ProviderRefund, MarkPaymentRefunded, Acknowledge, ledger
    <3>2. delivery'[d].pc # "open"
      BY <1>2, <1>5, <2>7 DEF DeliveryStep, Handle, Deliver, DeliveryDies, LoadOrder, MarkPaymentFailed,
         MarkPaymentSucceeded, ConfirmOrder, ProviderRefund, MarkPaymentRefunded, Acknowledge,
         DeliveryTo, IdleDelivery, DeliveryRow
    <3>3. \A a \in Attempts : Opening(a)' \subseteq Opening(a)
      BY <2>3, <3>2
    <3> QED BY <1>3, <3>1, <3>3 DEF RefundRowsCounted
  <2> QED BY <2>4, <2>5, <2>6, <2>7
<1> QED BY <1>4, <1>5, NextByActor

\* However many handlers run and die, an order has one charge in flight, a
\* retried refund goes on under the row it finds, so that a charge never has
\* more rows than handlers that looked at once, and the rows claim no more than
\* the provider did.
THEOREM DepositIsConsistent == Spec => []Consistent
<1>1. Init => RefundRowsCounted
  BY DEF Init, RefundRowsCounted
<1>2. Sound /\ Sound' /\ RefundRowsCounted /\ [Next]_vars => RefundRowsCounted'
  <2>1. UNCHANGED vars /\ RefundRowsCounted => RefundRowsCounted'
    BY DEF vars, ledger, RefundRowsCounted, Opening, PaidBy, EventOf
  <2> QED BY <2>1, RefundRowsStep
<1>3. Sound /\ RefundRowsCounted => Consistent
  <2> SUFFICES ASSUME Sound, RefundRowsCounted PROVE Consistent
    OBVIOUS
  <2>1. ASSUME NEW a \in Attempts
        PROVE  Len(refund[a]) <= Cardinality(Deliveries)
    <3>1. Len(refund[a]) \in Nat
      BY DEF Sound, Typed, RowsTyped
    <3>2. /\ Cardinality(Opening(a)) \in Nat /\ Cardinality(Deliveries) \in Nat
      BY OpeningFinite
    <3>3. CASE refund[a] = <<>>
      <4>1. Len(refund[a]) = 0
        BY <3>3
      <4> QED BY <3>2, <4>1
    <3>4. CASE refund[a] # <<>>
      <4>1. Len(refund[a]) + Cardinality(Opening(a)) <= Cardinality(Deliveries)
        BY <3>4 DEF RefundRowsCounted
      <4> QED BY <3>1, <3>2, <4>1
    <3> QED BY <3>3, <3>4
  <2> QED BY <2>1, SoundIsTyped DEF Consistent, RefundRowsStand
<1> QED BY <1>1, <1>2, <1>3, SoundAlways, PTL DEF Spec

-----------------------------------------------------------------------------
(* Events applied in any order.                                            *)

\* A date given back is given back for good, and an order is confirmed by the
\* webhook's move only.
LEMMA StatesMove ==
  ASSUME Next
  PROVE  /\ ReleasesCapacity(state) => ReleasesCapacity(state')
         /\ state' = "confirmed" =>
              \/ state = "confirmed"
              \/ /\ CanTransition(state, "confirmed")
                 /\ \E d \in Deliveries : ConfirmOrder(d)
<1>1. CASE (\E t \in Tabs : TabNext(t)) \/ ProviderNext
  BY <1>1 DEF TabNext, ReadForDeposit, OpenAttempt, CreateIntent, AttachIntent, PayDeposit,
              ProviderNext, CaptureDeposit, DeclineDeposit, Settle, rows
<1>2. CASE \E d \in Deliveries : DeliveryStep(d)
  <2>1. PICK d \in Deliveries : DeliveryStep(d)
    BY <1>2
  <2>2. UNCHANGED rows \/ (ConfirmOrder(d) /\ Move("confirmed"))
    BY <2>1, DeliveryElsewhere
  <2> QED BY <2>2 DEF rows, Move, ApplyTransition, CanTransition, Allowed, ReleasesCapacity, CapacityIn
<1>3. CASE RunnerStepAny
  <2>1. UNCHANGED state \/ Move("cancelled")
    BY <1>3 DEF RunnerStepAny, RunExpiry, ClaimExpiry, ReadOrder, ListAttempts, CancelIntent,
       CancelIntentFault, CancelUnpaid, FinishExpiry, RetryExpiry, FailExpiry, PutBackExpiry,
       RequeueExpiry, RunnerDies, rows
  <2> QED BY <2>1 DEF Move, ApplyTransition, ReleasesCapacity, CapacityIn
<1> QED BY <1>1, <1>2, <1>3, NextByActor

LEMMA OthersKeepPaid ==
  ASSUME Sound, Paid, Next, (\E t \in Tabs : TabNext(t)) \/ ProviderNext \/ RunnerStepAny
  PROVE  Paid'
<1>1. /\ UNCHANGED <<refund, returned, delivery>> /\ Typed
      /\ \A a \in Attempts : intent[a] = "succeeded" => intent'[a] = "succeeded"
  BY OthersLeaveRefunds DEF Sound
<1>2. \A a \in Attempts :
        /\ payment[a] \in {"succeeded", "failed"} => payment'[a] = payment[a]
        /\ payment'[a] \in {"succeeded", "failed", "refunded"} => payment'[a] = payment[a]
  <2>1. payment \in [Attempts -> PaymentStates]
    BY <1>1 DEF Typed, RowsTyped
  <2>2. CASE \E t \in Tabs : OpenAttempt(t)
    <3>1. PICK b \in Attempts : AttemptToUse(b) /\ payment' = [payment EXCEPT ![b] = "pending"]
      BY <2>2 DEF OpenAttempt
    <3>2. payment[b] = "pending" \/ payment[b] = "none"
      BY <1>1, <3>1, OpeningKeepsNumbers DEF Sound, AttemptsSound, Opened
    <3> QED BY <2>1, <3>1, <3>2
  <2>3. CASE ~\E t \in Tabs : OpenAttempt(t)
    <3>1. UNCHANGED payment
      <4>1. CASE \E t \in Tabs : TabNext(t)
        BY <2>3, <4>1 DEF TabNext, ReadForDeposit, CreateIntent, AttachIntent, PayDeposit, ledger
      <4>2. CASE ProviderNext
        BY <4>2 DEF ProviderNext, CaptureDeposit, DeclineDeposit, Settle, ledger
      <4>3. CASE RunnerStepAny
        BY <4>3, RunnerElsewhere DEF ledger
      <4> QED BY <4>1, <4>2, <4>3
    <3> QED BY <3>1
  <2> QED BY <2>2, <2>3
<1>3. sent \subseteq sent'
  <2>1. CASE \E t \in Tabs : TabNext(t)
    BY <2>1 DEF TabNext, ReadForDeposit, OpenAttempt, CreateIntent, AttachIntent, PayDeposit, provider
  <2>2. CASE ProviderNext
    BY <2>2 DEF ProviderNext, CaptureDeposit, DeclineDeposit, Settle
  <2>3. CASE RunnerStepAny
    BY <2>3, RunnerElsewhere
  <2> QED BY <2>1, <2>2, <2>3
<1>4. MarksTrue'
  BY <1>1, <1>2, <1>3 DEF Paid, MarksTrue, Decline
<1>5. BranchesSound'
  <2>1. ASSUME NEW d \in Deliveries
        PROVE  BranchSound(d)'
    <3>1. BranchSound(d) /\ PaidBy(d)' = PaidBy(d)
      BY <1>1 DEF Paid, BranchesSound, PaidBy, EventOf
    <3>2. delivery[d].pc # "idle" => PaidBy(d) \in Attempts
      BY <1>1, NamedByDelivery
    <3> QED BY <1>1, <1>2, <3>1, <3>2, StatesMove DEF BranchSound
  <2> QED BY <2>1 DEF BranchesSound
<1>6. ConfirmedIsPaid'
  <2>1. SUFFICES ASSUME state' = "confirmed" PROVE ConfirmedIsPaid'
    BY DEF ConfirmedIsPaid
  <2>2. state = "confirmed"
    <3>1. UNCHANGED rows \/ RunnerStepAny
      BY DEF TabNext, ReadForDeposit, OpenAttempt, CreateIntent, AttachIntent, PayDeposit,
             ProviderNext, CaptureDeposit, DeclineDeposit, Settle
    <3>2. RunnerStepAny => UNCHANGED state \/ Move("cancelled")
      BY DEF RunnerStepAny, RunExpiry, ClaimExpiry, ReadOrder, ListAttempts, CancelIntent,
         CancelIntentFault, CancelUnpaid, FinishExpiry, RetryExpiry, FailExpiry, PutBackExpiry,
         RequeueExpiry, RunnerDies, rows
    <3> QED BY <2>1, <3>1, <3>2 DEF rows, Move, ApplyTransition
  <2>3. PICK a \in Attempts : Charged(a)
    BY <2>2 DEF Paid, ConfirmedIsPaid
  <2>4. Charged(a)'
    BY <1>1, <1>2, <1>3, <2>3 DEF Charged, Decline
  <2> QED BY <2>4 DEF ConfirmedIsPaid
<1> QED BY <1>4, <1>5, <1>6 DEF Paid

\* A delivery never takes the mark of a charge away while the order stands: at
\* worst it puts a decline over it.
LEMMA MarkStands ==
  ASSUME Sound, Paid, NEW d \in Deliveries, DeliveryStep(d), NEW a \in Attempts,
         payment[a] \in {"succeeded", "failed"}
  PROVE  payment'[a] \in {"succeeded", "failed"} \/ ReleasesCapacity(state)
<1>1. Typed /\ payment \in [Attempts -> PaymentStates]
  BY DEF Sound, Typed, RowsTyped
<1>2. CASE MarkPaymentFailed(d) \/ MarkPaymentSucceeded(d)
  BY <1>1, <1>2 DEF MarkPaymentFailed, MarkPaymentSucceeded
<1>3. CASE MarkPaymentRefunded(d)
  BY <1>3 DEF MarkPaymentRefunded, DeliveryAt, Paid, BranchesSound, BranchSound, GivingBack
<1>4. CASE ~(MarkPaymentFailed(d) \/ MarkPaymentRefunded(d) \/ MarkPaymentSucceeded(d))
  BY <1>4 DEF DeliveryStep, Deliver, Handle, DeliveryDies, LoadOrder, ConfirmOrder,
              FindStandingRefund, OpenRefund, ProviderRefund, SettleRefund, Acknowledge, ledger
<1> QED BY <1>2, <1>3, <1>4

\* A delivery marks a row as its own event says.
LEMMA DeliveriesMarkTrue ==
  ASSUME Sound, Paid, NEW d \in Deliveries, DeliveryStep(d)
  PROVE  MarksTrue'
<1>1. /\ Typed /\ payment \in [Attempts -> PaymentStates]
      /\ UNCHANGED <<intent, sent>>
  BY DeliveryElsewhere DEF Sound, Typed, RowsTyped
<1>2. CASE MarkPaymentFailed(d)
  <2>1. delivery[d].pc = "fail" /\ payment' = [payment EXCEPT ![PaidBy(d)] = "failed"]
    BY <1>2 DEF MarkPaymentFailed, DeliveryAt
  <2>2. Decline(PaidBy(d)) \in sent
    <3>1. EventOf(d) \in sent /\ EventOf(d) \in Events /\ EventOf(d).kind = "failed"
      BY <1>1, <2>1, NamedByDelivery DEF Typed, RowsTyped
    <3> QED BY <3>1, EventIs DEF PaidBy
  <2> QED BY <1>1, <2>1, <2>2 DEF Paid, MarksTrue, Decline
<1>3. CASE MarkPaymentSucceeded(d) \/ MarkPaymentRefunded(d)
  <2>1. /\ delivery[d].pc \in {"mark", "label"}
        /\ \E mark \in {"succeeded", "refunded"} : payment' = [payment EXCEPT ![PaidBy(d)] = mark]
    BY <1>3 DEF MarkPaymentSucceeded, MarkPaymentRefunded, DeliveryAt
  <2>2. intent[PaidBy(d)] = "succeeded"
    BY <1>1, <2>1, DeliveriesNameOpened DEF Sound, Succeeding, GivingBack
  <2>3. PICK mark \in {"succeeded", "refunded"} : payment' = [payment EXCEPT ![PaidBy(d)] = mark]
    BY <2>1
  <2> QED BY <1>1, <2>2, <2>3 DEF Paid, MarksTrue, Decline
<1>4. CASE ~(MarkPaymentFailed(d) \/ MarkPaymentSucceeded(d) \/ MarkPaymentRefunded(d))
  <2>1. UNCHANGED payment
    BY <1>4 DEF DeliveryStep, Deliver, Handle, DeliveryDies, LoadOrder, ConfirmOrder,
                FindStandingRefund, OpenRefund, ProviderRefund, SettleRefund, Acknowledge, ledger
  <2> QED BY <1>1, <2>1 DEF Paid, MarksTrue, Decline
<1> QED BY <1>2, <1>3, <1>4

LEMMA DeliveriesKeepBranches ==
  ASSUME Sound, Paid, Next, NEW d \in Deliveries, DeliveryStep(d)
  PROVE  BranchesSound'
<1>1. /\ Typed /\ payment \in [Attempts -> PaymentStates]
      /\ delivery \in [Deliveries -> DeliveryRow] /\ delivery' \in [Deliveries -> DeliveryRow]
      /\ \A c \in Deliveries \ {d} : delivery'[c] = delivery[c]
  BY DeliverStarts, HandleGoesOn DEF DeliveryStep, Sound, Typed, RowsTyped
<1>2. \A c \in Deliveries : BranchSound(c)
  BY DEF Paid, BranchesSound
<1>3. ASSUME NEW c \in Deliveries \ {d}
      PROVE  BranchSound(c)'
  <2>1. PaidBy(c)' = PaidBy(c)
    BY <1>1 DEF PaidBy, EventOf
  <2>2. delivery[c].pc # "idle" =>
          PaidBy(c) \in Attempts /\ (payment[PaidBy(c)] \in {"succeeded", "failed"} =>
            payment'[PaidBy(c)] \in {"succeeded", "failed"} \/ ReleasesCapacity(state))
    BY <1>1, NamedByDelivery, MarkStands
  <2> QED BY <1>1, <1>2, <2>1, <2>2, StatesMove DEF BranchSound
<1>4. ASSUME delivery'[d].event = delivery[d].event
      PROVE  PaidBy(d)' = PaidBy(d)
  BY <1>4 DEF PaidBy, EventOf
<1>5. BranchSound(d)'
  <2>1. CASE \E e \in Events : Deliver(d, e)
    <3>1. PICK e \in Events : Deliver(d, e)
      BY <2>1
    <3>2. PaidBy(d)' = e.attempt
      BY <1>1, <3>1, DeliverStarts DEF PaidBy, EventOf
    <3>3. /\ delivery'[d].pc \in {"fail", "load"}
          /\ delivery'[d].marks = (payment[e.attempt] # "succeeded") /\ UNCHANGED payment
      BY <1>1, <3>1, DeliverStarts DEF Deliver, ledger
    <3> QED BY <3>2, <3>3 DEF BranchSound, GivingBack
  <2>2. CASE LoadOrder(d)
    <3>1. /\ delivery[d].pc = "load" /\ UNCHANGED <<rows, payment>>
          /\ delivery' = [delivery EXCEPT ![d].sawState = state,
                            ![d].pc = IF delivery[d].marks THEN "mark" ELSE "branch"]
      BY <2>2 DEF LoadOrder, DeliveryAt, ledger
    <3>2. /\ delivery'[d].event = delivery[d].event /\ delivery'[d].sawState = state
          /\ delivery'[d].pc = IF delivery[d].marks THEN "mark" ELSE "branch"
      BY <1>1, <3>1 DEF DeliveryRow
    <3> QED BY <1>2, <1>4, <3>1, <3>2 DEF BranchSound, GivingBack, rows
  <2>3. CASE MarkPaymentSucceeded(d)
    <3>1. /\ delivery[d].pc = "mark" /\ UNCHANGED rows /\ PaidBy(d) \in Attempts
          /\ payment' = [payment EXCEPT ![PaidBy(d)] = "succeeded"]
          /\ delivery' = [delivery EXCEPT ![d].pc = "branch"]
      BY <1>1, <2>3, NamedByDelivery DEF MarkPaymentSucceeded, DeliveryAt, DeliveryTo
    <3>2. /\ delivery'[d].event = delivery[d].event /\ delivery'[d].pc = "branch"
          /\ delivery'[d].sawState = delivery[d].sawState
      BY <1>1, <3>1 DEF DeliveryRow
    <3>3. payment'[PaidBy(d)] = "succeeded"
      BY <1>1, <3>1
    <3> QED BY <1>2, <1>4, <3>1, <3>2, <3>3 DEF BranchSound, GivingBack, rows
  <2>4. CASE FindStandingRefund(d)
    <3>1. UNCHANGED rows /\ ReleasesCapacity(state)
      BY <1>2, <2>4 DEF FindStandingRefund, DeliveryAt, BranchSound
    <3>2. ReleasesCapacity(state')
      BY <3>1 DEF rows
    <3> QED BY <1>1, <2>4, <3>2 DEF FindStandingRefund, DeliveryRow, BranchSound
  <2>5. CASE OpenRefund(d) \/ ProviderRefund(d) \/ SettleRefund(d)
    <3>1. UNCHANGED rows /\ ReleasesCapacity(state)
      BY <1>2, <2>5 DEF OpenRefund, ProviderRefund, SettleRefund, DeliveryAt, BranchSound, GivingBack
    <3>2. ReleasesCapacity(state')
      BY <3>1 DEF rows
    <3> QED BY <3>2 DEF BranchSound
  <2>6. CASE \/ MarkPaymentFailed(d) \/ ConfirmOrder(d) \/ MarkPaymentRefunded(d)
             \/ Acknowledge(d) \/ DeliveryDies(d)
    <3>1. delivery'[d].pc \in {"ack", "idle"}
      BY <1>1, <2>6 DEF MarkPaymentFailed, ConfirmOrder, MarkPaymentRefunded, Acknowledge,
         DeliveryDies, DeliveryTo, IdleDelivery, DeliveryRow
    <3> QED BY <3>1 DEF BranchSound, GivingBack
  <2> QED BY <2>1, <2>2, <2>3, <2>4, <2>5, <2>6 DEF DeliveryStep, Handle
<1> QED BY <1>3, <1>5 DEF BranchesSound

LEMMA DeliveriesKeepConfirmed ==
  ASSUME Sound, Paid, Next, NEW d \in Deliveries, DeliveryStep(d), MarksTrue'
  PROVE  ConfirmedIsPaid'
<1>1. /\ Typed /\ UNCHANGED <<intent, sent>> /\ payment \in [Attempts -> PaymentStates]
      /\ UNCHANGED rows \/ (ConfirmOrder(d) /\ Move("confirmed"))
  BY DeliveryElsewhere DEF Sound, Typed, RowsTyped
<1>2. SUFFICES ASSUME state' = "confirmed"
               PROVE  \E a \in Attempts : payment'[a] \in {"succeeded", "failed"} /\ intent'[a] = "succeeded"
  BY DEF ConfirmedIsPaid, Charged, MarksTrue
<1>3. CASE UNCHANGED rows
  <2>1. state = "confirmed" /\ ~ReleasesCapacity(state)
    BY <1>2, <1>3 DEF rows, ReleasesCapacity, CapacityIn
  <2>2. PICK a \in Attempts : payment[a] \in {"succeeded", "failed"} /\ intent[a] = "succeeded"
    BY <2>1 DEF Paid, ConfirmedIsPaid, Charged
  <2> QED BY <1>1, <2>1, <2>2, MarkStands
<1>4. CASE ConfirmOrder(d) /\ Move("confirmed")
  <2>1. ~ReleasesCapacity(state)
    BY <1>4 DEF Move, ApplyTransition, CanTransition, Allowed, ReleasesCapacity, CapacityIn
  <2>2. delivery[d].pc = "branch" /\ UNCHANGED payment
    BY <1>4 DEF ConfirmOrder, DeliveryAt, ledger
  <2>3. PaidBy(d) \in Attempts /\ payment[PaidBy(d)] \in {"succeeded", "failed"}
    BY <1>1, <2>1, <2>2, NamedByDelivery DEF Paid, BranchesSound, BranchSound
  <2>4. intent[PaidBy(d)] = "succeeded"
    BY <1>1, <2>2, DeliveriesNameOpened DEF Sound, Succeeding
  <2> QED BY <1>1, <2>2, <2>3, <2>4
<1> QED BY <1>1, <1>3, <1>4

\* In whatever order its events are applied and however often, a booking is
\* confirmed on money the provider holds, and its payment row says so unless a
\* card of that attempt was declined before.
THEOREM BookingsArePaid == Spec => []ConfirmedIsPaid
<1>1. Init => Paid
  BY DEF Init, OrderCreated, IdleDelivery, BranchesSound, BranchSound, GivingBack, ConfirmedIsPaid,
         MarksTrue, Paid
<1>2. Sound /\ Paid /\ [Next]_vars => Paid'
  <2>1. Sound /\ Paid /\ Next => Paid'
    BY OthersKeepPaid, DeliveriesMarkTrue, DeliveriesKeepBranches, DeliveriesKeepConfirmed,
       NextByActor DEF Paid
  <2>2. ASSUME Paid, UNCHANGED vars PROVE Paid'
    <3>1. UNCHANGED <<rows, payment, intent, sent, processed, delivery>>
      BY <2>2 DEF vars, ledger, provider
    <3>2. MarksTrue' /\ ConfirmedIsPaid'
      BY <2>2, <3>1 DEF Paid, MarksTrue, ConfirmedIsPaid, Charged, Decline, rows
    <3>3. BranchesSound'
      BY <2>2, <3>1 DEF Paid, BranchesSound, BranchSound, PaidBy, EventOf, rows
    <3> QED BY <3>2, <3>3 DEF Paid
  <2> QED BY <2>1, <2>2
<1>3. Paid => ConfirmedIsPaid
  BY DEF Paid
<1> QED BY <1>1, <1>2, <1>3, SoundAlways, PTL DEF Spec

=============================================================================

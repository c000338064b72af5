------------------------ MODULE OrderLifecycle_proofs ------------------------
(***************************************************************************)
(* The invariants and the action properties of OrderLifecycle, proved for  *)
(* an order with a balance and for one paid in full.  The moves share      *)
(* ApplyTransition, so one lemma treats them all and the proof of Next has *)
(* only to say which move each action is.  The last part adds the outbox   *)
(* that tells the customer of those moves (module EmailOutbox): it leaves  *)
(* the lifecycle's promises standing, and keeps its own.                   *)
(***************************************************************************)
EXTENDS OrderLifecycle, EmailOutbox, SequenceTheorems, TLAPS

\* An order that may still be delivered has not used up its auto-completion:
\* what DeliveredWillComplete needs of the states before `fulfilled`.
CompletionSpentOnlyAtEnd ==
  job["auto_complete_order"] = "done" => IsTerminal(state)

\* The inductive invariant.
IInv ==
  /\ TypeOK
  /\ DateHeldUnlessReleased
  /\ WaitingHasLink
  /\ GraceIffWaiting
  /\ UnpaidHoldHasExpiry
  /\ DeliveredWillComplete
  /\ NoBalanceOnPaidInFull
  /\ CompletionSpentOnlyAtEnd

-----------------------------------------------------------------------------
(* Facts about the tables.                                                 *)

\* No move re-books a released date, re-opens an ended order, or goes back to
\* the unpaid hold; a balance is declined only while it is being charged.
LEMMA MovesAllowed ==
  ASSUME NEW from \in OrderStates, NEW to, CanTransition(from, to)
  PROVE  /\ to \in OrderStates
         /\ to # from /\ to # "pending_payment"
         /\ ReleasesCapacity(from) => ReleasesCapacity(to)
         /\ IsTerminal(from) => IsTerminal(to)
         /\ to = "action_required" => from = "balance_due"
BY DEF OrderStates, CanTransition, Allowed, ReleasesCapacity, CapacityIn, IsTerminal

\* The job rows after a move, one row at a time.
LEMMA JobRowAfterMove ==
  ASSUME NEW from \in OrderStates, NEW to \in OrderStates, NEW type \in JobTypes,
         job \in [JobTypes -> JobStatus]
  PROVE  /\ JobsAfterMove(from, to) \in [JobTypes -> JobStatus]
         /\ job[type] = "done" => JobsAfterMove(from, to)[type] = "done"
         /\ IsTerminal(to) => JobsAfterMove(from, to)[type] # "queued"
         /\ ~IsTerminal(to) /\ type = "auto_complete_order" =>
              JobsAfterMove(from, to)[type] =
                (IF to = "fulfilled" THEN Enqueued(job[type]) ELSE job[type])
         /\ ~HasBalance /\ type = "charge_balance" /\ job[type] = "none" =>
              JobsAfterMove(from, to)[type] = "none"
<1>1. /\ \A status \in JobStatus : Enqueued(status) \in JobStatus
      /\ \A status \in JobStatus : CalledOff(status) \in JobStatus
      /\ \A status \in JobStatus : CalledOff(status) # "queued"
      /\ Enqueued("done") = "done" /\ CalledOff("done") = "done"
      /\ CalledOff("none") = "none"
  BY DEF JobStatus, Enqueued, CalledOff
<1>2. JobsCancelledOnLeaving(from) \subseteq {"expire_unpaid"}
  BY DEF JobsCancelledOnLeaving
<1>3. type = "auto_complete_order" =>
        (type \in JobsOnEntering(from, to, HasBalance) <=> to = "fulfilled")
  BY DEF JobsOnEntering, OnEntering, OrderStates
<1>4. ~HasBalance /\ type = "charge_balance" =>
        type \notin JobsOnEntering(from, to, HasBalance)
  BY DEF JobsOnEntering
<1> QED BY <1>1, <1>2, <1>3, <1>4 DEF JobsAfterMove, CancelsQueuedJobs

-----------------------------------------------------------------------------
(* A move keeps the invariant.                                             *)

LEMMA MoveKeepsInvariant ==
  ASSUME IInv, NEW to, NEW mintsLink \in BOOLEAN,
         ApplyTransition(to, mintsLink),
         mintsLink <=> to = "action_required",
         to \in {"balance_due", "action_required"} => HasBalance
  PROVE  IInv'
<1> USE DEF IInv
<1>1. state \in OrderStates /\ job \in [JobTypes -> JobStatus]
  BY DEF TypeOK, RowsTypeOK
<1>2. CanTransition(state, to) /\ state' = to /\ job' = JobsAfterMove(state, to)
  BY DEF ApplyTransition, GraceAfterMove
<1>3. /\ to \in OrderStates
      /\ to # state /\ to # "pending_payment"
      /\ ReleasesCapacity(state) => ReleasesCapacity(to)
      /\ IsTerminal(state) => IsTerminal(to)
  BY <1>1, <1>2, MovesAllowed
<1>4. {"auto_complete_order", "charge_balance"} \subseteq JobTypes
  BY DEF JobTypes
<1>5. TypeOK'
  <2>1. job' \in [JobTypes -> JobStatus]
    BY <1>1, <1>2, <1>3, <1>4, JobRowAfterMove
  <2>2. graceOpen' \in BOOLEAN /\ dateHeld' \in BOOLEAN /\ link' \in LinkState
    BY DEF ApplyTransition, GraceAfterMove, Retired, LinkState, TypeOK, RowsTypeOK
  <2> QED BY <1>2, <1>3, <2>1, <2>2 DEF TypeOK, RowsTypeOK
<1>6. DateHeldUnlessReleased'
  BY <1>2, <1>3 DEF DateHeldUnlessReleased, ApplyTransition, ReleasesCapacity, CapacityIn
<1>7. WaitingHasLink'
  BY <1>2, <1>3 DEF WaitingHasLink, ApplyTransition, RetiresPaymentLinks, Retired
<1>8. GraceIffWaiting'
  BY <1>2, <1>3 DEF GraceIffWaiting, ApplyTransition, GraceAfterMove
<1>9. UnpaidHoldHasExpiry'
  BY <1>2, <1>3 DEF UnpaidHoldHasExpiry
<1>10. ~IsTerminal(to) =>
         job'["auto_complete_order"] =
           IF to = "fulfilled" THEN Enqueued(job["auto_complete_order"])
                               ELSE job["auto_complete_order"]
  BY <1>1, <1>2, <1>3, <1>4, JobRowAfterMove
<1>11. DeliveredWillComplete'
  <2> SUFFICES ASSUME to = "fulfilled"
               PROVE  job'["auto_complete_order"] \in {"queued", "running", "held", "failed"}
    BY <1>2 DEF DeliveredWillComplete
  <2>1. ~IsTerminal(to)
    BY DEF IsTerminal, Allowed, ReleasesCapacity, CapacityIn
  <2>2. ~IsTerminal(state)
    BY <1>3, <2>1
  <2>3. job["auto_complete_order"] # "done"
    BY <2>2 DEF CompletionSpentOnlyAtEnd
  <2>4. job["auto_complete_order"] \in JobStatus
    BY <1>1, <1>4
  <2> QED BY <1>10, <2>1, <2>3, <2>4 DEF Enqueued, JobStatus
<1>12. NoBalanceOnPaidInFull'
  <2>1. ~HasBalance => job'["charge_balance"] = "none"
    BY <1>1, <1>2, <1>3, <1>4, JobRowAfterMove DEF NoBalanceOnPaidInFull
  <2> QED BY <1>2, <2>1 DEF NoBalanceOnPaidInFull
<1>13. CompletionSpentOnlyAtEnd'
  <2> SUFFICES ASSUME ~IsTerminal(to)
               PROVE  job'["auto_complete_order"] # "done"
    BY <1>2 DEF CompletionSpentOnlyAtEnd
  <2>1. job["auto_complete_order"] # "done"
    BY <1>3 DEF CompletionSpentOnlyAtEnd
  <2> QED BY <1>10, <2>1 DEF Enqueued
<1> QED BY <1>5, <1>6, <1>7, <1>8, <1>9, <1>11, <1>12, <1>13

-----------------------------------------------------------------------------
(* A step of the queue keeps the invariant.                                *)

\* What any one job row may become, said once for all who write one.
LEMMA QueueStepKeepsInvariant ==
  ASSUME IInv, NEW type \in JobTypes, NEW status \in JobStatus \ {"none"},
         job[type] # "none",
         SetJob(type, status),
         UNCHANGED <<state, graceOpen, dateHeld, link>>,
         type = "expire_unpaid" /\ status = "done" => state # "pending_payment",
         type = "auto_complete_order" /\ status = "done" => IsTerminal(state)
  PROVE  IInv'
<1> USE DEF IInv
<1>1. job \in [JobTypes -> JobStatus] /\ job' = [job EXCEPT ![type] = status]
  BY DEF TypeOK, RowsTypeOK, SetJob
<1>2. {"expire_unpaid", "auto_complete_order", "charge_balance"} \subseteq JobTypes
  BY DEF JobTypes
<1>3. TypeOK'
  BY <1>1 DEF TypeOK, RowsTypeOK
<1>4. DateHeldUnlessReleased' /\ WaitingHasLink' /\ GraceIffWaiting'
  BY DEF DateHeldUnlessReleased, WaitingHasLink, GraceIffWaiting,
         ReleasesCapacity, CapacityIn
<1>5. UnpaidHoldHasExpiry'
  BY <1>1, <1>2 DEF UnpaidHoldHasExpiry, JobStatus
<1>6. DeliveredWillComplete'
  <2>1. CASE type = "auto_complete_order"
    <3>1. state = "fulfilled" => ~IsTerminal(state)
      BY DEF IsTerminal, Allowed, ReleasesCapacity, CapacityIn
    <3> QED BY <1>1, <1>2, <2>1, <3>1 DEF DeliveredWillComplete, JobStatus
  <2>2. CASE type # "auto_complete_order"
    BY <1>1, <1>2, <2>2 DEF DeliveredWillComplete
  <2> QED BY <2>1, <2>2
<1>7. NoBalanceOnPaidInFull'
  BY <1>1, <1>2 DEF NoBalanceOnPaidInFull
<1>8. CompletionSpentOnlyAtEnd'
  <2>1. IsTerminal(state)' <=> IsTerminal(state)
    BY DEF IsTerminal, Allowed, ReleasesCapacity, CapacityIn
  <2> QED BY <1>1, <1>2, <2>1 DEF CompletionSpentOnlyAtEnd
<1> QED BY <1>3, <1>4, <1>5, <1>6, <1>7, <1>8

LEMMA RunQueueKeepsInvariant ==
  ASSUME IInv, RunQueue \/ ParkTransfer
  PROVE  IInv'
<1>0. CASE ParkTransfer
  BY <1>0, QueueStepKeepsInvariant DEF ParkTransfer, JobTypes, JobStatus
<1> SUFFICES ASSUME RunQueue PROVE IInv'
  BY <1>0
<1>1. PICK type \in JobTypes :
        \/ ClaimJob(type) \/ FinishJob(type) \/ HoldJob(type)
        \/ RetryJob(type) \/ RequeueJob(type)
  BY DEF RunQueue
<1>2. {"queued", "running", "held", "failed", "done"} = JobStatus \ {"none"}
  BY DEF JobStatus
<1>3. CASE ClaimJob(type)
  BY <1>1, <1>2, <1>3, QueueStepKeepsInvariant DEF ClaimJob, ClaimRow
<1>4. CASE FinishJob(type)
  BY <1>1, <1>2, <1>4, QueueStepKeepsInvariant DEF FinishJob, MayFinish
<1>5. CASE HoldJob(type)
  BY <1>1, <1>2, <1>5, QueueStepKeepsInvariant DEF HoldJob, MayHold
<1>6. CASE RetryJob(type)
  <2>1. PICK status \in {"queued", "failed"} : SetJob(type, status)
    BY <1>6 DEF RetryJob
  <2> QED BY <1>1, <1>2, <1>6, <2>1, QueueStepKeepsInvariant DEF RetryJob
<1>7. CASE RequeueJob(type)
  BY <1>1, <1>2, <1>7, QueueStepKeepsInvariant DEF RequeueJob, RequeueRow
<1> QED BY <1>1, <1>3, <1>4, <1>5, <1>6, <1>7

LEMMA MoveOrderKeepsInvariant ==
  ASSUME IInv, MoveOrder
  PROVE  IInv'
<1>1. ASSUME NEW to \in {"confirmed", "fulfilled", "issue", "completed", "cancelled", "refunded"},
             Move(to)
      PROVE  IInv'
  BY <1>1, MoveKeepsInvariant DEF Move
<1>2. CASE ConfirmPaid
  BY <1>1, <1>2 DEF ConfirmPaid
<1>3. CASE StartBalanceCharge
  BY <1>3, MoveKeepsInvariant DEF StartBalanceCharge, Move
<1>5. CASE DeclineBalance
  <2>1. state = "balance_due"
    BY <1>5, MovesAllowed DEF IInv, TypeOK, RowsTypeOK, DeclineBalance, ApplyTransition
  <2>2. HasBalance
    BY <2>1 DEF IInv, NoBalanceOnPaidInFull
  <2> QED BY <1>5, <2>2, MoveKeepsInvariant DEF DeclineBalance
<1>6. CASE ReissueLink
  <2> USE <1>6 DEF IInv, ReissueLink
  <2>1. IsTerminal(state)' <=> IsTerminal(state)
    BY DEF IsTerminal, Allowed, ReleasesCapacity, CapacityIn
  <2>2. TypeOK'
    BY DEF TypeOK, RowsTypeOK, LinkState
  <2>3. DateHeldUnlessReleased' /\ WaitingHasLink' /\ GraceIffWaiting'
    BY DEF DateHeldUnlessReleased, WaitingHasLink, GraceIffWaiting,
           ReleasesCapacity, CapacityIn
  <2>4. UnpaidHoldHasExpiry' /\ DeliveredWillComplete' /\ NoBalanceOnPaidInFull'
    BY DEF UnpaidHoldHasExpiry, DeliveredWillComplete, NoBalanceOnPaidInFull
  <2>5. CompletionSpentOnlyAtEnd'
    BY <2>1 DEF CompletionSpentOnlyAtEnd
  <2> QED BY <2>2, <2>3, <2>4, <2>5
<1>7. CASE MarkFulfilled
  BY <1>1, <1>7 DEF MarkFulfilled
<1>8. CASE AutoComplete
  BY <1>1, <1>8 DEF AutoComplete
<1>9. CASE RaiseIssue
  BY <1>1, <1>9 DEF RaiseIssue
<1>10. CASE \E to \in {"confirmed", "fulfilled", "cancelled"} : ResolveIssue(to)
  BY <1>1, <1>10 DEF ResolveIssue
<1>11. CASE CancelOrder
  BY <1>1, <1>11 DEF CancelOrder
<1>12. CASE RefundOrder
  BY <1>1, <1>12 DEF RefundOrder
<1> QED BY <1>2, <1>3, <1>5, <1>6, <1>7, <1>8, <1>9, <1>10, <1>11, <1>12
        DEF MoveOrder

-----------------------------------------------------------------------------
(* The theorems.                                                           *)

LEMMA CheckoutEstablishesInvariant ==
  ASSUME Init
  PROVE  IInv
<1> USE HasBalanceAssumption DEF Init, OrderCreated
<1>1. JobsOnEntering("pending_payment", "pending_payment", HasBalance) = {"expire_unpaid"}
  BY DEF JobsOnEntering, OnEntering
<1>2. Enqueued("none") = "queued"
  BY DEF Enqueued
<1>3. /\ job \in [JobTypes -> JobStatus]
      /\ job["expire_unpaid"] = "queued"
      /\ job["auto_complete_order"] = "none" /\ job["charge_balance"] = "none"
  BY <1>1, <1>2 DEF JobTypes, JobStatus
<1>4. TypeOK
  BY <1>3 DEF TypeOK, RowsTypeOK, OrderStates, LinkState
<1>5. DateHeldUnlessReleased
  BY DEF DateHeldUnlessReleased, ReleasesCapacity, CapacityIn
<1> QED BY <1>3, <1>4, <1>5
        DEF IInv, WaitingHasLink, GraceIffWaiting, UnpaidHoldHasExpiry,
            DeliveredWillComplete, NoBalanceOnPaidInFull, CompletionSpentOnlyAtEnd

LEMMA OrderStepKeepsInvariant ==
  ASSUME IInv, [Next]_rows
  PROVE  IInv'
<1>1. CASE MoveOrder
  BY <1>1, MoveOrderKeepsInvariant
<1>2. CASE RunQueue \/ ParkTransfer
  BY <1>2, RunQueueKeepsInvariant
<1>3. CASE UNCHANGED rows
  BY <1>3 DEF rows, IInv, TypeOK, RowsTypeOK, DateHeldUnlessReleased,
              WaitingHasLink, GraceIffWaiting, UnpaidHoldHasExpiry,
              DeliveredWillComplete, NoBalanceOnPaidInFull,
              CompletionSpentOnlyAtEnd, IsTerminal, Allowed, ReleasesCapacity,
              CapacityIn
<1> QED BY <1>1, <1>2, <1>3 DEF Next

\* Whatever the callers do and in whatever order, the inductive invariant holds
\* of the order's rows.
THEOREM Invariance == Spec => []IInv
<1>1. Init => IInv
  BY CheckoutEstablishesInvariant
<1>2. IInv /\ [Next]_rows => IInv'
  BY OrderStepKeepsInvariant
<1> QED BY <1>1, <1>2, PTL DEF Spec

\* Every row keeps a value of its column's type.
THEOREM TypeCorrect == Spec => []TypeOK
BY Invariance, PTL DEF IInv

\* The vendor's date is held exactly while the booking is alive or delivered.
THEOREM DateHeld == Spec => []DateHeldUnlessReleased
BY Invariance, PTL DEF IInv

\* An order that waits for its customer has a link that pays.
THEOREM WaiterHasLink == Spec => []WaitingHasLink
BY Invariance, PTL DEF IInv

\* An unpaid hold always has an expiry somebody can still run.
THEOREM HoldExpires == Spec => []UnpaidHoldHasExpiry
BY Invariance, PTL DEF IInv

\* An order's rows never part from its state.
THEOREM RowsKeepStep == Spec => []Consistent
<1>1. IInv => Consistent
  BY DEF IInv, Consistent
<1> QED BY <1>1, Invariance, PTL

\* A delivered booking always has an auto-completion left to run.
THEOREM DeliveredCompletes == Spec => []DeliveredWillComplete
BY Invariance, PTL DEF IInv

\* An order paid in full never has a balance charged.
THEOREM PaidInFullStaysPaid == Spec => []NoBalanceOnPaidInFull
BY Invariance, PTL DEF IInv

\* The deadline a customer is shown is open exactly while the order waits.
THEOREM GraceShown == Spec => []GraceIffWaiting
BY Invariance, PTL DEF IInv

-----------------------------------------------------------------------------
(* What a step may never do to a job row.                                  *)

\* Every move and every queue step treats a row in one of these ways.
LEMMA JobRowStep ==
  ASSUME IInv, Next, NEW type \in JobTypes
  PROVE  /\ job[type] = "done" => job'[type] = "done"
         /\ IsTerminal(state') /\ job'[type] = "queued" =>
              /\ IsTerminal(state)
              /\ job[type] \in {"queued", "running", "held", "failed"}
<1>1. state \in OrderStates /\ job \in [JobTypes -> JobStatus]
  BY DEF IInv, TypeOK, RowsTypeOK
<1>2. ASSUME NEW to, NEW mintsLink, ApplyTransition(to, mintsLink)
      PROVE  /\ job[type] = "done" => job'[type] = "done"
             /\ IsTerminal(state') => job'[type] # "queued"
  <2>1. CanTransition(state, to) /\ state' = to /\ job' = JobsAfterMove(state, to)
    BY <1>2 DEF ApplyTransition, GraceAfterMove
  <2>2. to \in OrderStates
    BY <1>1, <2>1, MovesAllowed
  <2> QED BY <1>1, <2>1, <2>2, JobRowAfterMove
<1>3. CASE MoveOrder
  <2>1. CASE ReissueLink
    <3>1. UNCHANGED <<state, job>>
      BY <2>1 DEF ReissueLink
    <3> QED BY <1>1, <3>1 DEF JobStatus
  <2>2. CASE \E to \in OrderStates, mintsLink \in BOOLEAN : ApplyTransition(to, mintsLink)
    BY <1>2, <2>2
  <2>3. ReissueLink \/ \E to \in OrderStates, mintsLink \in BOOLEAN : ApplyTransition(to, mintsLink)
    BY <1>3 DEF MoveOrder, ConfirmPaid, StartBalanceCharge,
                DeclineBalance, MarkFulfilled, AutoComplete, RaiseIssue,
                ResolveIssue, CancelOrder, RefundOrder, Move, OrderStates
  <2> QED BY <2>1, <2>2, <2>3
<1>4. CASE RunQueue
  <2>1. PICK t \in JobTypes :
          \/ ClaimJob(t) \/ FinishJob(t) \/ HoldJob(t) \/ RetryJob(t) \/ RequeueJob(t)
    BY <1>4 DEF RunQueue
  <2>2. state' = state /\ (IsTerminal(state') <=> IsTerminal(state))
    BY <2>1 DEF ClaimJob, FinishJob, HoldJob, RetryJob, RequeueJob
  <2>3. \E status \in {"queued", "running", "held", "failed", "done"} :
          /\ job' = [job EXCEPT ![t] = status]
          /\ job[t] \in {"queued", "running", "held", "failed"}
    BY <2>1 DEF ClaimJob, FinishJob, HoldJob, RetryJob, RequeueJob, ClaimRow,
                RequeueRow, SetJob
  <2> QED BY <1>1, <2>2, <2>3
<1>5. CASE ParkTransfer
  <2>1. state' = state /\ (IsTerminal(state') <=> IsTerminal(state))
    BY <1>5 DEF ParkTransfer
  <2>2. /\ job["cooling_window_transfer"] = "queued"
        /\ job' = [job EXCEPT !["cooling_window_transfer"] = "held"]
    BY <1>5 DEF ParkTransfer, SetJob
  <2> QED BY <1>1, <2>1, <2>2
<1> QED BY <1>3, <1>4, <1>5 DEF Next

\* No replayed confirmation and no later move queues a finished charge again.
THEOREM FinishedForGood == Spec => FinishedStaysFinished
<1>1. IInv /\ [Next]_rows =>
        [\A type \in JobTypes : job[type] = "done" => job'[type] = "done"]_rows
  BY JobRowStep
<1> QED BY <1>1, Invariance, PTL DEF Spec, FinishedStaysFinished

\* Ending an order leaves nothing queued for it, and nothing is queued after.
THEOREM EndedQuietly == Spec => EndedOrderQueuesNothing
<1>1. IInv /\ [Next]_rows =>
        [IsTerminal(state') =>
           \A type \in JobTypes :
             job'[type] = "queued" =>
               /\ IsTerminal(state)
               /\ job[type] \in {"queued", "running", "held", "failed"}]_rows
  BY JobRowStep
<1> QED BY <1>1, Invariance, PTL DEF Spec, EndedOrderQueuesNothing

\* A step that changes the order's state is one transaction of applyTransition,
\* and only the move into the wait mints a link.
LEMMA StateChangesByMove ==
  ASSUME Next, state' # state
  PROVE  \E mintsLink \in BOOLEAN :
           /\ ApplyTransition(state', mintsLink)
           /\ mintsLink => state' = "action_required"
<1>1. MoveOrder
  BY DEF Next, RunQueue, ClaimJob, FinishJob, HoldJob, RetryJob, RequeueJob, ParkTransfer
<1>2. ASSUME NEW to, Move(to)
      PROVE  state' = to /\ ApplyTransition(state', FALSE)
  BY <1>2 DEF Move, ApplyTransition
<1>3. CASE DeclineBalance
  BY <1>3 DEF DeclineBalance, ApplyTransition
<1>4. CASE ~DeclineBalance
  <2>1. \E to : Move(to)
    BY <1>1, <1>4 DEF MoveOrder, ConfirmPaid, StartBalanceCharge, ReissueLink,
                      MarkFulfilled, AutoComplete, RaiseIssue, ResolveIssue,
                      CancelOrder, RefundOrder
  <2> QED BY <1>2, <2>1
<1> QED BY <1>3, <1>4

\* Coming back to `fulfilled` always leaves an auto-completion that will run.
THEOREM DeliveryWakes == Spec => DeliveryWakesCompletion
<1>1. ASSUME IInv, Next, state # "fulfilled", state' = "fulfilled"
      PROVE  job'["auto_complete_order"] \in {"queued", "running"}
  <2>1. /\ CanTransition(state, "fulfilled")
        /\ job' = JobsAfterMove(state, "fulfilled")
    BY <1>1, StateChangesByMove DEF ApplyTransition
  <2>2. ~IsTerminal("fulfilled")
    BY DEF IsTerminal, Allowed, ReleasesCapacity, CapacityIn
  <2>3. state \in OrderStates /\ job \in [JobTypes -> JobStatus]
    BY <1>1 DEF IInv, TypeOK, RowsTypeOK
  <2>4. "auto_complete_order" \in JobTypes /\ "fulfilled" \in OrderStates
    BY DEF JobTypes, OrderStates
  <2>5. job'["auto_complete_order"] = Enqueued(job["auto_complete_order"])
    BY <2>1, <2>2, <2>3, <2>4, JobRowAfterMove
  <2>6. ~IsTerminal(state)
    BY <2>1, <2>2, <2>3, MovesAllowed
  <2>7. job["auto_complete_order"] # "done"
    BY <1>1, <2>6 DEF IInv, CompletionSpentOnlyAtEnd
  <2> QED BY <2>3, <2>4, <2>5, <2>7 DEF Enqueued, JobStatus
<1>2. IInv /\ [Next]_rows =>
        [state # "fulfilled" /\ state' = "fulfilled" =>
           job'["auto_complete_order"] \in {"queued", "running"}]_rows
  BY <1>1
<1> QED BY <1>2, Invariance, PTL DEF Spec, DeliveryWakesCompletion

\* The move that ends the wait, or the order, leaves no link that pays.
THEOREM LinkRetired == Spec => WaitEndRetiresLink
<1>1. ASSUME IInv, Next, state # state', state = "action_required" \/ IsTerminal(state')
      PROVE  link' # "payable"
  <2>1. PICK mintsLink \in BOOLEAN :
          ApplyTransition(state', mintsLink) /\ (mintsLink => state' = "action_required")
    BY <1>1, StateChangesByMove
  <2>2. ~IsTerminal("action_required")
    BY DEF IsTerminal, Allowed, ReleasesCapacity, CapacityIn
  <2>3. ~mintsLink
    BY <1>1, <2>1, <2>2
  <2>4. RetiresPaymentLinks(state, state')
    BY <1>1 DEF RetiresPaymentLinks
  <2> QED BY <2>1, <2>3, <2>4 DEF ApplyTransition, Retired
<1>2. IInv /\ [Next]_rows =>
        [state # state' /\ (state = "action_required" \/ IsTerminal(state')) =>
           link' # "payable"]_rows
  BY <1>1
<1> QED BY <1>2, Invariance, PTL DEF Spec, WaitEndRetiresLink

-----------------------------------------------------------------------------
(* The outbox that tells the customer (module EmailOutbox), on the same    *)
(* rows.                                                                   *)

SendState == {"queued", "sent", "delivered", "bounced", "complained", "failed"}
Pcs == {"idle", "read", "send", "mark_sent", "mark_failed", "done", "throw"}

MailRow == [key : Templates \X (OrderStates \cup Nat),
            link : Nat, state : SendState, known : BOOLEAN]

\* One job, one lease and one count for each row.
Mailed ==
  /\ sends \in Seq(MailRow)
  /\ carrier \in Seq(JobStatus) /\ Len(carrier) = Len(sends)
  /\ owner \in Seq(Runners \cup {Nobody}) /\ Len(owner) = Len(sends)
  /\ taken \in Seq({0, 1}) /\ Len(taken) = Len(sends)
  /\ declined \in Seq(Nat) /\ minted \in Nat
  /\ runner \in [Runners -> [pc : Pcs, m : Nat]]

\* A row that says it was sent was, and one still queued has no id to match an
\* event by; a decline's key is about something a link was minted for.
RowSound(m) ==
  /\ ~Unsent(sends[m].state) => taken[m] = 1 /\ sends[m].known
  /\ sends[m].state = "queued" => ~sends[m].known
  /\ carrier[m] = "done" => taken[m] = 1 /\ sends[m].known
  /\ sends[m].link <= minted
  /\ sends[m].key[1] = "balance_failed" => \E i \in 1 .. minted : declined[i] = sends[m].key[2]

\* A runner that was not outrun holds the lease of its row, so no other runner
\* writes there and the row it read as unsent still is.
RunnerSound(r) ==
  LET m == runner[r].m IN
  runner[r].pc # "idle" =>
    /\ m \in DOMAIN sends
    /\ runner[r].pc = "mark_sent" => taken[m] = 1
    /\ runner[r].pc = "done" => taken[m] = 1 /\ sends[m].known
    /\ m \notin outrun =>
         /\ owner[m] = r /\ carrier[m] = "running"
         /\ runner[r].pc \in {"send", "mark_sent", "mark_failed"} => Unsent(sends[m].state)

RowsSound == \A m \in DOMAIN sends : RowSound(m)
RunnersSound == \A r \in Runners : RunnerSound(r)

\* The inductive invariant of the outbox.
MailInv == Mailed /\ RowsSound /\ RunnersSound

-----------------------------------------------------------------------------
(* Columns.                                                                *)

LEMMA Columns ==
  ASSUME Mailed
  PROVE  /\ Len(sends) \in Nat
         /\ DOMAIN sends = 1 .. Len(sends) /\ DOMAIN carrier = DOMAIN sends
         /\ DOMAIN owner = DOMAIN sends /\ DOMAIN taken = DOMAIN sends
         /\ \A m \in DOMAIN sends :
              /\ sends[m] \in MailRow /\ carrier[m] \in JobStatus
              /\ owner[m] \in Runners \cup {Nobody} /\ taken[m] \in {0, 1}
<1>1. Len(sends) \in Nat /\ DOMAIN sends = 1 .. Len(sends) /\ \A m \in DOMAIN sends : sends[m] \in MailRow
  BY DEF Mailed
<1>2. DOMAIN carrier = DOMAIN sends /\ \A m \in DOMAIN sends : carrier[m] \in JobStatus
  BY <1>1 DEF Mailed
<1>3. DOMAIN owner = DOMAIN sends /\ \A m \in DOMAIN sends : owner[m] \in Runners \cup {Nobody}
  BY <1>1 DEF Mailed
<1>4. DOMAIN taken = DOMAIN sends /\ \A m \in DOMAIN sends : taken[m] \in {0, 1}
  BY <1>1 DEF Mailed
<1> QED BY <1>1, <1>2, <1>3, <1>4

\* A column with one entry written, for a rigid sequence.
LEMMA OneWritten ==
  ASSUME NEW S, NEW s \in Seq(S), NEW m \in DOMAIN s, NEW e \in S
  PROVE  LET t == [s EXCEPT ![m] = e] IN
         /\ t \in Seq(S) /\ Len(t) = Len(s) /\ DOMAIN t = DOMAIN s
         /\ t[m] = e
         /\ \A k \in DOMAIN s : k # m => t[k] = s[k]
<1>1. m \in 1 .. Len(s)
  OBVIOUS
<1> QED BY <1>1, ExceptSeq

\* A column with one entry more.
LEMMA OneAdded ==
  ASSUME NEW S, NEW s \in Seq(S), NEW e \in S
  PROVE  LET t == Append(s, e) IN
         /\ t \in Seq(S) /\ Len(t) = Len(s) + 1 /\ DOMAIN t = DOMAIN s \cup {Len(s) + 1}
         /\ t[Len(s) + 1] = e
         /\ \A k \in DOMAIN s : t[k] = s[k]
<1>1. /\ Append(s, e) \in Seq(S) /\ Len(Append(s, e)) = Len(s) + 1
      /\ \A k \in 1 .. Len(s) : Append(s, e)[k] = s[k]
      /\ Append(s, e)[Len(s) + 1] = e
  BY AppendProperties
<1>2. DOMAIN s = 1 .. Len(s) /\ Len(s) \in Nat /\ DOMAIN Append(s, e) = 1 .. (Len(s) + 1)
  BY <1>1
<1> QED BY <1>1, <1>2

-----------------------------------------------------------------------------
(* Deciding on a message.                                                  *)

Keys == Templates \X (OrderStates \cup Nat)

\* The row that is queued, and what stays: every row that was there before.
LEMMA Queued ==
  ASSUME Mailed, NEW key \in Keys, NEW linkNo \in Nat, Queue(key, linkNo),
         key \notin KeysOf(sends)
  PROVE  LET n == Len(sends) + 1 IN
         /\ n \notin DOMAIN sends /\ DOMAIN sends' = DOMAIN sends \cup {n}
         /\ sends' \in Seq(MailRow) /\ Len(sends') = n
         /\ carrier' \in Seq(JobStatus) /\ Len(carrier') = n
         /\ owner' \in Seq(Runners \cup {Nobody}) /\ Len(owner') = n
         /\ taken' \in Seq({0, 1}) /\ Len(taken') = n
         /\ \A m \in DOMAIN sends : /\ sends'[m] = sends[m] /\ carrier'[m] = carrier[m]
                                    /\ owner'[m] = owner[m] /\ taken'[m] = taken[m]
         /\ sends'[n] = [key |-> key, link |-> linkNo, state |-> "queued", known |-> FALSE]
         /\ carrier'[n] = "queued"
         /\ outrun' = outrun
<1> DEFINE row == [key |-> key, link |-> linkNo, state |-> "queued", known |-> FALSE]
<1>1. row \in MailRow
  BY DEF MailRow, Keys, SendState
<1>2. /\ sends' = Append(sends, row) /\ carrier' = Append(carrier, "queued")
      /\ owner' = Append(owner, Nobody) /\ taken' = Append(taken, 0) /\ outrun' = outrun
  BY DEF Queue
<1> HIDE DEF row
<1>3. "queued" \in JobStatus
  BY DEF JobStatus
<1>4. /\ sends' \in Seq(MailRow) /\ Len(sends') = Len(sends) + 1
      /\ DOMAIN sends' = DOMAIN sends \cup {Len(sends) + 1}
      /\ sends'[Len(sends) + 1] = row /\ \A m \in DOMAIN sends : sends'[m] = sends[m]
  BY <1>1, <1>2, OneAdded DEF Mailed
<1>5. /\ carrier' \in Seq(JobStatus) /\ Len(carrier') = Len(carrier) + 1
      /\ carrier'[Len(carrier) + 1] = "queued" /\ \A m \in DOMAIN carrier : carrier'[m] = carrier[m]
  BY <1>2, <1>3, OneAdded DEF Mailed
<1>6. /\ owner' \in Seq(Runners \cup {Nobody}) /\ Len(owner') = Len(owner) + 1
      /\ \A m \in DOMAIN owner : owner'[m] = owner[m]
  <2>1. Nobody \in Runners \cup {Nobody}
    OBVIOUS
  <2> QED BY <1>2, <2>1, OneAdded DEF Mailed
<1>7. /\ taken' \in Seq({0, 1}) /\ Len(taken') = Len(taken) + 1
      /\ \A m \in DOMAIN taken : taken'[m] = taken[m]
  BY <1>2, OneAdded DEF Mailed
<1>8. /\ Len(sends) \in Nat /\ DOMAIN sends = 1 .. Len(sends)
      /\ DOMAIN carrier = DOMAIN sends /\ DOMAIN owner = DOMAIN sends /\ DOMAIN taken = DOMAIN sends
      /\ Len(carrier) = Len(sends) /\ Len(owner) = Len(sends) /\ Len(taken) = Len(sends)
  BY Columns DEF Mailed
<1>9. Len(sends) + 1 \notin DOMAIN sends
  BY <1>8
<1> QED BY <1>2, <1>4, <1>5, <1>6, <1>7, <1>8, <1>9 DEF row

\* A link is minted, or none: what earlier ones were minted for stands.
Grown ==
  /\ declined' \in Seq(Nat) /\ minted' \in Nat /\ minted <= minted'
  /\ \A i \in 1 .. minted : declined'[i] = declined[i]

\* Whatever is decided, every earlier row and every runner is as it was.
LEMMA DecidingKeepsMail ==
  ASSUME MailInv, NEW key \in Keys, NEW linkNo \in Nat,
         Queue(key, linkNo) \/ UNCHANGED outbox,
         runner' = runner, Grown, linkNo <= minted',
         key[1] = "balance_failed" => \E i \in 1 .. minted' : declined'[i] = key[2]
  PROVE  MailInv'
<1>0. Mailed /\ RowsSound /\ RunnersSound
  BY DEF MailInv
<1>1. minted \in Nat /\ minted' \in Nat /\ minted <= minted' /\ declined' \in Seq(Nat)
  BY <1>0 DEF Mailed, Grown
<1>4. ASSUME NEW m \in DOMAIN sends
      PROVE  sends[m].key[1] = "balance_failed" =>
               \E i \in 1 .. minted' : declined'[i] = sends[m].key[2]
  <2>1. sends[m].key[1] = "balance_failed" => \E i \in 1 .. minted : declined[i] = sends[m].key[2]
    BY <1>0 DEF RowsSound, RowSound
  <2> QED BY <1>1, <2>1 DEF Grown
<1>2. CASE UNCHANGED outbox
  <2>1. UNCHANGED <<sends, carrier, owner, taken, outrun>>
    BY <1>2 DEF outbox
  <2>2. Mailed'
    BY <1>0, <1>1, <2>1 DEF Mailed
  <2>3. RowsSound'
    <3> SUFFICES ASSUME NEW m \in DOMAIN sends PROVE RowSound(m)'
      BY <2>1 DEF RowsSound
    <3>1. RowSound(m) /\ sends[m].link \in Nat
      BY <1>0, Columns DEF RowsSound, MailRow
    <3> QED BY <1>1, <1>4, <2>1, <3>1 DEF RowSound
  <2>4. RunnersSound'
    BY <1>0, <2>1 DEF RunnersSound, RunnerSound
  <2> QED BY <2>2, <2>3, <2>4 DEF MailInv
<1>3. CASE Queue(key, linkNo) /\ key \notin KeysOf(sends)
  <2> DEFINE n == Len(sends) + 1
  <2>1. /\ n \notin DOMAIN sends /\ DOMAIN sends' = DOMAIN sends \cup {n}
        /\ sends' \in Seq(MailRow) /\ Len(sends') = n
        /\ carrier' \in Seq(JobStatus) /\ Len(carrier') = n
        /\ owner' \in Seq(Runners \cup {Nobody}) /\ Len(owner') = n
        /\ taken' \in Seq({0, 1}) /\ Len(taken') = n
        /\ \A m \in DOMAIN sends : /\ sends'[m] = sends[m] /\ carrier'[m] = carrier[m]
                                   /\ owner'[m] = owner[m] /\ taken'[m] = taken[m]
        /\ sends'[n] = [key |-> key, link |-> linkNo, state |-> "queued", known |-> FALSE]
        /\ carrier'[n] = "queued"
        /\ outrun' = outrun
    BY <1>0, <1>3, Queued
  <2>2. Mailed'
    BY <1>0, <1>1, <2>1 DEF Mailed
  <2>3. RowsSound'
    <3> SUFFICES ASSUME NEW m \in DOMAIN sends' PROVE RowSound(m)'
      BY DEF RowsSound
    <3>1. CASE m \in DOMAIN sends
      <4>1. RowSound(m) /\ sends[m].link \in Nat
        BY <1>0, <3>1, Columns DEF RowsSound, MailRow
      <4> QED BY <1>1, <1>4, <2>1, <3>1, <4>1 DEF RowSound
    <3>2. CASE m = n
      <4>1. /\ sends'[m].key = key /\ sends'[m].link = linkNo
            /\ sends'[m].state = "queued" /\ sends'[m].known = FALSE /\ carrier'[m] = "queued"
        BY <2>1, <3>2
      <4> HIDE DEF n
      <4> QED BY <4>1 DEF RowSound, Unsent
    <3> QED BY <2>1, <3>1, <3>2
  <2>4. RunnersSound'
    <3> SUFFICES ASSUME NEW r \in Runners PROVE RunnerSound(r)'
      BY DEF RunnersSound
    <3>1. RunnerSound(r)
      BY <1>0 DEF RunnersSound
    <3> QED BY <2>1, <3>1 DEF RunnerSound
  <2> QED BY <2>2, <2>3, <2>4 DEF MailInv
<1> QED BY <1>2, <1>3 DEF Queue

-----------------------------------------------------------------------------
(* The job and the provider's verdicts.                                    *)

\* A step at one row: every other row is as it was, and so is a runner that is
\* elsewhere and does not move.
LEMMA StepAtOneRow ==
  ASSUME MailInv, NEW m \in DOMAIN sends, Mailed', UNCHANGED <<declined, minted>>,
         DOMAIN sends' = DOMAIN sends, outrun \subseteq outrun',
         \A k \in DOMAIN sends : k # m =>
           /\ sends'[k] = sends[k] /\ carrier'[k] = carrier[k]
           /\ owner'[k] = owner[k] /\ taken'[k] = taken[k],
         RowSound(m)',
         \A k \in Runners : runner'[k] # runner[k] \/ runner[k].m = m => RunnerSound(k)'
  PROVE  MailInv'
<1>0. RowsSound /\ RunnersSound
  BY DEF MailInv
<1>1. RowsSound'
  <2> SUFFICES ASSUME NEW k \in DOMAIN sends, k # m PROVE RowSound(k)'
    BY DEF RowsSound
  <2>1. RowSound(k)
    BY <1>0 DEF RowsSound
  <2> QED BY <2>1 DEF RowSound
<1>2. RunnersSound'
  <2> SUFFICES ASSUME NEW k \in Runners, runner'[k] = runner[k], runner[k].m # m
               PROVE  RunnerSound(k)'
    BY DEF RunnersSound
  <2>1. RunnerSound(k)
    BY <1>0 DEF RunnersSound
  <2> QED BY <2>1 DEF RunnerSound
<1> QED BY <1>1, <1>2 DEF MailInv

\* A runner that is in the middle of a row, and what is known of both.
LEMMA InHand ==
  ASSUME MailInv, NEW r \in Runners, runner[r].pc # "idle"
  PROVE  /\ Mailed /\ runner[r].m \in DOMAIN sends /\ RowSound(runner[r].m) /\ RunnerSound(r)
         /\ runner[r] \in [pc : Pcs, m : Nat]
         /\ sends[runner[r].m] \in MailRow /\ taken[runner[r].m] \in {0, 1}
         /\ carrier[runner[r].m] \in JobStatus
<1>1. Mailed /\ RowsSound /\ RunnerSound(r)
  BY DEF MailInv, RunnersSound
<1>2. runner[r].m \in DOMAIN sends
  BY <1>1 DEF RunnerSound
<1>3. RowSound(runner[r].m) /\ runner[r] \in [pc : Pcs, m : Nat]
  BY <1>1, <1>2 DEF RowsSound, Mailed
<1> QED BY <1>1, <1>2, <1>3, Columns

\* Two runners are at the same row only when one of them outlived its lease.
LEMMA LeaseIsOne ==
  ASSUME MailInv, NEW r \in Runners, NEW k \in Runners, r # k,
         runner[r].pc # "idle", runner[k].pc # "idle", runner[r].m = runner[k].m
  PROVE  runner[r].m \in outrun
<1>1. RunnerSound(r) /\ RunnerSound(k)
  BY DEF MailInv, RunnersSound
<1> QED BY <1>1 DEF RunnerSound

LEMMA Going ==
  ASSUME Mailed, NEW r \in Runners, NEW pc \in Pcs, GoTo(r, pc)
  PROVE  /\ runner' \in [Runners -> [pc : Pcs, m : Nat]]
         /\ runner'[r] = [pc |-> pc, m |-> runner[r].m]
         /\ \A k \in Runners : k # r => runner'[k] = runner[k]
<1>1. runner \in [Runners -> [pc : Pcs, m : Nat]] /\ runner' = [runner EXCEPT ![r].pc = pc]
  BY DEF Mailed, GoTo
<1>2. runner[r] \in [pc : Pcs, m : Nat] /\ [runner[r] EXCEPT !.pc = pc] = [pc |-> pc, m |-> runner[r].m]
  BY <1>1
<1>3. runner' = [runner EXCEPT ![r] = [pc |-> pc, m |-> runner[r].m]]
  BY <1>1, <1>2
<1> QED BY <1>1, <1>2, <1>3

LEMMA ReadKeepsMail ==
  ASSUME MailInv, NEW r \in Runners, ReadSend(r)
  PROVE  MailInv'
<1> DEFINE m == runner[r].m
<1>1. runner[r].pc = "read" /\ UNCHANGED <<sends, carrier, owner, taken, outrun, declined, minted>>
  BY DEF ReadSend, At, outbox, Elsewhere, minted
<1>2. /\ Mailed /\ m \in DOMAIN sends /\ RowSound(m) /\ RunnerSound(r)
  BY <1>1, InHand
<1>3. PICK pc \in {"send", "done"} :
        GoTo(r, pc) /\ (pc = "send" <=> Unsent(sends[m].state))
  BY DEF ReadSend
<1>4. /\ runner' \in [Runners -> [pc : Pcs, m : Nat]]
      /\ runner'[r] = [pc |-> pc, m |-> m]
      /\ \A k \in Runners : k # r => runner'[k] = runner[k]
  BY <1>2, <1>3, Going DEF Pcs
<1>5. Mailed' /\ RowsSound'
  BY <1>1, <1>4 DEF MailInv, Mailed, RowsSound, RowSound
<1>6. RunnersSound'
  <2> SUFFICES ASSUME NEW k \in Runners PROVE RunnerSound(k)'
    BY DEF RunnersSound
  <2>1. CASE k = r
    <3>1. runner'[k].pc = pc /\ runner'[k].m = m
      BY <1>4, <2>1
    <3> HIDE DEF m
    <3>2. pc = "send" \/ (pc = "done" /\ taken[m] = 1 /\ sends[m].known)
      BY <1>2, <1>3 DEF RowSound
    <3>3. m \notin outrun => owner[m] = r /\ carrier[m] = "running"
      BY <1>1, <1>2 DEF RunnerSound, m
    <3> QED BY <1>1, <1>2, <1>3, <2>1, <3>1, <3>2, <3>3 DEF RunnerSound
  <2>2. CASE k # r
    <3>1. RunnerSound(k)
      BY DEF MailInv, RunnersSound
    <3> QED BY <1>1, <1>4, <2>2, <3>1 DEF RunnerSound
  <2> QED BY <2>1, <2>2
<1> QED BY <1>5, <1>6 DEF MailInv

\* What is written of a row only ever adds to what another runner there knows;
\* that other runner has been outrun, or has outrun this one.
LEMMA OthersAtTheRow ==
  ASSUME MailInv, NEW r \in Runners, runner[r].pc # "idle",
         NEW k \in Runners, k # r, runner'[k] = runner[k], runner[k].m = runner[r].m,
         DOMAIN sends' = DOMAIN sends, outrun' = outrun,
         taken'[runner[r].m] \in {taken[runner[r].m], 1},
         sends[runner[r].m].known => sends'[runner[r].m].known
  PROVE  RunnerSound(k)'
<1>1. RunnerSound(k)
  BY DEF MailInv, RunnersSound
<1>2. runner[k].pc # "idle" => runner[r].m \in outrun
  BY LeaseIsOne
<1> QED BY <1>1, <1>2 DEF RunnerSound

\* A message that was taken is taken once more at most.
LEMMA CallKeepsMail ==
  ASSUME MailInv, NEW r \in Runners, CallProvider(r)
  PROVE  MailInv'
<1>0. PICK m \in DOMAIN sends : m = runner[r].m
  BY InHand DEF CallProvider, At
<1>1. /\ runner[r].pc = "send" /\ UNCHANGED <<sends, carrier, owner, outrun, declined, minted>>
      /\ UNCHANGED taken \/ taken' = [taken EXCEPT ![m] = 1]
  BY <1>0 DEF CallProvider, At, Elsewhere, minted, TakeOnce
<1>2. /\ Mailed /\ m \in DOMAIN sends /\ RowSound(m) /\ RunnerSound(r)
      /\ taken[m] \in {0, 1}
  BY <1>0, <1>1, InHand
<1>3. PICK pc \in {"mark_sent", "mark_failed"} :
        GoTo(r, pc) /\ (pc = "mark_sent" => taken' = [taken EXCEPT ![m] = 1])
  BY <1>0 DEF CallProvider, TakeOnce
<1>4. /\ runner' \in [Runners -> [pc : Pcs, m : Nat]]
      /\ runner'[r] = [pc |-> pc, m |-> m]
      /\ \A k \in Runners : k # r => runner'[k] = runner[k]
  BY <1>0, <1>2, <1>3, Going DEF Pcs
<1>5. /\ taken' \in Seq({0, 1}) /\ Len(taken') = Len(taken)
      /\ taken'[m] \in {taken[m], 1} /\ (pc = "mark_sent" => taken'[m] = 1)
      /\ \A k \in DOMAIN sends : k # m => taken'[k] = taken[k]
  <2>1. m \in DOMAIN taken /\ DOMAIN taken = DOMAIN sends /\ taken \in Seq({0, 1})
    BY <1>2, Columns DEF Mailed
  <2>2. CASE taken' = [taken EXCEPT ![m] = 1]
    BY <2>1, <2>2, OneWritten
  <2> QED BY <1>1, <1>3, <2>1, <2>2
<1>6. Mailed'
  BY <1>1, <1>2, <1>4, <1>5 DEF Mailed
<1>7. RowSound(m)'
  BY <1>1, <1>2, <1>5 DEF RowSound
<1>8. RunnerSound(r)'
  <2>1. runner'[r].pc = pc /\ runner'[r].m = m
    BY <1>4
  <2>2. m \notin outrun => owner[m] = r /\ carrier[m] = "running" /\ Unsent(sends[m].state)
    BY <1>0, <1>1, <1>2 DEF RunnerSound
  <2> QED BY <1>1, <1>2, <1>5, <2>1, <2>2 DEF RunnerSound
<1>9. ASSUME NEW k \in Runners, k # r, runner[k].m = m
      PROVE  RunnerSound(k)'
  BY <1>0, <1>1, <1>4, <1>5, <1>9, OthersAtTheRow
<1> QED BY <1>0, <1>1, <1>2, <1>4, <1>5, <1>6, <1>7, <1>8, <1>9, StepAtOneRow

\* Whatever is written of a row, it is still a row.
LEMMA RowWritten ==
  ASSUME Mailed, NEW m \in DOMAIN sends, NEW row \in MailRow,
         sends' = [sends EXCEPT ![m] = row]
  PROVE  /\ sends' \in Seq(MailRow) /\ Len(sends') = Len(sends) /\ DOMAIN sends' = DOMAIN sends
         /\ sends'[m] = row
         /\ \A k \in DOMAIN sends : k # m => sends'[k] = sends[k]
<1>1. sends \in Seq(MailRow)
  BY DEF Mailed
<1> QED BY <1>1, OneWritten

LEMMA MarkedSent ==
  ASSUME NEW row \in MailRow, NEW known
  PROVE  [row EXCEPT !.state = "sent", !.known = known]
           = [key |-> row.key, link |-> row.link, state |-> "sent", known |-> known]
<1>1. PICK sent : sent = [row EXCEPT !.state = "sent"]
  OBVIOUS
<1>2. sent = [key |-> row.key, link |-> row.link, state |-> "sent", known |-> row.known]
  BY <1>1 DEF MailRow
<1>3. [sent EXCEPT !.known = known]
        = [key |-> row.key, link |-> row.link, state |-> "sent", known |-> known]
  BY <1>2
<1> QED BY <1>1, <1>3

\* A row that is marked sent, and nothing else.
LEMMA SentWritten ==
  ASSUME Mailed, NEW m \in DOMAIN sends,
         sends' = [sends EXCEPT ![m].state = "sent", ![m].known = TRUE]
  PROVE  /\ sends' \in Seq(MailRow) /\ Len(sends') = Len(sends) /\ DOMAIN sends' = DOMAIN sends
         /\ sends'[m].state = "sent" /\ sends'[m].known /\ sends'[m].link = sends[m].link
         /\ sends'[m].key = sends[m].key
         /\ \A k \in DOMAIN sends : k # m => sends'[k] = sends[k]
<1> DEFINE row == [key |-> sends[m].key, link |-> sends[m].link, state |-> "sent", known |-> TRUE]
<1>1. sends[m] \in MailRow
  BY Columns
<1>2. [sends[m] EXCEPT !.state = "sent", !.known = TRUE] = row
  BY <1>1, MarkedSent
<1>3. sends' = [sends EXCEPT ![m] = [sends[m] EXCEPT !.state = "sent", !.known = TRUE]]
  OBVIOUS
<1>4. row \in MailRow
  BY <1>1 DEF MailRow, SendState
<1>5. /\ row.state = "sent" /\ row.known = TRUE
      /\ row.link = sends[m].link /\ row.key = sends[m].key
  OBVIOUS
<1> HIDE DEF row
<1> QED BY <1>2, <1>3, <1>4, <1>5, RowWritten

LEMMA MarkSentKeepsMail ==
  ASSUME MailInv, NEW r \in Runners, MarkSent(r)
  PROVE  MailInv'
<1>0. PICK m \in DOMAIN sends : m = runner[r].m
  BY InHand DEF MarkSent, At
<1>1. /\ runner[r].pc = "mark_sent" /\ UNCHANGED <<carrier, owner, taken, outrun, declined, minted>>
  BY DEF MarkSent, At, Elsewhere, minted
<1>2. /\ Mailed /\ m \in DOMAIN sends /\ RowSound(m) /\ RunnerSound(r)
      /\ sends[m] \in MailRow
  BY <1>0, <1>1, InHand
<1>3. CASE UNCHANGED sends /\ GoTo(r, "mark_failed")
  <2>1. /\ runner' \in [Runners -> [pc : Pcs, m : Nat]]
        /\ runner'[r] = [pc |-> "mark_failed", m |-> m]
        /\ \A k \in Runners : k # r => runner'[k] = runner[k]
    BY <1>0, <1>2, <1>3, Going DEF Pcs
  <2>2. Mailed'
    BY <1>1, <1>2, <1>3, <2>1 DEF Mailed
  <2>3. RowSound(m)'
    BY <1>1, <1>2, <1>3 DEF RowSound
  <2>4. RunnerSound(r)'
    <3>1. runner'[r].pc = "mark_failed" /\ runner'[r].m = m
      BY <2>1
    <3>2. m \notin outrun => owner[m] = r /\ carrier[m] = "running" /\ Unsent(sends[m].state)
      BY <1>0, <1>1, <1>2 DEF RunnerSound
    <3> QED BY <1>1, <1>2, <1>3, <3>1, <3>2 DEF RunnerSound
  <2>5. ASSUME NEW k \in Runners, k # r, runner[k].m = m
        PROVE  RunnerSound(k)'
    BY <1>0, <1>1, <1>3, <2>1, <2>5, OthersAtTheRow
  <2> QED BY <1>0, <1>1, <1>2, <1>3, <2>1, <2>2, <2>3, <2>4, <2>5, StepAtOneRow
<1>4. CASE /\ sends' = [sends EXCEPT ![m].state = "sent", ![m].known = TRUE]
           /\ GoTo(r, "done")
  <2>1. /\ runner' \in [Runners -> [pc : Pcs, m : Nat]]
        /\ runner'[r] = [pc |-> "done", m |-> m]
        /\ \A k \in Runners : k # r => runner'[k] = runner[k]
    BY <1>0, <1>2, <1>4, Going DEF Pcs
  <2>2. taken[m] = 1 /\ (m \notin outrun => owner[m] = r /\ carrier[m] = "running")
    BY <1>0, <1>1, <1>2 DEF RunnerSound
  <2>3. /\ sends' \in Seq(MailRow) /\ Len(sends') = Len(sends) /\ DOMAIN sends' = DOMAIN sends
        /\ sends'[m].state = "sent" /\ sends'[m].known /\ sends'[m].link = sends[m].link
        /\ sends'[m].key = sends[m].key
        /\ \A k \in DOMAIN sends : k # m => sends'[k] = sends[k]
    BY <1>0, <1>2, <1>4, SentWritten
  <2>4. Mailed'
    BY <1>1, <1>2, <2>1, <2>3 DEF Mailed
  <2>5. RowSound(m)'
    BY <1>1, <1>2, <2>2, <2>3 DEF RowSound
  <2>6. RunnerSound(r)'
    <3>1. runner'[r].pc = "done" /\ runner'[r].m = m
      BY <2>1
    <3> QED BY <1>1, <1>2, <2>2, <2>3, <3>1 DEF RunnerSound
  <2>7. ASSUME NEW k \in Runners, k # r, runner[k].m = m
        PROVE  RunnerSound(k)'
    BY <1>0, <1>1, <2>1, <2>3, <2>7, OthersAtTheRow
  <2> QED BY <1>0, <1>1, <1>2, <2>1, <2>3, <2>4, <2>5, <2>6, <2>7, StepAtOneRow
<1> QED BY <1>0, <1>3, <1>4 DEF MarkSent

\* A row with its state written, and nothing else.
LEMMA StateWritten ==
  ASSUME Mailed, NEW m \in DOMAIN sends, NEW s \in SendState,
         sends' = [sends EXCEPT ![m].state = s]
  PROVE  /\ sends' \in Seq(MailRow) /\ Len(sends') = Len(sends) /\ DOMAIN sends' = DOMAIN sends
         /\ sends'[m].state = s /\ sends'[m].key = sends[m].key
         /\ sends'[m].link = sends[m].link /\ sends'[m].known = sends[m].known
         /\ \A k \in DOMAIN sends : k # m => sends'[k] = sends[k]
<1> DEFINE row == [key |-> sends[m].key, link |-> sends[m].link, state |-> s, known |-> sends[m].known]
<1>1. sends[m] \in MailRow
  BY Columns
<1>2. ASSUME NEW old \in MailRow
      PROVE  [old EXCEPT !.state = s]
               = [key |-> old.key, link |-> old.link, state |-> s, known |-> old.known]
  BY <1>2 DEF MailRow
<1>3. [sends[m] EXCEPT !.state = s] = row
  BY <1>1, <1>2
<1>4. sends' = [sends EXCEPT ![m] = [sends[m] EXCEPT !.state = s]]
  OBVIOUS
<1>5. row \in MailRow
  BY <1>1 DEF MailRow
<1>6. row.state = s /\ row.key = sends[m].key /\ row.link = sends[m].link /\ row.known = sends[m].known
  OBVIOUS
<1> HIDE DEF row
<1> QED BY <1>3, <1>4, <1>5, <1>6, RowWritten

LEMMA MarkFailedKeepsMail ==
  ASSUME MailInv, NEW r \in Runners, MarkFailed(r)
  PROVE  MailInv'
<1>0. PICK m \in DOMAIN sends : m = runner[r].m
  BY InHand DEF MarkFailed, At
<1>1. /\ runner[r].pc = "mark_failed" /\ UNCHANGED <<carrier, owner, taken, outrun, declined, minted>>
      /\ sends' = [sends EXCEPT ![m].state = "failed"] /\ GoTo(r, "throw")
  BY <1>0 DEF MarkFailed, At, Elsewhere, minted
<1>2. Mailed /\ RowSound(m) /\ RunnerSound(r)
  BY <1>0, <1>1, InHand
<1>3. /\ runner' \in [Runners -> [pc : Pcs, m : Nat]]
      /\ runner'[r] = [pc |-> "throw", m |-> m]
      /\ \A k \in Runners : k # r => runner'[k] = runner[k]
  BY <1>0, <1>1, <1>2, Going DEF Pcs
<1>4. /\ sends' \in Seq(MailRow) /\ Len(sends') = Len(sends) /\ DOMAIN sends' = DOMAIN sends
      /\ sends'[m].state = "failed" /\ sends'[m].key = sends[m].key
      /\ sends'[m].link = sends[m].link /\ sends'[m].known = sends[m].known
      /\ \A k \in DOMAIN sends : k # m => sends'[k] = sends[k]
  BY <1>1, <1>2, StateWritten DEF SendState
<1>5. Mailed'
  BY <1>1, <1>2, <1>3, <1>4 DEF Mailed
<1>6. RowSound(m)'
  BY <1>1, <1>2, <1>4 DEF RowSound, Unsent
<1>7. RunnerSound(r)'
  <2>1. runner'[r].pc = "throw" /\ runner'[r].m = m
    BY <1>3
  <2>2. m \notin outrun => owner[m] = r /\ carrier[m] = "running"
    BY <1>0, <1>1, <1>2 DEF RunnerSound
  <2> QED BY <1>1, <1>2, <1>4, <2>1, <2>2 DEF RunnerSound
<1>8. ASSUME NEW k \in Runners, k # r, runner[k].m = m
      PROVE  RunnerSound(k)'
  BY <1>0, <1>1, <1>3, <1>4, <1>8, OthersAtTheRow
<1> QED BY <1>0, <1>1, <1>2, <1>3, <1>4, <1>5, <1>6, <1>7, <1>8, StepAtOneRow

LEMMA Rests ==
  ASSUME Mailed, NEW r \in Runners, runner' = [runner EXCEPT ![r] = Resting]
  PROVE  /\ runner' \in [Runners -> [pc : Pcs, m : Nat]]
         /\ runner'[r].pc = "idle"
         /\ \A k \in Runners : k # r => runner'[k] = runner[k]
<1>1. Resting \in [pc : Pcs, m : Nat] /\ Resting.pc = "idle"
  BY DEF Resting, Pcs
<1> QED BY <1>1 DEF Mailed

\* A job is settled as done only by a runner that saw its row sent.
LEMMA SettleKeepsMail ==
  ASSUME MailInv, NEW r \in Runners, Settle(r)
  PROVE  MailInv'
<1>0. PICK m \in DOMAIN sends : m = runner[r].m
  BY InHand DEF Settle, At
<1>1. /\ runner[r].pc \in {"done", "throw"} /\ UNCHANGED <<sends, taken, outrun, declined, minted>>
      /\ runner' = [runner EXCEPT ![r] = Resting]
      /\ owner' = [owner EXCEPT ![m] = Nobody]
  BY <1>0 DEF Settle, At, Elsewhere, minted
<1>2. PICK status \in {"done", "queued", "failed"} :
        carrier' = [carrier EXCEPT ![m] = status] /\ (status = "done" => runner[r].pc = "done")
  BY <1>0 DEF Settle, At
<1>3. Mailed /\ RowSound(m) /\ RunnerSound(r)
  BY <1>0, <1>1, InHand
<1>4. /\ runner' \in [Runners -> [pc : Pcs, m : Nat]]
      /\ runner'[r].pc = "idle"
      /\ \A k \in Runners : k # r => runner'[k] = runner[k]
  BY <1>1, <1>3, Rests
<1>5. m \in DOMAIN carrier /\ m \in DOMAIN owner /\ DOMAIN carrier = DOMAIN sends /\ DOMAIN owner = DOMAIN sends
  BY <1>3, Columns
<1>6. /\ carrier' \in Seq(JobStatus) /\ Len(carrier') = Len(carrier) /\ carrier'[m] = status
      /\ \A k \in DOMAIN sends : k # m => carrier'[k] = carrier[k]
  <2>1. status \in JobStatus /\ carrier \in Seq(JobStatus)
    BY <1>3 DEF JobStatus, Mailed
  <2> QED BY <1>2, <1>5, <2>1, OneWritten
<1>7. /\ owner' \in Seq(Runners \cup {Nobody}) /\ Len(owner') = Len(owner)
      /\ \A k \in DOMAIN sends : k # m => owner'[k] = owner[k]
  <2>1. Nobody \in Runners \cup {Nobody} /\ owner \in Seq(Runners \cup {Nobody})
    BY <1>3 DEF Mailed
  <2> QED BY <1>1, <1>5, <2>1, OneWritten
<1>8. Mailed'
  BY <1>1, <1>3, <1>4, <1>6, <1>7 DEF Mailed
<1>9. RowSound(m)'
  <2>1. status = "done" => taken[m] = 1 /\ sends[m].known
    BY <1>0, <1>2, <1>3 DEF RunnerSound
  <2> QED BY <1>1, <1>3, <1>6, <2>1 DEF RowSound
<1>10. RunnerSound(r)'
  BY <1>4 DEF RunnerSound
<1>11. ASSUME NEW k \in Runners, k # r, runner[k].m = m
       PROVE  RunnerSound(k)'
  BY <1>0, <1>1, <1>3, <1>4, <1>11, Columns, OthersAtTheRow
<1> QED BY <1>0, <1>1, <1>3, <1>4, <1>6, <1>7, <1>8, <1>9, <1>10, <1>11, StepAtOneRow

\* The leases a dead runner leaves are its own.
LEMMA DieKeepsMail ==
  ASSUME MailInv, NEW r \in Runners, Die(r)
  PROVE  MailInv'
<1>1. /\ UNCHANGED <<sends, carrier, taken, outrun, declined, minted>>
      /\ runner' = [runner EXCEPT ![r] = Resting]
      /\ owner' = [m \in DOMAIN owner |-> IF owner[m] = r THEN Nobody ELSE owner[m]]
  BY DEF Die, Elsewhere, minted
<1>2. Mailed /\ RowsSound /\ RunnersSound
  BY DEF MailInv
<1>3. /\ runner' \in [Runners -> [pc : Pcs, m : Nat]]
      /\ runner'[r].pc = "idle"
      /\ \A k \in Runners : k # r => runner'[k] = runner[k]
  BY <1>1, <1>2, Rests
<1>4. /\ DOMAIN owner = 1 .. Len(sends) /\ DOMAIN owner = DOMAIN sends /\ Len(sends) \in Nat
      /\ \A m \in DOMAIN sends : owner[m] \in Runners \cup {Nobody}
  BY <1>2, Columns
<1>5. owner' \in Seq(Runners \cup {Nobody}) /\ Len(owner') = Len(sends)
  <2>1. owner' \in [1 .. Len(sends) -> Runners \cup {Nobody}]
    BY <1>1, <1>4
  <2> QED BY <1>4, <2>1
<1>6. Mailed'
  BY <1>1, <1>2, <1>3, <1>5 DEF Mailed
<1>7. RowsSound'
  BY <1>1, <1>2 DEF RowsSound, RowSound
<1>8. RunnersSound'
  <2> SUFFICES ASSUME NEW k \in Runners, k # r PROVE RunnerSound(k)'
    BY <1>3 DEF RunnersSound, RunnerSound
  <2>1. RunnerSound(k) /\ runner'[k] = runner[k]
    BY <1>2, <1>3 DEF RunnersSound
  <2>2. \A m \in DOMAIN sends : owner[m] = k => owner'[m] = k
    BY <1>1, <1>4
  <2> QED BY <1>1, <2>1, <2>2 DEF RunnerSound
<1> QED BY <1>6, <1>7, <1>8 DEF MailInv

\* A row is taken from a runner that is at it only by outrunning it.
LEMMA ClaimKeepsMail ==
  ASSUME MailInv, NEW r \in Runners, NEW m \in DOMAIN sends, Claim(r, m)
  PROVE  MailInv'
<1>1. /\ runner[r].pc = "idle" /\ UNCHANGED <<sends, taken, declined, minted>>
      /\ carrier' = [carrier EXCEPT ![m] = "running"]
      /\ owner' = [owner EXCEPT ![m] = r]
      /\ runner' = [runner EXCEPT ![r] = [pc |-> "read", m |-> m]]
  BY DEF Claim, At, Elsewhere, minted
<1>2. /\ outrun \subseteq outrun'
      /\ \/ carrier[m] = "queued" \/ owner[m] = Nobody
         \/ m \in outrun'
  BY DEF Claim, Claimable
<1>3. Mailed /\ RowSound(m)
  BY DEF MailInv, RowsSound
<1>4. /\ m \in DOMAIN carrier /\ m \in DOMAIN owner
      /\ DOMAIN carrier = DOMAIN sends /\ DOMAIN owner = DOMAIN sends /\ m \in Nat
  <2>1. Len(sends) \in Nat /\ DOMAIN sends = 1 .. Len(sends)
    BY <1>3, Columns
  <2> QED BY <1>3, <2>1, Columns
<1>5. /\ carrier' \in Seq(JobStatus) /\ Len(carrier') = Len(carrier) /\ carrier'[m] = "running"
      /\ \A k \in DOMAIN sends : k # m => carrier'[k] = carrier[k]
  <2>1. "running" \in JobStatus /\ carrier \in Seq(JobStatus)
    BY <1>3 DEF JobStatus, Mailed
  <2> QED BY <1>1, <1>4, <2>1, OneWritten
<1>6. /\ owner' \in Seq(Runners \cup {Nobody}) /\ Len(owner') = Len(owner) /\ owner'[m] = r
      /\ \A k \in DOMAIN sends : k # m => owner'[k] = owner[k]
  <2>1. r \in Runners \cup {Nobody} /\ owner \in Seq(Runners \cup {Nobody})
    BY <1>3 DEF Mailed
  <2> QED BY <1>1, <1>4, <2>1, OneWritten
<1>7. /\ runner' \in [Runners -> [pc : Pcs, m : Nat]]
      /\ runner'[r].pc = "read" /\ runner'[r].m = m
      /\ \A k \in Runners : k # r => runner'[k] = runner[k]
  BY <1>1, <1>3, <1>4 DEF Mailed, Pcs
<1>8. Mailed'
  BY <1>1, <1>3, <1>5, <1>6, <1>7 DEF Mailed
<1>9. RowSound(m)'
  BY <1>1, <1>3, <1>5 DEF RowSound
<1>10. RunnerSound(r)'
  BY <1>1, <1>5, <1>6, <1>7 DEF RunnerSound
<1>11. ASSUME NEW k \in Runners, k # r, runner[k].m = m
       PROVE  RunnerSound(k)'
  <2>1. RunnerSound(k) /\ runner'[k] = runner[k]
    BY <1>7, <1>11 DEF MailInv, RunnersSound
  <2>2. runner[k].pc # "idle" /\ m \notin outrun => owner[m] = k /\ carrier[m] = "running"
    BY <1>11, <2>1 DEF RunnerSound
  <2>3. Nobody # k
    BY OutboxAssumption
  <2>4. runner[k].pc # "idle" => m \in outrun'
    BY <1>2, <2>2, <2>3
  <2> QED BY <1>1, <1>11, <2>1, <2>4 DEF RunnerSound
<1> QED BY <1>1, <1>2, <1>5, <1>6, <1>7, <1>8, <1>9, <1>10, <1>11, StepAtOneRow

\* A verdict is matched by an id, which only a row that was sent has.
LEMMA EventKeepsMail ==
  ASSUME MailInv, NEW m \in DOMAIN sends,
         NEW event \in {"delivered", "opened", "bounced", "complained"},
         RecordDeliveryEvent(m, event)
  PROVE  MailInv'
<1> DEFINE s == StateAfter(sends[m].state, event)
<1>1. /\ taken[m] > 0 /\ sends[m].known /\ sends[m].state \in Reachable(event)
      /\ sends' = [sends EXCEPT ![m].state = s]
      /\ UNCHANGED <<carrier, owner, taken, outrun, runner, declined, minted>>
  BY DEF RecordDeliveryEvent, Elsewhere, minted
<1>2. Mailed /\ RowSound(m) /\ sends[m] \in MailRow /\ taken[m] \in {0, 1}
  BY Columns DEF MailInv, RowsSound
<1>3. s \in SendState /\ taken[m] = 1 /\ s # "queued"
  BY <1>1, <1>2 DEF StateAfter, MailRow, SendState, RowSound
<1>4. sends[m].state = "failed" => s = "failed"
  BY <1>1 DEF Reachable, StateAfter
<1> HIDE DEF s
<1>5. /\ sends' \in Seq(MailRow) /\ Len(sends') = Len(sends) /\ DOMAIN sends' = DOMAIN sends
      /\ sends'[m].state = s /\ sends'[m].key = sends[m].key
      /\ sends'[m].link = sends[m].link /\ sends'[m].known = sends[m].known
      /\ \A k \in DOMAIN sends : k # m => sends'[k] = sends[k]
  BY <1>1, <1>2, <1>3, StateWritten
<1>6. Mailed'
  BY <1>1, <1>2, <1>5 DEF Mailed
<1>7. RowSound(m)'
  BY <1>1, <1>2, <1>3, <1>5 DEF RowSound
<1>8. ASSUME NEW k \in Runners, runner[k].m = m
      PROVE  RunnerSound(k)'
  <2>1. RunnerSound(k)
    BY DEF MailInv, RunnersSound
  <2>2. Unsent(sends[m].state) => Unsent(s)
    BY <1>1, <1>2, <1>4 DEF Unsent, RowSound
  <2> QED BY <1>1, <1>5, <1>8, <2>1, <2>2 DEF RunnerSound
<1> QED BY <1>1, <1>5, <1>6, <1>7, <1>8, StepAtOneRow

-----------------------------------------------------------------------------
(* The outbox's steps, together.                                           *)

\* A template that is switched off leaves the outbox alone.
LEMMA TellingKeepsMail ==
  ASSUME MailInv, NEW template, NEW about, NEW linkNo \in Nat,
         QueueTransactional(template, about, linkNo),
         template \in AutoSend => <<template, about>> \in Keys,
         runner' = runner, Grown, linkNo <= minted',
         template = "balance_failed" => \E i \in 1 .. minted' : declined'[i] = about
  PROVE  MailInv'
<1>1. CASE template \in AutoSend
  <2>1. Queue(<<template, about>>, linkNo)
    BY <1>1 DEF QueueTransactional
  <2>2. <<template, about>>[1] = template /\ <<template, about>>[2] = about
    OBVIOUS
  <2> QED BY <1>1, <2>1, <2>2, DecidingKeepsMail
<1>2. CASE template \notin AutoSend
  <2> DEFINE key == <<"order_confirmed", "confirmed">>
  <2>1. UNCHANGED outbox
    BY <1>2 DEF QueueTransactional
  <2>2. key \in Keys /\ key[1] # "balance_failed"
    BY DEF Keys, Templates, OrderStates
  <2> HIDE DEF key
  <2> QED BY <2>1, <2>2, DecidingKeepsMail
<1> QED BY <1>1, <1>2

LEMMA MoveKeepsMail ==
  ASSUME MailInv, NEW to \in OrderStates, MoveAndTell(to)
  PROVE  MailInv'
<1> DEFINE template == EmailOnEntering(state, to)
<1>1. QueueTransactional(template, to, 0) /\ UNCHANGED <<runner, declined, minted>>
  BY DEF MoveAndTell, minted
<1>2. template \in AutoSend => template \in Templates
  BY OutboxAssumption
<1>3. template # "balance_failed"
  BY DEF EmailOnEntering
<1>4. minted \in Nat /\ Grown
  BY <1>1 DEF MailInv, Mailed, Grown
<1> HIDE DEF template
<1>5. template \in AutoSend => <<template, to>> \in Keys
  BY <1>2 DEF Keys
<1> QED BY <1>1, <1>3, <1>4, <1>5, TellingKeepsMail

\* A mint adds its subject, and nothing else, to what links were minted for.
LEMMA Minting ==
  ASSUME Mailed, NEW subject \in 1 .. minted + 1, declined' = Append(declined, subject)
  PROVE  /\ Grown /\ minted' = minted + 1 /\ subject \in Nat
         /\ declined'[minted'] = subject
<1>1. declined \in Seq(Nat) /\ minted \in Nat /\ minted = Len(declined) /\ subject \in Nat
  BY DEF Mailed, minted
<1>2. declined' \in Seq(Nat) /\ Len(declined') = Len(declined) + 1
      /\ declined'[Len(declined) + 1] = subject
      /\ \A i \in 1 .. Len(declined) : declined'[i] = declined[i]
  BY <1>1
<1>3. minted' = minted + 1
  BY <1>1, <1>2 DEF minted
<1> QED BY <1>1, <1>2, <1>3 DEF Grown

LEMMA HandOffKeepsMail ==
  ASSUME MailInv, HandOffToLink
  PROVE  MailInv'
<1>1. PICK subject \in 1 .. minted + 1 :
        /\ declined' = Append(declined, subject) /\ runner' = runner
        /\ QueueTransactional("balance_failed", subject, minted + 1)
  BY DEF HandOffToLink, AboutTheDecline
<1>2. minted \in Nat /\ Mailed
  BY DEF MailInv, Mailed
<1>3. /\ Grown /\ minted' = minted + 1 /\ subject \in Nat
      /\ declined'[minted'] = subject
  BY <1>1, <1>2, Minting
<1>4. <<"balance_failed", subject>> \in Keys
  BY <1>3 DEF Keys, Templates
<1>5. \E i \in 1 .. minted' : declined'[i] = subject
  BY <1>2, <1>3
<1> QED BY <1>1, <1>2, <1>3, <1>4, <1>5, TellingKeepsMail

LEMMA OutboxKeepsMail ==
  ASSUME MailInv, [OutboxNext]_vars
  PROVE  MailInv'
<1>1. CASE \E to \in OrderStates : MoveAndTell(to)
  BY <1>1, MoveKeepsMail
<1>2. CASE HandOffToLink
  BY <1>2, HandOffKeepsMail
<1>3. ASSUME NEW r \in Runners, Run(r) \/ Die(r)
      PROVE  MailInv'
  <2>1. CASE \E m \in DOMAIN sends : Claim(r, m)
    BY <2>1, ClaimKeepsMail
  <2>2. CASE ReadSend(r) \/ CallProvider(r)
    BY <2>2, ReadKeepsMail, CallKeepsMail
  <2>3. CASE MarkSent(r) \/ MarkFailed(r)
    BY <2>3, MarkSentKeepsMail, MarkFailedKeepsMail
  <2>4. CASE Settle(r) \/ Die(r)
    BY <2>4, SettleKeepsMail, DieKeepsMail
  <2> QED BY <1>3, <2>1, <2>2, <2>3, <2>4 DEF Run
<1>4. CASE \E m \in DOMAIN sends, event \in {"delivered", "opened", "bounced", "complained"} :
             RecordDeliveryEvent(m, event)
  BY <1>4, EventKeepsMail
<1>5. CASE UNCHANGED vars
  <2>1. UNCHANGED <<sends, carrier, owner, taken, outrun, runner, declined, minted>>
    BY <1>5 DEF vars, outbox, minted
  <2> QED BY <2>1 DEF MailInv, Mailed, RowsSound, RowSound, RunnersSound, RunnerSound
<1> QED BY <1>1, <1>2, <1>3, <1>4, <1>5 DEF OutboxNext

LEMMA EmptyOutbox ==
  ASSUME OutboxInit
  PROVE  MailInv
<1>1. /\ sends = <<>> /\ carrier = <<>> /\ owner = <<>> /\ taken = <<>>
      /\ runner = [r \in Runners |-> Resting] /\ declined = <<>> /\ minted = 0
  BY DEF OutboxInit, minted
<1>2. Resting \in [pc : Pcs, m : Nat] /\ Resting.pc = "idle"
  BY DEF Resting, Pcs
<1>3. Mailed
  BY <1>1, <1>2 DEF Mailed
<1>4. RowsSound
  BY <1>1 DEF RowsSound
<1>5. RunnersSound
  BY <1>1, <1>2 DEF RunnersSound, RunnerSound
<1> QED BY <1>3, <1>4, <1>5 DEF MailInv

-----------------------------------------------------------------------------
(* The rows, under the outbox.                                             *)

\* What the outbox does to an order is a move some caller may make, or a fresh
\* link for an order that waits.
LEMMA OutboxStepIsOrderStep ==
  ASSUME IInv, [OutboxNext]_vars
  PROVE  [Next]_rows
<1>1. CASE \E to \in OrderStates : MoveAndTell(to)
  <2>1. PICK to : MoveAndTell(to)
    BY <1>1
  <2>2. to # "action_required" /\ (to = "balance_due" => HasBalance) /\ Move(to)
    BY <2>1 DEF MoveAndTell
  <2>3. state \in OrderStates /\ CanTransition(state, to)
    BY <2>2 DEF IInv, TypeOK, RowsTypeOK, Move, ApplyTransition
  <2>4. to \in OrderStates /\ to # "pending_payment"
    BY <2>3, MovesAllowed
  <2>5. MoveOrder
    BY <2>2, <2>4 DEF OrderStates, MoveOrder, ConfirmPaid, StartBalanceCharge, MarkFulfilled,
                      AutoComplete, RaiseIssue, CancelOrder, RefundOrder
  <2> QED BY <2>5 DEF Next
<1>2. CASE HandOffToLink
  <2>1. DeclineBalance \/ ReissueLink
    BY <1>2 DEF HandOffToLink, DeclineBalance, ReissueLink, IInv, WaitingHasLink
  <2> QED BY <2>1 DEF Next, MoveOrder
<1>3. CASE UNCHANGED rows
  BY <1>3
<1>4. \/ \E to \in OrderStates : MoveAndTell(to)
      \/ HandOffToLink \/ UNCHANGED rows
  BY DEF OutboxNext, Run, Claim, ReadSend, CallProvider, MarkSent,
         MarkFailed, Settle, Die, RecordDeliveryEvent, Elsewhere,
         vars, rows
<1> QED BY <1>1, <1>2, <1>3, <1>4

\* Telling the customer adds nothing to what may become of the order: the
\* lifecycle's promises hold of the rows with the outbox running (applyTransition
\* queues the message inside the move's own transaction).
THEOREM OutboxImplementsLifecycle == OutboxSpec => Spec
<1>1. OutboxInit => Init
  BY DEF OutboxInit, Init
<1>2. Init => IInv
  BY CheckoutEstablishesInvariant
<1>3. IInv /\ [OutboxNext]_vars => IInv' /\ [Next]_rows
  BY OutboxStepIsOrderStep, OrderStepKeepsInvariant
<1> QED BY <1>1, <1>2, <1>3, PTL DEF OutboxSpec, Spec

-----------------------------------------------------------------------------
(* What the outbox promises.                                               *)

\* Whatever order the messages, runners and verdicts come in, the outbox's
\* inductive invariant holds.
THEOREM OutboxInvariance == OutboxSpec => []MailInv
<1>1. OutboxInit => MailInv
  BY EmptyOutbox
<1>2. MailInv /\ [OutboxNext]_vars => MailInv'
  BY OutboxKeepsMail
<1> QED BY <1>1, <1>2, PTL DEF OutboxSpec

\* What the outbox says was sent was sent, and once: a lost answer, a death, and
\* a runner that outlived its lease send no second copy.
THEOREM SentOnceAndSo == OutboxSpec => []SentAsSaid
<1>1. IInv /\ MailInv => SentAsSaid
  <2> SUFFICES ASSUME IInv, MailInv PROVE SentAsSaid
    OBVIOUS
  <2>1. Mailed /\ RowsSound
    BY DEF MailInv
  <2>2. \A m \in DOMAIN sends :
          /\ sends[m] \in MailRow /\ carrier[m] \in JobStatus
          /\ owner[m] \in Runners \cup {Nobody} /\ taken[m] \in {0, 1} /\ RowSound(m)
    BY <2>1, Columns DEF RowsSound
  <2>3. RowsTypeOK
    BY DEF IInv, TypeOK
  <2>4. \A m \in DOMAIN sends : sends[m].state \in SendState /\ sends[m].link \in 0 .. minted
    <3> SUFFICES ASSUME NEW m \in DOMAIN sends
                 PROVE  sends[m].state \in SendState /\ sends[m].link \in 0 .. minted
      OBVIOUS
    <3>1. sends[m].state \in SendState /\ sends[m].link \in Nat /\ minted \in Nat
      BY <2>1, <2>2 DEF MailRow, Mailed
    <3> QED BY <2>2, <3>1 DEF RowSound
  <2>5. OutboxTypeOK
    BY <2>2, <2>3, <2>4 DEF OutboxTypeOK, SendState
  <2>6. OneCopyEach
    BY <2>2 DEF OneCopyEach
  <2>7. DoneWasSent
    BY <2>2 DEF DoneWasSent, RowSound
  <2> QED BY <2>5, <2>6, <2>7 DEF SentAsSaid
<1> QED BY <1>1, OutboxInvariance, OutboxImplementsLifecycle, Invariance, PTL

\* What a step does to a row that is there: its link stays, and its verdict too
\* unless a runner there was outrun.
LEMMA RowsOverAStep ==
  ASSUME MailInv, [OutboxNext]_vars, NEW m \in DOMAIN sends
  PROVE  /\ m \in DOMAIN sends' /\ sends'[m].link = sends[m].link
         /\ m \notin outrun /\ sends[m].state \in {"bounced", "complained"} => sends'[m] = sends[m]
<1> DEFINE Good == /\ m \in DOMAIN sends' /\ sends'[m].link = sends[m].link
                   /\ m \notin outrun /\ sends[m].state \in {"bounced", "complained"} =>
                        sends'[m] = sends[m]
<1>0. Mailed /\ sends[m] \in MailRow /\ ~(sends[m].state \in {"bounced", "complained"} /\ Unsent(sends[m].state))
  BY Columns DEF MailInv, Unsent
<1>1. CASE UNCHANGED sends
  BY <1>1
<1>2. ASSUME NEW template, NEW about, NEW linkNo, QueueTransactional(template, about, linkNo)
      PROVE  Good
  <2>1. UNCHANGED sends
        \/ sends' = Append(sends, [key |-> <<template, about>>, link |-> linkNo,
                                   state |-> "queued", known |-> FALSE])
    BY <1>2 DEF QueueTransactional, Queue, outbox
  <2>2. CASE sends' # sends
    <3>1. PICK row : sends' = Append(sends, row)
      BY <2>1, <2>2
    <3>2. m \in 1 .. Len(sends) /\ Len(sends) \in Nat /\ sends \in Seq(MailRow)
      BY <1>0, Columns DEF Mailed
    <3>3. sends \in Seq(MailRow \cup {row}) /\ row \in MailRow \cup {row}
      BY <3>2, SeqMonotonic
    <3>4. m \in DOMAIN sends' /\ sends'[m] = sends[m]
      BY <3>1, <3>3, OneAdded
    <3> QED BY <3>4
  <2> QED BY <2>2
<1>3. ASSUME NEW r \in Runners, MarkSent(r) \/ MarkFailed(r)
      PROVE  Good
  <2>1. PICK k \in DOMAIN sends : k = runner[r].m
    BY <1>3, InHand DEF MarkSent, MarkFailed, At
  <2>2. runner[r].pc \in {"mark_sent", "mark_failed"} /\ RunnerSound(r)
    BY <1>3 DEF MarkSent, MarkFailed, At, MailInv, RunnersSound
  <2>3. k \notin outrun => Unsent(sends[k].state)
    BY <2>1, <2>2 DEF RunnerSound
  <2>4. \/ UNCHANGED sends
        \/ sends' = [sends EXCEPT ![k].state = "sent", ![k].known = TRUE]
        \/ sends' = [sends EXCEPT ![k].state = "failed"]
    BY <1>3, <2>1 DEF MarkSent, MarkFailed
  <2>5. /\ DOMAIN sends' = DOMAIN sends /\ sends'[k].link = sends[k].link
        /\ \A i \in DOMAIN sends : i # k => sends'[i] = sends[i]
    <3>1. CASE sends' = [sends EXCEPT ![k].state = "sent", ![k].known = TRUE]
      BY <1>0, <3>1, SentWritten
    <3>2. CASE sends' = [sends EXCEPT ![k].state = "failed"]
      BY <1>0, <3>2, StateWritten DEF SendState
    <3> QED BY <2>4, <3>1, <3>2
  <2> QED BY <1>0, <2>3, <2>5
<1>4. ASSUME NEW k \in DOMAIN sends, NEW event \in {"delivered", "opened", "bounced", "complained"},
             RecordDeliveryEvent(k, event)
      PROVE  Good
  <2> DEFINE s == StateAfter(sends[k].state, event)
  <2>1. sends' = [sends EXCEPT ![k].state = s] /\ sends[k].state \in Reachable(event)
    BY <1>4 DEF RecordDeliveryEvent
  <2>2. sends[k] \in MailRow
    BY <1>0, Columns
  <2>3. s \in SendState
    BY <2>2 DEF StateAfter, MailRow, SendState
  <2>4. sends[k].state \in {"bounced", "complained"} => s = sends[k].state
    BY <2>1 DEF Reachable, StateAfter
  <2> HIDE DEF s
  <2>5. /\ DOMAIN sends' = DOMAIN sends /\ sends' \in Seq(MailRow)
        /\ sends'[k].state = s /\ sends'[k].key = sends[k].key
        /\ sends'[k].link = sends[k].link /\ sends'[k].known = sends[k].known
        /\ \A i \in DOMAIN sends : i # k => sends'[i] = sends[i]
    BY <1>0, <2>1, <2>3, StateWritten
  <2>6. sends[k].state \in {"bounced", "complained"} => sends'[k] = sends[k]
    <3>1. sends'[k] \in MailRow
      BY <2>5
    <3>2. ASSUME NEW old \in MailRow, NEW new \in MailRow, new.state = old.state, new.key = old.key,
                 new.link = old.link, new.known = old.known
          PROVE  new = old
      BY <3>2 DEF MailRow
    <3> QED BY <2>2, <2>4, <2>5, <3>1, <3>2
  <2> QED BY <2>5, <2>6
<1>5. \/ UNCHANGED sends
      \/ \E template, about, linkNo : QueueTransactional(template, about, linkNo)
      \/ \E r \in Runners : MarkSent(r) \/ MarkFailed(r)
      \/ \E k \in DOMAIN sends, event \in {"delivered", "opened", "bounced", "complained"} :
           RecordDeliveryEvent(k, event)
  BY DEF OutboxNext, MoveAndTell, HandOffToLink, Run, Claim, ReadSend,
         CallProvider, Settle, Die, outbox, vars
<1> QED BY <1>1, <1>2, <1>3, <1>4, <1>5

\* A bounce or a complaint is the last word on a message, but for a runner that
\* outlived its lease (recordDeliveryEvent, and the runner that reads the row
\* before it sends).
THEOREM VerdictIsLast == OutboxSpec => VerdictStands
<1>1. MailInv /\ [OutboxNext]_vars =>
        [\A m \in DOMAIN sends \ outrun :
           sends[m].state \in {"bounced", "complained"} => sends'[m] = sends[m]]_vars
  BY RowsOverAStep
<1> QED BY <1>1, OutboxInvariance, PTL DEF OutboxSpec, VerdictStands

\* A decline that is about something new is mailed with its link: no row has
\* its key.
LEMMA DeclineIsMailed ==
  ASSUME MailInv, "balance_failed" \in AutoSend, HandOffToLink
  PROVE  \/ \E m \in DOMAIN sends' : sends'[m].link = minted'
         \/ \E i \in 1 .. minted' - 1 : declined'[i] = declined'[minted']
<1>1. PICK subject \in 1 .. minted + 1 :
        /\ declined' = Append(declined, subject)
        /\ Queue(<<"balance_failed", subject>>, minted + 1)
  BY DEF HandOffToLink, QueueTransactional, AboutTheDecline
<1>2. Mailed /\ RowsSound /\ minted \in Nat
  BY DEF MailInv, Mailed
<1>3. /\ Grown /\ minted' = minted + 1 /\ subject \in Nat
      /\ declined'[minted'] = subject
  BY <1>1, <1>2, Minting
<1> DEFINE key == <<"balance_failed", subject>>
<1>4. key \in Keys /\ key[1] = "balance_failed" /\ key[2] = subject
  BY <1>3 DEF Keys, Templates
<1> HIDE DEF key
<1>5. CASE key \in KeysOf(sends)
  <2>1. PICK m \in DOMAIN sends : sends[m].key = key
    BY <1>5 DEF KeysOf, ToSet
  <2>2. PICK i \in 1 .. minted : declined[i] = subject
    BY <1>2, <1>4, <2>1 DEF RowsSound, RowSound
  <2>3. declined'[i] = subject /\ i \in 1 .. minted' - 1
    BY <1>2, <1>3, <2>2 DEF Grown
  <2> QED BY <1>3, <2>3
<1>6. CASE key \notin KeysOf(sends)
  <2>1. minted + 1 \in Nat /\ Queue(key, minted + 1)
    BY <1>1, <1>2 DEF key
  <2>2. PICK n : n \in DOMAIN sends' /\ sends'[n] = [key |-> key, link |-> minted + 1,
                                                    state |-> "queued", known |-> FALSE]
    BY <1>2, <1>4, <1>6, <2>1, Queued
  <2>3. sends'[n].link = minted + 1
    BY <2>2
  <2> QED BY <1>3, <2>2, <2>3
<1> QED BY <1>5, <1>6

\* A customer who has to pay was sent the link that pays, however many declines
\* there were and whatever became of the messages, unless the last decline was
\* about what an earlier one had been about (queueBalanceFailedEmail).
THEOREM WorkingLinkMailed == OutboxSpec => []WorkingLinkIsMailed
<1>1. OutboxInit => WorkingLinkIsMailed
  BY DEF OutboxInit, OrderCreated, WorkingLinkIsMailed
<1>2. MailInv /\ WorkingLinkIsMailed /\ [OutboxNext]_vars => WorkingLinkIsMailed'
  <2> SUFFICES ASSUME MailInv, WorkingLinkIsMailed, [OutboxNext]_vars,
                      state' = "action_required", "balance_failed" \in AutoSend
               PROVE  \/ \E m \in DOMAIN sends' : sends'[m].link = minted'
                      \/ \E i \in 1 .. minted' - 1 : declined'[i] = declined'[minted']
    BY DEF WorkingLinkIsMailed
  <2>1. CASE HandOffToLink
    BY <2>1, DeclineIsMailed
  <2>2. CASE ~HandOffToLink
    <3>1. state' = state /\ declined' = declined /\ minted' = minted
      BY <2>2 DEF OutboxNext, MoveAndTell, Move, ApplyTransition, Run,
                  Claim, ReadSend, CallProvider, MarkSent, MarkFailed,
                  Settle, Die, RecordDeliveryEvent, Elsewhere, rows,
                  vars, minted
    <3>2. CASE \E i \in 1 .. minted - 1 : declined[i] = declined[minted]
      BY <3>1, <3>2
    <3>3. CASE \E m \in DOMAIN sends : sends[m].link = minted
      <4>1. PICK m \in DOMAIN sends : sends[m].link = minted
        BY <3>3
      <4>2. m \in DOMAIN sends' /\ sends'[m].link = sends[m].link
        BY RowsOverAStep
      <4> QED BY <3>1, <4>1, <4>2
    <3> QED BY <3>1, <3>2, <3>3 DEF WorkingLinkIsMailed
  <2> QED BY <2>1, <2>2
<1> QED BY <1>1, <1>2, OutboxInvariance, PTL DEF OutboxSpec

=============================================================================

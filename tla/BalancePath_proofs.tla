-------------------------- MODULE BalancePath_proofs --------------------------
(***************************************************************************)
(* The balance's path, for any number of presses of Retry, attempts and    *)
(* troubles.  Sound is the invariant its rows, its provider and its        *)
(* program counters keep: with it every step is one of the abstract        *)
(* lifecycle's, a return from the wait is paid, and a finished charge is   *)
(* answered.  OneCharge stands on it: who was not overtaken between its    *)
(* look at the payments and the attempt it opens still sees what they are. *)
(***************************************************************************)
EXTENDS BalancePath, FiniteSetTheorems, TLAPS

PaymentStates == {"none", "pending", "succeeded", "failed", "refunded"}
IntentStates == {"none", "charged", "declined", "hosted", "paid"}

OpenerRow == [pc : OpenerSteps, saw : OrderStates \cup {"none"}, attempt : {0} \cup Attempts]
DeliveryRow == [pc : {"idle", "fail", "mark", "branch", "ack"}, event : SUBSET Events,
                saw : OrderStates \cup {"none"}]

\* A delivery is of one event that was sent, and goes the way of its kind.
DeliverySound ==
  /\ delivery.pc = "idle" => delivery.event = {}
  /\ delivery.pc # "idle" => \E e \in sent :
       /\ delivery.event = {e}
       /\ delivery.pc = "fail" => e.kind = "failed"
       /\ delivery.pc \in {"mark", "branch"} => e.kind = "succeeded"

Typed ==
  /\ RowsTypeOK
  /\ payment \in [Attempts -> PaymentStates]
  /\ intent \in [Attempts -> IntentStates]
  /\ disowned \subseteq Attempts
  /\ sent \subseteq Events /\ processed \subseteq sent
  /\ opener \in [Openers -> OpenerRow]
  /\ delivery \in DeliveryRow /\ DeliverySound
  /\ grace \in {"idle", "read", "cancel", "done", "threw"}
  /\ troubles \in 0 .. MaxTroubles

\* A row is the runner's own while its handler works on it.
RowsOwned ==
  /\ opener["job"].pc # "idle" => job["charge_balance"] = "running"
  /\ grace # "idle" => job["balance_grace_expiry"] = "running"

\* What the provider refused: a card, or a page that is open or was paid since.
Unpaid == {"declined", "hosted", "paid"}

\* A caller's attempt was opened, and what it was told of it stays so.
OpenerSound(o) ==
  /\ opener[o].attempt \in {0} \cup Opened
  /\ opener[o].pc \in {"provider", "taken", "declined"} => opener[o].attempt \in Opened
  /\ opener[o].pc = "taken" => opener[o].attempt \in Captured
  /\ opener[o].pc = "declined" => intent[opener[o].attempt] \in Unpaid
  /\ opener[o].pc = "confirm" => Captured # {}

AttemptsSound ==
  /\ Opened = 1 .. Latest
  /\ disowned \subseteq Opened
  /\ \A a \in Attempts : intent[a] # "none" => a \in Opened
  /\ \A e \in sent : /\ e.kind = "succeeded" => e.attempt \in Captured
                     /\ e.kind = "failed" => intent[e.attempt] \in Unpaid
  /\ \A o \in Openers : OpenerSound(o)

\* Whoever asks the customer does it with a link, and a link once minted is
\* followed by others or retired.
LinkSound ==
  /\ state = "action_required" => link # "none"
  /\ \A o \in Openers : opener[o].saw = "action_required" => link # "none"
  /\ opener["customer"].pc # "idle" => link # "none"
  /\ \A a \in Attempts : intent[a] \in {"hosted", "paid"} => link # "none"

Booked == \E a \in Attempts : payment[a] \in {"succeeded", "refunded"}
Answer == IsTerminal(state) \/ link # "none" \/ Booked

\* The job's row says done only of a charge that came to something.
AnswerSound ==
  /\ link = "none" =>
       \A a \in Attempts : payment[a] \in {"succeeded", "refunded"} => intent[a] = "charged"
  /\ opener["job"].pc = "confirm" => link # "none" \/ Booked
  /\ opener["job"].pc = "answered" => Answer
  /\ job["charge_balance"] = "done" => Answer

HistoryTyped == overtaken \subseteq Openers /\ raced \in BOOLEAN

Sound == Typed /\ HistoryTyped /\ RowsOwned /\ AttemptsSound /\ LinkSound /\ AnswerSound

\* Who was not overtaken decides on payments as they stand; unless one who was
\* opened an attempt, every attempt but the last went back, was declined or was
\* disowned.
Spent(a) == a \in returned \/ a \in disowned \/ intent[a] = "declined"
Undisturbed(o) == Deciding(o) /\ o \notin overtaken

OneCharge ==
  /\ \A o \in Openers : Undisturbed(o) => ~Settled
  /\ \A o \in Openers : Undisturbed(o) /\ opener[o].pc = "open" =>
       \A a \in Attempts : a = Latest => payment[a] # "pending"
  /\ \A a \in Attempts : payment[a] = "refunded" => a \in returned
  /\ \A a \in Attempts : payment[a] = "failed" => a \in disowned \/ intent[a] = "declined"
  /\ raced \/ \A a \in Opened : a < Latest => Spent(a)

-----------------------------------------------------------------------------
(* Whose step it is.                                                       *)

OpenerStep(o) ==
  \/ o = "job" /\ (StartJob \/ ReadForJob \/ FinishJob)
  \/ o \in Presses /\ PressRetry(o)
  \/ o \in Chargers /\ Charge(o)
  \/ PickAttempt(o) \/ OpenAttempt(o)
  \/ o = "customer" /\ (OpenLink \/ OpenHostedPage)

PageStep == \E a \in Attempts : PayHostedPage(a) \/ DeclineHostedPage(a)
WebhookStep == (\E e \in Events : Deliver(e)) \/ Handle
RowsStep == ConfirmDeposit \/ FlagOrResolve \/ Requeue

LEMMA NextByActor ==
  ASSUME Next
  PROVE  (\E o \in Openers : OpenerStep(o)) \/ PageStep \/ WebhookStep \/ RunGrace \/ RowsStep \/ Die
<1>1. "job" \in Openers /\ "customer" \in Openers /\ Presses \subseteq Openers /\ Chargers \subseteq Openers
  BY DEF Openers, Chargers
<1> QED BY <1>1 DEF Next, OpenerStep, PageStep, WebhookStep, RowsStep

\* Every step keeps the history.
LEMMA NextOvertakes ==
  ASSUME Next
  PROVE  Overtake
<1>1. ASSUME NEW o \in Openers, OpenerStep(o) PROVE Overtake
  BY <1>1 DEF OpenerStep, Charge, StartJob, ReadForJob, FinishJob, PressRetry, LoadOrder, CheckSettled,
     BeginCharge, FindCard, ChargeOffSession, AdoptCharge, MarkTaken, MarkDeclined, ConfirmCaptured,
     HandOffToLink, PickAttempt, OpenAttempt, OpenLink, OpenHostedPage
<1>2. ASSUME PageStep \/ WebhookStep PROVE Overtake
  BY <1>2 DEF PageStep, PayHostedPage, DeclineHostedPage, WebhookStep, Deliver, Handle, MarkPaymentFailed,
     MarkPaymentSucceeded, ConfirmOrder, RefundLateCapture, Acknowledge
<1>3. ASSUME RunGrace \/ RowsStep \/ Die PROVE Overtake
  BY <1>3 DEF RunGrace, StartGrace, ReadForGrace, CancelUnpaid, FinishGrace, RowsStep, ConfirmDeposit,
     FlagOrResolve, Requeue, Administer, Die
<1> QED BY <1>1, <1>2, <1>3, NextByActor

Others(o) == \A p \in Openers \ {o} : opener'[p] = opener[p]

LEMMA GoToGoes ==
  ASSUME Typed, NEW o \in Openers, NEW pc \in OpenerSteps, GoTo(o, pc)
  PROVE  /\ opener' \in [Openers -> OpenerRow] /\ Others(o)
         /\ opener'[o].pc = pc /\ opener'[o].saw = opener[o].saw
         /\ opener'[o].attempt = opener[o].attempt
<1>1. opener \in [Openers -> OpenerRow]
  BY DEF Typed
<1> QED BY <1>1 DEF GoTo, OpenerRow, Others

LEMMA EndGoes ==
  ASSUME Typed, NEW o \in Openers, NEW pc \in OpenerSteps, End(o, pc)
  PROVE  /\ opener' \in [Openers -> OpenerRow] /\ Others(o)
         /\ opener'[o].pc \in {pc, "idle"} /\ opener'[o].saw = "none"
         /\ opener'[o].attempt = 0
         /\ o = "job" \/ pc = "confirm" => opener'[o].pc = pc
<1>1. opener \in [Openers -> OpenerRow]
  BY DEF Typed
<1> DEFINE to == IF o \in Presses /\ pc # "confirm" THEN "idle" ELSE pc
<1>2. /\ to \in OpenerSteps /\ to \in {pc, "idle"}
      /\ o = "job" \/ pc = "confirm" => to = pc
  BY BalanceAssumption DEF OpenerSteps
<1>3. opener' = [opener EXCEPT ![o] = EndAt(to)]
  BY DEF End
<1> HIDE DEF to
<1>4. EndAt(to) = [pc |-> to, saw |-> "none", attempt |-> 0]
  BY DEF EndAt, IdleOpener
<1>5. opener'[o] = [pc |-> to, saw |-> "none", attempt |-> 0] /\ Others(o)
  BY <1>1, <1>3, <1>4 DEF Others
<1>6. [pc |-> to, saw |-> "none", attempt |-> 0] \in OpenerRow
  BY <1>2 DEF OpenerRow
<1>7. opener' \in [Openers -> OpenerRow]
  BY <1>1, <1>3, <1>4, <1>6
<1> QED BY <1>2, <1>5, <1>7

LEMMA RestGoes ==
  ASSUME Typed, NEW o \in Openers, opener' = [opener EXCEPT ![o] = IdleOpener]
  PROVE  /\ opener' \in [Openers -> OpenerRow] /\ Others(o)
         /\ opener'[o].pc = "idle" /\ opener'[o].saw = "none" /\ opener'[o].attempt = 0
<1>1. opener \in [Openers -> OpenerRow]
  BY DEF Typed
<1>2. IdleOpener \in OpenerRow
  BY DEF IdleOpener, OpenerRow, OpenerSteps
<1>3. opener'[o] = IdleOpener
  BY <1>1
<1>4. IdleOpener.pc = "idle" /\ IdleOpener.saw = "none" /\ IdleOpener.attempt = 0
  BY DEF IdleOpener
<1> QED BY <1>1, <1>2, <1>3, <1>4 DEF Others

-----------------------------------------------------------------------------
(* What a move does to the order's rows.                                   *)

LEMMA MoveTyped ==
  ASSUME RowsTypeOK, NEW to, NEW mintsLink \in BOOLEAN, ApplyTransition(to, mintsLink)
  PROVE  /\ RowsTypeOK' /\ state' = to /\ CanTransition(state, to)
         /\ link # "none" => link' # "none"
         /\ mintsLink => link' = "payable"
         /\ IsTerminal(state) => IsTerminal(state')
         /\ \A type \in JobTypes : job[type] = "running" => job'[type] = "running"
         /\ job'["charge_balance"] = "done" => job["charge_balance"] = "done" \/ IsTerminal(state')
<1>1. /\ state' = to /\ to \in Allowed(state) /\ job' = JobsAfterMove(state, to)
  BY DEF ApplyTransition, CanTransition
<1>2. to \in OrderStates
  BY <1>1 DEF Allowed, OrderStates
<1>3. \A status \in JobStatus : Enqueued(status) \in JobStatus /\ CalledOff(status) \in JobStatus
  BY DEF JobStatus, Enqueued, CalledOff
<1>4. job' \in [JobTypes -> JobStatus]
  BY <1>1, <1>3 DEF JobsAfterMove, RowsTypeOK
<1>5. graceOpen' \in BOOLEAN /\ dateHeld' \in BOOLEAN
  BY DEF ApplyTransition, GraceAfterMove
<1>6. link' \in LinkState /\ (link # "none" => link' # "none") /\ (mintsLink => link' = "payable")
  BY DEF ApplyTransition, Retired, LinkState, RowsTypeOK
<1>7. IsTerminal(state) => IsTerminal(to)
  BY <1>1 DEF IsTerminal, Allowed, ReleasesCapacity, CapacityIn
<1>8. Enqueued("running") = "running" /\ CalledOff("running") = "running"
  BY DEF Enqueued, CalledOff
<1>9. \A type \in JobTypes : job[type] = "running" => job'[type] = "running"
  BY <1>1, <1>8 DEF JobsAfterMove
<1>10. job'["charge_balance"] = "done" => job["charge_balance"] = "done" \/ IsTerminal(to)
  BY <1>1 DEF JobsAfterMove, CancelsQueuedJobs, JobsCancelledOnLeaving, Enqueued, JobTypes
<1> QED BY <1>1, <1>2, <1>4, <1>5, <1>6, <1>7, <1>9, <1>10 DEF RowsTypeOK, CanTransition

\* A step moves the order, mints a link again, or writes one job's row.
Relinks == link' = "payable" /\ UNCHANGED <<state, graceOpen, job, dateHeld>>
MovesOrder(to, mintsLink) == ApplyTransition(to, mintsLink) /\ (to = "action_required" => mintsLink)
WritesJob(type, status) == SetJob(type, status) /\ UNCHANGED <<state, graceOpen, dateHeld, link>>

LEMMA OpenerRows ==
  ASSUME NEW o \in Openers, OpenerStep(o)
  PROVE  \/ UNCHANGED rows
         \/ Relinks
         \/ \E to \in OrderStates, mintsLink \in BOOLEAN : MovesOrder(to, mintsLink)
         \/ \E status \in JobStatus : WritesJob("charge_balance", status)
<1>1. CASE o = "job" /\ (StartJob \/ ReadForJob \/ FinishJob)
  BY <1>1 DEF StartJob, ReadForJob, FinishJob, ClaimRow, JobStatus, WritesJob, JobOutcomes
<1>2. CASE BeginCharge(o)
  <2>1. UNCHANGED rows \/ MovesOrder("balance_due", FALSE)
    BY <1>2 DEF BeginCharge, TryMove, MovesOrder
  <2> QED BY <2>1 DEF OrderStates
<1>3. CASE ConfirmCaptured(o)
  <2>1. UNCHANGED rows \/ MovesOrder("confirmed", FALSE)
    BY <1>3 DEF ConfirmCaptured, TryMove, MovesOrder
  <2> QED BY <2>1 DEF OrderStates
<1>4. CASE HandOffToLink(o)
  <2>1. UNCHANGED rows \/ Relinks \/ MovesOrder("action_required", TRUE)
    BY <1>4 DEF HandOffToLink, TryMove, MovesOrder, Relinks
  <2> QED BY <2>1 DEF OrderStates
<1>5. CASE \/ o \in Presses /\ PressRetry(o)
           \/ LoadOrder(o) \/ CheckSettled(o) \/ FindCard(o) \/ ChargeOffSession(o)
           \/ AdoptCharge(o) \/ MarkTaken(o) \/ MarkDeclined(o)
           \/ PickAttempt(o) \/ OpenAttempt(o)
           \/ o = "customer" /\ (OpenLink \/ OpenHostedPage)
  BY <1>5 DEF PressRetry, LoadOrder, CheckSettled, FindCard, ChargeOffSession, AdoptCharge,
     MarkTaken, MarkDeclined, PickAttempt, OpenAttempt, OpenLink, OpenHostedPage
<1> QED BY <1>1, <1>2, <1>3, <1>4, <1>5 DEF OpenerStep, Charge

LEMMA OtherRows ==
  ASSUME PageStep \/ WebhookStep \/ RunGrace \/ RowsStep \/ Die
  PROVE  \/ UNCHANGED rows
         \/ \E to \in OrderStates : MovesOrder(to, FALSE)
         \/ \E type \in JobTypes, status \in JobStatus : WritesJob(type, status)
<1>1. CASE PageStep \/ Die
  BY <1>1 DEF PageStep, PayHostedPage, DeclineHostedPage, Die
<1>2. CASE WebhookStep
  <2>1. UNCHANGED rows \/ MovesOrder("confirmed", FALSE)
    BY <1>2 DEF WebhookStep, Deliver, Handle, MarkPaymentFailed, MarkPaymentSucceeded, ConfirmOrder,
       RefundLateCapture, Acknowledge, Move, MovesOrder
  <2> QED BY <2>1 DEF OrderStates
<1>3. CASE RunGrace
  <2>1. \/ UNCHANGED rows \/ MovesOrder("cancelled", FALSE)
        \/ \E status \in JobStatus : WritesJob("balance_grace_expiry", status)
    BY <1>3 DEF RunGrace, StartGrace, ReadForGrace, CancelUnpaid, FinishGrace, Move, MovesOrder,
       ClaimRow, WritesJob, JobStatus
  <2> QED BY <2>1 DEF OrderStates, JobTypes
<1>4. CASE ConfirmDeposit
  <2>1. MovesOrder("confirmed", FALSE)
    BY <1>4 DEF ConfirmDeposit, Move, MovesOrder
  <2> QED BY <2>1 DEF OrderStates
<1>5. CASE FlagOrResolve
  <2>1. PICK to \in {"issue", "confirmed", "fulfilled", "cancelled"} : Move(to)
    BY <1>5 DEF FlagOrResolve, Administer
  <2> QED BY <2>1 DEF Move, MovesOrder, OrderStates
<1>6. CASE Requeue
  BY <1>6 DEF Requeue, Administer, RequeueRow, WritesJob, JobStatus, JobTypes
<1> QED BY <1>1, <1>2, <1>3, <1>4, <1>5, <1>6 DEF RowsStep

LEMMA RowsKeep ==
  ASSUME RowsTypeOK, Next
  PROVE  /\ RowsTypeOK'
         /\ link # "none" => link' # "none"
         /\ IsTerminal(state) => IsTerminal(state')
         /\ state' = "action_required" => state = "action_required" \/ link' # "none"
<1>1. \/ UNCHANGED rows
      \/ Relinks
      \/ \E to \in OrderStates, mintsLink \in BOOLEAN : MovesOrder(to, mintsLink)
      \/ \E type \in JobTypes, status \in JobStatus : WritesJob(type, status)
  BY NextByActor, OpenerRows, OtherRows DEF JobTypes
<1>2. CASE UNCHANGED rows
  BY <1>2 DEF rows, RowsTypeOK
<1>3. CASE Relinks
  BY <1>3 DEF Relinks, RowsTypeOK, LinkState
<1>4. CASE \E to \in OrderStates, mintsLink \in BOOLEAN : MovesOrder(to, mintsLink)
  BY <1>4, MoveTyped DEF MovesOrder
<1>5. CASE \E type \in JobTypes, status \in JobStatus : WritesJob(type, status)
  BY <1>5 DEF WritesJob, SetJob, RowsTypeOK
<1> QED BY <1>1, <1>2, <1>3, <1>4, <1>5

-----------------------------------------------------------------------------
(* Typed.                                                                  *)

LEMMA LatestCounts == Latest \in Nat
<1>1. 1 \in Int /\ MaxAttempts \in Int
  BY BalanceAssumption
<1>2. IsFiniteSet(Attempts)
  BY <1>1, FS_Interval DEF Attempts
<1>3. Opened \in SUBSET Attempts
  BY DEF Opened
<1>4. IsFiniteSet(Opened)
  BY <1>2, <1>3, FS_Subset
<1> QED BY <1>4, FS_CardinalityType DEF Latest

LEMMA OpenerElsewhere ==
  ASSUME NEW o \in Openers, OpenerStep(o)
  PROVE  UNCHANGED <<returned, processed, delivery, grace>>
BY DEF OpenerStep, Charge, StartJob, ReadForJob, FinishJob, PressRetry, LoadOrder, CheckSettled,
   BeginCharge, FindCard, ChargeOffSession, AdoptCharge, MarkTaken, MarkDeclined, ConfirmCaptured,
   HandOffToLink, PickAttempt, OpenAttempt, OpenLink, OpenHostedPage, ledger

LEMMA OpenerTyped ==
  ASSUME Typed, AttemptsSound, NEW o \in Openers, OpenerStep(o)
  PROVE  opener' \in [Openers -> OpenerRow] /\ Others(o)
<1> USE DEF OpenerSteps
<1>0. opener \in [Openers -> OpenerRow] /\ state \in OrderStates
  BY DEF Typed, RowsTypeOK
<1> DEFINE P == opener' \in [Openers -> OpenerRow] /\ Others(o)
<1>1. ASSUME NEW pc \in OpenerSteps, GoTo(o, pc) \/ End(o, pc)
      PROVE  P
  BY <1>1, GoToGoes, EndGoes
<1>2. CASE o = "job" /\ (StartJob \/ ReadForJob)
  BY <1>1, <1>2 DEF StartJob, ReadForJob
<1>3. CASE o = "job" /\ FinishJob
  BY <1>3, RestGoes DEF FinishJob
<1>4. CASE o \in Presses /\ PressRetry(o)
  BY <1>1, <1>4 DEF PressRetry
<1>5. CASE LoadOrder(o)
  BY <1>0, <1>5 DEF LoadOrder, OpenerRow, Others
<1>6. CASE CheckSettled(o)
  BY <1>1, <1>6 DEF CheckSettled, ByState
<1>7. CASE BeginCharge(o)
  BY <1>1, <1>7 DEF BeginCharge, TryMove
<1>8. CASE FindCard(o)
  BY <1>1, <1>8 DEF FindCard
<1>9. CASE ChargeOffSession(o) \/ AdoptCharge(o)
  <2>1. GoTo(o, "taken") \/ GoTo(o, "declined") \/ End(o, "threw")
    BY <1>9 DEF ChargeOffSession, AdoptCharge, Answered
  <2> QED BY <1>1, <2>1
<1>10. CASE MarkTaken(o)
  BY <1>1, <1>10 DEF MarkTaken
<1>11. CASE MarkDeclined(o)
  BY <1>0, <1>11 DEF MarkDeclined, OpenerRow, Others
<1>12. CASE ConfirmCaptured(o)
  BY <1>1, <1>12 DEF ConfirmCaptured, TryMove
<1>13. CASE HandOffToLink(o)
  BY <1>1, <1>13 DEF HandOffToLink, TryMove
<1>14. CASE PickAttempt(o)
  <2>1. CASE Latest # 0 /\ payment[Latest] = "pending"
    <3>1. Latest \in Attempts
      <4>1. Latest \in Nat
        BY LatestCounts
      <4>2. Latest \in Opened
        BY <2>1, <4>1 DEF AttemptsSound
      <4> QED BY <4>2 DEF Opened
    <3>2. opener' = [opener EXCEPT ![o].pc = "provider", ![o].attempt = Latest]
      BY <1>14, <2>1 DEF PickAttempt
    <3> QED BY <1>0, <3>1, <3>2 DEF OpenerRow, Others
  <2>2. CASE ~(Latest # 0 /\ payment[Latest] = "pending")
    <3>1. opener' = [opener EXCEPT ![o].pc = "open", ![o].attempt = 0]
      BY <1>14, <2>2 DEF PickAttempt
    <3> QED BY <1>0, <3>1 DEF OpenerRow, Others
  <2> QED BY <2>1, <2>2
<1>15. CASE OpenAttempt(o)
  <2>1. Latest + 1 \in Attempts
    <3>1. Latest \in Nat
      BY LatestCounts
    <3> QED BY <1>15, <3>1, BalanceAssumption DEF OpenAttempt, Attempts
  <2> QED BY <1>0, <1>15, <2>1 DEF OpenAttempt, OpenerRow, Others
<1>16. CASE o = "customer" /\ OpenLink
  BY <1>1, <1>16 DEF OpenLink
<1>17. CASE o = "customer" /\ OpenHostedPage
  BY <1>17, RestGoes DEF OpenHostedPage
<1> QED BY <1>2, <1>3, <1>4, <1>5, <1>6, <1>7, <1>8, <1>9, <1>10, <1>11, <1>12, <1>13, <1>14,
           <1>15, <1>16, <1>17 DEF OpenerStep, Charge

LEMMA OpenersAttempt ==
  ASSUME AttemptsSound, NEW o \in Openers, opener[o].pc \in {"provider", "taken", "declined"}
  PROVE  opener[o].attempt \in Opened /\ opener[o].attempt \in Attempts
  BY DEF AttemptsSound, OpenerSound, Opened

LEMMA OpenerStepsTyped ==
  ASSUME Typed, AttemptsSound, NEW o \in Openers, OpenerStep(o), Next
  PROVE  Typed'
<1>1. UNCHANGED <<returned, processed, delivery, grace>>
  BY OpenerElsewhere
<1>2. RowsTypeOK' /\ opener' \in [Openers -> OpenerRow]
  BY RowsKeep, OpenerTyped DEF Typed
<1>3. /\ payment' \in [Attempts -> PaymentStates] /\ intent' \in [Attempts -> IntentStates]
      /\ disowned' \subseteq Attempts /\ sent \subseteq sent' /\ sent' \subseteq Events
      /\ troubles' \in 0 .. MaxTroubles
  <2>0. /\ payment \in [Attempts -> PaymentStates] /\ intent \in [Attempts -> IntentStates]
        /\ disowned \subseteq Attempts /\ sent \subseteq Events /\ troubles \in 0 .. MaxTroubles
    BY DEF Typed
  <2>1. CASE ChargeOffSession(o)
    <3>1. opener[o].attempt \in Attempts
      BY <2>1, OpenersAttempt DEF ChargeOffSession, At
    <3> QED BY <2>0, <2>1, <3>1 DEF ChargeOffSession, Emit, Events, IntentStates, ledger
  <2>2. CASE MarkDeclined(o)
    <3>1. opener[o].attempt \in Attempts
      BY <2>2, OpenersAttempt DEF MarkDeclined, At
    <3> QED BY <2>0, <2>2, <3>1 DEF MarkDeclined, CloseAttempt, PaymentStates, provider
  <2>3. CASE MarkTaken(o) \/ OpenAttempt(o)
    BY <2>0, <2>3 DEF MarkTaken, OpenAttempt, PaymentStates, provider
  <2>4. CASE o = "customer" /\ OpenHostedPage
    BY <2>0, <2>4 DEF OpenHostedPage, IntentStates, ledger
  <2>5. CASE o \in Presses /\ PressRetry(o)
    BY <2>0, <2>5, BalanceAssumption DEF PressRetry, ledger, provider
  <2>6. CASE \/ o = "job" /\ (StartJob \/ ReadForJob \/ FinishJob)
             \/ LoadOrder(o) \/ CheckSettled(o) \/ BeginCharge(o) \/ FindCard(o) \/ AdoptCharge(o)
             \/ ConfirmCaptured(o) \/ HandOffToLink(o) \/ PickAttempt(o)
             \/ o = "customer" /\ OpenLink
    <3>1. UNCHANGED <<payment, intent, disowned, sent, troubles>>
      BY <2>6 DEF StartJob, ReadForJob, FinishJob, LoadOrder, CheckSettled, BeginCharge, FindCard,
         AdoptCharge, ConfirmCaptured, HandOffToLink, PickAttempt, OpenLink, ledger, provider
    <3> QED BY <2>0, <3>1
  <2> QED BY <2>1, <2>2, <2>3, <2>4, <2>5, <2>6 DEF OpenerStep, Charge
<1>4. DeliverySound'
  BY <1>1, <1>3 DEF Typed, DeliverySound
<1>5. /\ processed' \subseteq sent' /\ delivery' \in DeliveryRow
      /\ grace' \in {"idle", "read", "cancel", "done", "threw"}
  BY <1>1, <1>3 DEF Typed
<1> QED BY <1>2, <1>3, <1>4, <1>5 DEF Typed

\* A delivery under way names one event, and its attempt.
LEMMA NamedByDelivery ==
  ASSUME Typed, delivery.pc # "idle"
  PROVE  /\ EventOf \in sent /\ delivery.event = {EventOf} /\ PaidBy \in Attempts
         /\ delivery.pc = "fail" => EventOf.kind = "failed"
         /\ delivery.pc \in {"mark", "branch"} => EventOf.kind = "succeeded"
<1>1. PICK e \in sent :
        /\ delivery.event = {e}
        /\ delivery.pc = "fail" => e.kind = "failed"
        /\ delivery.pc \in {"mark", "branch"} => e.kind = "succeeded"
  BY DEF Typed, DeliverySound
<1>2. EventOf = e
  BY <1>1 DEF EventOf
<1>3. e \in Events
  BY DEF Typed
<1> QED BY <1>1, <1>2, <1>3 DEF PaidBy, Events

LEMMA WebhookElsewhere ==
  ASSUME WebhookStep
  PROVE  UNCHANGED <<intent, sent, opener, grace, troubles>>
BY DEF WebhookStep, Deliver, Handle, MarkPaymentFailed, MarkPaymentSucceeded, ConfirmOrder,
   RefundLateCapture, Acknowledge, provider

\* A delivery starts with an event, keeps it, and lets it go.
LEMMA DeliveryGoes ==
  ASSUME Typed, WebhookStep
  PROVE  delivery' \in DeliveryRow /\ DeliverySound'
<1>0. delivery \in DeliveryRow /\ UNCHANGED sent /\ state \in OrderStates
  BY WebhookElsewhere DEF Typed, RowsTypeOK
<1>1. ASSUME NEW from, NEW to \in {"ack", "branch"}, DeliveryStep(from, to), from # "idle",
             to = "branch" => from = "mark"
      PROVE  delivery' \in DeliveryRow /\ DeliverySound'
  <2>1. /\ delivery.pc = from
        /\ delivery' = [delivery EXCEPT !.pc = to, !.saw = IF to = "ack" THEN "none" ELSE @]
    BY <1>1 DEF DeliveryStep
  <2>2. delivery' \in DeliveryRow /\ delivery'.pc = to /\ delivery'.event = delivery.event
    BY <1>0, <2>1 DEF DeliveryRow
  <2> QED BY <1>0, <1>1, <2>1, <2>2 DEF Typed, DeliverySound
<1>2. ASSUME delivery' = IdleDelivery
      PROVE  delivery' \in DeliveryRow /\ DeliverySound'
  BY <1>2 DEF IdleDelivery, DeliveryRow, DeliverySound
<1>3. CASE \E e \in Events : Deliver(e)
  <2>1. PICK e \in Events : Deliver(e)
    BY <1>3
  <2>2. delivery' \in DeliveryRow
    BY <1>0, <2>1 DEF Deliver, DeliveryRow
  <2>3. /\ e \in sent /\ delivery'.event = {e}
        /\ delivery'.pc = IF e.kind = "failed" THEN "fail" ELSE "mark"
    BY <2>1 DEF Deliver
  <2>4. e.kind \in {"succeeded", "failed"}
    BY DEF Events
  <2> QED BY <1>0, <2>2, <2>3, <2>4 DEF DeliverySound
<1>4. CASE Handle
  BY <1>1, <1>2, <1>4 DEF Handle, MarkPaymentFailed, MarkPaymentSucceeded, ConfirmOrder,
                          RefundLateCapture, Acknowledge, DeliveryStep
<1> QED BY <1>3, <1>4 DEF WebhookStep

LEMMA WebhookStepsTyped ==
  ASSUME Typed, WebhookStep, Next
  PROVE  Typed'
<1>1. UNCHANGED <<intent, sent, opener, grace, troubles>>
  BY WebhookElsewhere
<1>2. RowsTypeOK' /\ delivery' \in DeliveryRow /\ DeliverySound'
  BY RowsKeep, DeliveryGoes DEF Typed
<1>3. payment' \in [Attempts -> PaymentStates] /\ disowned' \subseteq Attempts /\ processed' \subseteq sent
  <2>0. payment \in [Attempts -> PaymentStates] /\ disowned \subseteq Attempts /\ processed \subseteq sent
    BY DEF Typed
  <2>1. CASE MarkPaymentFailed
    <3>1. PaidBy \in Attempts
      BY <2>1, NamedByDelivery DEF MarkPaymentFailed, DeliveryStep
    <3> QED BY <2>0, <2>1, <3>1 DEF MarkPaymentFailed, CloseAttempt, PaymentStates
  <2>2. CASE MarkPaymentSucceeded \/ RefundLateCapture
    BY <2>0, <2>2 DEF MarkPaymentSucceeded, RefundLateCapture, PaymentStates
  <2>3. CASE Acknowledge
    BY <2>0, <2>3, NamedByDelivery DEF Acknowledge, ledger
  <2>4. CASE (\E e \in Events : Deliver(e)) \/ ConfirmOrder
    BY <2>0, <2>4 DEF Deliver, ConfirmOrder, ledger
  <2> QED BY <2>1, <2>2, <2>3, <2>4 DEF WebhookStep, Handle
<1> QED BY <1>1, <1>2, <1>3 DEF Typed

LEMMA OtherStepsTyped ==
  ASSUME Typed, PageStep \/ RunGrace \/ RowsStep \/ Die, Next
  PROVE  Typed'
<1>1. RowsTypeOK'
  BY RowsKeep DEF Typed
<1>2. CASE PageStep
  <2>1. PICK a \in Attempts : PayHostedPage(a) \/ DeclineHostedPage(a)
    BY <1>2 DEF PageStep
  <2>2. intent' \in [Attempts -> IntentStates] /\ sent \subseteq sent' /\ sent' \subseteq Events
    BY <2>1 DEF PayHostedPage, DeclineHostedPage, Emit, Events, Typed, IntentStates
  <2>3. UNCHANGED <<payment, disowned, processed, opener, delivery, grace, troubles>>
    BY <2>1 DEF PayHostedPage, DeclineHostedPage, ledger
  <2> QED BY <1>1, <2>2, <2>3 DEF Typed, DeliverySound
<1>3. CASE RunGrace \/ RowsStep
  <2>1. UNCHANGED <<payment, disowned, intent, sent, processed, opener, delivery, troubles>>
    BY <1>3 DEF RunGrace, StartGrace, ReadForGrace, CancelUnpaid, FinishGrace, RowsStep, ConfirmDeposit,
       FlagOrResolve, Requeue, Administer, ledger, provider
  <2>2. grace' \in {"idle", "read", "cancel", "done", "threw"}
    BY <1>3 DEF RunGrace, StartGrace, ReadForGrace, CancelUnpaid, FinishGrace, RowsStep, ConfirmDeposit,
       FlagOrResolve, Requeue, Administer, Typed
  <2> QED BY <1>1, <2>1, <2>2 DEF Typed, DeliverySound
<1>4. CASE Die
  <2>1. UNCHANGED <<payment, disowned, intent, sent, processed>> /\ troubles' \in 0 .. MaxTroubles
    BY <1>4, BalanceAssumption DEF Die, ledger, provider, Typed
  <2>2. opener' \in [Openers -> OpenerRow]
    <3>1. CASE \E o \in Openers : End(o, "idle")
      BY <3>1, EndGoes DEF OpenerSteps
    <3>2. CASE UNCHANGED opener
      BY <3>2 DEF Typed
    <3> QED BY <1>4, <3>1, <3>2 DEF Die
  <2>3. delivery' \in DeliveryRow /\ DeliverySound'
    <3>1. CASE delivery' = IdleDelivery
      BY <3>1 DEF IdleDelivery, DeliveryRow, DeliverySound
    <3>2. CASE UNCHANGED delivery
      BY <2>1, <3>2 DEF Typed, DeliverySound
    <3> QED BY <1>4, <3>1, <3>2 DEF Die
  <2>4. grace' \in {"idle", "read", "cancel", "done", "threw"}
    BY <1>4 DEF Die, Typed
  <2> QED BY <1>1, <2>1, <2>2, <2>3, <2>4 DEF Typed
<1> QED BY <1>2, <1>3, <1>4

-----------------------------------------------------------------------------
(* What was opened, captured or refused stays so.                          *)

LEMMA NamedWasOpened ==
  ASSUME Typed, AttemptsSound, delivery.pc # "idle"
  PROVE  /\ PaidBy \in Opened
         /\ delivery.pc \in {"mark", "branch"} => PaidBy \in Captured
         /\ delivery.pc = "fail" => intent[PaidBy] \in Unpaid
<1>1. EventOf \in sent /\ PaidBy \in Attempts /\ PaidBy = EventOf.attempt
  BY NamedByDelivery DEF PaidBy
<1>2. EventOf \in Events /\ EventOf.kind \in {"succeeded", "failed"}
  BY <1>1 DEF Typed, Events
<1>3. /\ EventOf.kind = "succeeded" => PaidBy \in Captured
      /\ EventOf.kind = "failed" => intent[PaidBy] \in Unpaid
  BY <1>1 DEF AttemptsSound
<1>4. intent[PaidBy] # "none"
  BY <1>2, <1>3 DEF Captured, Unpaid
<1>5. PaidBy \in Opened
  BY <1>1, <1>4 DEF AttemptsSound
<1> QED BY <1>3, <1>5, NamedByDelivery

LEMMA IntentsAdvance ==
  ASSUME Typed, AttemptsSound, Next, NEW a \in Attempts
  PROVE  /\ intent[a] \in Unpaid => intent'[a] \in Unpaid
         /\ a \in Captured => a \in Captured'
         /\ intent'[a] # "none" => a \in Opened
         /\ intent[a] \in {"declined", "charged"} => intent'[a] = intent[a]
         /\ intent'[a] \in {"hosted", "paid"} =>
              intent[a] \in {"hosted", "paid"} \/ opener["customer"].pc = "provider"
<1>1. intent \in [Attempts -> IntentStates] /\ (intent[a] # "none" => a \in Opened)
  BY DEF Typed, AttemptsSound
<1>2. CASE \E c \in Chargers : ChargeOffSession(c)
  <2>1. PICK c \in Chargers : ChargeOffSession(c)
    BY <1>2
  <2>2. c \in Openers /\ opener[c].attempt \in Opened
    BY <2>1, OpenersAttempt DEF ChargeOffSession, At, Openers
  <2>3. PICK answer \in {"charged", "declined"} :
          intent[opener[c].attempt] = "none" /\ intent' = [intent EXCEPT ![opener[c].attempt] = answer]
    BY <2>1 DEF ChargeOffSession
  <2> QED BY <1>1, <2>2, <2>3 DEF Captured, Unpaid
<1>3. CASE OpenHostedPage
  <2>1. "customer" \in Openers /\ opener["customer"].attempt \in Opened /\ opener["customer"].pc = "provider"
    BY <1>3, OpenersAttempt DEF OpenHostedPage, At, Openers
  <2>2. intent' = [intent EXCEPT ![opener["customer"].attempt] = IF @ = "none" THEN "hosted" ELSE @]
    BY <1>3 DEF OpenHostedPage
  <2> QED BY <1>1, <2>1, <2>2 DEF Captured, Unpaid
<1>4. CASE PageStep
  BY <1>1, <1>4 DEF PageStep, PayHostedPage, DeclineHostedPage, Captured, Unpaid
<1>5. CASE ~(OpenHostedPage \/ PageStep \/ \E c \in Chargers : ChargeOffSession(c))
  <2>1. UNCHANGED intent
    <3>1. CASE \E o \in Openers : OpenerStep(o)
      BY <1>5, <3>1 DEF OpenerStep, Charge, StartJob, ReadForJob, FinishJob, PressRetry, LoadOrder, CheckSettled,
         BeginCharge, FindCard, AdoptCharge, MarkTaken, MarkDeclined, ConfirmCaptured,
         HandOffToLink, PickAttempt, OpenAttempt, OpenLink, provider
    <3>2. CASE WebhookStep
      BY <3>2, WebhookElsewhere
    <3>3. CASE RunGrace \/ RowsStep \/ Die
      BY <3>3 DEF RunGrace, StartGrace, ReadForGrace, CancelUnpaid, FinishGrace, RowsStep, ConfirmDeposit,
         FlagOrResolve, Requeue, Administer, Die, provider
    <3> QED BY <1>5, <3>1, <3>2, <3>3, NextByActor
  <2> QED BY <1>1, <2>1 DEF Captured
<1> QED BY <1>2, <1>3, <1>4, <1>5

\* Payments are opened in turn, and only an opened one is marked.
Marks(a, status) == payment' = [payment EXCEPT ![a] = status]

LEMMA PaymentsMove ==
  ASSUME Typed, AttemptsSound, Next
  PROVE  \/ UNCHANGED payment
         \/ (\E o \in Openers : OpenAttempt(o)) /\ Marks(Latest + 1, "pending") /\ Latest < MaxAttempts
         \/ \E a \in Opened, status \in {"succeeded", "failed", "refunded"} : Marks(a, status)
<1>1. CASE \E o \in Openers : OpenerStep(o)
  <2>1. PICK o \in Openers : OpenerStep(o)
    BY <1>1
  <2>2. CASE MarkTaken(o) \/ MarkDeclined(o)
    BY <2>2, OpenersAttempt DEF MarkTaken, MarkDeclined, CloseAttempt, At, Marks
  <2>3. CASE OpenAttempt(o)
    BY <2>3 DEF OpenAttempt, Marks
  <2>4. CASE ~(MarkTaken(o) \/ MarkDeclined(o) \/ OpenAttempt(o))
    BY <2>1, <2>4 DEF OpenerStep, Charge, StartJob, ReadForJob, FinishJob, PressRetry, LoadOrder, CheckSettled,
         BeginCharge, FindCard, ChargeOffSession, AdoptCharge, ConfirmCaptured,
         HandOffToLink, PickAttempt, OpenLink, OpenHostedPage, ledger
  <2> QED BY <2>2, <2>3, <2>4
<1>2. CASE WebhookStep
  BY <1>2, NamedWasOpened DEF WebhookStep, Deliver, Handle, MarkPaymentFailed, MarkPaymentSucceeded,
     ConfirmOrder, RefundLateCapture, Acknowledge, DeliveryStep, CloseAttempt, ledger, Marks
<1>3. CASE PageStep \/ RunGrace \/ RowsStep \/ Die
  BY <1>3 DEF PageStep, PayHostedPage, DeclineHostedPage, RunGrace, StartGrace, ReadForGrace,
     CancelUnpaid, FinishGrace, RowsStep, ConfirmDeposit, FlagOrResolve, Requeue, Administer, Die, ledger
<1> QED BY <1>1, <1>2, <1>3, NextByActor

LEMMA OpenedAdvances ==
  ASSUME Typed, AttemptsSound, Next
  PROVE  /\ Opened \subseteq Opened' /\ Opened' = 1 .. Latest'
         /\ \/ Opened' = Opened /\ Latest' = Latest
            \/ /\ \E o \in Openers : OpenAttempt(o)
               /\ Latest' = Latest + 1 /\ Opened' = Opened \cup {Latest + 1}
               /\ \A a \in Opened : payment'[a] = payment[a]
<1>1. payment \in [Attempts -> PaymentStates] /\ Opened = 1 .. Latest /\ Latest \in Nat
  BY LatestCounts DEF Typed, AttemptsSound
<1>2. CASE UNCHANGED payment
  BY <1>1, <1>2 DEF Opened, Latest
<1>3. CASE \E a \in Opened, status \in {"succeeded", "failed", "refunded"} : Marks(a, status)
  <2>1. Opened' = Opened
    BY <1>1, <1>3 DEF Opened, Marks
  <2> QED BY <1>1, <2>1 DEF Latest
<1>4. CASE (\E o \in Openers : OpenAttempt(o)) /\ Marks(Latest + 1, "pending") /\ Latest < MaxAttempts
  <2>1. Latest + 1 \in Attempts
    BY <1>1, <1>4, BalanceAssumption DEF Attempts
  <2>2. Opened' = Opened \cup {Latest + 1}
    BY <1>1, <1>4, <2>1 DEF Opened, Marks
  <2>3. Opened' = 1 .. Latest + 1
    BY <1>1, <2>2
  <2>4. Latest' = Latest + 1
    BY <1>1, <2>3, FS_Interval DEF Latest
  <2>5. \A a \in Opened : payment'[a] = payment[a]
    <3>1. Latest + 1 \notin Opened /\ Opened \subseteq Attempts
      BY <1>1 DEF Opened
    <3> QED BY <1>1, <1>4, <3>1 DEF Marks
  <2> QED BY <1>4, <2>2, <2>3, <2>4, <2>5
<1> QED BY <1>2, <1>3, <1>4, PaymentsMove

\* A caller's attempt after its own step, and everybody else's after any step.
LEMMA OpenerSoundKept ==
  ASSUME Typed, AttemptsSound, Next, NEW p \in Openers, opener'[p] = opener[p]
  PROVE  OpenerSound(p)'
<1>1. OpenerSound(p) /\ Opened \subseteq Opened' /\ Opened \subseteq Attempts
  BY OpenedAdvances DEF AttemptsSound, Opened
<1>2. Captured # {} => Captured' # {}
  BY IntentsAdvance DEF Captured
<1> QED BY <1>1, <1>2, IntentsAdvance DEF OpenerSound

LEMMA OpenerSoundAfter ==
  ASSUME Typed, AttemptsSound, Next, NEW o \in Openers, OpenerStep(o)
  PROVE  OpenerSound(o)'
<1>0. /\ opener \in [Openers -> OpenerRow] /\ intent \in [Attempts -> IntentStates]
      /\ opener[o].attempt \in {0} \cup Opened /\ Opened \subseteq Opened' /\ Opened \subseteq Attempts
  BY OpenedAdvances DEF Typed, AttemptsSound, OpenerSound, Opened
<1>1. ASSUME opener'[o].attempt \in {0} \cup Opened',
             opener'[o].pc \notin {"provider", "taken", "declined", "confirm"}
      PROVE  OpenerSound(o)'
  BY <1>1 DEF OpenerSound
<1>2. ASSUME NEW pc \in OpenerSteps \ {"provider", "taken", "declined", "confirm"},
             GoTo(o, pc) \/ End(o, pc)
      PROVE  OpenerSound(o)'
  BY <1>0, <1>1, <1>2, GoToGoes, EndGoes
<1>3. CASE o = "job" /\ (StartJob \/ ReadForJob)
  BY <1>2, <1>3 DEF StartJob, ReadForJob, OpenerSteps
<1>4. CASE (o = "job" /\ FinishJob) \/ (o = "customer" /\ OpenHostedPage)
  BY <1>1, <1>4, RestGoes DEF FinishJob, OpenHostedPage
<1>5. CASE o \in Presses /\ PressRetry(o)
  BY <1>2, <1>5 DEF PressRetry, OpenerSteps
<1>6. CASE LoadOrder(o)
  <2>1. opener'[o].pc = "check" /\ opener'[o].attempt = opener[o].attempt
    BY <1>0, <1>6 DEF LoadOrder, OpenerRow
  <2> QED BY <1>0, <1>1, <2>1
<1>7. CASE CheckSettled(o) \/ FindCard(o) \/ BeginCharge(o) \/ HandOffToLink(o)
  BY <1>2, <1>7 DEF CheckSettled, ByState, FindCard, BeginCharge, HandOffToLink, TryMove, OpenerSteps
<1>8. CASE ChargeOffSession(o)
  <2>1. opener[o].attempt \in Opened /\ opener[o].attempt \in Attempts
    BY <1>8, OpenersAttempt DEF ChargeOffSession, At
  <2>2. PICK taken \in BOOLEAN :
          /\ intent' = [intent EXCEPT ![opener[o].attempt] = IF taken THEN "charged" ELSE "declined"]
          /\ GoTo(o, IF taken THEN "taken" ELSE "declined") \/ End(o, "threw")
    BY <1>8 DEF ChargeOffSession, Answered
  <2>3. intent'[opener[o].attempt] = IF taken THEN "charged" ELSE "declined"
    BY <1>0, <2>1, <2>2
  <2>4. CASE GoTo(o, IF taken THEN "taken" ELSE "declined")
    <3>1. /\ opener'[o].pc = (IF taken THEN "taken" ELSE "declined")
          /\ opener'[o].attempt = opener[o].attempt
      BY <2>4, GoToGoes DEF OpenerSteps
    <3> QED BY <1>0, <2>1, <2>3, <3>1 DEF OpenerSound, Captured, Unpaid
  <2>5. CASE End(o, "threw")
    BY <1>2, <2>5 DEF OpenerSteps
  <2> QED BY <2>2, <2>4, <2>5
<1>9. CASE AdoptCharge(o)
  <2>1. opener[o].attempt \in Opened /\ opener[o].attempt \in Attempts
    BY <1>9, OpenersAttempt DEF AdoptCharge, At
  <2>2. /\ intent[opener[o].attempt] # "none" /\ UNCHANGED intent
        /\ \/ GoTo(o, IF opener[o].attempt \in Captured THEN "taken" ELSE "declined")
           \/ End(o, "threw")
    BY <1>9 DEF AdoptCharge, Answered, provider
  <2>3. CASE End(o, "threw")
    BY <1>2, <2>3 DEF OpenerSteps
  <2>4. CASE GoTo(o, IF opener[o].attempt \in Captured THEN "taken" ELSE "declined")
    <3>1. /\ opener'[o].pc = (IF opener[o].attempt \in Captured THEN "taken" ELSE "declined")
          /\ opener'[o].attempt = opener[o].attempt
      BY <2>4, GoToGoes DEF OpenerSteps
    <3> QED BY <1>0, <2>1, <2>2, <3>1 DEF OpenerSound, Captured, Unpaid, IntentStates
  <2> QED BY <2>2, <2>3, <2>4
<1>10. CASE MarkTaken(o)
  <2>1. opener[o].attempt \in Captured /\ End(o, "confirm") /\ UNCHANGED intent
    BY <1>10 DEF MarkTaken, At, AttemptsSound, OpenerSound, provider
  <2>2. opener'[o].pc = "confirm" /\ opener'[o].attempt = 0
    BY <2>1, EndGoes DEF OpenerSteps
  <2> QED BY <2>1, <2>2 DEF OpenerSound, Captured
<1>11. CASE MarkDeclined(o)
  <2>1. opener'[o].pc = "handoff" /\ opener'[o].attempt = 0
    BY <1>0, <1>11 DEF MarkDeclined, OpenerRow
  <2> QED BY <1>1, <2>1
<1>12. CASE ConfirmCaptured(o)
  BY <1>2, <1>12 DEF ConfirmCaptured, TryMove, OpenerSteps
<1>13. CASE PickAttempt(o)
  <2>1. CASE Latest # 0 /\ payment[Latest] = "pending"
    <3>1. Latest \in Opened
      BY <2>1, LatestCounts DEF AttemptsSound
    <3>2. opener'[o].pc = "provider" /\ opener'[o].attempt = Latest
      BY <1>0, <1>13, <2>1 DEF PickAttempt, OpenerRow
    <3> QED BY <1>0, <3>1, <3>2 DEF OpenerSound
  <2>2. CASE ~(Latest # 0 /\ payment[Latest] = "pending")
    <3>1. opener'[o].pc = "open" /\ opener'[o].attempt = 0
      BY <1>0, <1>13, <2>2 DEF PickAttempt, OpenerRow
    <3> QED BY <1>1, <3>1
  <2> QED BY <2>1, <2>2
<1>14. CASE OpenAttempt(o)
  <2>1. opener'[o].pc = "provider" /\ opener'[o].attempt = Latest + 1
    BY <1>0, <1>14 DEF OpenAttempt, OpenerRow
  <2>2. Latest + 1 \in Opened'
    <3>1. Latest + 1 \in Attempts
      BY <1>14, LatestCounts, BalanceAssumption DEF OpenAttempt, Attempts
    <3>2. payment'[Latest + 1] = "pending"
      BY <1>14, <3>1 DEF OpenAttempt, Typed
    <3> QED BY <3>1, <3>2 DEF Opened
  <2> QED BY <2>1, <2>2 DEF OpenerSound
<1>15. CASE o = "customer" /\ OpenLink
  BY <1>2, <1>15 DEF OpenLink, OpenerSteps
<1> QED BY <1>3, <1>4, <1>5, <1>6, <1>7, <1>8, <1>9, <1>10, <1>11, <1>12, <1>13, <1>14, <1>15
        DEF OpenerStep, Charge

LEMMA AttemptsInductive ==
  ASSUME Typed, AttemptsSound, Next
  PROVE  AttemptsSound'
<1>1. Opened' = 1 .. Latest' /\ Opened \subseteq Opened'
  BY OpenedAdvances
<1>2. \A a \in Attempts : intent'[a] # "none" => a \in Opened'
  BY <1>1, IntentsAdvance
<1>3. disowned' \subseteq Opened'
  <2>1. disowned' \subseteq Opened
    <3>1. CASE \E o \in Openers : OpenerStep(o)
      <4>1. PICK o \in Openers : OpenerStep(o)
        BY <3>1
      <4>2. CASE MarkDeclined(o)
        BY <4>2, OpenersAttempt DEF MarkDeclined, CloseAttempt, At, AttemptsSound
      <4>3. CASE ~MarkDeclined(o)
        BY <4>1, <4>3 DEF OpenerStep, Charge, StartJob, ReadForJob, FinishJob, PressRetry, LoadOrder,
           CheckSettled, BeginCharge, FindCard, ChargeOffSession, AdoptCharge, MarkTaken, ConfirmCaptured,
           HandOffToLink, PickAttempt, OpenAttempt, OpenLink, OpenHostedPage, ledger, AttemptsSound
      <4> QED BY <4>2, <4>3
    <3>2. CASE WebhookStep
      BY <3>2, NamedWasOpened DEF WebhookStep, Deliver, Handle, MarkPaymentFailed, MarkPaymentSucceeded,
         ConfirmOrder, RefundLateCapture, Acknowledge, DeliveryStep, CloseAttempt, ledger, AttemptsSound
    <3>3. CASE PageStep \/ RunGrace \/ RowsStep \/ Die
      BY <3>3 DEF PageStep, PayHostedPage, DeclineHostedPage, RunGrace, StartGrace, ReadForGrace,
         CancelUnpaid, FinishGrace, RowsStep, ConfirmDeposit, FlagOrResolve, Requeue, Administer, Die,
         ledger, AttemptsSound
    <3> QED BY <3>1, <3>2, <3>3, NextByActor
  <2> QED BY <1>1, <2>1
<1>4. ASSUME NEW e \in sent'
      PROVE  /\ e.kind = "succeeded" => e.attempt \in Captured'
             /\ e.kind = "failed" => intent'[e.attempt] \in Unpaid
  <2>1. CASE e \in sent
    <3>1. e.attempt \in Attempts
      BY <2>1 DEF Typed, Events
    <3> QED BY <2>1, <3>1, IntentsAdvance DEF AttemptsSound
  <2>2. CASE e \notin sent
    <3>0. intent \in [Attempts -> IntentStates]
      BY DEF Typed
    <3>1. CASE \E c \in Chargers : ChargeOffSession(c)
      <4>1. PICK c \in Chargers : ChargeOffSession(c)
        BY <3>1
      <4>2. opener[c].attempt \in Attempts
        BY <4>1, OpenersAttempt DEF ChargeOffSession, At, Openers
      <4>3. PICK taken \in BOOLEAN :
              /\ intent' = [intent EXCEPT ![opener[c].attempt] = IF taken THEN "charged" ELSE "declined"]
              /\ Emit(IF taken THEN "succeeded" ELSE "failed", opener[c].attempt)
        BY <4>1 DEF ChargeOffSession
      <4>4. e = [kind |-> IF taken THEN "succeeded" ELSE "failed", attempt |-> opener[c].attempt]
        BY <1>4, <2>2, <4>3 DEF Emit
      <4>5. intent'[opener[c].attempt] = IF taken THEN "charged" ELSE "declined"
        BY <3>0, <4>2, <4>3
      <4>6. e.attempt = opener[c].attempt /\ e.kind = IF taken THEN "succeeded" ELSE "failed"
        BY <4>4
      <4> QED BY <4>2, <4>5, <4>6 DEF Captured, Unpaid
    <3>2. CASE PageStep
      BY <1>4, <2>2, <3>0, <3>2 DEF PageStep, PayHostedPage, DeclineHostedPage, Emit, Captured, Unpaid
    <3>3. CASE ~(PageStep \/ \E c \in Chargers : ChargeOffSession(c))
      <4>1. UNCHANGED sent
        <5>1. CASE \E o \in Openers : OpenerStep(o)
          BY <3>3, <5>1 DEF OpenerStep, Charge, StartJob, ReadForJob, FinishJob, PressRetry, LoadOrder,
             CheckSettled, BeginCharge, FindCard, AdoptCharge, MarkTaken, MarkDeclined, ConfirmCaptured,
             HandOffToLink, PickAttempt, OpenAttempt, OpenLink, OpenHostedPage, provider
        <5>2. CASE WebhookStep
          BY <5>2, WebhookElsewhere
        <5>3. CASE RunGrace \/ RowsStep \/ Die
          BY <5>3 DEF RunGrace, StartGrace, ReadForGrace, CancelUnpaid, FinishGrace, RowsStep,
             ConfirmDeposit, FlagOrResolve, Requeue, Administer, Die, provider
        <5> QED BY <3>3, <5>1, <5>2, <5>3, NextByActor
      <4> QED BY <1>4, <2>2, <4>1
    <3> QED BY <3>1, <3>2, <3>3
  <2> QED BY <2>1, <2>2
<1>5. ASSUME NEW p \in Openers
      PROVE  OpenerSound(p)'
  <2>1. CASE \E o \in Openers : OpenerStep(o)
    <3>1. PICK o \in Openers : OpenerStep(o)
      BY <2>1
    <3>2. p = o \/ opener'[p] = opener[p]
      BY <3>1, OpenerTyped DEF Others
    <3> QED BY <3>1, <3>2, OpenerSoundKept, OpenerSoundAfter
  <2>2. CASE Die
    <3>1. opener'[p] = opener[p] \/ (opener'[p].pc = "idle" /\ opener'[p].attempt = 0)
      BY <2>2, EndGoes DEF Die, OpenerSteps, Others
    <3> QED BY <3>1, OpenerSoundKept DEF OpenerSound
  <2>3. CASE PageStep \/ WebhookStep \/ RunGrace \/ RowsStep
    <3>1. UNCHANGED opener
      BY <2>3, WebhookElsewhere DEF PageStep, PayHostedPage, DeclineHostedPage, RunGrace, StartGrace,
         ReadForGrace, CancelUnpaid, FinishGrace, RowsStep, ConfirmDeposit, FlagOrResolve, Requeue, Administer
    <3> QED BY <3>1, OpenerSoundKept
  <2> QED BY <2>1, <2>2, <2>3, NextByActor
<1> QED BY <1>1, <1>2, <1>3, <1>4, <1>5 DEF AttemptsSound

-----------------------------------------------------------------------------
(* Runners, links and answers.                                             *)

\* A caller knows of the order what it read of it, and starts in three ways.
LEMMA OpenerGoesOn ==
  ASSUME Typed, NEW o \in Openers, OpenerStep(o)
  PROVE  /\ opener'[o].saw \in {opener[o].saw, "none", state}
         /\ \/ opener[o].pc # "idle"
            \/ o = "job" /\ StartJob
            \/ o \in Presses
            \/ o = "customer" /\ link = "payable"
<1> USE DEF OpenerSteps
<1>0. opener \in [Openers -> OpenerRow]
  BY DEF Typed
<1>1. ASSUME NEW pc \in OpenerSteps, GoTo(o, pc) \/ End(o, pc)
      PROVE  opener'[o].saw \in {opener[o].saw, "none"}
  BY <1>1, GoToGoes, EndGoes
<1>2. opener'[o].saw \in {opener[o].saw, "none", state}
  <2>1. CASE o = "job" /\ (StartJob \/ ReadForJob)
    BY <1>1, <2>1 DEF StartJob, ReadForJob
  <2>2. CASE (o = "job" /\ FinishJob) \/ (o = "customer" /\ OpenHostedPage)
    BY <2>2, RestGoes DEF FinishJob, OpenHostedPage
  <2>3. CASE o \in Presses /\ PressRetry(o)
    BY <1>1, <2>3 DEF PressRetry
  <2>4. CASE LoadOrder(o) \/ MarkDeclined(o) \/ PickAttempt(o) \/ OpenAttempt(o)
    BY <1>0, <2>4 DEF LoadOrder, MarkDeclined, PickAttempt, OpenAttempt, OpenerRow
  <2>5. CASE CheckSettled(o) \/ FindCard(o) \/ BeginCharge(o) \/ HandOffToLink(o) \/ ConfirmCaptured(o)
    BY <1>1, <2>5 DEF CheckSettled, ByState, FindCard, BeginCharge, HandOffToLink, ConfirmCaptured, TryMove
  <2>6. CASE ChargeOffSession(o) \/ AdoptCharge(o)
    <3>1. GoTo(o, "taken") \/ GoTo(o, "declined") \/ End(o, "threw")
      BY <2>6 DEF ChargeOffSession, AdoptCharge, Answered
    <3> QED BY <1>1, <3>1
  <2>7. CASE MarkTaken(o)
    BY <1>1, <2>7 DEF MarkTaken
  <2>8. CASE o = "customer" /\ OpenLink
    BY <1>1, <2>8 DEF OpenLink
  <2> QED BY <2>1, <2>2, <2>3, <2>4, <2>5, <2>6, <2>7, <2>8 DEF OpenerStep, Charge
<1>3. \/ opener[o].pc # "idle"
      \/ o = "job" /\ StartJob
      \/ o \in Presses
      \/ o = "customer" /\ link = "payable"
  BY DEF OpenerStep, Charge, StartJob, ReadForJob, FinishJob, PressRetry, LoadOrder, CheckSettled,
     BeginCharge, FindCard, ChargeOffSession, AdoptCharge, MarkTaken, MarkDeclined, ConfirmCaptured,
     HandOffToLink, PickAttempt, OpenAttempt, OpenLink, OpenHostedPage, At, Resting, JobOutcomes
<1> QED BY <1>2, <1>3

\* Only the callers' own steps move them.
LEMMA OpenersRest ==
  ASSUME Typed, PageStep \/ WebhookStep \/ RunGrace \/ RowsStep \/ Die, NEW p \in Openers
  PROVE  opener'[p] = opener[p] \/ (opener'[p].pc = "idle" /\ opener'[p].saw = "none")
<1>1. CASE Die
  BY <1>1, EndGoes DEF Die, OpenerSteps, Others
<1>2. CASE PageStep \/ WebhookStep \/ RunGrace \/ RowsStep
  BY <1>2, WebhookElsewhere DEF PageStep, PayHostedPage, DeclineHostedPage, RunGrace, StartGrace,
     ReadForGrace, CancelUnpaid, FinishGrace, RowsStep, ConfirmDeposit, FlagOrResolve, Requeue, Administer
<1> QED BY <1>1, <1>2

LEMMA RowsOwnedInductive ==
  ASSUME Typed, AttemptsSound, RowsOwned, Next
  PROVE  RowsOwned'
<1>0. /\ RowsTypeOK /\ job \in [JobTypes -> JobStatus]
      /\ "charge_balance" \in JobTypes /\ "balance_grace_expiry" \in JobTypes
      /\ "job" \in Openers /\ "job" \notin Presses
  BY BalanceAssumption DEF Typed, RowsTypeOK, JobTypes, Openers, Chargers
<1> DEFINE Runs(type) == job[type] = "running" => job'[type] = "running"
<1>1. ASSUME \/ UNCHANGED rows
             \/ Relinks
             \/ \E to \in OrderStates, mintsLink \in BOOLEAN : MovesOrder(to, mintsLink)
      PROVE  Runs("charge_balance") /\ Runs("balance_grace_expiry")
  BY <1>0, <1>1, MoveTyped DEF rows, Relinks, MovesOrder
<1>2. ASSUME Runs("charge_balance") /\ Runs("balance_grace_expiry"),
             opener'["job"].pc # "idle" => opener["job"].pc # "idle",
             grace' # "idle" => grace # "idle"
      PROVE  RowsOwned'
  BY <1>2 DEF RowsOwned
<1>3. CASE \E o \in Openers : OpenerStep(o)
  <2>1. PICK o \in Openers : OpenerStep(o)
    BY <1>3
  <2>2. UNCHANGED grace /\ Others(o)
    BY <2>1, OpenerElsewhere, OpenerTyped
  <2>3. CASE o = "job" /\ (StartJob \/ FinishJob)
    <3>1. /\ StartJob => job'["charge_balance"] = "running"
          /\ job'["balance_grace_expiry"] = job["balance_grace_expiry"]
      BY <1>0, <2>3 DEF StartJob, FinishJob, ClaimRow, SetJob
    <3>2. FinishJob => opener'["job"].pc = "idle"
      BY <1>0, RestGoes DEF FinishJob
    <3> QED BY <2>2, <2>3, <3>1, <3>2 DEF RowsOwned
  <2>4. CASE ~(o = "job" /\ (StartJob \/ FinishJob))
    <3>1. \/ UNCHANGED rows
          \/ Relinks
          \/ \E to \in OrderStates, mintsLink \in BOOLEAN : MovesOrder(to, mintsLink)
      <4>1. CASE \/ (o = "job" /\ ReadForJob) \/ (o \in Presses /\ PressRetry(o))
                 \/ LoadOrder(o) \/ CheckSettled(o) \/ FindCard(o) \/ ChargeOffSession(o)
                 \/ AdoptCharge(o) \/ MarkTaken(o) \/ MarkDeclined(o) \/ PickAttempt(o) \/ OpenAttempt(o)
                 \/ o = "customer" /\ (OpenLink \/ OpenHostedPage)
        BY <4>1 DEF ReadForJob, PressRetry, LoadOrder, CheckSettled, FindCard, ChargeOffSession, AdoptCharge,
           MarkTaken, MarkDeclined, PickAttempt, OpenAttempt, OpenLink, OpenHostedPage
      <4>2. CASE BeginCharge(o) \/ ConfirmCaptured(o) \/ HandOffToLink(o)
        <5>1. \/ UNCHANGED rows \/ Relinks \/ MovesOrder("balance_due", FALSE)
              \/ MovesOrder("confirmed", FALSE) \/ MovesOrder("action_required", TRUE)
          BY <4>2 DEF BeginCharge, ConfirmCaptured, HandOffToLink, TryMove, MovesOrder, Relinks
        <5> QED BY <5>1 DEF OrderStates
      <4> QED BY <2>1, <2>4, <4>1, <4>2 DEF OpenerStep, Charge
    <3>2. opener'["job"].pc # "idle" => opener["job"].pc # "idle"
      <4>1. CASE o = "job"
        BY <1>0, <2>1, <2>4, <4>1, OpenerGoesOn
      <4>2. CASE o # "job"
        BY <1>0, <2>2, <4>2 DEF Others
      <4> QED BY <4>1, <4>2
    <3> QED BY <1>1, <1>2, <2>2, <3>1, <3>2
  <2> QED BY <2>3, <2>4
<1>4. CASE WebhookStep \/ PageStep
  <2>1. UNCHANGED grace /\ UNCHANGED opener
    BY <1>4, WebhookElsewhere DEF PageStep, PayHostedPage, DeclineHostedPage
  <2>2. UNCHANGED rows \/ MovesOrder("confirmed", FALSE)
    BY <1>4 DEF WebhookStep, Deliver, Handle, MarkPaymentFailed, MarkPaymentSucceeded, ConfirmOrder,
       RefundLateCapture, Acknowledge, Move, MovesOrder, PageStep, PayHostedPage, DeclineHostedPage
  <2>3. Runs("charge_balance") /\ Runs("balance_grace_expiry")
    BY <1>1, <2>2 DEF OrderStates
  <2> QED BY <1>2, <2>1, <2>3
<1>5. CASE RunGrace
  <2>1. UNCHANGED opener
    BY <1>5 DEF RunGrace, StartGrace, ReadForGrace, CancelUnpaid, FinishGrace
  <2>2. CASE StartGrace \/ FinishGrace
    <3>1. /\ job'["charge_balance"] = job["charge_balance"]
          /\ grace' # "idle" => job'["balance_grace_expiry"] = "running"
      BY <1>0, <2>2 DEF StartGrace, FinishGrace, ClaimRow, SetJob
    <3> QED BY <2>1, <3>1 DEF RowsOwned
  <2>3. CASE ReadForGrace \/ CancelUnpaid
    <3>1. grace # "idle" /\ (UNCHANGED rows \/ MovesOrder("cancelled", FALSE))
      BY <2>3 DEF ReadForGrace, CancelUnpaid, Move, MovesOrder
    <3>2. Runs("charge_balance") /\ Runs("balance_grace_expiry")
      BY <1>1, <3>1 DEF OrderStates
    <3> QED BY <1>2, <2>1, <3>1, <3>2
  <2> QED BY <1>5, <2>2, <2>3 DEF RunGrace
<1>6. CASE RowsStep
  <2>1. UNCHANGED <<opener, grace>>
    BY <1>6 DEF RowsStep, ConfirmDeposit, FlagOrResolve, Requeue, Administer
  <2>2. CASE Requeue
    <3>1. Runs("charge_balance") /\ Runs("balance_grace_expiry")
      BY <1>0, <2>2 DEF Requeue, Administer, RequeueRow, SetJob
    <3> QED BY <1>2, <2>1, <3>1
  <2>3. CASE ConfirmDeposit \/ FlagOrResolve
    <3>1. PICK to \in {"issue", "confirmed", "fulfilled", "cancelled"} : MovesOrder(to, FALSE)
      BY <2>3 DEF ConfirmDeposit, FlagOrResolve, Administer, Move, MovesOrder
    <3>2. Runs("charge_balance") /\ Runs("balance_grace_expiry")
      BY <1>1, <3>1 DEF OrderStates
    <3> QED BY <1>2, <2>1, <3>2
  <2> QED BY <1>6, <2>2, <2>3 DEF RowsStep
<1>7. CASE Die
  <2>1. UNCHANGED rows /\ (grace' # "idle" => grace # "idle")
    BY <1>7 DEF Die
  <2>2. opener'["job"].pc # "idle" => opener["job"].pc # "idle"
    BY <1>0, <1>7, OpenersRest
  <2> QED BY <1>1, <1>2, <2>1, <2>2
<1> QED BY <1>3, <1>4, <1>5, <1>6, <1>7, NextByActor

LEMMA LinkInductive ==
  ASSUME Typed, AttemptsSound, LinkSound, Next
  PROVE  LinkSound'
<1>1. /\ link # "none" => link' # "none"
      /\ state' = "action_required" => link' # "none"
  BY RowsKeep DEF Typed, LinkSound
<1>2. ASSUME NEW p \in Openers, opener'[p].saw = "action_required"
      PROVE  link' # "none"
  <2>1. CASE \E o \in Openers : OpenerStep(o)
    <3>1. PICK o \in Openers : OpenerStep(o)
      BY <2>1
    <3>2. CASE p = o
      BY <1>1, <1>2, <3>1, <3>2, OpenerGoesOn DEF LinkSound
    <3>3. CASE p # o
      BY <1>1, <1>2, <3>1, <3>3, OpenerTyped DEF LinkSound, Others
    <3> QED BY <3>2, <3>3
  <2>2. CASE PageStep \/ WebhookStep \/ RunGrace \/ RowsStep \/ Die
    BY <1>1, <1>2, <2>2, OpenersRest DEF LinkSound
  <2> QED BY <2>1, <2>2, NextByActor
<1>3. opener'["customer"].pc # "idle" => link' # "none"
  <2>0. "customer" \in Openers /\ "customer" \notin Presses
    BY BalanceAssumption DEF Openers
  <2>1. CASE \E o \in Openers : OpenerStep(o)
    <3>1. PICK o \in Openers : OpenerStep(o)
      BY <2>1
    <3>2. CASE o = "customer"
      BY <1>1, <2>0, <3>1, <3>2, OpenerGoesOn DEF LinkSound
    <3>3. CASE o # "customer"
      BY <1>1, <2>0, <3>1, <3>3, OpenerTyped DEF LinkSound, Others
    <3> QED BY <3>2, <3>3
  <2>2. CASE PageStep \/ WebhookStep \/ RunGrace \/ RowsStep \/ Die
    BY <1>1, <2>0, <2>2, OpenersRest DEF LinkSound
  <2> QED BY <2>1, <2>2, NextByActor
<1>4. \A a \in Attempts : intent'[a] \in {"hosted", "paid"} => link' # "none"
  BY <1>1, IntentsAdvance DEF LinkSound
<1> QED BY <1>1, <1>2, <1>3, <1>4 DEF LinkSound

\* Without a link no page was opened: a payment is marked as its charge went.
LEMMA MarksWithoutLink ==
  ASSUME Typed, AttemptsSound, LinkSound, AnswerSound, Next, link' = "none"
  PROVE  \A a \in Attempts :
           /\ payment'[a] \in {"succeeded", "refunded"} => intent'[a] = "charged"
           /\ payment[a] \in {"succeeded", "refunded"} => payment'[a] \in {"succeeded", "refunded"}
<1>1. link = "none"
  BY RowsKeep DEF Typed
<1>2. /\ payment \in [Attempts -> PaymentStates] /\ intent \in [Attempts -> IntentStates]
      /\ \A a \in Attempts : intent[a] \notin {"hosted", "paid"}
      /\ \A a \in Attempts : payment[a] \in {"succeeded", "refunded"} => intent[a] = "charged"
      /\ \A a \in Attempts : intent[a] = "charged" => intent'[a] = "charged"
  BY <1>1, IntentsAdvance DEF Typed, LinkSound, AnswerSound
<1>3. ASSUME NEW a \in Attempts, Marks(a, "failed"), intent[a] \in Unpaid
      PROVE  \A b \in Attempts :
               /\ payment'[b] \in {"succeeded", "refunded"} => intent'[b] = "charged"
               /\ payment[b] \in {"succeeded", "refunded"} => payment'[b] \in {"succeeded", "refunded"}
  <2>1. intent[a] = "declined" /\ payment[a] \notin {"succeeded", "refunded"}
    BY <1>2, <1>3 DEF Unpaid
  <2> QED BY <1>2, <1>3, <2>1 DEF Marks
<1>4. ASSUME NEW a \in Attempts, NEW status \in {"succeeded", "refunded"}, Marks(a, status), a \in Captured
      PROVE  \A b \in Attempts :
               /\ payment'[b] \in {"succeeded", "refunded"} => intent'[b] = "charged"
               /\ payment[b] \in {"succeeded", "refunded"} => payment'[b] \in {"succeeded", "refunded"}
  <2>1. intent[a] = "charged"
    BY <1>2, <1>4 DEF Captured
  <2> QED BY <1>2, <1>4, <2>1 DEF Marks
<1>5. CASE UNCHANGED payment
  BY <1>2, <1>5
<1>6. CASE \E o \in Openers : MarkTaken(o)
  <2>1. PICK o \in Openers : MarkTaken(o)
    BY <1>6
  <2>2. opener[o].attempt \in Attempts /\ opener[o].attempt \in Captured
    BY <2>1, OpenersAttempt DEF MarkTaken, At, AttemptsSound, OpenerSound
  <2> QED BY <1>4, <2>1, <2>2 DEF MarkTaken, Marks
<1>7. CASE \E o \in Openers : MarkDeclined(o)
  <2>1. PICK o \in Openers : MarkDeclined(o)
    BY <1>7
  <2>2. opener[o].attempt \in Attempts /\ intent[opener[o].attempt] \in Unpaid
    BY <2>1, OpenersAttempt DEF MarkDeclined, At, AttemptsSound, OpenerSound
  <2> QED BY <1>3, <2>1, <2>2 DEF MarkDeclined, CloseAttempt, Marks
<1>8. CASE \E o \in Openers : OpenAttempt(o)
  <2>1. Marks(Latest + 1, "pending")
    BY <1>8 DEF OpenAttempt, Marks
  <2>2. Latest + 1 \notin Opened
    BY LatestCounts DEF AttemptsSound
  <2>3. \A b \in Attempts : b = Latest + 1 => payment[b] = "none"
    BY <2>2 DEF Opened
  <2> QED BY <1>2, <2>1, <2>3 DEF Marks
<1>9. CASE MarkPaymentFailed
  BY <1>3, <1>9, NamedWasOpened DEF MarkPaymentFailed, CloseAttempt, DeliveryStep, Marks, Opened
<1>10. CASE MarkPaymentSucceeded \/ RefundLateCapture
  BY <1>4, <1>10, NamedWasOpened DEF MarkPaymentSucceeded, RefundLateCapture, DeliveryStep, Marks, Opened
<1>11. \/ UNCHANGED payment
       \/ \E o \in Openers : MarkTaken(o) \/ MarkDeclined(o) \/ OpenAttempt(o)
       \/ MarkPaymentFailed \/ MarkPaymentSucceeded \/ RefundLateCapture
  <2>1. ASSUME NEW o \in Openers, OpenerStep(o)
        PROVE  UNCHANGED payment \/ MarkTaken(o) \/ MarkDeclined(o) \/ OpenAttempt(o)
    BY <2>1 DEF OpenerStep, Charge, StartJob, ReadForJob, FinishJob, PressRetry, LoadOrder, CheckSettled,
         BeginCharge, FindCard, ChargeOffSession, AdoptCharge, ConfirmCaptured,
         HandOffToLink, PickAttempt, OpenLink, OpenHostedPage, ledger
  <2>2. CASE WebhookStep
    BY <2>2 DEF WebhookStep, Handle, Deliver, ConfirmOrder, Acknowledge, ledger
  <2>3. CASE PageStep \/ RunGrace \/ RowsStep \/ Die
    BY <2>3 DEF PageStep, PayHostedPage, DeclineHostedPage, RunGrace, StartGrace, ReadForGrace,
     CancelUnpaid, FinishGrace, RowsStep, ConfirmDeposit, FlagOrResolve, Requeue, Administer, Die, ledger
  <2> QED BY <2>1, <2>2, <2>3, NextByActor
<1> QED BY <1>5, <1>6, <1>7, <1>8, <1>9, <1>10, <1>11

LEMMA AnswerStays ==
  ASSUME Typed, AttemptsSound, LinkSound, AnswerSound, Next
  PROVE  /\ link # "none" \/ Booked => link' # "none" \/ Booked'
         /\ Answer => Answer'
<1>1. Booked => link' # "none" \/ Booked'
  BY MarksWithoutLink DEF Booked
<1>2. /\ link # "none" => link' # "none"
      /\ IsTerminal(state) => IsTerminal(state')
  BY RowsKeep DEF Typed
<1> QED BY <1>1, <1>2 DEF Answer

\* What the job's caller reports has come to something by then.
LEMMA JobAnswers ==
  ASSUME Typed, AttemptsSound, LinkSound, AnswerSound, Next, OpenerStep("job")
  PROVE  /\ opener'["job"].pc = "confirm" => link' # "none" \/ Booked'
         /\ opener'["job"].pc = "answered" => Answer'
<1> USE DEF OpenerSteps
<1>0. /\ "job" \in Openers /\ "job" \notin Presses /\ opener \in [Openers -> OpenerRow]
      /\ payment \in [Attempts -> PaymentStates]
  BY BalanceAssumption DEF Typed, Openers, Chargers
<1>1. ASSUME opener'["job"].pc \notin {"confirm", "answered"}
      PROVE  /\ opener'["job"].pc = "confirm" => link' # "none" \/ Booked'
             /\ opener'["job"].pc = "answered" => Answer'
  BY <1>1
<1>2. ASSUME NEW pc \in OpenerSteps \ {"confirm", "answered"}, GoTo("job", pc) \/ End("job", pc)
      PROVE  opener'["job"].pc \notin {"confirm", "answered"}
  BY <1>0, <1>2, GoToGoes, EndGoes
<1>3. ASSUME GoTo("job", "answered") \/ End("job", "answered"), Answer'
      PROVE  /\ opener'["job"].pc = "confirm" => link' # "none" \/ Booked'
             /\ opener'["job"].pc = "answered" => Answer'
  <2>1. opener'["job"].pc = "answered"
    BY <1>0, <1>3, GoToGoes, EndGoes
  <2> QED BY <1>3, <2>1
<1>4. CASE StartJob
  BY <1>1, <1>2, <1>4 DEF StartJob
<1>5. CASE FinishJob
  BY <1>0, <1>1, <1>5, RestGoes DEF FinishJob
<1>6. CASE ReadForJob
  <2>1. CASE IsTerminal(state)
    <3>1. GoTo("job", "answered")
      BY <1>6, <2>1 DEF ReadForJob
    <3>2. Answer'
      BY <2>1, AnswerStays DEF Answer
    <3> QED BY <1>3, <3>1, <3>2
  <2>2. CASE ~IsTerminal(state)
    <3>1. GoTo("job", "load")
      BY <1>6, <2>2 DEF ReadForJob
    <3> QED BY <1>1, <1>2, <3>1
  <2> QED BY <2>1, <2>2
<1>7. CASE LoadOrder("job") \/ MarkDeclined("job") \/ PickAttempt("job") \/ OpenAttempt("job")
  BY <1>0, <1>1, <1>7 DEF LoadOrder, MarkDeclined, PickAttempt, OpenAttempt, OpenerRow
<1>8. CASE CheckSettled("job")
  <2>1. CASE Settled /\ End("job", "answered")
    <3>1. Answer'
      BY <2>1, AnswerStays DEF Answer, Settled, Booked
    <3> QED BY <1>3, <2>1, <3>1
  <2>2. CASE ByState("job")
    BY <1>1, <1>2, <2>2 DEF ByState
  <2> QED BY <1>8, <2>1, <2>2 DEF CheckSettled
<1>9. CASE BeginCharge("job") \/ FindCard("job")
  BY <1>1, <1>2, <1>9 DEF BeginCharge, FindCard, TryMove
<1>10. CASE ChargeOffSession("job") \/ AdoptCharge("job")
  <2>1. GoTo("job", "taken") \/ GoTo("job", "declined") \/ End("job", "threw")
    BY <1>10 DEF ChargeOffSession, AdoptCharge, Answered
  <2> QED BY <1>1, <1>2, <2>1
<1>11. CASE MarkTaken("job")
  <2>1. opener["job"].attempt \in Attempts
    BY <1>0, <1>11, OpenersAttempt DEF MarkTaken, At
  <2>2. payment'[opener["job"].attempt] = "succeeded"
    BY <1>0, <1>11, <2>1 DEF MarkTaken
  <2>3. Booked' /\ End("job", "confirm")
    BY <1>11, <2>1, <2>2 DEF Booked, MarkTaken
  <2>4. opener'["job"].pc = "confirm"
    BY <1>0, <2>3, EndGoes
  <2> QED BY <2>3, <2>4
<1>12. CASE ConfirmCaptured("job")
  <2>1. link # "none" \/ Booked
    BY <1>12 DEF ConfirmCaptured, At, AnswerSound
  <2>2. Answer'
    BY <2>1, AnswerStays DEF Answer
  <2>3. End("job", "answered") \/ End("job", "refused")
    BY <1>12 DEF ConfirmCaptured, TryMove
  <2> QED BY <1>1, <1>2, <1>3, <2>2, <2>3
<1>13. CASE HandOffToLink("job")
  <2>1. CASE End("job", "refused")
    BY <1>1, <1>2, <2>1
  <2>2. CASE link' = "payable" /\ End("job", "answered")
    BY <1>3, <2>2 DEF Answer
  <2>3. CASE ApplyTransition("action_required", TRUE) /\ End("job", "answered")
    <3>1. link' = "payable"
      BY <2>3 DEF ApplyTransition
    <3> QED BY <2>2, <2>3, <3>1
  <2> QED BY <1>13, <2>1, <2>2, <2>3 DEF HandOffToLink, TryMove
<1> QED BY <1>0, <1>4, <1>5, <1>6, <1>7, <1>8, <1>9, <1>10, <1>11, <1>12, <1>13 DEF OpenerStep, Charge

LEMMA AnswerInductive ==
  ASSUME Typed, AttemptsSound, LinkSound, AnswerSound, Next
  PROVE  AnswerSound'
<1>0. "job" \in Openers
  BY DEF Openers, Chargers
<1>1. link' = "none" =>
        \A a \in Attempts : payment'[a] \in {"succeeded", "refunded"} => intent'[a] = "charged"
  BY MarksWithoutLink
<1>2. /\ opener'["job"].pc = "confirm" => link' # "none" \/ Booked'
      /\ opener'["job"].pc = "answered" => Answer'
  <2>1. ASSUME opener'["job"] = opener["job"]
        PROVE  /\ opener'["job"].pc = "confirm" => link' # "none" \/ Booked'
               /\ opener'["job"].pc = "answered" => Answer'
    BY <2>1, AnswerStays DEF AnswerSound
  <2>2. CASE \E o \in Openers : OpenerStep(o)
    <3>1. PICK o \in Openers : OpenerStep(o)
      BY <2>2
    <3>2. o = "job" \/ opener'["job"] = opener["job"]
      BY <1>0, <3>1, OpenerTyped DEF Others
    <3> QED BY <2>1, <3>1, <3>2, JobAnswers
  <2>3. CASE PageStep \/ WebhookStep \/ RunGrace \/ RowsStep \/ Die
    BY <1>0, <2>1, <2>3, OpenersRest
  <2> QED BY <2>2, <2>3, NextByActor
<1>3. job'["charge_balance"] = "done" => Answer'
  <2>0. job \in [JobTypes -> JobStatus] /\ "charge_balance" \in JobTypes /\ RowsTypeOK
    BY DEF Typed, RowsTypeOK, JobTypes
  <2>1. ASSUME job'["charge_balance"] = "done" => job["charge_balance"] = "done" \/ IsTerminal(state')
        PROVE  job'["charge_balance"] = "done" => Answer'
    BY <2>1, AnswerStays DEF AnswerSound, Answer
  <2>2. CASE FinishJob
    <3>1. \E status \in JobOutcomes(opener["job"].pc) : job'["charge_balance"] = status
      BY <2>0, <2>2 DEF FinishJob, SetJob
    <3>2. job'["charge_balance"] = "done" => opener["job"].pc = "answered"
      BY <3>1 DEF JobOutcomes
    <3> QED BY <3>2, AnswerStays DEF AnswerSound
  <2>3. CASE StartJob \/ StartGrace \/ FinishGrace \/ Requeue
    <3>1. job'["charge_balance"] = "done" => job["charge_balance"] = "done"
      BY <2>0, <2>3 DEF StartJob, StartGrace, FinishGrace, Requeue, Administer, ClaimRow, RequeueRow, SetJob
    <3> QED BY <2>1, <3>1
  <2>4. CASE \/ UNCHANGED rows \/ Relinks
             \/ \E to \in OrderStates, mintsLink \in BOOLEAN : MovesOrder(to, mintsLink)
    BY <2>0, <2>1, <2>4, MoveTyped DEF rows, Relinks, MovesOrder
  <2>5. \/ FinishJob \/ StartJob \/ StartGrace \/ FinishGrace \/ Requeue
        \/ UNCHANGED rows \/ Relinks
        \/ \E to \in OrderStates, mintsLink \in BOOLEAN : MovesOrder(to, mintsLink)
    <3>1. ASSUME NEW o \in Openers, OpenerStep(o), ~FinishJob, ~StartJob
          PROVE  \/ UNCHANGED rows \/ Relinks
                 \/ \E to \in OrderStates, mintsLink \in BOOLEAN : MovesOrder(to, mintsLink)
      <4>1. CASE BeginCharge(o) \/ ConfirmCaptured(o) \/ HandOffToLink(o)
        <5>1. \/ UNCHANGED rows \/ Relinks \/ MovesOrder("balance_due", FALSE)
              \/ MovesOrder("confirmed", FALSE) \/ MovesOrder("action_required", TRUE)
          BY <4>1 DEF BeginCharge, ConfirmCaptured, HandOffToLink, TryMove, MovesOrder, Relinks
        <5> QED BY <5>1 DEF OrderStates
      <4>2. CASE ~(BeginCharge(o) \/ ConfirmCaptured(o) \/ HandOffToLink(o))
        BY <3>1, <4>2 DEF OpenerStep, Charge, ReadForJob, PressRetry, LoadOrder, CheckSettled, FindCard,
           ChargeOffSession, AdoptCharge, MarkTaken, MarkDeclined, PickAttempt, OpenAttempt, OpenLink,
           OpenHostedPage
      <4> QED BY <4>1, <4>2
    <3>2. ASSUME PageStep \/ WebhookStep \/ RunGrace \/ RowsStep \/ Die,
                 ~StartGrace, ~FinishGrace, ~Requeue
          PROVE  UNCHANGED rows \/ \E to \in OrderStates : MovesOrder(to, FALSE)
      <4>1. \/ UNCHANGED rows
            \/ \E to \in {"issue", "confirmed", "fulfilled", "cancelled"} : MovesOrder(to, FALSE)
        BY <3>2 DEF WebhookStep, Deliver, Handle, MarkPaymentFailed, MarkPaymentSucceeded, ConfirmOrder,
           RefundLateCapture, Acknowledge, Move, MovesOrder, PageStep, PayHostedPage, DeclineHostedPage,
           Die, RunGrace, ReadForGrace, CancelUnpaid, RowsStep, ConfirmDeposit, FlagOrResolve, Administer
      <4> QED BY <4>1 DEF OrderStates
    <3> QED BY <3>1, <3>2, NextByActor
  <2> QED BY <2>2, <2>3, <2>4, <2>5
<1> QED BY <1>1, <1>2, <1>3 DEF AnswerSound

-----------------------------------------------------------------------------
(* Sound.                                                                  *)

LEMMA SoundInitially == ASSUME Init PROVE Sound
<1>0. /\ "job" \in Openers /\ "customer" \in Openers /\ MaxTroubles \in Nat
      /\ \A o \in Openers : opener[o] = IdleOpener
      /\ IdleOpener.pc = "idle" /\ IdleOpener.saw = "none" /\ IdleOpener.attempt = 0
  BY BalanceAssumption DEF Init, IdleOpener, Openers, Chargers
<1>1. RowsTypeOK
  BY DEF Init, OrderCreated, RowsTypeOK, OrderStates, LinkState, JobStatus, Enqueued
<1>2. Typed
  <2>1. opener \in [Openers -> OpenerRow]
    BY DEF Init, IdleOpener, OpenerRow, OpenerSteps
  <2>2. delivery \in DeliveryRow /\ DeliverySound
    BY DEF Init, IdleDelivery, DeliveryRow, DeliverySound
  <2>3. payment \in [Attempts -> PaymentStates] /\ intent \in [Attempts -> IntentStates]
    BY DEF Init, PaymentStates, IntentStates
  <2> QED BY <1>0, <1>1, <2>1, <2>2, <2>3 DEF Init, Typed
<1>3. AttemptsSound
  <2>1. Opened = {}
    BY DEF Init, Opened
  <2>2. Latest = 0
    BY <2>1, FS_EmptySet DEF Latest
  <2>3. \A o \in Openers : OpenerSound(o)
    BY <1>0 DEF OpenerSound
  <2> QED BY <2>1, <2>2, <2>3 DEF Init, AttemptsSound
<1>4. RowsOwned
  BY <1>0 DEF Init, RowsOwned
<1>5. LinkSound
  BY <1>0 DEF Init, OrderCreated, LinkSound
<1>6. AnswerSound
  <2>1. job["charge_balance"] # "done"
    BY DEF Init, OrderCreated, Enqueued, JobTypes
  <2> QED BY <1>0, <2>1 DEF Init, AnswerSound
<1>7. HistoryTyped
  BY DEF Init, HistoryTyped
<1> QED BY <1>2, <1>3, <1>4, <1>5, <1>6, <1>7 DEF Sound

LEMMA SoundInductive == ASSUME Sound, [Next]_vars PROVE Sound'
<1>1. CASE Next
  <2>1. Typed'
    BY <1>1, OpenerStepsTyped, WebhookStepsTyped, OtherStepsTyped, NextByActor DEF Sound
  <2>2. HistoryTyped'
    BY <1>1, NextOvertakes DEF Overtake, HistoryTyped
  <2> QED BY <1>1, <2>1, <2>2, AttemptsInductive, RowsOwnedInductive, LinkInductive, AnswerInductive DEF Sound
<1>2. CASE UNCHANGED vars
  <2>0. UNCHANGED <<state, graceOpen, job, dateHeld, link, payment, intent, returned, disowned,
                    sent, processed, opener, delivery, grace, overtaken, raced, troubles>>
    BY <1>2 DEF vars, rows
  <2>1. Typed'
    BY <2>0 DEF Sound, Typed, RowsTypeOK, DeliverySound
  <2>2. RowsOwned'
    BY <2>0 DEF Sound, RowsOwned
  <2>3. AttemptsSound'
    <3>1. Opened' = Opened /\ Captured' = Captured
      BY <2>0 DEF Opened, Captured
    <3>2. Latest' = Latest
      BY <3>1 DEF Latest
    <3>3. \A o \in Openers : OpenerSound(o)'
      BY <2>0, <3>1 DEF Sound, AttemptsSound, OpenerSound
    <3> QED BY <2>0, <3>1, <3>2, <3>3 DEF Sound, AttemptsSound
  <2>4. LinkSound'
    BY <2>0 DEF Sound, LinkSound
  <2>5. AnswerSound'
    BY <2>0 DEF Sound, AnswerSound, Answer, Booked
  <2>6. HistoryTyped'
    BY <2>0 DEF Sound, HistoryTyped
  <2> QED BY <2>1, <2>2, <2>3, <2>4, <2>5, <2>6 DEF Sound
<1> QED BY <1>1, <1>2

LEMMA SoundAlways == Spec => []Sound
<1>1. Init => Sound
  BY SoundInitially
<1>2. Sound /\ [Next]_vars => Sound'
  BY SoundInductive
<1> QED BY <1>1, <1>2, PTL DEF Spec

\* However the charge's job ended, its order, its attempts and its link say
\* why: the job's row says done only when the balance was taken, a link went
\* out or the order is over.
THEOREM ChargesAreConsistent == Spec => []Consistent
<1>1. ASSUME Sound PROVE Consistent
  <2>1. \A o \in Openers : opener[o].pc \in OpenerSteps /\ opener[o].attempt \in {0} \cup Opened
    BY <1>1 DEF Sound, Typed, OpenerRow, AttemptsSound, OpenerSound
  <2>2. delivery.event \subseteq sent
    <3>1. CASE delivery.pc = "idle"
      BY <1>1, <3>1 DEF Sound, Typed, DeliverySound
    <3>2. CASE delivery.pc # "idle"
      BY <1>1, <3>2 DEF Sound, Typed, DeliverySound
    <3> QED BY <3>1, <3>2
  <2>3. TypeOK
    BY <1>1, <2>1, <2>2 DEF Sound, Typed, HistoryTyped, TypeOK, AttemptsSound, PaymentStates, IntentStates
  <2>4. ChargeJobIsAnswered
    BY <1>1 DEF Sound, AnswerSound, Answer, Booked, ChargeJobIsAnswered
  <2> QED BY <2>3, <2>4 DEF Consistent
<1> QED BY <1>1, SoundAlways, PTL

\* A booking comes back from its wait only when the provider has the money or a
\* person says so: the mover is a charger with a captured attempt, a delivery
\* that reports one, or an administrator.
THEOREM ReturnsArePaid == Spec => ReturnIsPaid
<1> DEFINE P == (state \in {"balance_due", "action_required"} /\ state' = "confirmed")
                  => Captured # {} \/ FlagOrResolve
<1>1. ASSUME Sound, Next, state \in {"balance_due", "action_required"}, state' = "confirmed",
             ~FlagOrResolve
      PROVE  Captured # {}
  <2>0. Captured \subseteq Attempts
    BY DEF Captured
  <2>1. CASE \E o \in Openers : ConfirmCaptured(o)
    BY <1>1, <2>0, <2>1 DEF ConfirmCaptured, At, Sound, AttemptsSound, OpenerSound
  <2>2. CASE ConfirmOrder
    BY <1>1, <2>0, <2>2, NamedWasOpened DEF ConfirmOrder, Sound, Opened
  <2>3. CASE ~ConfirmOrder /\ ~\E o \in Openers : ConfirmCaptured(o)
    <3>1. ASSUME NEW o \in Openers, OpenerStep(o) PROVE FALSE
      BY <1>1, <2>3, <3>1 DEF OpenerStep, Charge, StartJob, ReadForJob, FinishJob, PressRetry, LoadOrder,
         CheckSettled, BeginCharge, FindCard, ChargeOffSession, AdoptCharge, MarkTaken, MarkDeclined,
         HandOffToLink, PickAttempt, OpenAttempt, OpenLink, OpenHostedPage, TryMove, ApplyTransition, rows
    <3>2. ASSUME PageStep \/ WebhookStep \/ RunGrace \/ RowsStep \/ Die PROVE FALSE
      <4>1. CASE PageStep \/ WebhookStep \/ Die
        BY <1>1, <2>3, <4>1 DEF PageStep, PayHostedPage, DeclineHostedPage, WebhookStep, Deliver, Handle,
           MarkPaymentFailed, MarkPaymentSucceeded, RefundLateCapture, Acknowledge, Die, rows
      <4>2. CASE RunGrace
        BY <1>1, <4>2 DEF RunGrace, StartGrace, ReadForGrace, CancelUnpaid, FinishGrace, Move,
           ApplyTransition, rows
      <4>3. CASE RowsStep
        BY <1>1, <4>3 DEF RowsStep, ConfirmDeposit, Requeue, Administer, Move, ApplyTransition
      <4> QED BY <3>2, <4>1, <4>2, <4>3
    <3> QED BY <1>1, <3>1, <3>2, NextByActor
  <2> QED BY <2>1, <2>2, <2>3
<1>2. Sound /\ [Next]_vars => [P]_vars
  BY <1>1
<1> QED BY <1>2, SoundAlways, PTL DEF Spec, ReturnIsPaid

-----------------------------------------------------------------------------
(* The abstract lifecycle.                                                 *)

\* The abstract module's transaction is the same one.
LEMMA SameTransition ==
  ASSUME NEW to, NEW mintsLink
  PROVE  ApplyTransition(to, mintsLink) <=> Lifecycle!ApplyTransition(to, mintsLink)
<1>1. JobsAfterMove(state, to) = Lifecycle!JobsAfterMove(state, to)
  BY DEF JobsAfterMove, JobsOnEntering, OnEntering, JobTypes, CancelsQueuedJobs,
         JobsCancelledOnLeaving, Enqueued, CalledOff, IsTerminal, Allowed,
         ReleasesCapacity, CapacityIn,
         Lifecycle!JobsAfterMove, Lifecycle!JobsOnEntering, Lifecycle!OnEntering,
         Lifecycle!JobTypes, Lifecycle!CancelsQueuedJobs,
         Lifecycle!JobsCancelledOnLeaving, Lifecycle!Enqueued, Lifecycle!CalledOff,
         Lifecycle!IsTerminal, Lifecycle!Allowed, Lifecycle!ReleasesCapacity,
         Lifecycle!CapacityIn
<1>2. Retired(to) = Lifecycle!Retired(to)
  BY DEF Retired, Lifecycle!Retired
<1>3. CanTransition(state, to) <=> Lifecycle!CanTransition(state, to)
  BY DEF CanTransition, Allowed, Lifecycle!CanTransition, Lifecycle!Allowed
<1>4. /\ ReleasesCapacity(to) <=> Lifecycle!ReleasesCapacity(to)
      /\ RetiresPaymentLinks(state, to) <=> Lifecycle!RetiresPaymentLinks(state, to)
  BY DEF ReleasesCapacity, CapacityIn, RetiresPaymentLinks, IsTerminal, Allowed,
         Lifecycle!ReleasesCapacity, Lifecycle!CapacityIn,
         Lifecycle!RetiresPaymentLinks, Lifecycle!IsTerminal, Lifecycle!Allowed
<1> QED BY <1>1, <1>2, <1>3, <1>4
        DEF ApplyTransition, GraceAfterMove,
            Lifecycle!ApplyTransition, Lifecycle!GraceAfterMove

LEMMA SameMove ==
  ASSUME NEW to
  PROVE  Move(to) <=> Lifecycle!Move(to)
BY SameTransition DEF Move, Lifecycle!Move

LEMMA OpenerImplements ==
  ASSUME Sound, NEW o \in Openers, OpenerStep(o)
  PROVE  [Lifecycle!Next]_rows
<1>0. "charge_balance" \in Lifecycle!JobTypes
  BY DEF Lifecycle!JobTypes
<1>1. CASE o = "job" /\ StartJob
  <2>1. Lifecycle!ClaimJob("charge_balance")
    BY <1>1 DEF StartJob, ClaimRow, SetJob, Lifecycle!ClaimJob, Lifecycle!ClaimRow, Lifecycle!SetJob
  <2> QED BY <1>0, <2>1 DEF Lifecycle!Next, Lifecycle!RunQueue
<1>2. CASE o = "job" /\ FinishJob
  <2>1. PICK status \in JobOutcomes(opener["job"].pc) :
          SetJob("charge_balance", status) /\ UNCHANGED <<state, graceOpen, dateHeld, link>>
    BY <1>2 DEF FinishJob
  <2>2. status \in {"done", "held", "queued", "failed"} /\ opener["job"].pc # "idle"
    BY <2>1 DEF JobOutcomes
  <2>3. job["charge_balance"] = "running"
    BY <2>2 DEF Sound, RowsOwned
  <2>4. \/ Lifecycle!FinishJob("charge_balance") \/ Lifecycle!HoldJob("charge_balance")
        \/ Lifecycle!RetryJob("charge_balance")
    BY <2>1, <2>2, <2>3 DEF SetJob, Lifecycle!SetJob, Lifecycle!FinishJob, Lifecycle!MayFinish,
       Lifecycle!HoldJob, Lifecycle!MayHold, Lifecycle!RetryJob
  <2> QED BY <1>0, <2>4 DEF Lifecycle!Next, Lifecycle!RunQueue
<1>3. CASE BeginCharge(o)
  <2>1. UNCHANGED rows \/ Lifecycle!StartBalanceCharge
    BY <1>3, SameTransition, BalanceAssumption
       DEF BeginCharge, TryMove, Lifecycle!StartBalanceCharge, Lifecycle!Move
  <2> QED BY <2>1 DEF Lifecycle!Next, Lifecycle!MoveOrder
<1>4. CASE ConfirmCaptured(o)
  <2>1. UNCHANGED rows \/ Lifecycle!ConfirmPaid
    BY <1>4, SameTransition DEF ConfirmCaptured, TryMove, Lifecycle!ConfirmPaid, Lifecycle!Move
  <2> QED BY <2>1 DEF Lifecycle!Next, Lifecycle!MoveOrder
<1>5. CASE HandOffToLink(o)
  <2>1. UNCHANGED rows \/ Lifecycle!ReissueLink \/ Lifecycle!DeclineBalance
    BY <1>5, SameTransition DEF HandOffToLink, TryMove, Sound, LinkSound,
       Lifecycle!ReissueLink, Lifecycle!DeclineBalance
  <2> QED BY <2>1 DEF Lifecycle!Next, Lifecycle!MoveOrder
<1>6. CASE \/ (o = "job" /\ ReadForJob) \/ (o \in Presses /\ PressRetry(o))
           \/ LoadOrder(o) \/ CheckSettled(o) \/ FindCard(o) \/ ChargeOffSession(o)
           \/ AdoptCharge(o) \/ MarkTaken(o) \/ MarkDeclined(o) \/ PickAttempt(o) \/ OpenAttempt(o)
           \/ o = "customer" /\ (OpenLink \/ OpenHostedPage)
  BY <1>6 DEF ReadForJob, PressRetry, LoadOrder, CheckSettled, FindCard, ChargeOffSession, AdoptCharge,
     MarkTaken, MarkDeclined, PickAttempt, OpenAttempt, OpenLink, OpenHostedPage
<1> QED BY <1>1, <1>2, <1>3, <1>4, <1>5, <1>6 DEF OpenerStep, Charge

LEMMA OthersImplement ==
  ASSUME Sound, PageStep \/ WebhookStep \/ RunGrace \/ RowsStep \/ Die
  PROVE  [Lifecycle!Next]_rows
<1>0. "charge_balance" \in Lifecycle!JobTypes /\ "balance_grace_expiry" \in Lifecycle!JobTypes
  BY DEF Lifecycle!JobTypes
<1>1. CASE PageStep \/ Die
  BY <1>1 DEF PageStep, PayHostedPage, DeclineHostedPage, Die
<1>2. CASE WebhookStep
  <2>1. UNCHANGED rows \/ Lifecycle!ConfirmPaid
    BY <1>2, SameMove DEF WebhookStep, Deliver, Handle, MarkPaymentFailed, MarkPaymentSucceeded,
       ConfirmOrder, RefundLateCapture, Acknowledge, Lifecycle!ConfirmPaid
  <2> QED BY <2>1 DEF Lifecycle!Next, Lifecycle!MoveOrder
<1>3. CASE StartGrace
  <2>1. Lifecycle!ClaimJob("balance_grace_expiry")
    BY <1>3 DEF StartGrace, ClaimRow, SetJob, Lifecycle!ClaimJob, Lifecycle!ClaimRow, Lifecycle!SetJob
  <2> QED BY <1>0, <2>1 DEF Lifecycle!Next, Lifecycle!RunQueue
<1>4. CASE ReadForGrace \/ CancelUnpaid
  <2>1. UNCHANGED rows \/ Lifecycle!CancelOrder
    BY <1>4, SameMove DEF ReadForGrace, CancelUnpaid, Lifecycle!CancelOrder
  <2> QED BY <2>1 DEF Lifecycle!Next, Lifecycle!MoveOrder
<1>5. CASE FinishGrace
  <2>1. job["balance_grace_expiry"] = "running"
    BY <1>5 DEF FinishGrace, Sound, RowsOwned
  <2>2. Lifecycle!FinishJob("balance_grace_expiry") \/ Lifecycle!RetryJob("balance_grace_expiry")
    BY <1>5, <2>1 DEF FinishGrace, SetJob, Lifecycle!SetJob, Lifecycle!FinishJob, Lifecycle!MayFinish,
       Lifecycle!RetryJob
  <2> QED BY <1>0, <2>2 DEF Lifecycle!Next, Lifecycle!RunQueue
<1>6. CASE ConfirmDeposit
  <2>1. Lifecycle!ConfirmPaid
    BY <1>6, SameMove DEF ConfirmDeposit, Lifecycle!ConfirmPaid
  <2> QED BY <2>1 DEF Lifecycle!Next, Lifecycle!MoveOrder
<1>7. CASE FlagOrResolve
  <2>1. PICK to \in {"issue", "confirmed", "fulfilled", "cancelled"} : Lifecycle!Move(to)
    BY <1>7, SameMove DEF FlagOrResolve, Administer
  <2>2. Lifecycle!RaiseIssue \/ \E t \in {"confirmed", "fulfilled", "cancelled"} : Lifecycle!ResolveIssue(t)
    BY <2>1 DEF Lifecycle!RaiseIssue, Lifecycle!ResolveIssue
  <2> QED BY <2>2 DEF Lifecycle!Next, Lifecycle!MoveOrder
<1>8. CASE Requeue
  <2>1. Lifecycle!RequeueJob("charge_balance") \/ Lifecycle!RequeueJob("balance_grace_expiry")
    BY <1>8 DEF Requeue, Administer, RequeueRow, SetJob, Lifecycle!RequeueJob, Lifecycle!RequeueRow,
       Lifecycle!SetJob
  <2> QED BY <1>0, <2>1 DEF Lifecycle!Next, Lifecycle!RunQueue
<1> QED BY <1>1, <1>2, <1>3, <1>4, <1>5, <1>6, <1>7, <1>8 DEF RunGrace, RowsStep

\* Chargers, pages, deliveries, the grace expiry and administrators together,
\* crashes included, only ever move the order as its lifecycle allows.
THEOREM BalanceImplementsLifecycle == Spec => ImplementsLifecycle
<1>1. Init => Lifecycle!Init
  BY DEF Init, OrderCreated, JobsOnEntering, OnEntering, JobTypes, Enqueued,
         Lifecycle!Init, Lifecycle!OrderCreated, Lifecycle!JobsOnEntering,
         Lifecycle!OnEntering, Lifecycle!JobTypes, Lifecycle!Enqueued
<1>2. Sound /\ [Next]_vars => [Lifecycle!Next]_(Lifecycle!rows)
  <2> SUFFICES ASSUME Sound, [Next]_vars PROVE [Lifecycle!Next]_rows
    BY DEF rows, Lifecycle!rows
  <2>1. CASE UNCHANGED vars
    BY <2>1 DEF vars
  <2>2. CASE Next
    BY <2>2, NextByActor, OpenerImplements, OthersImplement
  <2> QED BY <2>1, <2>2
<1> QED BY <1>1, <1>2, SoundAlways, PTL DEF Spec, ImplementsLifecycle, Lifecycle!Spec

-----------------------------------------------------------------------------
(* One charge at a time.                                                   *)

\* Who begins to decide begins on what the payments are; who is about to open
\* an attempt has found the last one closed.
LEMMA DecidersStart ==
  ASSUME Typed, AttemptsSound, Next, NEW o \in Openers
  PROVE  /\ Deciding(o)' => Deciding(o) \/ (~Settled /\ UNCHANGED payment)
         /\ opener'[o].pc = "open" =>
              \/ opener[o].pc = "open"
              \/ UNCHANGED payment /\ \A a \in Attempts : a = Latest => payment[a] # "pending"
<1> USE DEF OpenerSteps
<1> DEFINE Late == {"begin", "card", "pick", "open"}
<1>0. opener \in [Openers -> OpenerRow]
  BY DEF Typed
<1>1. ASSUME OpenerStep(o)
      PROVE  /\ opener'[o].pc \in Late =>
                  opener[o].pc \in Late \/ (~Settled /\ UNCHANGED payment)
             /\ opener'[o].pc = "open" =>
                  UNCHANGED payment /\ \A a \in Attempts : a = Latest => payment[a] # "pending"
  <2>1. ASSUME NEW pc \in OpenerSteps \ Late, GoTo(o, pc) \/ End(o, pc)
        PROVE  opener'[o].pc \notin Late
    BY <1>0, <2>1, GoToGoes, EndGoes
  <2>2. CASE o = "job" /\ (StartJob \/ ReadForJob)
    BY <2>1, <2>2 DEF StartJob, ReadForJob
  <2>3. CASE (o = "job" /\ FinishJob) \/ (o = "customer" /\ OpenHostedPage)
    BY <2>3, RestGoes DEF FinishJob, OpenHostedPage
  <2>4. CASE o \in Presses /\ PressRetry(o)
    BY <2>1, <2>4 DEF PressRetry
  <2>5. CASE LoadOrder(o) \/ MarkDeclined(o) \/ OpenAttempt(o)
    <3>1. opener'[o].pc \in {"check", "handoff", "provider"}
      BY <1>0, <2>5 DEF LoadOrder, MarkDeclined, OpenAttempt, OpenerRow
    <3> QED BY <3>1
  <2>6. CASE CheckSettled(o)
    <3>1. UNCHANGED payment
      BY <2>6 DEF CheckSettled, ledger
    <3>2. CASE Settled /\ End(o, "answered")
      BY <2>1, <3>2
    <3>3. CASE ~Settled /\ ByState(o)
      <4>1. GoTo(o, "begin") \/ GoTo(o, "card") \/ End(o, "refused")
        BY <3>3 DEF ByState
      <4>2. opener'[o].pc # "open"
        BY <1>0, <4>1, GoToGoes, EndGoes
      <4> QED BY <3>1, <3>3, <4>2
    <3> QED BY <2>6, <3>2, <3>3 DEF CheckSettled
  <2>7. CASE BeginCharge(o)
    <3>1. opener[o].pc \in Late /\ (GoTo(o, "card") \/ End(o, "refused"))
      BY <2>7 DEF BeginCharge, At, TryMove
    <3>2. opener'[o].pc # "open"
      BY <1>0, <3>1, GoToGoes, EndGoes
    <3> QED BY <3>1, <3>2
  <2>8. CASE FindCard(o)
    <3>1. opener[o].pc \in Late /\ (GoTo(o, "pick") \/ GoTo(o, "handoff"))
      BY <2>8 DEF FindCard, At
    <3>2. opener'[o].pc # "open"
      BY <1>0, <3>1, GoToGoes
    <3> QED BY <3>1, <3>2
  <2>9. CASE ChargeOffSession(o) \/ AdoptCharge(o)
    <3>1. GoTo(o, "taken") \/ GoTo(o, "declined") \/ End(o, "threw")
      BY <2>9 DEF ChargeOffSession, AdoptCharge, Answered
    <3> QED BY <2>1, <3>1
  <2>10. CASE MarkTaken(o) \/ ConfirmCaptured(o) \/ HandOffToLink(o)
    BY <2>1, <2>10 DEF MarkTaken, ConfirmCaptured, HandOffToLink, TryMove
  <2>11. CASE PickAttempt(o)
    <3>1. opener[o].pc \in Late /\ UNCHANGED payment
      BY <2>11 DEF PickAttempt, At, ledger
    <3>2. CASE Latest # 0 /\ payment[Latest] = "pending"
      <4>1. opener'[o].pc = "provider"
        BY <1>0, <2>11, <3>2 DEF PickAttempt, OpenerRow
      <4> QED BY <3>1, <4>1
    <3>3. CASE ~(Latest # 0 /\ payment[Latest] = "pending")
      <4>1. \A a \in Attempts : a = Latest => payment[a] # "pending"
        BY <3>3, BalanceAssumption DEF Attempts
      <4> QED BY <3>1, <4>1
    <3> QED BY <3>2, <3>3
  <2>12. CASE o = "customer" /\ OpenLink
    <3>1. GoTo(o, "pick") /\ ~Settled /\ UNCHANGED payment
      BY <2>12 DEF OpenLink, ledger
    <3>2. opener'[o].pc # "open"
      BY <1>0, <3>1, GoToGoes
    <3> QED BY <3>1, <3>2
  <2> QED BY <1>1, <2>2, <2>3, <2>4, <2>5, <2>6, <2>7, <2>8, <2>9, <2>10, <2>11, <2>12
          DEF OpenerStep, Charge
<1>2. CASE OpenerStep(o)
  BY <1>1, <1>2, OpenerTyped DEF Deciding
<1>3. CASE \E p \in Openers : p # o /\ OpenerStep(p)
  <2>1. opener'[o] = opener[o]
    BY <1>3, OpenerTyped DEF Others
  <2> QED BY <2>1 DEF Deciding
<1>4. CASE PageStep \/ WebhookStep \/ RunGrace \/ RowsStep \/ Die
  <2>1. opener'[o] = opener[o] \/ opener'[o].pc = "idle"
    BY <1>4, OpenersRest
  <2> QED BY <2>1 DEF Deciding
<1> QED BY <1>2, <1>3, <1>4, NextByActor

\* How a payment's row changes, and what is on record of it by then.
LEMMA PaymentsChange ==
  ASSUME Typed, AttemptsSound, Next
  PROVE  /\ returned \subseteq returned' /\ disowned \subseteq disowned'
         /\ \/ UNCHANGED payment
            \/ (\E o \in Openers : OpenAttempt(o)) /\ Marks(Latest + 1, "pending")
            \/ \E a \in Opened : Marks(a, "succeeded")
            \/ \E a \in Opened :
                 Marks(a, "failed") /\ (a \in disowned' \/ intent'[a] = "declined")
            \/ \E a \in Opened : Marks(a, "refunded") /\ a \in returned'
<1>1. ASSUME NEW a \in Opened, CloseAttempt(a), intent[a] \in Unpaid, UNCHANGED intent
      PROVE  Marks(a, "failed") /\ (a \in disowned' \/ intent'[a] = "declined") /\ disowned \subseteq disowned'
  BY <1>1 DEF CloseAttempt, Unpaid, Marks
<1>2. CASE \E o \in Openers : OpenerStep(o)
  <2>1. PICK o \in Openers : OpenerStep(o)
    BY <1>2
  <2>2. returned' = returned
    BY <2>1, OpenerElsewhere
  <2>3. CASE MarkTaken(o)
    BY <2>2, <2>3, OpenersAttempt DEF MarkTaken, At, Marks
  <2>4. CASE MarkDeclined(o)
    <3>1. opener[o].attempt \in Opened /\ intent[opener[o].attempt] \in Unpaid
      BY <2>4, OpenersAttempt DEF MarkDeclined, At, AttemptsSound, OpenerSound
    <3>2. CloseAttempt(opener[o].attempt) /\ UNCHANGED intent
      BY <2>4 DEF MarkDeclined, provider
    <3> QED BY <1>1, <2>2, <3>1, <3>2
  <2>5. CASE OpenAttempt(o)
    BY <2>2, <2>5 DEF OpenAttempt, Marks
  <2>6. CASE ~(MarkTaken(o) \/ MarkDeclined(o) \/ OpenAttempt(o))
    BY <2>1, <2>2, <2>6 DEF OpenerStep, Charge, StartJob, ReadForJob, FinishJob, PressRetry, LoadOrder,
       CheckSettled, BeginCharge, FindCard, ChargeOffSession, AdoptCharge, ConfirmCaptured,
       HandOffToLink, PickAttempt, OpenLink, OpenHostedPage, ledger
  <2> QED BY <2>3, <2>4, <2>5, <2>6
<1>3. CASE WebhookStep
  <2>1. UNCHANGED intent
    BY <1>3, WebhookElsewhere
  <2>2. CASE MarkPaymentFailed
    <3>1. PaidBy \in Opened /\ intent[PaidBy] \in Unpaid
      BY <2>2, NamedWasOpened DEF MarkPaymentFailed, DeliveryStep
    <3>2. CloseAttempt(PaidBy) /\ UNCHANGED returned
      BY <2>2 DEF MarkPaymentFailed
    <3> QED BY <1>1, <2>1, <3>1, <3>2
  <2>3. CASE MarkPaymentSucceeded \/ RefundLateCapture
    <3>1. PaidBy \in Opened
      BY <2>3, NamedWasOpened DEF MarkPaymentSucceeded, RefundLateCapture, DeliveryStep
    <3> QED BY <2>3, <3>1 DEF MarkPaymentSucceeded, RefundLateCapture, Marks
  <2>4. CASE ~(MarkPaymentFailed \/ MarkPaymentSucceeded \/ RefundLateCapture)
    BY <1>3, <2>4 DEF WebhookStep, Deliver, Handle, ConfirmOrder, Acknowledge, ledger
  <2> QED BY <2>2, <2>3, <2>4
<1>4. CASE PageStep \/ RunGrace \/ RowsStep \/ Die
  BY <1>4 DEF PageStep, PayHostedPage, DeclineHostedPage, RunGrace, StartGrace, ReadForGrace,
     CancelUnpaid, FinishGrace, RowsStep, ConfirmDeposit, FlagOrResolve, Requeue, Administer, Die, ledger
<1> QED BY <1>2, <1>3, <1>4, NextByActor

LEMMA OneChargeInductive ==
  ASSUME Typed, HistoryTyped, AttemptsSound, OneCharge, Next
  PROVE  OneCharge'
<1>0. /\ payment \in [Attempts -> PaymentStates] /\ Opened \subseteq Attempts /\ Latest \in Nat
      /\ \A a \in Opened : payment[a] # "none"
  BY LatestCounts DEF Typed, Opened
<1>1. ASSUME NEW o \in Openers, Undisturbed(o)', Deciding(o)
      PROVE  Undisturbed(o) /\ ~BecomesLive
  BY <1>1, NextOvertakes DEF Overtake, Undisturbed
<1>2. ASSUME NEW o \in Openers, Undisturbed(o)'
      PROVE  ~Settled'
  <2>1. CASE Deciding(o)
    <3>1. ~Settled /\ ~BecomesLive
      BY <1>1, <1>2, <2>1 DEF OneCharge
    <3> QED BY <3>1 DEF Settled, BecomesLive
  <2>2. CASE ~Deciding(o)
    <3>1. ~Settled /\ UNCHANGED payment
      BY <1>2, <2>2, DecidersStart DEF Undisturbed
    <3> QED BY <3>1 DEF Settled
  <2> QED BY <2>1, <2>2
<1>3. ASSUME NEW o \in Openers, Undisturbed(o)', opener'[o].pc = "open", NEW a \in Attempts, a = Latest'
      PROVE  payment'[a] # "pending"
  <2>1. CASE UNCHANGED payment /\ \A b \in Attempts : b = Latest => payment[b] # "pending"
    <3>1. Latest' = Latest
      BY <2>1 DEF Latest, Opened
    <3> QED BY <1>3, <2>1, <3>1
  <2>2. CASE opener[o].pc = "open"
    <3>1. Undisturbed(o) /\ ~BecomesLive
      BY <1>1, <1>3, <2>2 DEF Deciding
    <3>2. payment'[a] = "pending" => payment[a] = "pending"
      BY <3>1 DEF BecomesLive
    <3>3. payment'[a] = "pending" => Latest' = Latest
      <4>1. CASE (\E p \in Openers : OpenAttempt(p)) /\ Marks(Latest + 1, "pending") /\ Latest < MaxAttempts
        <5>1. Latest + 1 \in Attempts /\ Latest + 1 \notin Opened
          BY <1>0, <4>1, BalanceAssumption DEF Attempts, AttemptsSound
        <5>2. payment'[Latest + 1] = "pending" /\ payment[Latest + 1] = "none"
          BY <1>0, <4>1, <5>1 DEF Marks, Opened
        <5> QED BY <3>1, <5>1, <5>2 DEF BecomesLive
      <4>2. CASE UNCHANGED payment
        BY <4>2 DEF Latest, Opened
      <4>3. CASE \E b \in Opened, status \in {"succeeded", "failed", "refunded"} : Marks(b, status)
        <5>1. Opened' = Opened
          BY <1>0, <4>3 DEF Opened, Marks
        <5> QED BY <5>1 DEF Latest
      <4> QED BY <4>1, <4>2, <4>3, PaymentsMove
    <3> QED BY <1>3, <2>2, <3>1, <3>2, <3>3 DEF OneCharge
  <2> QED BY <1>3, <2>1, <2>2, DecidersStart
<1>4. /\ returned \subseteq returned' /\ disowned \subseteq disowned'
      /\ \A a \in Attempts : intent[a] = "declined" => intent'[a] = "declined"
  BY PaymentsChange, IntentsAdvance
<1>5. ASSUME NEW a \in Attempts
      PROVE  /\ payment'[a] = "refunded" => payment[a] = "refunded" \/ a \in returned'
             /\ payment'[a] = "failed" => \/ payment[a] = "failed"
                                          \/ a \in disowned' \/ intent'[a] = "declined"
  BY <1>0, PaymentsChange DEF Marks
<1>6. ASSUME ~raced', NEW a \in Opened', a < Latest'
      PROVE  Spent(a)'
  <2>0. ~raced /\ \A o \in overtaken : ~(At(o, "open") /\ opener'[o].pc = "provider")
    BY <1>6, NextOvertakes DEF Overtake
  <2>1. ASSUME a \in Opened, Spent(a)
        PROVE  Spent(a)'
    BY <1>0, <1>4, <2>1 DEF Spent
  <2>2. CASE Opened' = Opened /\ Latest' = Latest
    BY <1>6, <2>0, <2>1, <2>2 DEF OneCharge
  <2>3. CASE /\ \E o \in Openers : OpenAttempt(o)
             /\ Latest' = Latest + 1 /\ Opened' = Opened \cup {Latest + 1}
    <3>1. a \in Opened /\ a \in Nat
      BY <1>0, <1>6, <2>3 DEF Attempts
    <3>2. CASE a < Latest
      BY <2>0, <2>1, <3>1, <3>2 DEF OneCharge
    <3>3. CASE a = Latest
      <4>1. PICK o \in Openers : OpenAttempt(o)
        BY <2>3
      <4>2. opener[o].pc = "open" /\ opener'[o].pc = "provider"
        BY <4>1 DEF OpenAttempt, At, Typed, OpenerRow
      <4>3. Undisturbed(o)
        BY <2>0, <4>2 DEF At, Undisturbed, Deciding
      <4>4. payment[a] \notin {"none", "pending", "succeeded"}
        BY <1>0, <3>1, <3>3, <4>2, <4>3 DEF OneCharge, Settled
      <4>5. payment[a] \in {"failed", "refunded"}
        BY <1>0, <3>1, <4>4 DEF PaymentStates
      <4> QED BY <1>0, <2>1, <3>1, <4>5 DEF OneCharge, Spent
    <3> QED BY <1>0, <1>6, <2>3, <3>1, <3>2, <3>3
  <2> QED BY <2>2, <2>3, OpenedAdvances
<1> QED BY <1>0, <1>2, <1>3, <1>4, <1>5, <1>6 DEF OneCharge

\* One balance is kept once: nothing that is captured and not returned lies
\* behind the last attempt, unless its page was disowned or a caller
\* opened an attempt after the payments had changed under its look at them.
THEOREM BalanceIsKeptOnce == Spec => []BalanceKeptOnce
<1>1. Init => OneCharge
  <2> SUFFICES ASSUME Init PROVE OneCharge
    OBVIOUS
  <2>1. \A o \in Openers : ~Undisturbed(o)
    BY DEF Init, IdleOpener, Deciding, Undisturbed
  <2>2. Opened = {} /\ \A a \in Attempts : payment[a] = "none"
    BY DEF Init, Opened
  <2> QED BY <2>1, <2>2 DEF OneCharge
<1>2. Sound /\ OneCharge /\ [Next]_vars => OneCharge'
  <2> SUFFICES ASSUME Sound, OneCharge, [Next]_vars PROVE OneCharge'
    OBVIOUS
  <2>1. CASE Next
    BY <2>1, OneChargeInductive DEF Sound
  <2>2. CASE UNCHANGED vars
    <3>1. UNCHANGED <<payment, intent, returned, disowned, opener, overtaken, raced>>
      BY <2>2 DEF vars
    <3>2. Opened' = Opened
      BY <3>1 DEF Opened
    <3>3. Latest' = Latest
      BY <3>2 DEF Latest
    <3> QED BY <3>1, <3>2, <3>3 DEF OneCharge, Undisturbed, Deciding, Settled, Spent
  <2> QED BY <2>1, <2>2
<1>3. Sound /\ OneCharge => BalanceKeptOnce
  <2> SUFFICES ASSUME Sound, OneCharge, disowned = {}, ~raced PROVE ~(Cardinality(Captured \ returned) > 1)
    BY DEF BalanceKeptOnce
  <2>1. ASSUME NEW a \in Captured \ returned PROVE a = Latest
    <3>1. a \in Attempts /\ intent[a] \in {"charged", "paid"}
      BY <2>1 DEF Captured
    <3>2. a \in Opened /\ Opened = 1 .. Latest /\ Latest \in Nat
      BY <3>1, LatestCounts DEF Sound, AttemptsSound
    <3>3. ~(a < Latest)
      BY <2>1, <3>1, <3>2 DEF OneCharge, Spent
    <3> QED BY <3>2, <3>3
  <2>2. Captured \ returned = {} \/ Captured \ returned = {Latest}
    BY <2>1
  <2>3. Cardinality({}) = 0 /\ Cardinality({Latest}) = 1
    BY FS_EmptySet, FS_Singleton
  <2>4. Cardinality(Captured \ returned) = 0 \/ Cardinality(Captured \ returned) = 1
    BY <2>2, <2>3, Zenon
  <2> QED BY <2>4
<1> QED BY <1>1, <1>2, <1>3, SoundAlways, PTL DEF Spec

=============================================================================

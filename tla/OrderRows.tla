------------------------------ MODULE OrderRows ------------------------------
(***************************************************************************)
(* The rows one order owns, and the one transaction that moves it.  Every  *)
(* component that moves an order EXTENDS this module and uses its          *)
(* ApplyTransition, as every service in packages/core/src calls            *)
(* applyTransition of ordering/service.ts.                                 *)
(*                                                                         *)
(* A job row keeps its status only: its deadline is abstracted to "may     *)
(* come due at any later moment", its attempt count is module JobQueue's.  *)
(***************************************************************************)
EXTENDS OrderTransitions

CONSTANT HasBalance   \* whether anything is still to be charged after the deposit

ASSUME HasBalanceAssumption == HasBalance \in BOOLEAN

VARIABLES
  state,      \* orders.state
  graceOpen,  \* whether orders.grace_expires_at is set
  job,        \* jobs.status of the row (type, "type:orderId"), or "none"
  dateHeld,   \* whether the order's capacity block is active
  link        \* the newest payment link; minting one voids the one before it

rows == <<state, graceOpen, job, dateHeld, link>>

JobStatus == {"none", "queued", "running", "held", "failed", "done"}
LinkState == {"none", "payable", "paid", "void"}

RowsTypeOK ==
  /\ state \in OrderStates
  /\ graceOpen \in BOOLEAN
  /\ job \in [JobTypes -> JobStatus]
  /\ dateHeld \in BOOLEAN
  /\ link \in LinkState

-----------------------------------------------------------------------------
(* Statements on a job row.                                                *)

\* An upsert: a new row, or one that was parked or given up on, re-armed.
Enqueued(status) == IF status \in {"none", "held", "failed"} THEN "queued" ELSE status

\* Only queued and held rows: a running job owns itself.
CalledOff(status) == IF status \in {"queued", "held"} THEN "done" ELSE status

SetJob(type, status) == job' = [job EXCEPT ![type] = status]

\* Claiming a row that is already running is taking over an expired lease.
ClaimRow(type) == job[type] \in {"queued", "running"} /\ SetJob(type, "running")

\* An administrator puts a parked or abandoned job back.
RequeueRow(type) == job[type] \in {"held", "failed"} /\ SetJob(type, "queued")

-----------------------------------------------------------------------------
(* The order as the checkout transaction leaves it, and as it is moved.    *)

OrderCreated ==
  /\ state = "pending_payment"
  /\ graceOpen = FALSE
  /\ job = [type \in JobTypes |->
              IF type \in JobsOnEntering("pending_payment", "pending_payment", HasBalance)
              THEN Enqueued("none") ELSE "none"]
  /\ dateHeld = TRUE
  /\ link = "none"

JobsAfterMove(from, to) ==
  LET entered(type) == IF type \in JobsOnEntering(from, to, HasBalance)
                       THEN Enqueued(job[type]) ELSE job[type]
      stale == IF CancelsQueuedJobs(to) THEN JobTypes ELSE JobsCancelledOnLeaving(from)
  IN [type \in JobTypes |->
        IF type \in stale THEN CalledOff(entered(type)) ELSE entered(type)]

Retired(to) == IF link # "payable" THEN link
               ELSE IF to = "confirmed" THEN "paid" ELSE "void"

GraceAfterMove(from, to) ==
  to = "action_required" \/ (graceOpen /\ from # "action_required")

\* One database transaction: the order is locked, the move is asserted, and
\* every consequence is written.  mintsLink is what the caller's `also` adds.
ApplyTransition(to, mintsLink) ==
  /\ CanTransition(state, to)
  /\ state' = to
  /\ graceOpen' = GraceAfterMove(state, to)
  /\ job' = JobsAfterMove(state, to)
  /\ dateHeld' = (dateHeld /\ ~ReleasesCapacity(to))
  /\ link' = IF mintsLink THEN "payable"
             ELSE IF RetiresPaymentLinks(state, to) THEN Retired(to) ELSE link

Move(to) == ApplyTransition(to, FALSE)

=============================================================================

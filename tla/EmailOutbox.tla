----------------------------- MODULE EmailOutbox -----------------------------
(***************************************************************************)
(* What the customer is told, and whether it arrives.  A message is        *)
(* decided on inside the transaction that made it news: a row whose key    *)
(* says what the message is about, and the job that carries it.  Runners   *)
(* hand it to the provider, whose verdicts come back by webhook, repeated  *)
(* and out of order.  Broadcasts, which go through the same rows and jobs, *)
(* are left out.                                                           *)
(*                                                                         *)
(* The provider answers a key it has seen with the message it already      *)
(* took.  Wording is left out: a message is its template and what it is    *)
(* about, and the payment link in it, which no row keeps.                  *)
(*                                                                         *)
(* The specification has names of its own: the lifecycle whose moves it    *)
(* tells of is read beside it.                                             *)
(***************************************************************************)
EXTENDS OrderRows, Integers, FiniteSets, SequencesExt

CONSTANTS
  AutoSend,      \* the lifecycle templates an administrator left switched on
  Runners,       \* the processes that run jobs
  Nobody,        \* the owner of a job nobody runs
  MaxMessages,   \* bound on rows
  MaxMints,      \* bound on the links declines mint
  MaxTroubles    \* bound on deaths, lost leases and failed calls, together

VARIABLES
  sends,     \* email_sends, by age: [key, link, state, known]
  carrier,   \* the send_email job of each row
  owner,     \* who holds its lease
  taken,     \* how many messages the provider took for each row
  outrun,    \* history: the rows whose runner was still alive when its lease was taken
  runner,    \* what each process is in the middle of
  declined,  \* what each minted link was minted for, by age
  troubles

outbox == <<sends, carrier, owner, taken, outrun>>
vars == <<rows, outbox, runner, declined, troubles>>

Messages == 1 .. MaxMessages
Templates == {"order_confirmed", "order_confirmed_in_full", "balance_charged", "balance_failed",
              "order_completed", "order_cancelled", "refund_issued"}

ASSUME OutboxAssumption ==
  /\ AutoSend \subseteq Templates
  /\ Nobody \notin Runners
  /\ {MaxMessages, MaxMints, MaxTroubles} \subseteq Nat

\* The links minted so far, each voiding the one before.
minted == Len(declined)

Resting == [pc |-> "idle", m |-> 0]
At(r, pc) == runner[r].pc = pc

OutboxInit ==
  /\ OrderCreated
  /\ sends = <<>> /\ carrier = <<>> /\ owner = <<>> /\ taken = <<>> /\ outrun = {}
  /\ runner = [r \in Runners |-> Resting]
  /\ declined = <<>>
  /\ troubles = 0

-----------------------------------------------------------------------------
(* Deciding on a message.                                                  *)

\* Which move is news, edge by edge.
EmailOnEntering(from, to) ==
  CASE to = "confirmed" /\ from = "pending_payment" ->
         IF HasBalance THEN "order_confirmed" ELSE "order_confirmed_in_full"
    [] to = "confirmed" /\ from \in {"balance_due", "action_required"} -> "balance_charged"
    [] to = "completed"                               -> "order_completed"
    [] to = "cancelled" /\ from # "pending_payment"   -> "order_cancelled"
    [] to = "refunded" /\ from # "cancelled"          -> "refund_issued"
    [] OTHER                                          -> "none"

KeysOf(rowsOf) == {m.key : m \in ToSet(rowsOf)}

\* The transaction's new row and its job: a key that is there already says
\* the message was decided on before.  Bound: MaxMessages.
Queue(key, linkNo) ==
  IF key \in KeysOf(sends) THEN UNCHANGED outbox ELSE
    /\ Len(sends) < MaxMessages
    /\ sends' = Append(sends, [key |-> key, link |-> linkNo, state |-> "queued", known |-> FALSE])
    /\ carrier' = Append(carrier, "queued")
    /\ owner' = Append(owner, Nobody)
    /\ taken' = Append(taken, 0)
    /\ UNCHANGED outrun

\* Nothing is queued for a template that is switched off.
QueueTransactional(template, about, linkNo) ==
  IF template \in AutoSend THEN Queue(<<template, about>>, linkNo) ELSE UNCHANGED outbox

MoveAndTell(to) ==
  /\ to # "action_required"
  /\ to = "balance_due" => HasBalance
  /\ Move(to)
  /\ QueueTransactional(EmailOnEntering(state, to), to, 0)
  /\ UNCHANGED <<runner, declined, troubles>>

\* Mutant: one message per order.
AboutTheOrder(subject) == 0

\* The key tells two declines of an order apart by what they were about.
AboutTheDecline(subject) == subject

\* A decline is about the attempt the card refused or, when the deposit left no
\* card to charge, about the wait's deadline.  That is seldom new: two presses
\* of Retry may have adopted one pending attempt, and a wait has one deadline.
\* The first decline moves the order.  A later one, of an order that was waiting
\* when the charge began, mints another link only, whatever became of the order.
\* Bound: MaxMints.
HandOffToLink ==
  \E subject \in 1 .. minted + 1 :
    /\ minted < MaxMints
    /\ \/ state = "balance_due" /\ ApplyTransition("action_required", TRUE)
       \/ link # "none" /\ link' = "payable" /\ UNCHANGED <<state, graceOpen, job, dateHeld>>
    /\ declined' = Append(declined, subject)
    /\ QueueTransactional("balance_failed", AboutTheDecline(subject), minted + 1)
    /\ UNCHANGED <<runner, troubles>>

-----------------------------------------------------------------------------
(* The send_email job.                                                     *)

Trouble == troubles < MaxTroubles /\ troubles' = troubles + 1
Elsewhere == UNCHANGED <<rows, declined>>
GoTo(r, pc) == runner' = [runner EXCEPT ![r].pc = pc]

\* Mutant: a row that was claimed once stays with whoever claimed it.
QueuedAlone(r, m) == carrier[m] = "queued" /\ UNCHANGED <<outrun, troubles>>

\* A running row may be taken once its lease has run out: at once when its
\* owner is dead, and as a trouble when the owner is only slow.
Claimable(r, m) ==
  \/ carrier[m] = "queued" /\ UNCHANGED <<outrun, troubles>>
  \/ carrier[m] = "running" /\ owner[m] = Nobody /\ UNCHANGED <<outrun, troubles>>
  \/ /\ carrier[m] = "running" /\ owner[m] \notin {r, Nobody}
     /\ Trouble /\ outrun' = outrun \cup {m}

Claim(r, m) ==
  /\ At(r, "idle") /\ Claimable(r, m)
  /\ carrier' = [carrier EXCEPT ![m] = "running"]
  /\ owner' = [owner EXCEPT ![m] = r]
  /\ runner' = [runner EXCEPT ![r] = [pc |-> "read", m |-> m]]
  /\ UNCHANGED <<sends, taken>> /\ Elsewhere

\* What a retry may still send.
Unsent(s) == s \in {"queued", "failed"}

ReadSend(r) ==
  /\ At(r, "read")
  /\ GoTo(r, IF Unsent(sends[runner[r].m].state) THEN "send" ELSE "done")
  /\ UNCHANGED <<outbox, troubles>> /\ Elsewhere

\* Mutant: the provider is asked under a key of the attempt.
TakeAnother(count) == count + 1

\* The row's id is the key: a message taken before is not taken again.
TakeOnce(count) == 1

\* The provider takes the message and says so, refuses it, or takes it and
\* the answer is lost.
CallProvider(r) ==
  LET m == runner[r].m
      takes == taken' = [taken EXCEPT ![m] = TakeOnce(@)] IN
  /\ At(r, "send")
  /\ \/ takes /\ GoTo(r, "mark_sent") /\ UNCHANGED troubles
     \/ takes /\ GoTo(r, "mark_failed") /\ Trouble
     \/ UNCHANGED taken /\ GoTo(r, "mark_failed") /\ Trouble
  /\ UNCHANGED <<sends, carrier, owner, outrun>> /\ Elsewhere

\* By id alone, whatever the row has become.  A write that fails is caught
\* with the provider's own errors.
MarkSent(r) ==
  /\ At(r, "mark_sent")
  /\ \/ /\ sends' = [sends EXCEPT ![runner[r].m].state = "sent", ![runner[r].m].known = TRUE]
        /\ GoTo(r, "done") /\ UNCHANGED troubles
     \/ UNCHANGED sends /\ GoTo(r, "mark_failed") /\ Trouble
  /\ UNCHANGED <<carrier, owner, taken, outrun>> /\ Elsewhere

MarkFailed(r) ==
  /\ At(r, "mark_failed")
  /\ sends' = [sends EXCEPT ![runner[r].m].state = "failed"]
  /\ GoTo(r, "throw")
  /\ UNCHANGED <<carrier, owner, taken, outrun, troubles>> /\ Elsewhere

\* The runner writes its answer by the job's id, whoever holds the lease now:
\* done, or queued again, or given up.
Settle(r) ==
  LET m == runner[r].m IN
  /\ At(r, "done") \/ At(r, "throw")
  /\ runner' = [runner EXCEPT ![r] = Resting]
  /\ \E status \in IF At(r, "done") THEN {"done"} ELSE {"queued", "failed"} :
       carrier' = [carrier EXCEPT ![m] = status]
  /\ owner' = [owner EXCEPT ![m] = Nobody]
  /\ UNCHANGED <<sends, taken, outrun, troubles>> /\ Elsewhere

Die(r) ==
  /\ ~At(r, "idle") /\ Trouble
  /\ runner' = [runner EXCEPT ![r] = Resting]
  /\ owner' = [m \in DOMAIN owner |-> IF owner[m] = r THEN Nobody ELSE owner[m]]
  /\ UNCHANGED <<sends, carrier, taken, outrun>> /\ Elsewhere

-----------------------------------------------------------------------------
(* The provider's verdicts.                                                *)

\* Mutant: the last event to arrive is the one that counts.
AnyState(event) == {"queued", "sent", "delivered", "bounced", "complained", "failed"}

\* The states an event can follow.
Reachable(event) ==
  CASE event = "opened"    -> {"queued", "sent", "delivered", "bounced", "complained", "failed"}
    [] event = "delivered" -> {"queued", "sent"}
    [] OTHER               -> {"queued", "sent", "delivered"}

\* An opening is noted beside the state.
StateAfter(s, event) == IF event = "opened" THEN s ELSE event

\* Matched by the provider's id, which the row has once it is marked sent; an
\* event that matches nothing is dropped.
RecordDeliveryEvent(m, event) ==
  /\ taken[m] > 0 /\ sends[m].known /\ sends[m].state \in Reachable(event)
  /\ sends' = [sends EXCEPT ![m].state = StateAfter(@, event)]
  /\ UNCHANGED <<carrier, owner, taken, outrun, runner, troubles>> /\ Elsewhere

-----------------------------------------------------------------------------

Run(r) ==
  \/ \E m \in DOMAIN sends : Claim(r, m)
  \/ ReadSend(r) \/ CallProvider(r) \/ MarkSent(r) \/ MarkFailed(r) \/ Settle(r)

OutboxNext ==
  \/ \E to \in OrderStates : MoveAndTell(to)
  \/ HandOffToLink
  \/ \E r \in Runners : Run(r) \/ Die(r)
  \/ \E m \in DOMAIN sends, event \in {"delivered", "opened", "bounced", "complained"} :
       RecordDeliveryEvent(m, event)

\* The tick runs jobs, and a runner goes on with the one it has.
OutboxSpec == OutboxInit /\ [][OutboxNext]_vars /\ \A r \in Runners : WF_vars(Run(r))

-----------------------------------------------------------------------------

\* Rows, jobs and leases hold what their columns allow, and a mailed link is one
\* that was minted.
OutboxTypeOK ==
  /\ RowsTypeOK
  /\ \A m \in DOMAIN sends :
       /\ sends[m].state \in {"queued", "sent", "delivered", "bounced", "complained", "failed"}
       /\ sends[m].link \in 0 .. minted
       /\ carrier[m] \in JobStatus
       /\ owner[m] \in Runners \cup {Nobody}

\* One message per decision: a retry after a lost answer, a runner that
\* outlived its lease and the one that took over ask for the same message.
OneCopyEach == \A m \in DOMAIN sends : taken[m] <= 1

\* A job that answered `done` has handed its message over, and the row does
\* not say otherwise unless a runner without the lease wrote it.
DoneWasSent ==
  \A m \in DOMAIN sends : carrier[m] = "done" => taken[m] = 1 /\ sends[m].known

\* What the outbox says was sent was sent, and once.
SentAsSaid ==
  /\ OutboxTypeOK
  /\ OneCopyEach
  /\ DoneWasSent

\* A customer who has to pay was sent the link that pays, not only a link that
\* has been voided since, unless that link's decline was about an attempt or a
\* deadline an earlier one had been about (the `about` of
\* queueBalanceFailedEmail): that one voids the first link and is not mailed,
\* against the comment in handOffToLink.
WorkingLinkIsMailed ==
  state = "action_required" /\ "balance_failed" \in AutoSend =>
    \/ \E m \in DOMAIN sends : sends[m].link = minted
    \/ \E i \in 1 .. minted - 1 : declined[i] = declined[minted]

\* A bounce or a complaint is the last word on a message: no event arriving
\* late and no retry improves on it, except where a runner outlived its lease.
VerdictStands ==
  [][\A m \in DOMAIN sends \ outrun :
       sends[m].state \in {"bounced", "complained"} => sends'[m] = sends[m]]_vars

\* A message that was decided on is sent, or its job is left for a person.
DecidedIsSettled ==
  \A m \in Messages :
    m \in DOMAIN sends ~> (m \in DOMAIN sends /\ (taken[m] = 1 \/ carrier[m] = "failed"))

=============================================================================

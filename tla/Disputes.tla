------------------------------- MODULE Disputes -------------------------------
(***************************************************************************)
(* Complaints about one order, and the two ways they are closed: the       *)
(* complaints queue closes a case and takes the order with it              *)
(* (resolveDispute), the orders screen moves the order and closes its      *)
(* cases (resolveOrderIssue).  Both are one transaction, so what is        *)
(* modelled is what a transaction can wait for: the row locks, in the      *)
(* order the code takes them.  Nothing a transaction writes is seen by     *)
(* another before it commits, so the writes are made by the commit.        *)
(*                                                                         *)
(* The row locks and the detection of a deadlock are the database's; a     *)
(* new case locks its order against FOR UPDATE through its foreign key.    *)
(* Notes and assignment are left out: nothing here reads them.             *)
(***************************************************************************)
EXTENDS OrderRows, Integers, Relation

CONSTANTS
  Cases,     \* case ids
  Admins,    \* administrators, one transaction each at a time
  Outcomes,  \* the outcomes they choose between
  Free       \* the holder of a lock nobody holds

ChosenResolutions == {"refund_recorded", "vendor_warned", "dismissed"}

ASSUME DisputesAssumption ==
  Free \notin Admins \cup Cases /\ Outcomes \subseteq ChosenResolutions

VARIABLES
  case,       \* disputes.state and .resolution
  orderLock,  \* who holds the order's row
  caseLock,   \* who holds each case's row
  call        \* what each administrator is in the middle of

locks == <<orderLock, caseLock>>
vars == <<rows, case, locks, call>>

IssueTargets == {"confirmed", "fulfilled", "cancelled"}

\* Mutant: a dismissed complaint reads as one that was answered.
ResolvedAlways(resolution) == "resolved"

StateFor(resolution) == IF resolution = "dismissed" THEN "rejected" ELSE "resolved"

\* Reopening is absent.
Moves(from) ==
  CASE from = "open"         -> {"under_review", "resolved", "rejected"}
    [] from = "under_review" -> {"resolved", "rejected"}
    [] OTHER                 -> {}

IsOpen(c) == c.state \in {"open", "under_review"}
NoCase == [state |-> "none", resolution |-> "none"]
Opened == [state |-> "open", resolution |-> "none"]
Settled == [state |-> "resolved", resolution |-> "settled_with_order"]

Idle == [pc |-> "idle", asked |-> Free, resolution |-> "none", to |-> "none", todo |-> {}]
At(a, pc) == call[a].pc = pc

Init ==
  /\ OrderCreated
  /\ case = [c \in Cases |-> NoCase]
  /\ orderLock = Free
  /\ caseLock = [c \in Cases |-> Free]
  /\ call = [a \in Admins |-> Idle]

-----------------------------------------------------------------------------
(* Everybody else: one transaction that locks the order and moves it.      *)

Lifecycle == INSTANCE OrderLifecycle
  WITH HasBalance <- HasBalance, state <- state, graceOpen <- graceOpen,
       job <- job, dateHeld <- dateHeld, link <- link

OrderMoves ==
  /\ orderLock = Free
  /\ \/ Lifecycle!ConfirmPaid
     \/ Lifecycle!StartBalanceCharge
     \/ Lifecycle!DeclineBalance
     \/ Lifecycle!MarkFulfilled
     \/ Lifecycle!AutoComplete
     \/ Lifecycle!RaiseIssue
     \/ Lifecycle!CancelOrder
     \/ Lifecycle!RefundOrder
  /\ UNCHANGED <<case, locks, call>>

-----------------------------------------------------------------------------
(* Transactions that hold one row to the end.                              *)

\* Any order may be complained about, whatever it is doing.
OpenDispute(c) ==
  /\ orderLock = Free /\ case[c] = NoCase
  /\ case' = [case EXCEPT ![c] = Opened]
  /\ UNCHANGED <<rows, locks, call>>

StartDisputeReview(c) ==
  /\ caseLock[c] = Free /\ "under_review" \in Moves(case[c].state)
  /\ case' = [case EXCEPT ![c] = [state |-> "under_review", resolution |-> "none"]]
  /\ UNCHANGED <<rows, locks, call>>

-----------------------------------------------------------------------------
(* resolveDispute: the case, then the order, then the order's other cases. *)

StartResolve(a, c) ==
  /\ At(a, "idle") /\ case[c] # NoCase
  /\ \E resolution \in Outcomes, to \in IssueTargets \cup {"none"} :
       call' = [call EXCEPT ![a] =
                  [Idle EXCEPT !.pc = "lock_case", !.asked = c,
                               !.resolution = resolution, !.to = to]]
  /\ UNCHANGED <<rows, case, locks>>

\* Gives every row back.
EndTransaction(a) ==
  /\ call' = [call EXCEPT ![a] = Idle]
  /\ orderLock' = IF orderLock = a THEN Free ELSE orderLock
  /\ caseLock' = [c \in Cases |-> IF caseLock[c] = a THEN Free ELSE caseLock[c]]

\* What the transaction would have written is forgotten.
Rollback(a) ==
  /\ EndTransaction(a)
  /\ UNCHANGED <<rows, case>>

LockCase(a) ==
  LET c == call[a].asked IN
  /\ At(a, "lock_case") /\ caseLock[c] = Free
  /\ IF StateFor(call[a].resolution) \in Moves(case[c].state)
     THEN /\ caseLock' = [caseLock EXCEPT ![c] = a]
          /\ call' = [call EXCEPT ![a].pc = "lock_order"]
          /\ UNCHANGED <<rows, case, orderLock>>
     ELSE Rollback(a)

\* Mutant: a complaint is closed wherever its booking is.
FitsAnyOrder(to) == to = "none" \/ state = "issue"

\* The order is moved exactly when it waits for the complaint.
FitsTheOrder(to) == (to # "none") = (state = "issue")

\* Mutant: a refusal that leaves its transaction open.
RefuseAndKeep(a) ==
  /\ At(a, "lock_order") /\ call[a].asked # Free /\ orderLock = Free
  /\ orderLock' = IF FitsTheOrder(call[a].to) THEN a ELSE Free
  /\ call' = IF ~FitsTheOrder(call[a].to) THEN [call EXCEPT ![a] = Idle]
             ELSE [call EXCEPT ![a].pc = IF call[a].to = "none" THEN "commit" ELSE "list"]
  /\ UNCHANGED <<rows, case, caseLock>>

LockOrderOfCase(a) ==
  /\ At(a, "lock_order") /\ call[a].asked # Free /\ orderLock = Free
  /\ IF FitsTheOrder(call[a].to)
     THEN /\ orderLock' = a
          /\ call' = [call EXCEPT ![a].pc = IF call[a].to = "none" THEN "commit" ELSE "list"]
          /\ UNCHANGED <<rows, case, caseLock>>
     ELSE Rollback(a)

-----------------------------------------------------------------------------
(* resolveOrderIssue: the order, then every open case against it.          *)

StartResolveIssue(a) ==
  /\ At(a, "idle")
  /\ \E to \in IssueTargets :
       call' = [call EXCEPT ![a] = [Idle EXCEPT !.pc = "lock_order", !.to = to]]
  /\ UNCHANGED <<rows, case, locks>>

\* Asks for the move, and not whether the order is flagged.
LockOrderForIssue(a) ==
  /\ At(a, "lock_order") /\ call[a].asked = Free /\ orderLock = Free
  /\ IF CanTransition(state, call[a].to)
     THEN /\ orderLock' = a
          /\ call' = [call EXCEPT ![a].pc = "list"]
          /\ UNCHANGED <<rows, case, caseLock>>
     ELSE Rollback(a)

-----------------------------------------------------------------------------
(* closeDisputesForOrder, for both.                                        *)

\* Mutant: only what nobody has looked at.
OpenCasesUnseen == {c \in Cases : case[c].state = "open"}

\* What is committed as open when the list is read.
ListOpenForOrder == {c \in Cases : IsOpen(case[c])}

ListCases(a) ==
  /\ At(a, "list")
  /\ call' = [call EXCEPT ![a].pc = "close", ![a].todo = ListOpenForOrder \ {call[a].asked}]
  /\ UNCHANGED <<rows, case, locks>>

\* By id alone: whatever the case has become since the list was read.
CloseCase(a) ==
  /\ At(a, "close")
  /\ \E c \in call[a].todo :
       /\ caseLock[c] = Free
       /\ caseLock' = [caseLock EXCEPT ![c] = a]
       /\ call' = [call EXCEPT ![a].todo = @ \ {c}]
  /\ UNCHANGED <<rows, case, orderLock>>

-----------------------------------------------------------------------------

ReadyToCommit(a) == At(a, "commit") \/ (At(a, "close") /\ call[a].todo = {})

Outcome(a) == [state |-> StateFor(call[a].resolution), resolution |-> call[a].resolution]

\* The case as the administrator chose, its siblings with the order.
Written(a) ==
  [c \in Cases |-> IF c = call[a].asked THEN Outcome(a)
                   ELSE IF caseLock[c] = a THEN Settled ELSE case[c]]

\* Mutant: the order's row is written without the lifecycle.
WriteOrderState(to) ==
  /\ state' = IF to = "none" THEN state ELSE to
  /\ UNCHANGED <<graceOpen, job, dateHeld, link>>

TakeOrder(to) == IF to = "none" THEN UNCHANGED rows ELSE Move(to)

Commit(a) ==
  /\ ReadyToCommit(a)
  /\ TakeOrder(call[a].to)
  /\ case' = Written(a)
  /\ EndTransaction(a)

\* The process died, or lost its connection.
LoseConnection(a) ==
  /\ \E c \in Cases : caseLock[c] = a \/ orderLock = a
  /\ Rollback(a)

-----------------------------------------------------------------------------
(* The database's deadlock detector.                                       *)

WantsOrderOf(a, b) == At(a, "lock_order") /\ orderLock = b
WantsCaseOf(a, b) ==
  \/ At(a, "lock_case") /\ caseLock[call[a].asked] = b
  \/ At(a, "close") /\ \E c \in call[a].todo : caseLock[c] = b

WaitsFor == [a, b \in Admins |-> a # b /\ (WantsOrderOf(a, b) \/ WantsCaseOf(a, b))]
Deadlocked(a) == TransitiveClosure(WaitsFor, Admins)[a, a]

BreakDeadlock(a) == Deadlocked(a) /\ Rollback(a)

-----------------------------------------------------------------------------

Advance(a) ==
  \/ LockCase(a) \/ LockOrderOfCase(a) \/ LockOrderForIssue(a)
  \/ ListCases(a) \/ CloseCase(a) \/ Commit(a)

Next ==
  \/ OrderMoves
  \/ \E c \in Cases : OpenDispute(c) \/ StartDisputeReview(c)
  \/ \E a \in Admins :
       \/ \E c \in Cases : StartResolve(a, c)
       \/ StartResolveIssue(a)
       \/ Advance(a)
       \/ LoseConnection(a)
       \/ BreakDeadlock(a)

\* A transaction goes on when it can; whoever waits for a row gets it in turn,
\* as the database queues them; a deadlock is found.
Fairness ==
  \A a \in Admins : SF_vars(Advance(a)) /\ WF_vars(\E b \in Admins : BreakDeadlock(b))

Spec == Init /\ [][Next]_vars /\ Fairness

-----------------------------------------------------------------------------

\* Every row holds what its table allows: a case has an outcome when it is
\* closed, and is dismissed under its own state (disputes_resolution_matches_state).
TypeOK ==
  /\ RowsTypeOK
  /\ \A c \in Cases :
       /\ case[c].state \in {"none", "open", "under_review", "resolved", "rejected"}
       /\ case[c].state \in {"resolved", "rejected"} <=> case[c].resolution # "none"
       /\ case[c].state = "rejected" <=> case[c].resolution = "dismissed"
       /\ caseLock[c] \in Admins \cup {Free}
  /\ orderLock \in Admins \cup {Free}
  /\ \A a \in Admins : call[a].todo \subseteq Cases

\* A closed complaint never leaves its booking frozen: whoever closes it, and
\* whoever flagged the booking since the form was drawn, the order is out of
\* `issue` when the case is closed (inIssue under the lock in resolveDispute).
ClosingFreesTheOrder ==
  [][(\E c \in Cases : IsOpen(case[c]) /\ ~IsOpen(case'[c])) => state' # "issue"]_vars

\* An order an administrator takes out of `issue` takes every complaint about
\* it along, the one just opened and the one under review included.  Only a
\* commit moves the order under a lock.
FreeingClosesTheCases ==
  [][state = "issue" /\ state' # "issue" /\ orderLock # Free =>
       \A c \in Cases : ~IsOpen(case'[c])]_vars

\* A case has one outcome: no review that began earlier, no sibling's closing
\* and no second administrator overwrites what was decided.
ClosedStaysDecided ==
  [][\A c \in Cases : case[c] # NoCase /\ ~IsOpen(case[c]) => case'[c] = case[c]]_vars

\* Closing a complaint is final: it frees the booking, and it is decided once.
ClosingIsFinal == ClosingFreesTheOrder /\ ClosedStaysDecided

\* However two administrators cross each other, each gets an answer.
EveryCallEnds == \A a \in Admins : ~At(a, "idle") ~> At(a, "idle")

\* Closing complaints moves the order only as the lifecycle allows.
ImplementsLifecycle == Lifecycle!Spec

=============================================================================

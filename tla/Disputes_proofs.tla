----------------------------- MODULE Disputes_proofs -----------------------------
(***************************************************************************)
(* Closing a complaint is final and frees its booking, and freeing a       *)
(* booking closes all of its complaints, whatever the number of cases and  *)
(* administrators and wherever a transaction dies.  The argument is the    *)
(* order's lock: every transaction that closes a case holds it from its    *)
(* check to its commit, so nobody else closes, opens or moves meanwhile.   *)
(***************************************************************************)
EXTENDS Disputes, TLAPS

CaseRow == [state : {"none", "open", "under_review", "resolved", "rejected"},
            resolution : ChosenResolutions \cup {"none", "settled_with_order"}]

CallRow == [pc : {"idle", "lock_case", "lock_order", "list", "close", "commit"},
            asked : Cases \cup {Free}, resolution : Outcomes \cup {"none"},
            to : IssueTargets \cup {"none"}, todo : SUBSET Cases]

RowsTyped ==
  /\ RowsTypeOK
  /\ case \in [Cases -> CaseRow]
  /\ orderLock \in Admins \cup {Free}
  /\ caseLock \in [Cases -> Admins \cup {Free}]
  /\ call \in [Admins -> CallRow]

\* disputes_resolution_matches_state, the table's own constraint.
ResolutionFits(row) ==
  /\ row.state \in {"resolved", "rejected"} <=> row.resolution # "none"
  /\ row.state = "rejected" <=> row.resolution = "dismissed"

\* A case somebody holds is one that can still be closed.
LockedIsOpen == \A c \in Cases : caseLock[c] # Free => IsOpen(case[c])

PastItsChecks(a) == call[a].pc \in {"list", "close", "commit"}

\* A call about a case has an outcome for it, and holds it once it has looked.
AskedIsHeld(a) ==
  call[a].asked # Free =>
    /\ call[a].resolution \in Outcomes
    /\ call[a].pc \in {"lock_order", "list", "close", "commit"} => caseLock[call[a].asked] = a

\* From its check to its commit a call holds the order, and what it checked is
\* still so.
OrderIsHeld(a) ==
  PastItsChecks(a) =>
    /\ orderLock = a
    /\ call[a].asked # Free => FitsTheOrder(call[a].to)
    /\ call[a].to = "none" <=> call[a].pc = "commit"
    /\ call[a].to = "none" => call[a].asked # Free

\* The list is of open cases and stays complete while the order is held.
ListIsComplete(a) ==
  call[a].pc = "close" =>
    /\ \A c \in call[a].todo : IsOpen(case[c])
    /\ \A c \in Cases : IsOpen(case[c]) =>
         c \in call[a].todo \/ caseLock[c] = a \/ c = call[a].asked

IInv ==
  /\ RowsTyped
  /\ \A c \in Cases : ResolutionFits(case[c])
  /\ LockedIsOpen
  /\ \A a \in Admins : AskedIsHeld(a) /\ OrderIsHeld(a) /\ ListIsComplete(a)

-----------------------------------------------------------------------------
(* Moves of the order.                                                     *)

\* The abstract module's transaction is the same one.
LEMMA SameTransition ==
  ASSUME NEW to, NEW mintsLink
  PROVE  ApplyTransition(to, mintsLink) <=> Lifecycle!ApplyTransition(to, mintsLink)
<1>1. JobsAfterMove(state, to) = Lifecycle!JobsAfterMove(state, to)
  BY DEF JobsAfterMove, JobsOnEntering, OnEntering, JobTypes, CancelsQueuedJobs,
         JobsCancelledOnLeaving, Enqueued, CalledOff, IsTerminal, Allowed,
         ReleasesCapacity, CapacityIn,
         Lifecycle!JobsAfterMove, Lifecycle!JobsOnEntering, Lifecycle!OnEntering,
         Lifecycle!JobTypes, Lifecycle!CancelsQueuedJobs,
         Lifecycle!JobsCancelledOnLeaving, Lifecycle!Enqueued, Lifecycle!CalledOff,
         Lifecycle!IsTerminal, Lifecycle!Allowed, Lifecycle!ReleasesCapacity,
         Lifecycle!CapacityIn
<1>2. Retired(to) = Lifecycle!Retired(to)
  BY DEF Retired, Lifecycle!Retired
<1>3. CanTransition(state, to) <=> Lifecycle!CanTransition(state, to)
  BY DEF CanTransition, Allowed, Lifecycle!CanTransition, Lifecycle!Allowed
<1>4. /\ ReleasesCapacity(to) <=> Lifecycle!ReleasesCapacity(to)
      /\ RetiresPaymentLinks(state, to) <=> Lifecycle!RetiresPaymentLinks(state, to)
  BY DEF ReleasesCapacity, CapacityIn, RetiresPaymentLinks, IsTerminal, Allowed,
         Lifecycle!ReleasesCapacity, Lifecycle!CapacityIn,
         Lifecycle!RetiresPaymentLinks, Lifecycle!IsTerminal, Lifecycle!Allowed
<1> QED BY <1>1, <1>2, <1>3, <1>4
        DEF ApplyTransition, GraceAfterMove,
            Lifecycle!ApplyTransition, Lifecycle!GraceAfterMove

LEMMA SameMove ==
  ASSUME NEW to
  PROVE  Move(to) <=> Lifecycle!Move(to)
BY SameTransition DEF Move, Lifecycle!Move

\* Every row of the order keeps a value of its column's type.
LEMMA TransitionTyped ==
  ASSUME RowsTypeOK, NEW to, NEW mintsLink \in BOOLEAN, ApplyTransition(to, mintsLink)
  PROVE  RowsTypeOK' /\ state' = to
<1>1. /\ state' = to /\ to \in Allowed(state) /\ job' = JobsAfterMove(state, to)
  BY DEF ApplyTransition, CanTransition
<1>2. to \in OrderStates
  BY <1>1 DEF Allowed, OrderStates
<1>3. \A status \in JobStatus : Enqueued(status) \in JobStatus /\ CalledOff(status) \in JobStatus
  BY DEF JobStatus, Enqueued, CalledOff
<1>4. job' \in [JobTypes -> JobStatus]
  BY <1>1, <1>3 DEF JobsAfterMove, RowsTypeOK
<1>5. graceOpen' \in BOOLEAN
  BY DEF ApplyTransition, GraceAfterMove
<1>6. dateHeld' \in BOOLEAN
  BY DEF ApplyTransition
<1>7. link' \in LinkState
  BY DEF ApplyTransition, Retired, LinkState, RowsTypeOK
<1> QED BY <1>1, <1>2, <1>4, <1>5, <1>6, <1>7 DEF RowsTypeOK

\* Everybody else's move is one such transaction.
LEMMA OrderMovesByTransition ==
  ASSUME OrderMoves
  PROVE  \E to \in OrderStates, mintsLink \in BOOLEAN : ApplyTransition(to, mintsLink)
<1>1. \E to \in OrderStates, mintsLink \in BOOLEAN : Lifecycle!ApplyTransition(to, mintsLink)
  BY DEF OrderMoves, Lifecycle!ConfirmPaid, Lifecycle!StartBalanceCharge,
         Lifecycle!DeclineBalance, Lifecycle!MarkFulfilled, Lifecycle!AutoComplete,
         Lifecycle!RaiseIssue, Lifecycle!CancelOrder, Lifecycle!RefundOrder, Lifecycle!Move,
         OrderStates
<1> QED BY <1>1, SameTransition

-----------------------------------------------------------------------------
(* The invariant, step by step.                                            *)

LEMMA OrderMovesStep ==
  ASSUME IInv, OrderMoves
  PROVE  IInv'
<1>1. orderLock = Free /\ UNCHANGED <<case, locks, call>>
  BY DEF OrderMoves
<1>2. RowsTypeOK'
  BY OrderMovesByTransition, TransitionTyped DEF IInv, RowsTyped
<1>3. RowsTyped'
  BY <1>1, <1>2 DEF IInv, RowsTyped, locks
<1>4. LockedIsOpen' /\ \A c \in Cases : ResolutionFits(case[c])'
  BY <1>1 DEF IInv, LockedIsOpen, ResolutionFits, IsOpen, locks
<1>5. ASSUME NEW a \in Admins
      PROVE  AskedIsHeld(a)' /\ OrderIsHeld(a)' /\ ListIsComplete(a)'
  <2>1. ~PastItsChecks(a)
    BY <1>1, DisputesAssumption DEF IInv, OrderIsHeld, DisputesAssumption
  <2>2. ~PastItsChecks(a)' /\ call'[a].pc # "close"
    BY <1>1, <2>1 DEF PastItsChecks
  <2> QED BY <1>1, <2>2 DEF IInv, AskedIsHeld, OrderIsHeld, ListIsComplete, locks
<1> QED BY <1>3, <1>4, <1>5 DEF IInv

\* Only a case nobody holds is opened or reviewed, and a case is opened only
\* while nobody holds the order.
LEMMA CaseStep ==
  ASSUME IInv, NEW c \in Cases, OpenDispute(c) \/ StartDisputeReview(c)
  PROVE  IInv'
<1>1. /\ case[c] \in CaseRow
      /\ UNCHANGED <<rows, locks, call>>
      /\ \/ orderLock = Free /\ case[c] = NoCase /\ case' = [case EXCEPT ![c] = Opened]
         \/ /\ caseLock[c] = Free /\ IsOpen(case[c])
            /\ case' = [case EXCEPT ![c] = [state |-> "under_review", resolution |-> "none"]]
  BY DEF IInv, RowsTyped, CaseRow, OpenDispute, StartDisputeReview, Moves, IsOpen
<1>2. /\ case'[c] \in CaseRow /\ IsOpen(case'[c]) /\ ResolutionFits(case'[c])
      /\ \A d \in Cases \ {c} : case'[d] = case[d]
      /\ case' \in [Cases -> CaseRow]
  BY <1>1 DEF IInv, RowsTyped, CaseRow, Opened, IsOpen, ResolutionFits
<1>3. RowsTyped'
  BY <1>1, <1>2 DEF IInv, RowsTyped, RowsTypeOK, rows, locks
<1>4. \A d \in Cases : ResolutionFits(case'[d])
  BY <1>2 DEF IInv
<1>5. LockedIsOpen'
  BY <1>1, <1>2 DEF IInv, LockedIsOpen, locks
<1>6. ASSUME NEW a \in Admins
      PROVE  AskedIsHeld(a)' /\ OrderIsHeld(a)' /\ ListIsComplete(a)'
  <2>1. AskedIsHeld(a)' /\ OrderIsHeld(a)'
    BY <1>1 DEF IInv, AskedIsHeld, OrderIsHeld, PastItsChecks, FitsTheOrder, rows, locks
  <2>2. ListIsComplete(a)'
    <3>1. CASE call[a].pc # "close"
      BY <1>1, <3>1 DEF ListIsComplete
    <3>2. CASE call[a].pc = "close"
      <4>1. orderLock = a /\ orderLock # Free
        BY <3>2, DisputesAssumption
           DEF IInv, OrderIsHeld, PastItsChecks, DisputesAssumption
      <4>2. IsOpen(case[c])
        BY <1>1, <4>1
      <4>3. \A d \in Cases : IsOpen(case[d]) <=> IsOpen(case'[d])
        BY <1>2, <4>2
      <4>4. call' = call /\ caseLock' = caseLock /\ call[a].todo \subseteq Cases
        BY <1>1 DEF locks, IInv, RowsTyped, CallRow
      <4> QED BY <3>2, <4>3, <4>4 DEF IInv, ListIsComplete
    <3> QED BY <3>1, <3>2
  <2> QED BY <2>1, <2>2
<1> QED BY <1>3, <1>4, <1>5, <1>6 DEF IInv

LEMMA StartStep ==
  ASSUME IInv, NEW a \in Admins,
         StartResolveIssue(a) \/ \E c \in Cases : StartResolve(a, c)
  PROVE  IInv'
<1> DEFINE Started(row) ==
             /\ call' = [call EXCEPT ![a] = row]
             /\ row.pc \in {"lock_case", "lock_order"}
             /\ row.asked # Free => row.pc = "lock_case" /\ row.resolution \in Outcomes
<1>1. UNCHANGED <<rows, case, locks>> /\ \E row \in CallRow : Started(row)
  <2>1. CASE StartResolveIssue(a)
    <3>1. PICK to \in IssueTargets :
            call' = [call EXCEPT ![a] = [Idle EXCEPT !.pc = "lock_order", !.to = to]]
      BY <2>1 DEF StartResolveIssue
    <3>2. /\ [Idle EXCEPT !.pc = "lock_order", !.to = to] \in CallRow
          /\ [Idle EXCEPT !.pc = "lock_order", !.to = to].pc = "lock_order"
          /\ [Idle EXCEPT !.pc = "lock_order", !.to = to].asked = Free
      BY DEF Idle, CallRow
    <3> QED BY <2>1, <3>1, <3>2 DEF StartResolveIssue
  <2>2. ASSUME NEW c \in Cases, StartResolve(a, c)
        PROVE  UNCHANGED <<rows, case, locks>> /\ \E row \in CallRow : Started(row)
    <3>1. PICK resolution \in Outcomes, to \in IssueTargets \cup {"none"} :
            call' = [call EXCEPT ![a] = [Idle EXCEPT !.pc = "lock_case", !.asked = c,
                                                     !.resolution = resolution, !.to = to]]
      BY <2>2 DEF StartResolve
    <3> DEFINE row == [Idle EXCEPT !.pc = "lock_case", !.asked = c,
                                   !.resolution = resolution, !.to = to]
    <3>2. row \in CallRow /\ row.pc = "lock_case" /\ row.resolution \in Outcomes
      BY DEF Idle, CallRow
    <3> QED BY <2>2, <3>1, <3>2 DEF StartResolve
  <2> QED BY <2>1, <2>2
<1>2. PICK row \in CallRow : Started(row)
  BY <1>1
<1>3. call'[a] = row /\ \A b \in Admins \ {a} : call'[b] = call[b]
  BY <1>2 DEF IInv, RowsTyped
<1>4. RowsTyped'
  BY <1>1, <1>2 DEF IInv, RowsTyped, RowsTypeOK, rows, locks
<1>5. LockedIsOpen' /\ \A c \in Cases : ResolutionFits(case[c])'
  BY <1>1 DEF IInv, LockedIsOpen, ResolutionFits, IsOpen, locks
<1>6. ASSUME NEW b \in Admins
      PROVE  AskedIsHeld(b)' /\ OrderIsHeld(b)' /\ ListIsComplete(b)'
  <2>1. CASE b = a
    BY <1>2, <1>3, <2>1 DEF AskedIsHeld, OrderIsHeld, ListIsComplete, PastItsChecks
  <2>2. CASE b # a
    BY <1>1, <1>3, <2>2 DEF IInv, AskedIsHeld, OrderIsHeld, ListIsComplete, PastItsChecks,
                            FitsTheOrder, rows, locks
  <2> QED BY <2>1, <2>2
<1> QED BY <1>4, <1>5, <1>6 DEF IInv

\* Giving the rows back takes nothing from anybody else.
LEMMA EndTransactionLeaves ==
  ASSUME IInv, NEW a \in Admins, EndTransaction(a)
  PROVE  /\ call'[a] = Idle /\ \A b \in Admins \ {a} : call'[b] = call[b]
         /\ call' \in [Admins -> CallRow]
         /\ orderLock' \in Admins \cup {Free}
         /\ caseLock' \in [Cases -> Admins \cup {Free}]
         /\ \A b \in Admins \ {a} : orderLock = b => orderLock' = b
         /\ \A c \in Cases : /\ caseLock'[c] # Free => caseLock'[c] = caseLock[c]
                             /\ caseLock[c] # a => caseLock'[c] = caseLock[c]
                             /\ caseLock'[c] # a
<1>1. Idle \in CallRow
  BY DEF Idle, CallRow
<1> QED BY <1>1, DisputesAssumption DEF EndTransaction, IInv, RowsTyped, DisputesAssumption

LEMMA RollbackStep ==
  ASSUME IInv, NEW a \in Admins, Rollback(a)
  PROVE  IInv'
<1>1. EndTransaction(a) /\ UNCHANGED <<rows, case>>
  BY DEF Rollback
<1>2. /\ call'[a] = Idle /\ \A b \in Admins \ {a} : call'[b] = call[b]
      /\ call' \in [Admins -> CallRow]
      /\ orderLock' \in Admins \cup {Free}
      /\ caseLock' \in [Cases -> Admins \cup {Free}]
      /\ \A b \in Admins \ {a} : orderLock = b => orderLock' = b
      /\ \A c \in Cases : /\ caseLock'[c] # Free => caseLock'[c] = caseLock[c]
                          /\ caseLock[c] # a => caseLock'[c] = caseLock[c]
  BY <1>1, EndTransactionLeaves
<1>3. RowsTyped'
  BY <1>1, <1>2 DEF IInv, RowsTyped, RowsTypeOK, rows
<1>4. LockedIsOpen' /\ \A c \in Cases : ResolutionFits(case[c])'
  BY <1>1, <1>2 DEF IInv, LockedIsOpen, ResolutionFits, IsOpen
<1>5. ASSUME NEW b \in Admins
      PROVE  AskedIsHeld(b)' /\ OrderIsHeld(b)' /\ ListIsComplete(b)'
  <2>1. CASE b = a
    BY <1>2, <2>1 DEF AskedIsHeld, OrderIsHeld, ListIsComplete, PastItsChecks, Idle
  <2>2. CASE b # a
    <3>1. call[b].asked \in Cases \cup {Free}
      BY DEF IInv, RowsTyped, CallRow
    <3>2. AskedIsHeld(b)'
      BY <1>2, <2>2, <3>1 DEF IInv, AskedIsHeld
    <3>3. OrderIsHeld(b)'
      BY <1>1, <1>2, <2>2 DEF IInv, OrderIsHeld, PastItsChecks, FitsTheOrder, rows
    <3>4. ListIsComplete(b)'
      BY <1>1, <1>2, <2>2 DEF IInv, ListIsComplete
    <3> QED BY <3>2, <3>3, <3>4
  <2> QED BY <2>1, <2>2
<1> QED BY <1>3, <1>4, <1>5 DEF IInv

LEMMA LockCaseStep ==
  ASSUME IInv, NEW a \in Admins, LockCase(a)
  PROVE  IInv'
<1> DEFINE c == call[a].asked
<1>1. /\ call[a].pc = "lock_case" /\ caseLock[c] = Free
      /\ \/ /\ StateFor(call[a].resolution) \in Moves(case[c].state)
            /\ caseLock' = [caseLock EXCEPT ![c] = a]
            /\ call' = [call EXCEPT ![a].pc = "lock_order"]
            /\ UNCHANGED <<rows, case, orderLock>>
         \/ Rollback(a)
  BY DEF LockCase, At
<1>2. CASE Rollback(a)
  BY <1>2, RollbackStep
<1>3. CASE ~Rollback(a)
  <2>1. /\ StateFor(call[a].resolution) \in Moves(case[c].state)
        /\ caseLock' = [caseLock EXCEPT ![c] = a]
        /\ call' = [call EXCEPT ![a].pc = "lock_order"]
        /\ UNCHANGED <<rows, case, orderLock>>
    BY <1>1, <1>3
  <2>2. IsOpen(case[c])
    BY <2>1 DEF Moves, IsOpen
  <2>3. /\ call[a] \in CallRow /\ call'[a] = [call[a] EXCEPT !.pc = "lock_order"]
        /\ \A b \in Admins \ {a} : call'[b] = call[b]
    BY <2>1 DEF IInv, RowsTyped
  <2>4. call'[a] \in CallRow /\ call'[a].pc = "lock_order" /\ call'[a].asked = c
        /\ call'[a].resolution = call[a].resolution
    BY <2>3 DEF CallRow
  <2>5. caseLock' \in [Cases -> Admins \cup {Free}] /\ call' \in [Admins -> CallRow]
    BY <2>1, <2>4 DEF IInv, RowsTyped
  <2>6. RowsTyped'
    BY <2>1, <2>5 DEF IInv, RowsTyped, RowsTypeOK, rows
  <2>7. /\ \A d \in Cases \ {c} : caseLock'[d] = caseLock[d]
        /\ c \in Cases => caseLock'[c] = a
    BY <2>1 DEF IInv, RowsTyped
  <2>8. LockedIsOpen' /\ \A d \in Cases : ResolutionFits(case[d])'
    BY <2>1, <2>2, <2>7 DEF IInv, LockedIsOpen, ResolutionFits, IsOpen
  <2>9. ASSUME NEW b \in Admins
        PROVE  AskedIsHeld(b)' /\ OrderIsHeld(b)' /\ ListIsComplete(b)'
    <3>1. CASE b = a
      <4>1. c # Free => c \in Cases
        BY <2>3 DEF CallRow
      <4>2. AskedIsHeld(a)'
        BY <2>4, <2>7, <4>1 DEF IInv, AskedIsHeld
      <4> QED BY <2>4, <3>1, <4>2 DEF OrderIsHeld, ListIsComplete, PastItsChecks
    <3>2. CASE b # a
      <4>1. call[b].asked \in Cases \cup {Free}
        BY DEF IInv, RowsTyped, CallRow
      <4>2. \A d \in Cases : caseLock[d] = b => caseLock'[d] = b
        BY <1>1, <2>7, DisputesAssumption DEF DisputesAssumption
      <4>3. AskedIsHeld(b)'
        BY <2>3, <3>2, <4>1, <4>2 DEF IInv, AskedIsHeld
      <4>4. OrderIsHeld(b)'
        BY <2>1, <2>3, <3>2 DEF IInv, OrderIsHeld, PastItsChecks, FitsTheOrder, rows
      <4>5. ListIsComplete(b)'
        BY <2>1, <2>3, <3>2, <4>2 DEF IInv, ListIsComplete
      <4> QED BY <4>3, <4>4, <4>5
    <3> QED BY <3>1, <3>2
  <2> QED BY <2>6, <2>8, <2>9 DEF IInv
<1> QED BY <1>2, <1>3

\* resolveDispute and resolveOrderIssue take the order's row in one way: the
\* check passes under the lock, or the transaction ends.
LEMMA LockOrderStep ==
  ASSUME IInv, NEW a \in Admins, LockOrderOfCase(a) \/ LockOrderForIssue(a)
  PROVE  IInv'
<1>1. CASE Rollback(a)
  BY <1>1, RollbackStep
<1>2. CASE ~Rollback(a)
  <2>1. /\ call[a].pc = "lock_order" /\ orderLock = Free /\ orderLock' = a
        /\ UNCHANGED <<rows, case, caseLock>>
        /\ \E pc \in {"list", "commit"} :
             /\ call' = [call EXCEPT ![a].pc = pc]
             /\ call[a].asked # Free => /\ FitsTheOrder(call[a].to)
                                        /\ pc = "commit" <=> call[a].to = "none"
             /\ call[a].asked = Free => pc = "list" /\ call[a].to # "none"
    <3>1. CASE LockOrderOfCase(a)
      <4>1. /\ call[a].pc = "lock_order" /\ call[a].asked # Free /\ orderLock = Free
            /\ FitsTheOrder(call[a].to) /\ orderLock' = a
            /\ call' = [call EXCEPT ![a].pc = IF call[a].to = "none" THEN "commit" ELSE "list"]
            /\ UNCHANGED <<rows, case, caseLock>>
        BY <1>2, <3>1 DEF LockOrderOfCase, At
      <4>2. CASE call[a].to = "none"
        BY <4>1, <4>2
      <4>3. CASE call[a].to # "none"
        BY <4>1, <4>3
      <4> QED BY <4>2, <4>3
    <3>2. CASE LockOrderForIssue(a)
      <4>1. ~CanTransition(state, "none")
        BY DEF CanTransition, Allowed
      <4> QED BY <1>2, <3>2, <4>1 DEF LockOrderForIssue, At
    <3> QED BY <3>1, <3>2
  <2>2. PICK pc \in {"list", "commit"} :
          /\ call' = [call EXCEPT ![a].pc = pc]
          /\ call[a].asked # Free => /\ FitsTheOrder(call[a].to)
                                     /\ pc = "commit" <=> call[a].to = "none"
          /\ call[a].asked = Free => pc = "list" /\ call[a].to # "none"
    BY <2>1
  <2>3. /\ call[a] \in CallRow /\ call'[a] = [call[a] EXCEPT !.pc = pc]
        /\ \A b \in Admins \ {a} : call'[b] = call[b]
    BY <2>2 DEF IInv, RowsTyped
  <2>4. /\ call'[a] \in CallRow /\ call'[a].pc = pc /\ call'[a].asked = call[a].asked
        /\ call'[a].resolution = call[a].resolution /\ call'[a].to = call[a].to
    BY <2>3 DEF CallRow
  <2>5. call' \in [Admins -> CallRow]
    BY <2>2, <2>4 DEF IInv, RowsTyped
  <2>6. RowsTyped'
    BY <2>1, <2>5 DEF IInv, RowsTyped, RowsTypeOK, rows
  <2>7. LockedIsOpen' /\ \A d \in Cases : ResolutionFits(case[d])'
    BY <2>1 DEF IInv, LockedIsOpen, ResolutionFits, IsOpen
  <2>8. ASSUME NEW b \in Admins
        PROVE  AskedIsHeld(b)' /\ OrderIsHeld(b)' /\ ListIsComplete(b)'
    <3>1. CASE b = a
      <4>1. AskedIsHeld(a)'
        BY <2>1, <2>4 DEF IInv, AskedIsHeld
      <4>2. FitsTheOrder(call[a].to) <=> FitsTheOrder(call[a].to)'
        BY <2>1, <2>4 DEF FitsTheOrder, rows
      <4>3. OrderIsHeld(a)'
        BY <2>1, <2>2, <2>4, <4>2 DEF OrderIsHeld
      <4> QED BY <2>4, <3>1, <4>1, <4>3 DEF ListIsComplete
    <3>2. CASE b # a
      <4>1. ~PastItsChecks(b)
        BY <2>1, DisputesAssumption DEF IInv, OrderIsHeld, DisputesAssumption
      <4> QED BY <2>1, <2>3, <3>2, <4>1
              DEF IInv, AskedIsHeld, OrderIsHeld, ListIsComplete, PastItsChecks
    <3> QED BY <3>1, <3>2
  <2> QED BY <2>6, <2>7, <2>8 DEF IInv
<1> QED BY <1>1, <1>2

\* The list is read and worked through under the order's lock.
LEMMA ListStep ==
  ASSUME IInv, NEW a \in Admins, ListCases(a) \/ CloseCase(a)
  PROVE  IInv'
<1>1. /\ PastItsChecks(a) /\ call[a].pc # "commit"
      /\ UNCHANGED <<rows, case, orderLock>>
      /\ \E todo \in SUBSET Cases :
           /\ call' = [call EXCEPT ![a].pc = "close", ![a].todo = todo]
           /\ \A c \in todo : IsOpen(case[c])
           /\ \A c \in Cases : IsOpen(case[c]) =>
                c \in todo \/ caseLock'[c] = a \/ c = call[a].asked
      /\ \A c \in Cases : \/ caseLock'[c] = caseLock[c]
                          \/ caseLock[c] = Free /\ caseLock'[c] = a /\ IsOpen(case[c])
      /\ caseLock' \in [Cases -> Admins \cup {Free}]
  <2>1. CASE ListCases(a)
    <3>1. ListOpenForOrder \ {call[a].asked} \in SUBSET Cases
      BY DEF ListOpenForOrder
    <3> QED BY <2>1, <3>1
            DEF ListCases, At, PastItsChecks, ListOpenForOrder, locks, IInv, RowsTyped
  <2>2. CASE CloseCase(a)
    <3>1. PICK c \in call[a].todo :
            /\ caseLock[c] = Free
            /\ caseLock' = [caseLock EXCEPT ![c] = a]
            /\ call' = [call EXCEPT ![a].todo = @ \ {c}]
      BY <2>2 DEF CloseCase
    <3>2. call[a].pc = "close" /\ call[a] \in CallRow
      BY <2>2 DEF CloseCase, At, IInv, RowsTyped
    <3>3. /\ call[a].todo \in SUBSET Cases /\ IsOpen(case[c])
          /\ \A d \in call[a].todo : IsOpen(case[d])
          /\ \A d \in Cases : IsOpen(case[d]) =>
               d \in call[a].todo \/ caseLock[d] = a \/ d = call[a].asked
      BY <3>2 DEF CallRow, IInv, ListIsComplete
    <3>4. call' = [call EXCEPT ![a].pc = "close", ![a].todo = call[a].todo \ {c}]
      <4>1. [call[a] EXCEPT !.todo = @ \ {c}]
              = [call[a] EXCEPT !.pc = "close", !.todo = call[a].todo \ {c}]
        BY <3>2 DEF CallRow
      <4> QED BY <3>1, <4>1 DEF IInv, RowsTyped
    <3>5. /\ caseLock' \in [Cases -> Admins \cup {Free}] /\ caseLock'[c] = a
          /\ \A d \in Cases \ {c} : caseLock'[d] = caseLock[d]
      BY <3>1, <3>3 DEF IInv, RowsTyped
    <3>6. \A d \in Cases : IsOpen(case[d]) =>
            d \in call[a].todo \ {c} \/ caseLock'[d] = a \/ d = call[a].asked
      BY <3>3, <3>5
    <3>7. \A d \in Cases : \/ caseLock'[d] = caseLock[d]
                           \/ caseLock[d] = Free /\ caseLock'[d] = a /\ IsOpen(case[d])
      BY <3>1, <3>3, <3>5
    <3>8. call[a].todo \ {c} \in SUBSET Cases
      BY <3>3
    <3> QED BY <2>2, <3>2, <3>3, <3>4, <3>5, <3>6, <3>7, <3>8 DEF CloseCase, PastItsChecks
  <2> QED BY <2>1, <2>2
<1>2. PICK todo \in SUBSET Cases :
        /\ call' = [call EXCEPT ![a].pc = "close", ![a].todo = todo]
        /\ \A c \in todo : IsOpen(case[c])
        /\ \A c \in Cases : IsOpen(case[c]) =>
             c \in todo \/ caseLock'[c] = a \/ c = call[a].asked
  BY <1>1
<1>3. /\ call[a] \in CallRow
      /\ call'[a] = [call[a] EXCEPT !.pc = "close", !.todo = todo]
      /\ \A b \in Admins \ {a} : call'[b] = call[b]
  BY <1>2 DEF IInv, RowsTyped
<1>4. /\ call'[a] \in CallRow /\ call'[a].pc = "close" /\ call'[a].todo = todo
      /\ call'[a].asked = call[a].asked /\ call'[a].to = call[a].to
      /\ call'[a].resolution = call[a].resolution
  BY <1>3 DEF CallRow
<1>5. call' \in [Admins -> CallRow]
  BY <1>2, <1>4 DEF IInv, RowsTyped
<1>6. RowsTyped'
  BY <1>1, <1>5 DEF IInv, RowsTyped, RowsTypeOK, rows
<1>7. LockedIsOpen' /\ \A d \in Cases : ResolutionFits(case[d])'
  BY <1>1 DEF IInv, LockedIsOpen, ResolutionFits, IsOpen
<1>8. \A b \in Admins : \A c \in Cases : caseLock[c] = b => caseLock'[c] = b
  BY <1>1, DisputesAssumption DEF DisputesAssumption
<1>9. ASSUME NEW b \in Admins
      PROVE  AskedIsHeld(b)' /\ OrderIsHeld(b)' /\ ListIsComplete(b)'
  <2>1. call[b].asked \in Cases \cup {Free}
    BY DEF IInv, RowsTyped, CallRow
  <2>2. CASE b = a
    <3>1. AskedIsHeld(a)'
      BY <1>1, <1>4, <1>8, <2>1, <2>2 DEF IInv, AskedIsHeld, PastItsChecks
    <3>2. FitsTheOrder(call[a].to) <=> FitsTheOrder(call[a].to)'
      BY <1>1, <1>4 DEF FitsTheOrder, rows
    <3>3. OrderIsHeld(a)'
      BY <1>1, <1>4, <3>2 DEF IInv, OrderIsHeld, PastItsChecks
    <3>4. ListIsComplete(a)'
      BY <1>1, <1>2, <1>4 DEF ListIsComplete
    <3> QED BY <2>2, <3>1, <3>3, <3>4
  <2>3. CASE b # a
    <3>1. ~PastItsChecks(b)
      BY <1>1, <2>3 DEF IInv, OrderIsHeld
    <3>2. AskedIsHeld(b)'
      BY <1>3, <1>8, <2>1, <2>3 DEF IInv, AskedIsHeld
    <3> QED BY <1>3, <2>3, <3>1, <3>2 DEF OrderIsHeld, ListIsComplete, PastItsChecks
  <2> QED BY <2>2, <2>3
<1> QED BY <1>6, <1>7, <1>9 DEF IInv

\* What a commit writes: no case but the ones it holds, all of them closed, and
\* with the order the last one of the order's.
LEMMA CommitWrites ==
  ASSUME IInv, NEW a \in Admins, Commit(a)
  PROVE  /\ orderLock = a
         /\ call[a].to = "none" => state # "issue" /\ UNCHANGED rows
         /\ call[a].to # "none" => call[a].to \in IssueTargets /\ Move(call[a].to)
         /\ case' \in [Cases -> CaseRow]
         /\ \A c \in Cases : \/ /\ caseLock[c] # a /\ case'[c] = case[c]
                             \/ /\ caseLock[c] = a /\ IsOpen(case[c]) /\ ~IsOpen(case'[c])
                                /\ ResolutionFits(case'[c])
         /\ call[a].to # "none" => \A c \in Cases : ~IsOpen(case'[c])
<1>1. /\ call[a] \in CallRow /\ PastItsChecks(a)
      /\ AskedIsHeld(a) /\ OrderIsHeld(a) /\ ListIsComplete(a)
  BY DEF Commit, ReadyToCommit, At, PastItsChecks, IInv, RowsTyped
<1>2. orderLock = a /\ a # Free
  BY <1>1, DisputesAssumption DEF OrderIsHeld, DisputesAssumption
<1>3. call[a].to = "none" => state # "issue" /\ UNCHANGED rows
  BY <1>1 DEF OrderIsHeld, FitsTheOrder, Commit, TakeOrder
<1>4. call[a].to # "none" => call[a].to \in IssueTargets /\ Move(call[a].to)
  BY <1>1 DEF CallRow, Commit, TakeOrder
<1>5. case' = Written(a)
  BY DEF Commit
<1>6. ASSUME NEW c \in Cases, c = call[a].asked
      PROVE  /\ caseLock[c] = a /\ case'[c] \in CaseRow
             /\ ~IsOpen(case'[c]) /\ ResolutionFits(case'[c])
  <2>1. /\ caseLock[c] = a
        /\ call[a].resolution \in ChosenResolutions
    BY <1>1, <1>6, DisputesAssumption DEF AskedIsHeld, PastItsChecks, DisputesAssumption
  <2>2. case'[c] = Outcome(a)
    BY <1>5, <1>6 DEF Written
  <2>3. /\ Outcome(a).state = StateFor(call[a].resolution)
        /\ Outcome(a).resolution = call[a].resolution
        /\ Outcome(a) \in CaseRow
    BY <2>1 DEF Outcome, StateFor, CaseRow
  <2> QED BY <2>1, <2>2, <2>3 DEF StateFor, IsOpen, ResolutionFits, ChosenResolutions
<1>7. ASSUME NEW c \in Cases, c # call[a].asked, caseLock[c] = a
      PROVE  case'[c] \in CaseRow /\ ~IsOpen(case'[c]) /\ ResolutionFits(case'[c])
  <2>1. case'[c] = Settled
    BY <1>5, <1>7 DEF Written
  <2> QED BY <2>1 DEF Settled, CaseRow, IsOpen, ResolutionFits
<1>8. ASSUME NEW c \in Cases, c # call[a].asked, caseLock[c] # a
      PROVE  case'[c] = case[c]
  BY <1>5, <1>8 DEF Written
<1>9. \A c \in Cases : caseLock[c] = a => IsOpen(case[c])
  BY <1>2 DEF IInv, LockedIsOpen
<1>10. case' \in [Cases -> CaseRow]
  <2>1. \A c \in Cases : case'[c] \in CaseRow
    BY <1>6, <1>7, <1>8 DEF IInv, RowsTyped
  <2> QED BY <1>5, <2>1 DEF Written
<1>11. \A c \in Cases : \/ /\ caseLock[c] # a /\ case'[c] = case[c]
                        \/ /\ caseLock[c] = a /\ IsOpen(case[c]) /\ ~IsOpen(case'[c])
                           /\ ResolutionFits(case'[c])
  BY <1>6, <1>7, <1>8, <1>9
<1>12. ASSUME call[a].to # "none", NEW c \in Cases
       PROVE  ~IsOpen(case'[c])
  <2>1. call[a].pc = "close" /\ call[a].todo = {}
    BY <1>1, <1>12 DEF OrderIsHeld, Commit, ReadyToCommit, At
  <2>2. IsOpen(case[c]) => caseLock[c] = a
    BY <1>1, <1>6, <2>1 DEF ListIsComplete
  <2> QED BY <1>11, <2>2
<1> QED BY <1>2, <1>3, <1>4, <1>10, <1>11, <1>12

LEMMA CommitStep ==
  ASSUME IInv, NEW a \in Admins, Commit(a)
  PROVE  IInv'
<1>1. EndTransaction(a)
  BY DEF Commit
<1>2. /\ call'[a] = Idle /\ \A b \in Admins \ {a} : call'[b] = call[b]
      /\ call' \in [Admins -> CallRow]
      /\ orderLock' \in Admins \cup {Free}
      /\ caseLock' \in [Cases -> Admins \cup {Free}]
      /\ \A c \in Cases : /\ caseLock'[c] # Free => caseLock'[c] = caseLock[c]
                          /\ caseLock[c] # a => caseLock'[c] = caseLock[c]
                          /\ caseLock'[c] # a
  BY <1>1, EndTransactionLeaves
<1>3. /\ orderLock = a
      /\ call[a].to = "none" => UNCHANGED rows
      /\ call[a].to # "none" => Move(call[a].to)
      /\ case' \in [Cases -> CaseRow]
      /\ \A c \in Cases : \/ /\ caseLock[c] # a /\ case'[c] = case[c]
                          \/ /\ caseLock[c] = a /\ ~IsOpen(case'[c])
                             /\ ResolutionFits(case'[c])
  BY CommitWrites
<1>4. RowsTypeOK'
  <2>1. CASE call[a].to = "none"
    BY <1>3, <2>1 DEF IInv, RowsTyped, RowsTypeOK, rows
  <2>2. CASE call[a].to # "none"
    BY <1>3, <2>2, TransitionTyped DEF IInv, RowsTyped, Move
  <2> QED BY <2>1, <2>2
<1>5. RowsTyped'
  BY <1>2, <1>3, <1>4 DEF RowsTyped
<1>6. \A c \in Cases : ResolutionFits(case'[c])
  BY <1>3 DEF IInv
<1>7. LockedIsOpen'
  <2> SUFFICES ASSUME NEW c \in Cases, caseLock'[c] # Free
               PROVE  IsOpen(case'[c])
    BY DEF LockedIsOpen
  <2>1. caseLock[c] = caseLock'[c] /\ caseLock[c] # a
    BY <1>2
  <2> QED BY <1>3, <2>1 DEF IInv, LockedIsOpen
<1>8. ASSUME NEW b \in Admins
      PROVE  AskedIsHeld(b)' /\ OrderIsHeld(b)' /\ ListIsComplete(b)'
  <2>1. CASE b = a
    BY <1>2, <2>1 DEF AskedIsHeld, OrderIsHeld, ListIsComplete, PastItsChecks, Idle
  <2>2. CASE b # a
    <3>1. call[b].asked \in Cases \cup {Free}
      BY DEF IInv, RowsTyped, CallRow
    <3>2. AskedIsHeld(b)'
      BY <1>2, <2>2, <3>1 DEF IInv, AskedIsHeld
    <3>3. ~PastItsChecks(b)
      BY <1>3, <2>2 DEF IInv, OrderIsHeld
    <3> QED BY <1>2, <2>2, <3>2, <3>3 DEF OrderIsHeld, ListIsComplete, PastItsChecks
  <2> QED BY <2>1, <2>2
<1> QED BY <1>5, <1>6, <1>7, <1>8 DEF IInv

-----------------------------------------------------------------------------

\* Every step is one of these, seen from what it writes.
LEMMA StepCases ==
  ASSUME Next
  PROVE  \/ OrderMoves
         \/ \E c \in Cases : OpenDispute(c) \/ StartDisputeReview(c)
         \/ \E a \in Admins : Commit(a)
         \/ \E a \in Admins : Rollback(a)
         \/ \E a \in Admins : StartResolveIssue(a) \/ \E c \in Cases : StartResolve(a, c)
         \/ \E a \in Admins : LockCase(a)
         \/ \E a \in Admins : LockOrderOfCase(a) \/ LockOrderForIssue(a)
         \/ \E a \in Admins : ListCases(a) \/ CloseCase(a)
BY DEF Next, Advance, LoseConnection, BreakDeadlock

\* Only a move by somebody else and a commit touch the order; only an opening,
\* a review and a commit touch a case.
LEMMA StepWrites ==
  ASSUME Next
  PROVE  \/ OrderMoves /\ case' = case
         \/ UNCHANGED rows /\ \E c \in Cases : OpenDispute(c) \/ StartDisputeReview(c)
         \/ \E a \in Admins : Commit(a)
         \/ UNCHANGED <<rows, case>>
BY StepCases
   DEF OrderMoves, OpenDispute, StartDisputeReview, Rollback, StartResolveIssue, StartResolve,
       LockCase, LockOrderOfCase, LockOrderForIssue, ListCases, CloseCase

LEMMA Invariance == Spec => []IInv
<1>1. Init => IInv
  <2> SUFFICES ASSUME Init PROVE IInv
    OBVIOUS
  <2>1. NoCase \in CaseRow /\ ResolutionFits(NoCase) /\ Idle \in CallRow
    BY DEF NoCase, CaseRow, ResolutionFits, Idle, CallRow
  <2>2. RowsTypeOK
    BY HasBalanceAssumption
       DEF Init, OrderCreated, RowsTypeOK, OrderStates, JobStatus, LinkState, Enqueued
  <2>3. RowsTyped
    BY <2>1, <2>2 DEF Init, RowsTyped
  <2>4. \A a \in Admins : call[a].pc = "idle" /\ call[a].asked = Free
    BY DEF Init, Idle
  <2>5. \A a \in Admins : AskedIsHeld(a) /\ OrderIsHeld(a) /\ ListIsComplete(a)
    BY <2>4 DEF AskedIsHeld, OrderIsHeld, ListIsComplete, PastItsChecks
  <2> QED BY <2>1, <2>3, <2>5 DEF Init, IInv, LockedIsOpen
<1>2. IInv /\ [Next]_vars => IInv'
  <2> SUFFICES ASSUME IInv, [Next]_vars PROVE IInv'
    OBVIOUS
  <2>1. CASE Next
    BY <2>1, StepCases, OrderMovesStep, CaseStep, CommitStep, RollbackStep, StartStep,
       LockCaseStep, LockOrderStep, ListStep
  <2>2. CASE UNCHANGED vars
    <3>1. UNCHANGED <<state, graceOpen, job, dateHeld, link, case, orderLock, caseLock, call>>
      BY <2>2 DEF vars, rows, locks
    <3> QED BY <3>1 DEF IInv, RowsTyped, RowsTypeOK, LockedIsOpen, ResolutionFits, IsOpen,
                AskedIsHeld, OrderIsHeld, ListIsComplete, PastItsChecks, FitsTheOrder
  <2> QED BY <2>1, <2>2
<1> QED BY <1>1, <1>2, PTL DEF Spec

\* Every row holds what its table allows, the outcome of a case included.
THEOREM CasesAreTyped == Spec => []TypeOK
<1>1. IInv => TypeOK
  <2> SUFFICES ASSUME IInv PROVE TypeOK
    OBVIOUS
  <2>1. ASSUME NEW c \in Cases
        PROVE  /\ case[c].state \in {"none", "open", "under_review", "resolved", "rejected"}
               /\ case[c].state \in {"resolved", "rejected"} <=> case[c].resolution # "none"
               /\ case[c].state = "rejected" <=> case[c].resolution = "dismissed"
               /\ caseLock[c] \in Admins \cup {Free}
    <3>1. case[c] \in CaseRow /\ ResolutionFits(case[c])
      BY DEF IInv, RowsTyped
    <3> QED BY <3>1 DEF IInv, RowsTyped, CaseRow, ResolutionFits
  <2>2. \A a \in Admins : call[a].todo \subseteq Cases
    BY DEF IInv, RowsTyped, CallRow
  <2> QED BY <2>1, <2>2 DEF IInv, RowsTyped, TypeOK
<1> QED BY <1>1, Invariance, PTL

\* A closed complaint never leaves its booking frozen, and a case is decided
\* once (disputes/service.ts, resolveDispute and closeDisputesForOrder).
THEOREM ClosingFinal == Spec => ClosingIsFinal
<1> DEFINE Frees == (\E c \in Cases : IsOpen(case[c]) /\ ~IsOpen(case'[c])) => state' # "issue"
           Decided == \A c \in Cases : case[c] # NoCase /\ ~IsOpen(case[c]) => case'[c] = case[c]
<1>1. ASSUME IInv, Next
      PROVE  Frees /\ Decided
  <2>1. CASE case' = case
    BY <2>1
  <2>2. ASSUME NEW d \in Cases, OpenDispute(d) \/ StartDisputeReview(d)
        PROVE  Frees /\ Decided
    <3>1. \A c \in Cases \ {d} : case'[c] = case[c]
      BY <2>2, <1>1 DEF OpenDispute, StartDisputeReview, IInv, RowsTyped
    <3>2. /\ case[d] = NoCase \/ IsOpen(case[d])
          /\ IsOpen(case'[d])
      BY <2>2, <1>1 DEF OpenDispute, StartDisputeReview, IInv, RowsTyped, Moves, IsOpen, Opened
    <3> QED BY <3>1, <3>2
  <2>3. ASSUME NEW a \in Admins, Commit(a)
        PROVE  Frees /\ Decided
    <3>1. /\ call[a].to = "none" => state # "issue" /\ UNCHANGED rows
          /\ call[a].to # "none" => call[a].to \in IssueTargets /\ Move(call[a].to)
          /\ \A c \in Cases : \/ case'[c] = case[c]
                              \/ IsOpen(case[c]) /\ ~IsOpen(case'[c])
      BY <2>3, <1>1, CommitWrites
    <3>2. state' # "issue"
      BY <3>1 DEF rows, Move, ApplyTransition, IssueTargets
    <3> QED BY <3>1, <3>2
  <2> QED BY <1>1, <2>1, <2>2, <2>3, StepWrites
<1>2. IInv /\ [Next]_vars =>
        [(\E c \in Cases : IsOpen(case[c]) /\ ~IsOpen(case'[c])) => state' # "issue"]_vars
  BY <1>1
<1>3. IInv /\ [Next]_vars =>
        [\A c \in Cases : case[c] # NoCase /\ ~IsOpen(case[c]) => case'[c] = case[c]]_vars
  BY <1>1
<1> QED BY <1>2, <1>3, Invariance, PTL
        DEF Spec, ClosingIsFinal, ClosingFreesTheOrder, ClosedStaysDecided

\* An administrator who takes an order out of `issue` closes every complaint
\* about it, the one just opened included (closeDisputesForOrder under the
\* order's lock).
THEOREM FreeingCloses == Spec => FreeingClosesTheCases
<1>1. ASSUME IInv, Next, state = "issue", state' # "issue", orderLock # Free
      PROVE  \A c \in Cases : ~IsOpen(case'[c])
  <2>1. ~UNCHANGED rows /\ ~OrderMoves
    BY <1>1 DEF rows, OrderMoves
  <2>2. PICK a \in Admins : Commit(a)
    BY <1>1, <2>1, StepWrites
  <2>3. call[a].to # "none"
    BY <1>1, <2>1, <2>2, CommitWrites
  <2> QED BY <1>1, <2>2, <2>3, CommitWrites
<1>2. IInv /\ [Next]_vars =>
        [state = "issue" /\ state' # "issue" /\ orderLock # Free =>
           \A c \in Cases : ~IsOpen(case'[c])]_vars
  BY <1>1
<1> QED BY <1>2, Invariance, PTL DEF Spec, FreeingClosesTheCases

\* Complaints and their closing move the order only as the lifecycle allows, so
\* every safety theorem of OrderLifecycle holds of a disputed order too.
THEOREM DisputesImplementLifecycle == Spec => ImplementsLifecycle
<1>1. Init => Lifecycle!Init
  BY DEF Init, OrderCreated, JobsOnEntering, OnEntering, JobTypes, Enqueued,
         Lifecycle!Init, Lifecycle!OrderCreated, Lifecycle!JobsOnEntering,
         Lifecycle!OnEntering, Lifecycle!JobTypes, Lifecycle!Enqueued
<1>2. IInv /\ [Next]_vars => [Lifecycle!Next]_(Lifecycle!rows)
  <2> SUFFICES ASSUME IInv, [Next]_vars PROVE [Lifecycle!Next]_(Lifecycle!rows)
    OBVIOUS
  <2>1. CASE UNCHANGED rows
    BY <2>1 DEF rows, Lifecycle!rows
  <2>2. CASE OrderMoves
    BY <2>2 DEF OrderMoves, Lifecycle!Next, Lifecycle!MoveOrder
  <2>3. ASSUME NEW a \in Admins, Commit(a), ~UNCHANGED rows
        PROVE  Lifecycle!Next
    <3>1. call[a].to \in {"confirmed", "fulfilled", "cancelled"} /\ Lifecycle!Move(call[a].to)
      BY <2>3, CommitWrites, SameMove DEF IssueTargets
    <3> QED BY <3>1 DEF Lifecycle!Next, Lifecycle!MoveOrder, Lifecycle!ResolveIssue
  <2> QED BY <2>1, <2>2, <2>3, StepWrites DEF vars
<1> QED BY <1>1, <1>2, Invariance, PTL DEF Spec, ImplementsLifecycle, Lifecycle!Spec

=============================================================================

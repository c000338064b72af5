--------------------------- MODULE CheckoutCapacity ---------------------------
(***************************************************************************)
(* Dates: checkouts that book them, orders that give them back, and events *)
(* that move or close under both.  A checkout is one database transaction  *)
(* of several statements; its locks and its uncommitted capacity blocks    *)
(* are what the other transactions meet.  Those others commit in a single  *)
(* step, taken when the locks they need are free.                          *)
(*                                                                         *)
(* A block's time range is a day: it runs from the event's start to the    *)
(* next local midnight, so two ranges for one service overlap exactly when *)
(* they lie on one day.  Prices and terms are not modelled.                *)
(***************************************************************************)
EXTENDS OrderTransitions, FiniteSets

CONSTANTS
  Orders,     \* bound on the orders ever placed
  Events,
  Services,
  Days,
  VendorOf,   \* the vendor selling each service
  Sessions    \* concurrent checkout transactions

ASSUME CapacityAssumption ==
  /\ Services # {} /\ Days # {}
  /\ DOMAIN VendorOf = Services

VARIABLES
  eventDay,   \* events.event_date
  closed,     \* events whose cancelled_at is set
  order,      \* committed orders
  block,      \* committed active capacity blocks
  txn         \* each session's open transaction

vars == <<eventDay, closed, order, block, txn>>

Block == [service : Services, day : Days, order : Orders]
NoOrder == [state |-> "none", event |-> {}, lines |-> {}]

\* todo: lines whose vendor's cart is still to be placed; made: the orders this
\* transaction inserted and their lines; held: the blocks it inserted.
IdleTxn == [pc |-> "idle", event |-> {}, day |-> {}, todo |-> {},
            locked |-> {}, resumed |-> {}, made |-> {}, held |-> {}]

Init ==
  /\ eventDay \in [Events -> Days]
  /\ closed = {}
  /\ order = [o \in Orders |-> NoOrder]
  /\ block = {}
  /\ txn = [s \in Sessions |-> IdleTxn]

-----------------------------------------------------------------------------
(* Locks and constraints.                                                  *)

EventLocked(e) == \E s \in Sessions : e \in txn[s].event
OrderLocked(o) == \E s \in Sessions : o \in txn[s].locked

Placed == {o \in Orders : order[o].state # "none"}
OrdersOf(e) == {o \in Placed : order[o].event = {e}}
Inserted == UNION {{m.order : m \in txn[s].made} : s \in Sessions}
Fresh == Orders \ (Placed \cup Inserted)

\* capacity_blocks_no_overlap, between active blocks.
Overlaps(b, c) == b.service = c.service /\ b.day = c.day
Clashes(b, blocks) == \E c \in blocks : Overlaps(b, c)

HeldByOthers(s) == UNION {txn[other].held : other \in Sessions \ {s}}

-----------------------------------------------------------------------------
(* createCheckout                                                          *)

\* Mutant: the event is read without its lock.
LockNothing(s, e, lines) ==
  /\ txn[s].pc = "idle"
  /\ txn' = [txn EXCEPT ![s] = [IdleTxn EXCEPT !.pc = "carts", !.event = {e},
                                               !.day = {eventDay[e]}, !.todo = lines]]
  /\ UNCHANGED <<eventDay, closed, order, block>>

\* The event's row is locked, and every date comes from what it says then.
LockEvent(s, e, lines) ==
  /\ txn[s].pc = "idle"
  /\ ~EventLocked(e)
  /\ txn' = [txn EXCEPT ![s] = [IdleTxn EXCEPT !.pc = "carts", !.event = {e},
                                               !.day = {eventDay[e]}, !.todo = lines]]
  /\ UNCHANGED <<eventDay, closed, order, block>>

\* The customer's own unpaid orders with this vendor, each locked as it is read.
Candidates(s, v) ==
  {o \in Placed : /\ order[o].event = txn[s].event
                  /\ order[o].state = "pending_payment"
                  /\ \A line \in order[o].lines : VendorOf[line] = v}

CartOf(s, v) == {line \in txn[s].todo : VendorOf[line] = v}

\* One vendor's cart: the same cart again is resumed as it stands.
ResumeOrder(s, v) ==
  /\ txn[s].pc = "carts" /\ CartOf(s, v) # {}
  /\ \E o \in Candidates(s, v) :
       /\ order[o].lines = CartOf(s, v)
       /\ txn' = [txn EXCEPT ![s].todo = @ \ CartOf(s, v),
                             ![s].locked = @ \cup Candidates(s, v),
                             ![s].resumed = @ \cup {o}]
  /\ UNCHANGED <<eventDay, closed, order, block>>

\* Any other cart is a new order, whose dates are held line by line.
InsertOrder(s, v) ==
  /\ txn[s].pc = "carts" /\ CartOf(s, v) # {}
  /\ \A o \in Candidates(s, v) : order[o].lines # CartOf(s, v)
  /\ \E o \in Fresh :
       txn' = [txn EXCEPT ![s].pc = "hold",
                          ![s].todo = @ \ CartOf(s, v),
                          ![s].locked = @ \cup Candidates(s, v),
                          ![s].made = @ \cup {[order |-> o, lines |-> CartOf(s, v)]}]
  /\ UNCHANGED <<eventDay, closed, order, block>>

ToHold(s) ==
  {b \in Block : /\ {b.day} = txn[s].day
                 /\ \E m \in txn[s].made : m.order = b.order /\ b.service \in m.lines}
  \ txn[s].held

\* Mutant: the date is looked up among committed blocks, and then taken.
HoldIfFree(s) ==
  /\ txn[s].pc = "hold"
  /\ \E b \in ToHold(s) :
       /\ ~Clashes(b, block \cup txn[s].held)
       /\ txn' = [txn EXCEPT ![s].held = @ \cup {b}]
  /\ UNCHANGED <<eventDay, closed, order, block>>

\* An insert that meets another transaction's uncommitted block waits for it.
HoldCapacity(s) ==
  /\ txn[s].pc = "hold"
  /\ \E b \in ToHold(s) :
       /\ ~Clashes(b, HeldByOthers(s))
       /\ ~Clashes(b, block \cup txn[s].held)
       /\ txn' = [txn EXCEPT ![s].held = @ \cup {b}]
  /\ UNCHANGED <<eventDay, closed, order, block>>

CartHeld(s) ==
  /\ txn[s].pc = "hold" /\ ToHold(s) = {}
  /\ txn' = [txn EXCEPT ![s].pc = "carts"]
  /\ UNCHANGED <<eventDay, closed, order, block>>

CommitCheckout(s) ==
  /\ txn[s].pc = "carts" /\ txn[s].todo = {}
  /\ order' = [o \in Orders |->
       IF \E m \in txn[s].made : m.order = o
       THEN [state |-> "pending_payment", event |-> txn[s].event,
             lines |-> (CHOOSE m \in txn[s].made : m.order = o).lines]
       ELSE order[o]]
  /\ block' = block \cup txn[s].held
  /\ txn' = [txn EXCEPT ![s] = IdleTxn]
  /\ UNCHANGED <<eventDay, closed>>

\* A refused agreement, a taken date, a fault or a deadlock's victim: every
\* statement of the transaction is undone.
Rollback(s) ==
  /\ txn[s].pc # "idle"
  /\ txn' = [txn EXCEPT ![s] = IdleTxn]
  /\ UNCHANGED <<eventDay, closed, order, block>>

-----------------------------------------------------------------------------
(* What the rest of the system does meanwhile.                             *)

\* Mutant: a move that releases nothing.
MoveKeepsBlocks(o, to) ==
  /\ ~OrderLocked(o)
  /\ CanTransition(order[o].state, to)
  /\ order' = [order EXCEPT ![o].state = to]
  /\ UNCHANGED <<eventDay, closed, block, txn>>

\* applyTransition, by whichever caller: the order's row is locked, and a move
\* that ends it undelivered frees every date it held.
MoveOrder(o, to) ==
  /\ ~OrderLocked(o)
  /\ CanTransition(order[o].state, to)
  /\ order' = [order EXCEPT ![o].state = to]
  /\ block' = IF ReleasesCapacity(to) THEN {b \in block : b.order # o} ELSE block
  /\ UNCHANGED <<eventDay, closed, txn>>

\* refuseWhileBooked, under the event's lock.
NothingBooked(e) == \A o \in OrdersOf(e) : IsTerminal(order[o].state)

\* Mutant: the lock is not waited for.
UpdateUnlocked(e, day) ==
  /\ day # eventDay[e] /\ NothingBooked(e)
  /\ eventDay' = [eventDay EXCEPT ![e] = day]
  /\ UNCHANGED <<closed, order, block, txn>>

UpdateEvent(e, day) ==
  /\ ~EventLocked(e)
  /\ day # eventDay[e] /\ NothingBooked(e)
  /\ eventDay' = [eventDay EXCEPT ![e] = day]
  /\ UNCHANGED <<closed, order, block, txn>>

CancelEvent(e) ==
  /\ ~EventLocked(e)
  /\ e \notin closed /\ NothingBooked(e)
  /\ closed' = closed \cup {e}
  /\ UNCHANGED <<eventDay, order, block, txn>>

-----------------------------------------------------------------------------

Vendors == {VendorOf[service] : service \in Services}

Checkout(s) ==
  \/ \E e \in Events, lines \in (SUBSET Services) \ {{}} : LockEvent(s, e, lines)
  \/ \E v \in Vendors : ResumeOrder(s, v) \/ InsertOrder(s, v)
  \/ HoldCapacity(s) \/ CartHeld(s) \/ CommitCheckout(s) \/ Rollback(s)

Next ==
  \/ \E s \in Sessions : Checkout(s)
  \/ \E o \in Orders, to \in OrderStates : MoveOrder(o, to)
  \/ \E e \in Events, day \in Days : UpdateEvent(e, day)
  \/ \E e \in Events : CancelEvent(e)

Spec == Init /\ [][Next]_vars

-----------------------------------------------------------------------------

Live(o) == o \in Placed /\ ~IsTerminal(order[o].state)

TxnOK(s) ==
  /\ txn[s].pc \in {"idle", "carts", "hold"}
  /\ txn[s].event \subseteq Events
  /\ txn[s].day \subseteq Days
  /\ txn[s].todo \subseteq Services
  /\ txn[s].locked \subseteq Placed /\ txn[s].resumed \subseteq Placed
  /\ txn[s].made \subseteq [order : Orders, lines : SUBSET Services]
  /\ txn[s].held \subseteq Block

\* Rows, blocks and open transactions hold values their code can write.
TypeOK ==
  /\ eventDay \in [Events -> Days]
  /\ closed \subseteq Events
  /\ \A o \in Placed : /\ order[o].state \in OrderStates
                       /\ \E e \in Events : order[o].event = {e}
                       /\ order[o].lines \in (SUBSET Services) \ {{}}
  /\ block \subseteq Block
  /\ \A s \in Sessions : TxnOK(s)

\* Every booking that is still going has each of its dates held, on the day its
\* event is on now: no reschedule slips between a checkout's read of the day
\* and its commit, and no resumed or moved order loses a date.
LiveOrderHoldsItsDay ==
  \A o \in Orders : Live(o) =>
    \A e \in order[o].event, line \in order[o].lines :
      [service |-> line, day |-> eventDay[e], order |-> o] \in block

\* Two bookings that are both going never need one service on one day.
NoDoubleBooking ==
  \A o, p \in Orders :
    Live(o) /\ Live(p) /\ o # p /\ order[o].lines \cap order[p].lines # {} =>
      \A e \in order[o].event, f \in order[p].event : eventDay[e] # eventDay[f]

\* A date is held for a booking that exists and has not ended undelivered: no
\* block outlives its order or a checkout that was rolled back.
HeldForSomebody ==
  \A b \in block : b.order \in Placed /\ ~ReleasesCapacity(order[b.order].state)

\* A checkout that resumes an order hands back one that still waits for its
\* deposit and still holds its dates: the expiry cannot cancel it in between.
ResumedStillHolds ==
  \A s \in Sessions, o \in Orders : o \in txn[s].resumed =>
    /\ order[o].state = "pending_payment"
    /\ \A line \in order[o].lines, day \in txn[s].day :
         [service |-> line, day |-> day, order |-> o] \in block

\* No customer is refused a date by her own unpaid order for the same cart:
\* however often a checkout is pressed, only one of the calls places it and the
\* others find it.
SameCartIsResumed ==
  \A s \in Sessions : \A m \in txn[s].made :
    \A o \in Placed :
      order[o].event = txn[s].event /\ order[o].state = "pending_payment" =>
        order[o].lines # m.lines

\* Two presses of one checkout end in one order, which still waits and still
\* holds its dates when it is handed back.
Consistent ==
  /\ TypeOK
  /\ ResumedStillHolds
  /\ SameCartIsResumed

=============================================================================

------------------------ MODULE CheckoutCapacity_proofs ------------------------
(***************************************************************************)
(* No date is sold twice, and no booking loses its date, however many      *)
(* checkouts run at once and whatever moves under them.  The argument: the *)
(* event's lock makes a checkout the only one of its event, so the day it  *)
(* read is the day at its commit; the constraint keeps every block in use, *)
(* committed or not, apart; and an order's blocks go exactly when the      *)
(* order ends undelivered.                                                 *)
(***************************************************************************)
EXTENDS CheckoutCapacity, TLAPS

OrderRow == [state : OrderStates \cup {"none"}, event : SUBSET Events, lines : SUBSET Services]

TxnRow == [pc : {"idle", "carts", "hold"}, event : SUBSET Events, day : SUBSET Days,
           todo : SUBSET Services, locked : SUBSET Orders, resumed : SUBSET Orders,
           made : SUBSET [order : Orders, lines : SUBSET Services], held : SUBSET Block]

RowsTyped ==
  /\ eventDay \in [Events -> Days]
  /\ closed \subseteq Events
  /\ order \in [Orders -> OrderRow]
  /\ block \subseteq Block
  /\ txn \in [Sessions -> TxnRow]

PlacedForAnEvent ==
  \A o \in Placed : order[o].lines # {} /\ \E e \in Events : order[o].event = {e}

\* An open checkout has one event, and works to the day that event is on now.
WorksToTheDay ==
  \A s \in Sessions :
    \/ txn[s] = IdleTxn
    \/ \E e \in Events : txn[s].event = {e} /\ txn[s].day = {eventDay[e]}

OneCheckoutPerEvent ==
  \A s, t \in Sessions : s # t => txn[s].event \cap txn[t].event = {}

\* What a checkout locked is still waiting for its deposit.
LockedStillWaits ==
  \A s \in Sessions :
    /\ txn[s].resumed \subseteq txn[s].locked
    /\ \A o \in txn[s].locked : /\ o \in Placed
                                /\ order[o].state = "pending_payment"
                                /\ order[o].event = txn[s].event

\* An order being inserted is nobody else's and nowhere committed.
MadeAreNew ==
  \A s, t \in Sessions : \A m \in txn[s].made, n \in txn[t].made :
    /\ m.order \notin Placed /\ m.lines # {}
    /\ m.order = n.order => s = t /\ m = n

HeldForMade ==
  \A s \in Sessions : \A b \in txn[s].held :
    /\ {b.day} = txn[s].day
    /\ \E m \in txn[s].made : m.order = b.order /\ b.service \in m.lines

\* Between carts, every line inserted so far has its block.
CartsHeld ==
  \A s \in Sessions : txn[s].pc = "carts" =>
    \A m \in txn[s].made : \A line \in m.lines, day \in txn[s].day :
      [service |-> line, day |-> day, order |-> m.order] \in txn[s].held

InUse == block \cup UNION {txn[s].held : s \in Sessions}

BlocksApart == \A b, c \in InUse : Overlaps(b, c) => b = c

IInv ==
  /\ RowsTyped /\ PlacedForAnEvent
  /\ WorksToTheDay /\ OneCheckoutPerEvent /\ LockedStillWaits
  /\ MadeAreNew /\ HeldForMade /\ CartsHeld /\ BlocksApart
  /\ HeldForSomebody /\ LiveOrderHoldsItsDay /\ SameCartIsResumed

-----------------------------------------------------------------------------
(* A step of one checkout that commits nothing replaces its own row.       *)

\* What a checkout's row must satisfy beside the rows of all the others.
FitsEvent(s, row) ==
  /\ row = IdleTxn \/ \E e \in Events : row.event = {e} /\ row.day = {eventDay[e]}
  /\ \A t \in Sessions \ {s} : row.event \cap txn[t].event = {}

FitsLocked(row) ==
  /\ row.resumed \subseteq row.locked
  /\ \A o \in row.locked : /\ o \in Placed
                          /\ order[o].state = "pending_payment"
                          /\ order[o].event = row.event

FitsMade(s, row) ==
  \A m \in row.made :
    /\ m.order \notin Placed /\ m.lines # {}
    /\ \A n \in row.made : m.order = n.order => m = n
    /\ \A t \in Sessions \ {s} : \A n \in txn[t].made : m.order # n.order
    /\ \A o \in Placed : order[o].event = row.event /\ order[o].state = "pending_payment"
         => order[o].lines # m.lines

FitsHeld(s, row) ==
  \A b \in row.held :
    /\ {b.day} = row.day
    /\ \E m \in row.made : m.order = b.order /\ b.service \in m.lines
    /\ \A c \in row.held : Overlaps(b, c) => b = c
    /\ ~Clashes(b, block \cup HeldByOthers(s))

FitsCarts(row) ==
  row.pc = "carts" => \A m \in row.made : \A line \in m.lines, day \in row.day :
    [service |-> line, day |-> day, order |-> m.order] \in row.held

Fits(s, row) ==
  /\ row \in TxnRow
  /\ FitsEvent(s, row) /\ FitsLocked(row) /\ FitsMade(s, row)
  /\ FitsHeld(s, row) /\ FitsCarts(row)

LEMMA RowFits ==
  ASSUME IInv, NEW s \in Sessions
  PROVE  Fits(s, txn[s])
<1>1. txn[s] \in TxnRow
  BY DEF IInv, RowsTyped
<1>2. \A b \in txn[s].held : ~Clashes(b, block \cup HeldByOthers(s))
  <2> SUFFICES ASSUME NEW b \in txn[s].held, NEW c \in block \cup HeldByOthers(s),
                      Overlaps(b, c)
               PROVE  FALSE
    BY DEF Clashes
  <2>1. b \in InUse /\ c \in InUse
    BY DEF InUse, HeldByOthers
  <2>2. b = c
    BY <2>1 DEF IInv, BlocksApart
  <2>3. PICK m \in txn[s].made : m.order = b.order
    BY DEF IInv, HeldForMade
  <2>4. CASE c \in block
    BY <2>2, <2>3, <2>4 DEF IInv, HeldForSomebody, MadeAreNew
  <2>5. CASE c \in HeldByOthers(s)
    <3>1. PICK t \in Sessions \ {s} : c \in txn[t].held
      BY <2>5 DEF HeldByOthers
    <3>2. PICK n \in txn[t].made : n.order = c.order
      BY <3>1 DEF IInv, HeldForMade
    <3> QED BY <2>2, <2>3, <3>2 DEF IInv, MadeAreNew
  <2> QED BY <2>4, <2>5
<1>3. FitsHeld(s, txn[s])
  <2>1. \A b, c \in txn[s].held : Overlaps(b, c) => b = c
    BY DEF IInv, BlocksApart, InUse
  <2> QED BY <1>2, <2>1 DEF IInv, HeldForMade, FitsHeld
<1>4. FitsEvent(s, txn[s])
  BY DEF IInv, WorksToTheDay, OneCheckoutPerEvent, FitsEvent
<1>5. FitsLocked(txn[s])
  BY DEF IInv, LockedStillWaits, FitsLocked
<1>6. FitsMade(s, txn[s])
  BY DEF IInv, MadeAreNew, SameCartIsResumed, FitsMade
<1>7. FitsCarts(txn[s])
  BY DEF IInv, CartsHeld, FitsCarts
<1> QED BY <1>1, <1>3, <1>4, <1>5, <1>6, <1>7 DEF Fits

\* A row that fits keeps the invariant.
LEMMA RowStep ==
  ASSUME IInv, NEW s \in Sessions, NEW row, Fits(s, row),
         txn' = [txn EXCEPT ![s] = row],
         UNCHANGED <<eventDay, closed, order, block>>
  PROVE  IInv'
<1>1. txn'[s] = row /\ \A t \in Sessions \ {s} : txn'[t] = txn[t]
  BY DEF IInv, RowsTyped
<1>2. Placed' = Placed
  BY DEF Placed
<1>3. RowsTyped'
  BY DEF IInv, RowsTyped, Fits
<1>4. PlacedForAnEvent'
  BY <1>2 DEF IInv, PlacedForAnEvent
<1>5. WorksToTheDay'
  BY <1>1 DEF IInv, WorksToTheDay, Fits, FitsEvent
<1>6. OneCheckoutPerEvent'
  BY <1>1 DEF IInv, OneCheckoutPerEvent, Fits, FitsEvent
<1>7. LockedStillWaits'
  BY <1>1, <1>2 DEF IInv, LockedStillWaits, Fits, FitsLocked
<1>8. MadeAreNew'
  BY <1>1, <1>2 DEF IInv, MadeAreNew, Fits, FitsMade
<1>9. HeldForMade'
  BY <1>1 DEF IInv, HeldForMade, Fits, FitsHeld
<1>10. CartsHeld'
  BY <1>1 DEF IInv, CartsHeld, Fits, FitsCarts
<1>11. BlocksApart'
  <2> SUFFICES ASSUME NEW b \in InUse', NEW c \in InUse', Overlaps(b, c)
               PROVE  b = c
    BY DEF BlocksApart, Overlaps
  <2>1. /\ b \in row.held \/ b \in block \cup HeldByOthers(s)
        /\ c \in row.held \/ c \in block \cup HeldByOthers(s)
    BY <1>1 DEF InUse, HeldByOthers
  <2>2. b \in block \cup HeldByOthers(s) => b \in InUse
    BY DEF InUse, HeldByOthers
  <2>3. c \in block \cup HeldByOthers(s) => c \in InUse
    BY DEF InUse, HeldByOthers
  <2>4. Overlaps(c, b)
    BY DEF Overlaps
  <2> QED BY <2>1, <2>2, <2>3, <2>4 DEF IInv, BlocksApart, Fits, FitsHeld, Clashes
<1>12. HeldForSomebody' /\ LiveOrderHoldsItsDay'
  BY <1>2 DEF IInv, HeldForSomebody, LiveOrderHoldsItsDay, Live
<1>13. SameCartIsResumed'
  BY <1>1, <1>2 DEF IInv, SameCartIsResumed, Fits, FitsMade
<1> QED BY <1>3, <1>4, <1>5, <1>6, <1>7, <1>8, <1>9, <1>10, <1>11, <1>12, <1>13 DEF IInv

-----------------------------------------------------------------------------
(* createCheckout, statement by statement.                                 *)

LEMMA LockEventStep ==
  ASSUME IInv, NEW s \in Sessions, NEW e \in Events,
         NEW lines \in (SUBSET Services) \ {{}}, LockEvent(s, e, lines)
  PROVE  IInv'
<1> DEFINE row == [IdleTxn EXCEPT !.pc = "carts", !.event = {e},
                                  !.day = {eventDay[e]}, !.todo = lines]
<1>1. /\ row \in TxnRow
      /\ row.event = {e} /\ row.day = {eventDay[e]} /\ row.resumed = {}
      /\ row.locked = {} /\ row.made = {} /\ row.held = {}
  <2>1. lines \in SUBSET Services /\ eventDay[e] \in Days
    BY DEF IInv, RowsTyped
  <2> QED BY <2>1 DEF TxnRow, IdleTxn
<1>2. \A t \in Sessions : row.event \cap txn[t].event = {}
  BY <1>1 DEF LockEvent, EventLocked
<1>3. Fits(s, row)
  BY <1>1, <1>2
     DEF Fits, FitsEvent, FitsLocked, FitsMade, FitsHeld, FitsCarts
<1> QED BY <1>3, RowStep DEF LockEvent

LEMMA ResumeOrderStep ==
  ASSUME IInv, NEW s \in Sessions, NEW v \in Vendors, ResumeOrder(s, v)
  PROVE  IInv'
<1>1. PICK o \in Candidates(s, v) :
        txn' = [txn EXCEPT ![s].todo = @ \ CartOf(s, v),
                           ![s].locked = @ \cup Candidates(s, v),
                           ![s].resumed = @ \cup {o}]
  BY DEF ResumeOrder
<1> DEFINE row == [txn[s] EXCEPT !.todo = @ \ CartOf(s, v),
                                 !.locked = @ \cup Candidates(s, v),
                                 !.resumed = @ \cup {o}]
<1>2. txn' = [txn EXCEPT ![s] = row]
  BY <1>1 DEF IInv, RowsTyped, TxnRow
<1>3. Fits(s, txn[s])
  BY RowFits
<1>4. \A p \in Candidates(s, v) : /\ p \in Placed
                                /\ order[p].state = "pending_payment"
                                /\ order[p].event = txn[s].event
  BY DEF Candidates
<1>5. Candidates(s, v) \subseteq Orders
  BY DEF Candidates, Placed
<1>6. /\ row \in TxnRow
      /\ row.pc = txn[s].pc /\ row.event = txn[s].event /\ row.day = txn[s].day
      /\ row.made = txn[s].made /\ row.held = txn[s].held
      /\ row.locked = txn[s].locked \cup Candidates(s, v)
      /\ row.resumed = txn[s].resumed \cup {o}
  BY <1>5 DEF IInv, RowsTyped, TxnRow
<1>7. txn[s] # IdleTxn
  BY DEF ResumeOrder, IdleTxn
<1> HIDE DEF row
<1>8. Fits(s, row)
  <2>1. FitsEvent(s, row)
    BY <1>3, <1>6, <1>7 DEF Fits, FitsEvent
  <2>2. FitsLocked(row)
    BY <1>3, <1>4, <1>6 DEF Fits, FitsLocked
  <2>3. FitsMade(s, row)
    BY <1>3, <1>6 DEF Fits, FitsMade
  <2>4. FitsHeld(s, row)
    BY <1>3, <1>6 DEF Fits, FitsHeld
  <2>5. FitsCarts(row)
    BY <1>3, <1>6 DEF Fits, FitsCarts
  <2> QED BY <1>6, <2>1, <2>2, <2>3, <2>4, <2>5 DEF Fits
<1> QED BY <1>2, <1>8, RowStep DEF ResumeOrder

LEMMA InsertOrderStep ==
  ASSUME IInv, NEW s \in Sessions, NEW v \in Vendors, InsertOrder(s, v)
  PROVE  IInv'
<1>1. PICK o \in Fresh :
        txn' = [txn EXCEPT ![s].pc = "hold",
                           ![s].todo = @ \ CartOf(s, v),
                           ![s].locked = @ \cup Candidates(s, v),
                           ![s].made = @ \cup {[order |-> o, lines |-> CartOf(s, v)]}]
  BY DEF InsertOrder
<1> DEFINE new == [order |-> o, lines |-> CartOf(s, v)]
           row == [txn[s] EXCEPT !.pc = "hold",
                                 !.todo = @ \ CartOf(s, v),
                                 !.locked = @ \cup Candidates(s, v),
                                 !.made = @ \cup {new}]
<1>2. txn' = [txn EXCEPT ![s] = row]
  BY <1>1 DEF IInv, RowsTyped, TxnRow
<1>3. Fits(s, txn[s])
  BY RowFits
<1>4. \A p \in Candidates(s, v) : /\ p \in Placed
                                /\ order[p].state = "pending_payment"
                                /\ order[p].event = txn[s].event
  BY DEF Candidates
<1>5. /\ Candidates(s, v) \subseteq Orders
      /\ CartOf(s, v) \subseteq Services /\ CartOf(s, v) # {}
  BY DEF Candidates, Placed, CartOf, IInv, RowsTyped, TxnRow, InsertOrder
<1>6. /\ row \in TxnRow
      /\ row.pc = "hold" /\ row.event = txn[s].event /\ row.day = txn[s].day
      /\ row.made = txn[s].made \cup {new} /\ row.held = txn[s].held
      /\ row.locked = txn[s].locked \cup Candidates(s, v)
      /\ row.resumed = txn[s].resumed
  <2>1. txn[s] \in TxnRow
    BY <1>3 DEF Fits
  <2>2. new \in [order : Orders, lines : SUBSET Services]
    BY <1>5 DEF Fresh
  <2> QED BY <1>5, <2>1, <2>2 DEF TxnRow
<1>7. txn[s] # IdleTxn
  BY DEF InsertOrder, IdleTxn
<1>8. o \notin Placed /\ \A t \in Sessions : \A n \in txn[t].made : n.order # o
  BY DEF Fresh, Inserted
<1>9. \A p \in Placed : order[p].event = txn[s].event /\ order[p].state = "pending_payment"
        => order[p].lines # CartOf(s, v)
  BY DEF InsertOrder, Candidates, CartOf
<1> HIDE DEF row
<1>10. Fits(s, row)
  <2>1. FitsEvent(s, row)
    BY <1>3, <1>6, <1>7 DEF Fits, FitsEvent
  <2>2. FitsLocked(row)
    BY <1>3, <1>4, <1>6 DEF Fits, FitsLocked
  <2>3. FitsMade(s, row)
    BY <1>3, <1>5, <1>6, <1>8, <1>9 DEF Fits, FitsMade
  <2>4. FitsHeld(s, row)
    BY <1>3, <1>6 DEF Fits, FitsHeld
  <2>5. FitsCarts(row)
    BY <1>6 DEF Fits, FitsCarts
  <2> QED BY <1>6, <2>1, <2>2, <2>3, <2>4, <2>5 DEF Fits
<1> QED BY <1>2, <1>10, RowStep DEF InsertOrder

LEMMA HoldCapacityStep ==
  ASSUME IInv, NEW s \in Sessions, HoldCapacity(s)
  PROVE  IInv'
<1>1. PICK b \in ToHold(s) :
        /\ ~Clashes(b, HeldByOthers(s))
        /\ ~Clashes(b, block \cup txn[s].held)
        /\ txn' = [txn EXCEPT ![s].held = @ \cup {b}]
  BY DEF HoldCapacity
<1> DEFINE row == [txn[s] EXCEPT !.held = @ \cup {b}]
<1>2. txn' = [txn EXCEPT ![s] = row]
  BY <1>1 DEF IInv, RowsTyped, TxnRow
<1>3. Fits(s, txn[s])
  BY RowFits
<1>4. /\ b \in Block /\ {b.day} = txn[s].day
      /\ \E m \in txn[s].made : m.order = b.order /\ b.service \in m.lines
  BY DEF ToHold
<1>5. /\ row \in TxnRow
      /\ row.pc = "hold" /\ row.event = txn[s].event /\ row.day = txn[s].day
      /\ row.made = txn[s].made /\ row.held = txn[s].held \cup {b}
      /\ row.locked = txn[s].locked /\ row.resumed = txn[s].resumed
  BY <1>4 DEF HoldCapacity, IInv, RowsTyped, TxnRow
<1>6. txn[s] # IdleTxn
  BY DEF HoldCapacity, IdleTxn
<1>7. \A c \in row.held : \A d \in row.held : Overlaps(c, d) => c = d
  BY <1>1, <1>3, <1>5 DEF Fits, FitsHeld, Clashes, Overlaps
<1>8. \A c \in row.held : ~Clashes(c, block \cup HeldByOthers(s))
  BY <1>1, <1>3, <1>5 DEF Fits, FitsHeld, Clashes
<1> HIDE DEF row
<1>9. Fits(s, row)
  <2>1. FitsEvent(s, row)
    BY <1>3, <1>5, <1>6 DEF Fits, FitsEvent
  <2>2. FitsLocked(row)
    BY <1>3, <1>5 DEF Fits, FitsLocked
  <2>3. FitsMade(s, row)
    BY <1>3, <1>5 DEF Fits, FitsMade
  <2>4. FitsHeld(s, row)
    BY <1>3, <1>4, <1>5, <1>7, <1>8 DEF Fits, FitsHeld
  <2>5. FitsCarts(row)
    BY <1>5 DEF Fits, FitsCarts
  <2> QED BY <1>5, <2>1, <2>2, <2>3, <2>4, <2>5 DEF Fits
<1> QED BY <1>2, <1>9, RowStep DEF HoldCapacity

LEMMA CartHeldStep ==
  ASSUME IInv, NEW s \in Sessions, CartHeld(s)
  PROVE  IInv'
<1> DEFINE row == [txn[s] EXCEPT !.pc = "carts"]
<1>1. txn' = [txn EXCEPT ![s] = row]
  BY DEF CartHeld, IInv, RowsTyped, TxnRow
<1>2. Fits(s, txn[s])
  BY RowFits
<1>3. /\ row \in TxnRow
      /\ row.pc = "carts" /\ row.event = txn[s].event /\ row.day = txn[s].day
      /\ row.made = txn[s].made /\ row.held = txn[s].held
      /\ row.locked = txn[s].locked /\ row.resumed = txn[s].resumed
  BY DEF IInv, RowsTyped, TxnRow
<1>4. txn[s] # IdleTxn
  BY DEF CartHeld, IdleTxn
<1>5. PICK e \in Events : txn[s].day = {eventDay[e]} /\ eventDay[e] \in Days
  BY <1>2, <1>4 DEF Fits, FitsEvent, IInv, RowsTyped
<1>6. \A m \in txn[s].made : \A line \in m.lines, day \in txn[s].day :
        [service |-> line, day |-> day, order |-> m.order] \in txn[s].held
  <2> SUFFICES ASSUME NEW m \in txn[s].made, NEW line \in m.lines, NEW day \in txn[s].day
               PROVE  [service |-> line, day |-> day, order |-> m.order] \in txn[s].held
    OBVIOUS
  <2>1. m \in [order : Orders, lines : SUBSET Services]
    BY <1>2 DEF Fits, TxnRow
  <2>2. [service |-> line, day |-> day, order |-> m.order] \in Block
    BY <2>1, <1>5 DEF Block
  <2> QED BY <1>5, <2>2 DEF CartHeld, ToHold
<1> HIDE DEF row
<1>7. Fits(s, row)
  <2>1. FitsEvent(s, row)
    BY <1>2, <1>3, <1>4 DEF Fits, FitsEvent
  <2>2. FitsLocked(row)
    BY <1>2, <1>3 DEF Fits, FitsLocked
  <2>3. FitsMade(s, row)
    BY <1>2, <1>3 DEF Fits, FitsMade
  <2>4. FitsHeld(s, row)
    BY <1>2, <1>3 DEF Fits, FitsHeld
  <2>5. FitsCarts(row)
    BY <1>3, <1>6 DEF Fits, FitsCarts
  <2> QED BY <1>3, <2>1, <2>2, <2>3, <2>4, <2>5 DEF Fits
<1> QED BY <1>1, <1>7, RowStep DEF CartHeld

LEMMA RollbackStep ==
  ASSUME IInv, NEW s \in Sessions, Rollback(s)
  PROVE  IInv'
<1>1. Fits(s, IdleTxn)
  BY DEF Fits, FitsEvent, FitsLocked, FitsMade, FitsHeld, FitsCarts,
         TxnRow, IdleTxn
<1> QED BY <1>1, RowStep DEF Rollback

\* What a commit leaves, read off the choice of each order's lines.
LEMMA CommitLeaves ==
  ASSUME IInv, NEW s \in Sessions, CommitCheckout(s)
  PROVE  /\ txn'[s] = IdleTxn /\ \A t \in Sessions \ {s} : txn'[t] = txn[t]
         /\ \A m \in txn[s].made : /\ order'[m.order] \in OrderRow
                                   /\ order'[m.order].state = "pending_payment"
                                   /\ order'[m.order].event = txn[s].event
                                   /\ order'[m.order].lines = m.lines
         /\ \A o \in Orders : (\A m \in txn[s].made : m.order # o) => order'[o] = order[o]
         /\ \A o \in Orders : o \in Placed' <=> o \in Placed \/ \E m \in txn[s].made : m.order = o
<1>1. txn'[s] = IdleTxn /\ \A t \in Sessions \ {s} : txn'[t] = txn[t]
  BY DEF CommitCheckout, IInv, RowsTyped
<1>2. \A m \in txn[s].made : m \in [order : Orders, lines : SUBSET Services]
  BY DEF IInv, RowsTyped, TxnRow
<1>3. ASSUME NEW m \in txn[s].made
      PROVE  /\ order'[m.order] \in OrderRow
             /\ order'[m.order].state = "pending_payment"
             /\ order'[m.order].event = txn[s].event
             /\ order'[m.order].lines = m.lines
  <2>1. (CHOOSE n \in txn[s].made : n.order = m.order) = m
    BY DEF IInv, MadeAreNew
  <2>2. order'[m.order] = [state |-> "pending_payment", event |-> txn[s].event,
                           lines |-> m.lines]
    BY <1>2, <2>1 DEF CommitCheckout
  <2>3. txn[s].event \subseteq Events /\ m.lines \subseteq Services
    BY <1>2 DEF IInv, RowsTyped, TxnRow
  <2> QED BY <2>2, <2>3 DEF OrderRow, OrderStates
<1>4. \A o \in Orders : (\A m \in txn[s].made : m.order # o) => order'[o] = order[o]
  BY DEF CommitCheckout
<1>5. \A o \in Orders : o \in Placed' <=> o \in Placed \/ \E m \in txn[s].made : m.order = o
  BY <1>2, <1>3, <1>4 DEF Placed
<1> QED BY <1>1, <1>3, <1>4, <1>5

LEMMA CommitCheckoutStep ==
  ASSUME IInv, NEW s \in Sessions, CommitCheckout(s)
  PROVE  IInv'
<1>1. /\ txn'[s] = IdleTxn /\ \A t \in Sessions \ {s} : txn'[t] = txn[t]
      /\ \A m \in txn[s].made : /\ order'[m.order] \in OrderRow
                                /\ order'[m.order].state = "pending_payment"
                                /\ order'[m.order].event = txn[s].event
                                /\ order'[m.order].lines = m.lines
      /\ \A o \in Orders : (\A m \in txn[s].made : m.order # o) => order'[o] = order[o]
      /\ \A o \in Orders : o \in Placed' <=> o \in Placed \/ \E m \in txn[s].made : m.order = o
  BY CommitLeaves
<1>2. /\ block' = block \cup txn[s].held
      /\ UNCHANGED <<eventDay, closed>>
      /\ txn[s].pc = "carts"
  BY DEF CommitCheckout
<1>3. \A m \in txn[s].made : /\ m \in [order : Orders, lines : SUBSET Services]
                             /\ m.order \notin Placed /\ m.lines # {}
  BY DEF IInv, RowsTyped, TxnRow, MadeAreNew
<1>4. txn[s] \in TxnRow
  BY DEF IInv, RowsTyped
<1>5. PICK e \in Events : txn[s].event = {e} /\ txn[s].day = {eventDay[e]}
  BY <1>2 DEF IInv, WorksToTheDay, IdleTxn
<1>6. \A o \in Placed : order'[o] = order[o]
  BY <1>1, <1>3 DEF Placed
<1>19. /\ Placed' \subseteq Orders
      /\ IdleTxn.event = {} /\ IdleTxn.locked = {} /\ IdleTxn.resumed = {}
      /\ IdleTxn.made = {} /\ IdleTxn.held = {}
  BY DEF Placed, IdleTxn
<1>7. RowsTyped'
  <2>1. \A o \in Orders : order'[o] \in OrderRow
    <3> SUFFICES ASSUME NEW o \in Orders PROVE order'[o] \in OrderRow
      OBVIOUS
    <3>1. CASE \A m \in txn[s].made : m.order # o
      BY <1>1, <3>1 DEF IInv, RowsTyped
    <3>2. CASE \E m \in txn[s].made : m.order = o
      BY <1>1, <3>2
    <3> QED BY <3>1, <3>2
  <2>2. order' \in [Orders -> OrderRow]
    BY <2>1 DEF CommitCheckout
  <2>3. IdleTxn \in TxnRow
    BY DEF IdleTxn, TxnRow
  <2> QED BY <1>2, <1>4, <2>2, <2>3 DEF CommitCheckout, IInv, RowsTyped, TxnRow
<1>8. PlacedForAnEvent'
  BY <1>19, <1>1, <1>3, <1>5, <1>6 DEF IInv, PlacedForAnEvent
<1>9. WorksToTheDay'
  BY <1>1, <1>2 DEF IInv, WorksToTheDay
<1>10. OneCheckoutPerEvent'
  BY <1>19, <1>1 DEF IInv, OneCheckoutPerEvent
<1>11. LockedStillWaits'
  <2>1. \A t \in Sessions \ {s} : \A o \in txn[t].locked : o \in Placed' /\ order'[o] = order[o]
    BY <1>1, <1>6 DEF IInv, LockedStillWaits, Placed
  <2> QED BY <1>19, <1>1, <2>1 DEF IInv, LockedStillWaits
<1>12. MadeAreNew'
  BY <1>19, <1>1 DEF IInv, MadeAreNew
<1>13. HeldForMade'
  BY <1>19, <1>1 DEF IInv, HeldForMade
<1>14. CartsHeld'
  <2> SUFFICES ASSUME NEW t \in Sessions \ {s}, txn'[t].pc = "carts",
                      NEW m \in txn'[t].made, NEW line \in m.lines, NEW day \in txn'[t].day
               PROVE  [service |-> line, day |-> day, order |-> m.order] \in txn'[t].held
    BY <1>19, <1>1 DEF CartsHeld
  <2>1. txn'[t] = txn[t]
    BY <1>1
  <2> QED BY <2>1 DEF IInv, CartsHeld
<1>15. BlocksApart'
  <2>1. InUse' \subseteq InUse
    BY <1>19, <1>1, <1>2 DEF InUse
  <2> QED BY <2>1 DEF IInv, BlocksApart, Overlaps
<1>16. HeldForSomebody'
  <2>1. \A b \in txn[s].held : \E m \in txn[s].made : m.order = b.order
    BY DEF IInv, HeldForMade
  <2>2. ~ReleasesCapacity("pending_payment")
    BY DEF ReleasesCapacity, CapacityIn
  <2>3. \A b \in block : b.order \in Placed' /\ ~ReleasesCapacity(order'[b.order].state)
    BY <1>1, <1>6 DEF IInv, HeldForSomebody, Placed
  <2>4. \A b \in txn[s].held :
          b.order \in Placed' /\ ~ReleasesCapacity(order'[b.order].state)
    BY <1>1, <1>3, <2>1, <2>2
  <2> QED BY <1>2, <2>3, <2>4 DEF HeldForSomebody
<1>17. LiveOrderHoldsItsDay'
  <2> SUFFICES ASSUME NEW o \in Orders, Live(o)', NEW f \in order'[o].event,
                      NEW line \in order'[o].lines
               PROVE  [service |-> line, day |-> eventDay[f], order |-> o] \in block'
    BY <1>2 DEF LiveOrderHoldsItsDay
  <2>1. CASE o \in Placed
    BY <1>2, <1>6, <2>1 DEF Live, IInv, LiveOrderHoldsItsDay
  <2>2. CASE o \notin Placed
    <3>1. PICK m \in txn[s].made : m.order = o
      BY <1>1, <2>2 DEF Live
    <3>2. f = e /\ line \in m.lines
      BY <1>1, <1>5, <3>1
    <3>3. [service |-> line, day |-> eventDay[e], order |-> m.order] \in txn[s].held
      BY <1>2, <1>5, <3>2 DEF IInv, CartsHeld
    <3> QED BY <1>2, <3>1, <3>2, <3>3
  <2> QED BY <2>1, <2>2
<1>18. SameCartIsResumed'
  <2> SUFFICES ASSUME NEW t \in Sessions \ {s}, NEW m \in txn[t].made, NEW o \in Placed',
                      order'[o].event = txn[t].event, order'[o].state = "pending_payment"
               PROVE  order'[o].lines # m.lines
    BY <1>19, <1>1 DEF SameCartIsResumed
  <2>1. txn[t].event \cap txn[s].event = {} /\ txn[s].event # {}
    BY <1>5 DEF IInv, OneCheckoutPerEvent
  <2>2. o \in Placed
    BY <1>19, <1>1, <2>1
  <2> QED BY <1>6, <2>2 DEF IInv, SameCartIsResumed
<1> QED BY <1>7, <1>8, <1>9, <1>10, <1>11, <1>12, <1>13, <1>14, <1>15, <1>16, <1>17, <1>18
        DEF IInv

-----------------------------------------------------------------------------
(* What the rest of the system does meanwhile.                             *)

\* Nothing waits for its deposit twice, and nothing that ended goes on.
LEMMA MovesOnwards ==
  ASSUME NEW from, NEW to, CanTransition(from, to)
  PROVE  /\ to \in OrderStates \ {"pending_payment"}
         /\ from # "none"
         /\ IsTerminal(from) => IsTerminal(to)
         /\ ReleasesCapacity(from) => ReleasesCapacity(to)
         /\ ReleasesCapacity(to) => IsTerminal(to)
BY DEF CanTransition, Allowed, OrderStates, IsTerminal, ReleasesCapacity, CapacityIn

LEMMA MoveOrderStep ==
  ASSUME IInv, NEW o \in Orders, NEW to \in OrderStates, MoveOrder(o, to)
  PROVE  IInv'
<1>1. /\ CanTransition(order[o].state, to)
      /\ order' = [order EXCEPT ![o].state = to]
      /\ UNCHANGED <<eventDay, closed, txn>>
      /\ \A s \in Sessions : o \notin txn[s].locked
      /\ block' = IF ReleasesCapacity(to) THEN {b \in block : b.order # o} ELSE block
  BY DEF MoveOrder, OrderLocked
<1>2. /\ to # "pending_payment" /\ order[o].state # "none"
      /\ IsTerminal(order[o].state) => IsTerminal(to)
      /\ ReleasesCapacity(order[o].state) => ReleasesCapacity(to)
      /\ ReleasesCapacity(to) => IsTerminal(to)
  BY <1>1, MovesOnwards
<1>3. /\ order'[o].state = to
      /\ order'[o].event = order[o].event /\ order'[o].lines = order[o].lines
      /\ \A p \in Orders \ {o} : order'[p] = order[p]
  BY <1>1 DEF IInv, RowsTyped, OrderRow
<1>4. Placed' = Placed
  <2>1. to # "none"
    BY DEF OrderStates
  <2> QED BY <1>2, <1>3, <2>1 DEF Placed
<1>5. block' \subseteq block
  BY <1>1
<1>6. RowsTyped'
  BY <1>1, <1>5 DEF IInv, RowsTyped, OrderRow
<1>7. PlacedForAnEvent'
  BY <1>3, <1>4 DEF IInv, PlacedForAnEvent, Placed
<1>8. WorksToTheDay' /\ OneCheckoutPerEvent'
  BY <1>1 DEF IInv, WorksToTheDay, OneCheckoutPerEvent
<1>9. LockedStillWaits'
  BY <1>1, <1>3, <1>4 DEF IInv, LockedStillWaits, Placed
<1>10. MadeAreNew' /\ HeldForMade' /\ CartsHeld'
  BY <1>1, <1>4 DEF IInv, MadeAreNew, HeldForMade, CartsHeld
<1>11. BlocksApart'
  <2>1. InUse' \subseteq InUse
    BY <1>1, <1>5 DEF InUse
  <2> QED BY <2>1 DEF IInv, BlocksApart, Overlaps
<1>12. HeldForSomebody'
  <2> SUFFICES ASSUME NEW b \in block'
               PROVE  b.order \in Placed' /\ ~ReleasesCapacity(order'[b.order].state)
    BY DEF HeldForSomebody
  <2>1. b \in block /\ b.order \in Placed /\ ~ReleasesCapacity(order[b.order].state)
    BY <1>5 DEF IInv, HeldForSomebody
  <2>2. CASE b.order = o
    BY <1>1, <1>3, <1>4, <2>1, <2>2
  <2>3. CASE b.order # o
    BY <1>3, <1>4, <2>1, <2>3 DEF Placed
  <2> QED BY <2>2, <2>3
<1>13. LiveOrderHoldsItsDay'
  <2> SUFFICES ASSUME NEW p \in Orders, Live(p)', NEW f \in order'[p].event,
                      NEW line \in order'[p].lines
               PROVE  [service |-> line, day |-> eventDay[f], order |-> p] \in block'
    BY <1>1 DEF LiveOrderHoldsItsDay
  <2>1. Live(p) /\ order'[p].event = order[p].event /\ order'[p].lines = order[p].lines
    BY <1>2, <1>3, <1>4 DEF Live
  <2>2. [service |-> line, day |-> eventDay[f], order |-> p] \in block
    BY <2>1 DEF IInv, LiveOrderHoldsItsDay
  <2>3. ReleasesCapacity(to) => p # o
    BY <1>2, <1>3 DEF Live
  <2> QED BY <1>1, <2>2, <2>3
<1>14. SameCartIsResumed'
  BY <1>1, <1>2, <1>3, <1>4 DEF IInv, SameCartIsResumed, Placed
<1> QED BY <1>6, <1>7, <1>8, <1>9, <1>10, <1>11, <1>12, <1>13, <1>14 DEF IInv

LEMMA UpdateEventStep ==
  ASSUME IInv, NEW e \in Events, NEW day \in Days, UpdateEvent(e, day)
  PROVE  IInv'
<1>1. /\ \A s \in Sessions : e \notin txn[s].event
      /\ \A o \in Placed : order[o].event = {e} => IsTerminal(order[o].state)
      /\ eventDay' = [eventDay EXCEPT ![e] = day]
      /\ UNCHANGED <<closed, order, block, txn>>
  BY DEF UpdateEvent, EventLocked, NothingBooked, OrdersOf
<1>2. eventDay'[e] = day /\ \A f \in Events \ {e} : eventDay'[f] = eventDay[f]
  BY <1>1 DEF IInv, RowsTyped
<1>3. Placed' = Placed
  BY <1>1 DEF Placed
<1>4. RowsTyped'
  BY <1>1 DEF IInv, RowsTyped
<1>5. WorksToTheDay'
  BY <1>1, <1>2 DEF IInv, WorksToTheDay
<1>6. LiveOrderHoldsItsDay'
  <2> SUFFICES ASSUME NEW o \in Orders, Live(o), NEW f \in order[o].event,
                      NEW line \in order[o].lines
               PROVE  [service |-> line, day |-> eventDay'[f], order |-> o] \in block
    BY <1>1, <1>3 DEF LiveOrderHoldsItsDay, Live
  <2>1. order[o].event = {f} /\ f \in Events
    BY DEF Live, IInv, PlacedForAnEvent
  <2>2. f # e
    BY <1>1, <2>1 DEF Live
  <2> QED BY <1>2, <2>1, <2>2 DEF IInv, LiveOrderHoldsItsDay
<1>7. PlacedForAnEvent' /\ OneCheckoutPerEvent' /\ LockedStillWaits' /\ SameCartIsResumed'
  BY <1>1, <1>3
     DEF IInv, PlacedForAnEvent, OneCheckoutPerEvent, LockedStillWaits, SameCartIsResumed
<1>8. MadeAreNew' /\ HeldForMade' /\ CartsHeld' /\ BlocksApart' /\ HeldForSomebody'
  BY <1>1, <1>3
     DEF IInv, MadeAreNew, HeldForMade, CartsHeld, BlocksApart, InUse, Overlaps, HeldForSomebody
<1> QED BY <1>4, <1>5, <1>6, <1>7, <1>8 DEF IInv

\* The invariant says nothing of which events are closed, beyond their type.
LEMMA ClosingStep ==
  ASSUME IInv, closed' \subseteq Events, UNCHANGED <<eventDay, order, block, txn>>
  PROVE  IInv'
<1>1. Placed' = Placed /\ InUse' = InUse
  BY DEF Placed, InUse
<1> QED BY <1>1 DEF IInv, RowsTyped, PlacedForAnEvent, WorksToTheDay, OneCheckoutPerEvent,
  LockedStillWaits, MadeAreNew, HeldForMade, CartsHeld, BlocksApart, Overlaps,
  HeldForSomebody, LiveOrderHoldsItsDay, Live, SameCartIsResumed

-----------------------------------------------------------------------------

LEMMA Invariance == Spec => []IInv
<1>1. Init => IInv
  <2> SUFFICES ASSUME Init PROVE IInv
    OBVIOUS
  <2>1. \A s \in Sessions : txn[s] = IdleTxn
    BY DEF Init
  <2>2. Placed = {} /\ InUse = {}
    BY <2>1 DEF Init, Placed, NoOrder, InUse, IdleTxn
  <2>3. IdleTxn \in TxnRow /\ NoOrder \in OrderRow
    BY DEF IdleTxn, TxnRow, NoOrder, OrderRow
  <2>4. RowsTyped
    BY <2>3 DEF Init, RowsTyped
  <2>5. PlacedForAnEvent /\ WorksToTheDay /\ OneCheckoutPerEvent /\ LockedStillWaits
    BY <2>1, <2>2
       DEF PlacedForAnEvent, WorksToTheDay, OneCheckoutPerEvent, LockedStillWaits, IdleTxn
  <2>6. MadeAreNew /\ HeldForMade /\ CartsHeld /\ BlocksApart /\ SameCartIsResumed
    BY <2>1, <2>2
       DEF MadeAreNew, HeldForMade, CartsHeld, BlocksApart, SameCartIsResumed, IdleTxn
  <2>7. HeldForSomebody /\ LiveOrderHoldsItsDay
    BY <2>2 DEF Init, HeldForSomebody, LiveOrderHoldsItsDay, Live
  <2> QED BY <2>4, <2>5, <2>6, <2>7 DEF IInv
<1>2. IInv /\ [Next]_vars => IInv'
  <2> SUFFICES ASSUME IInv, [Next]_vars PROVE IInv'
    OBVIOUS
  <2>1. ASSUME NEW s \in Sessions, Checkout(s)
        PROVE  IInv'
    BY <2>1, LockEventStep, ResumeOrderStep, InsertOrderStep, HoldCapacityStep,
       CartHeldStep, CommitCheckoutStep, RollbackStep DEF Checkout
  <2>2. ASSUME NEW o \in Orders, NEW to \in OrderStates, MoveOrder(o, to)
        PROVE  IInv'
    BY <2>2, MoveOrderStep
  <2>3. ASSUME NEW e \in Events, NEW day \in Days, UpdateEvent(e, day)
        PROVE  IInv'
    BY <2>3, UpdateEventStep
  <2>4. ASSUME NEW e \in Events, CancelEvent(e)
        PROVE  IInv'
    BY <2>4, ClosingStep DEF CancelEvent, IInv, RowsTyped
  <2>5. CASE UNCHANGED vars
    BY <2>5, ClosingStep DEF vars, IInv, RowsTyped
  <2> QED BY <2>1, <2>2, <2>3, <2>4, <2>5 DEF Next
<1> QED BY <1>1, <1>2, PTL DEF Spec

\* Every booking that is still going has each of its dates held, on the day its
\* event is on now (ordering/checkout.ts under the event's lock, and
\* planning/service.ts, refuseWhileBooked).
THEOREM LiveOrdersKeepTheirDays == Spec => []LiveOrderHoldsItsDay
<1>1. IInv => LiveOrderHoldsItsDay
  BY DEF IInv
<1> QED BY <1>1, Invariance, PTL

\* No two bookings that are both going need one service on one day: the
\* exclusion constraint on capacity_blocks is enough, as every live line has
\* its block.
THEOREM NoDateIsSoldTwice == Spec => []NoDoubleBooking
<1>1. IInv => NoDoubleBooking
  <2> SUFFICES ASSUME IInv, NEW o \in Orders, NEW p \in Orders, Live(o), Live(p), o # p,
                      NEW line \in order[o].lines \cap order[p].lines,
                      NEW e \in order[o].event, NEW f \in order[p].event,
                      eventDay[e] = eventDay[f]
               PROVE  FALSE
    BY DEF NoDoubleBooking
  <2> DEFINE b == [service |-> line, day |-> eventDay[e], order |-> o]
             c == [service |-> line, day |-> eventDay[f], order |-> p]
  <2>1. b \in InUse /\ c \in InUse
    BY DEF IInv, LiveOrderHoldsItsDay, InUse
  <2>2. Overlaps(b, c) /\ b.order # c.order
    BY DEF Overlaps
  <2> QED BY <2>1, <2>2 DEF IInv, BlocksApart
<1> QED BY <1>1, Invariance, PTL

\* No block outlives its order or a checkout that was rolled back
\* (ordering/service.ts, applyTransition, and checkout.ts' one transaction).
THEOREM NoDateIsHeldForNobody == Spec => []HeldForSomebody
<1>1. IInv => HeldForSomebody
  BY DEF IInv
<1> QED BY <1>1, Invariance, PTL

\* Rows are typed, a resumed order still waits and still holds its dates, and a
\* cart is placed once however often it is pressed (ordering/checkout.ts,
\* findResumable).
THEOREM CheckoutsAreConsistent == Spec => []Consistent
<1>1. IInv => Consistent
  <2> SUFFICES ASSUME IInv PROVE Consistent
    OBVIOUS
  <2>1. TypeOK
    <3>1. ASSUME NEW o \in Placed
          PROVE  /\ order[o].state \in OrderStates
                 /\ \E e \in Events : order[o].event = {e}
                 /\ order[o].lines \in (SUBSET Services) \ {{}}
      <4>1. o \in Orders /\ order[o].state # "none" /\ order[o] \in OrderRow
        BY DEF Placed, IInv, RowsTyped
      <4>2. order[o].state \in OrderStates /\ order[o].lines \in SUBSET Services
        BY <4>1 DEF OrderRow
      <4>3. order[o].lines # {} /\ \E e \in Events : order[o].event = {e}
        BY DEF IInv, PlacedForAnEvent
      <4>4. order[o].lines \in (SUBSET Services) \ {{}}
        BY <4>2, <4>3
      <4> QED BY <4>2, <4>3, <4>4
    <3>2. \A s \in Sessions : TxnOK(s)
      BY DEF IInv, RowsTyped, TxnRow, LockedStillWaits, TxnOK
    <3> QED BY <3>1, <3>2 DEF IInv, RowsTyped, TypeOK
  <2>2. ResumedStillHolds
    <3> SUFFICES ASSUME NEW s \in Sessions, NEW o \in Orders, o \in txn[s].resumed
                 PROVE  /\ order[o].state = "pending_payment"
                        /\ \A line \in order[o].lines, day \in txn[s].day :
                             [service |-> line, day |-> day, order |-> o] \in block
      BY DEF ResumedStillHolds
    <3>1. o \in Placed /\ order[o].state = "pending_payment" /\ order[o].event = txn[s].event
      BY DEF IInv, LockedStillWaits
    <3>2. ~IsTerminal("pending_payment")
      BY DEF IsTerminal, Allowed, ReleasesCapacity, CapacityIn
    <3>3. Live(o)
      BY <3>1, <3>2 DEF Live
    <3>4. PICK e \in Events : txn[s].event = {e} /\ txn[s].day = {eventDay[e]}
      BY DEF IInv, WorksToTheDay, IdleTxn
    <3> QED BY <3>1, <3>3, <3>4 DEF IInv, LiveOrderHoldsItsDay
  <2> QED BY <2>1, <2>2 DEF IInv, Consistent
<1> QED BY <1>1, Invariance, PTL

=============================================================================

----------------------------- MODULE PaymentPlan -----------------------------
(***************************************************************************)
(* One booking's figures and dates, from the quote on the screen to the    *)
(* vendor's last share: what is priced again, what is read back from the   *)
(* row, and what an administrator's edit in between may change.  Amounts   *)
(* are cents, rates basis points, and instants whole days.  A policy       *)
(* template's own deposit rate and window win over the platform's: a       *)
(* booking's terms are one reading of both.                                *)
(***************************************************************************)
EXTENDS Integers

CONSTANTS
  Prices,            \* subtotals the vendor may ask
  CommissionRates, HstRates, DepositRates, LeadDays,
  Windows,           \* days of free cancellation
  FullPaymentBelow,  \* a total below it is taken at once
  EventDay,
  MaxEdits           \* bound on edits of the terms and the listing

VARIABLES
  terms,     \* platform_settings and the service's policy template
  listing,   \* the catalogue: its price, and whether the vendor charges HST
  today,
  shown,     \* the figures on the customer's screen
  order,     \* the row
  pressed,   \* history: what the screen said when the customer went ahead
  jobs,      \* when the order's two payments of money are due to run
  charged,   \* what each instalment has taken
  sent,      \* the vendor's transfers
  edits

vars == <<terms, listing, today, shown, order, pressed, jobs, charged, sent, edits>>

Instalments == {"deposit", "balance"}
Nothing == [i \in Instalments |-> 0]
NoDate == -1
NoFigures == [total |-> 0, deposit |-> 0, balance |-> 0, due |-> NoDate]
NoOrder == [figures |-> NoFigures, vendorShare |-> 0, windowEnds |-> 0, state |-> "none"]

ASSUME PlanAssumption ==
  /\ Prices \subseteq Nat /\ EventDay \in Nat /\ MaxEdits \in Nat /\ FullPaymentBelow \in Nat
  /\ CommissionRates \subseteq 0 .. 5000 /\ HstRates \subseteq 0 .. 3000
  /\ DepositRates \subseteq 0 .. 10000
  /\ LeadDays \subseteq 0 .. EventDay /\ Windows \subseteq Nat

Terms == [commission : CommissionRates, hst : HstRates, deposit : DepositRates,
          lead : LeadDays, window : Windows]

-----------------------------------------------------------------------------
(* The split.                                                              *)

\* Half away from zero.
ApplyBps(amount, bps) ==
  (amount * bps) \div 10000 + (IF 2 * ((amount * bps) % 10000) >= 10000 THEN 1 ELSE 0)

ComputeOrderMoney(subtotal, registered, t) ==
  LET tax == IF registered THEN ApplyBps(subtotal, t.hst) ELSE 0
      commission == ApplyBps(subtotal, t.commission) IN
  [total |-> subtotal + tax,
   vendorShare |-> subtotal + tax - commission - ApplyBps(commission, t.hst)]

\* Mutant: each instalment's part is rounded on its own.
AllocateEachAlone(amount, weights) ==
  LET whole == weights["deposit"] + weights["balance"] IN
  [i \in Instalments |-> (2 * amount * weights[i] + whole) \div (2 * whole)]

\* Every part is floored; of two parts at most one cent is left, for the part
\* with the larger remainder, the earlier one in a tie.
Allocate(amount, weights) ==
  LET whole == weights["deposit"] + weights["balance"]
      floor == [i \in Instalments |-> (amount * weights[i]) \div whole]
      rest == [i \in Instalments |-> (amount * weights[i]) % whole]
      spare == amount - floor["deposit"] - floor["balance"]
      winner == IF rest["deposit"] >= rest["balance"] THEN "deposit" ELSE "balance" IN
  [floor EXCEPT ![winner] = @ + spare]

-----------------------------------------------------------------------------
(* The plan.                                                               *)

InFull(total) == [total |-> total, deposit |-> total, balance |-> 0, due |-> NoDate]

InTwo(total, t) ==
  LET deposit == ApplyBps(total, t.deposit) IN
  [total |-> total, deposit |-> deposit, balance |-> total - deposit, due |-> EventDay - t.lead]

BuildPaymentPlan(total, t) ==
  LET split == InTwo(total, t) IN
  IF \/ total < FullPaymentBelow
     \/ split.due <= today
     \/ split.deposit <= 0 \/ split.deposit >= total
  THEN InFull(total) ELSE split

Money == ComputeOrderMoney(listing.price, listing.registered, terms)
Figures == BuildPaymentPlan(Money.total, terms)

\* A cart that comes to nothing, or that the platform's cut exceeds, is refused.
Priced == Money.total > 0 /\ Money.vendorShare >= 0

-----------------------------------------------------------------------------

Init ==
  /\ terms \in Terms
  /\ listing \in [price : Prices, registered : BOOLEAN]
  /\ today = 0
  /\ shown = NoFigures /\ order = NoOrder /\ pressed = NoFigures
  /\ jobs = [transfer |-> NoDate, balance |-> NoDate]
  /\ charged = Nothing /\ sent = Nothing
  /\ edits = 0

Screen == UNCHANGED <<terms, listing, today, edits>>
Booking == UNCHANGED <<shown, order, pressed, jobs, charged, sent>>

\* The administrator's settings screen saves one key at a time.
UpdateSetting ==
  /\ \E t \in Terms :
       /\ \E key \in DOMAIN t : t = [terms EXCEPT ![key] = t[key]]
       /\ t # terms /\ terms' = t
  /\ edits < MaxEdits /\ edits' = edits + 1
  /\ UNCHANGED <<listing, today>> /\ Booking

EditListing ==
  /\ \E price \in Prices \ {listing.price} : listing' = [listing EXCEPT !.price = price]
  /\ edits < MaxEdits /\ edits' = edits + 1
  /\ UNCHANGED <<terms, today>> /\ Booking

\* Bound: the day after the event is the last.
DayPasses ==
  /\ today <= EventDay /\ today' = today + 1
  /\ UNCHANGED <<terms, listing, edits>> /\ Booking

QuoteCheckout ==
  /\ order = NoOrder /\ Priced
  /\ shown' = Figures
  /\ Screen /\ UNCHANGED <<order, pressed, jobs, charged, sent>>

Refused(actual) == shown' = actual /\ UNCHANGED <<order, pressed>>

\* The agreement is asked of what would be charged; a refusal shows it.
InsertOrder ==
  IF shown # Figures THEN Refused(Figures) ELSE
    /\ order' = [figures |-> Figures, vendorShare |-> Money.vendorShare,
                 windowEnds |-> today + terms.window, state |-> "pending_payment"]
    /\ pressed' = shown
    /\ UNCHANGED shown

\* Mutant: a resumed order is compared with the catalogue.
ResumeAsPriced ==
  IF shown # Figures THEN Refused(Figures) ELSE pressed' = shown /\ UNCHANGED <<shown, order>>

\* Resuming charges what the order says.
ResumeOrder ==
  IF shown # order.figures THEN Refused(order.figures)
  ELSE pressed' = shown /\ UNCHANGED <<shown, order>>

CreateCheckout ==
  /\ shown # NoFigures /\ Priced
  /\ \/ order = NoOrder /\ InsertOrder
     \/ order.state = "pending_payment" /\ ResumeOrder
  /\ Screen /\ UNCHANGED <<jobs, charged, sent>>

\* A second tab, priced while the first has an order waiting.
QuoteAgain ==
  /\ order.state = "pending_payment" /\ Priced /\ shown' = Figures
  /\ Screen /\ UNCHANGED <<order, pressed, jobs, charged, sent>>

\* Forty-eight hours after the deposit.
TransferDue == today + 2

\* Mutant: the row keeps the date it was sold with.
DueAsSold == order.figures.due

\* The row's date is written again from the job's.
DueMirrored == IF order.figures.balance > 0 THEN EventDay - terms.lead ELSE order.figures.due

\* The deposit is captured and the order confirmed: both jobs are queued, the
\* balance's from the settings as they are now.
ConfirmDeposit ==
  /\ order.state = "pending_payment"
  /\ charged' = [charged EXCEPT !["deposit"] = order.figures.deposit]
  /\ jobs' = [transfer |-> TransferDue,
              balance |-> IF order.figures.balance > 0 THEN EventDay - terms.lead ELSE NoDate]
  /\ order' = [order EXCEPT !.state = "confirmed", !.figures.due = DueMirrored]
  /\ Screen /\ UNCHANGED <<shown, pressed, sent>>

ChargeBalance ==
  /\ order.state = "confirmed" /\ order.figures.balance > 0
  /\ today >= jobs.balance /\ charged["balance"] = 0
  /\ charged' = [charged EXCEPT !["balance"] = order.figures.balance]
  /\ Screen /\ UNCHANGED <<shown, order, pressed, jobs, sent>>

\* Mutant: the share is worked out from the rates in force.
StoredShareAtRates == Money.vendorShare

\* The stored figures are what the customer agreed to.
StoredShare == order.vendorShare

ShareFor(i) ==
  IF order.figures.balance = 0 THEN StoredShare
  ELSE Allocate(StoredShare, [j \in Instalments |-> order.figures[j]])[i]

Transfer(i) == sent' = [sent EXCEPT ![i] = ShareFor(i)]

CoolingWindowTransfer ==
  /\ order.state \in {"confirmed", "completed"}
  /\ jobs.transfer # NoDate /\ today >= jobs.transfer
  /\ Transfer("deposit")
  /\ jobs' = [jobs EXCEPT !.transfer = NoDate]
  /\ Screen /\ UNCHANGED <<shown, order, pressed, charged>>

\* Only an order with a balance has a second share to move.
AutoComplete ==
  /\ order.state = "confirmed" /\ today > EventDay
  /\ order.figures.balance > 0 => charged["balance"] > 0
  /\ order' = [order EXCEPT !.state = "completed"]
  /\ IF order.figures.balance > 0 THEN Transfer("balance") ELSE UNCHANGED sent
  /\ Screen /\ UNCHANGED <<shown, pressed, jobs, charged>>

\* Every charge that was taken goes back whole.
LeftAfterRefund == Nothing

\* Refused once the vendor has the deposit's share.
RefundWithinCoolingWindow ==
  /\ order.state = "confirmed" /\ today < order.windowEnds /\ jobs.transfer # NoDate
  /\ charged' = LeftAfterRefund
  /\ order' = [order EXCEPT !.state = "refunded"]
  /\ Screen /\ UNCHANGED <<shown, pressed, jobs, sent>>

Next ==
  \/ UpdateSetting \/ EditListing \/ DayPasses
  \/ QuoteCheckout \/ CreateCheckout \/ QuoteAgain
  \/ ConfirmDeposit \/ ChargeBalance
  \/ CoolingWindowTransfer \/ AutoComplete \/ RefundWithinCoolingWindow

Spec == Init /\ [][Next]_vars

-----------------------------------------------------------------------------

FiguresOf == [total : Nat, deposit : Nat, balance : Nat, due : Int]

\* Figures are amounts, the order is in a state of its row, and no charge or
\* transfer is ever below nothing.
TypeOK ==
  /\ terms \in Terms
  /\ {shown, pressed, order.figures} \subseteq FiguresOf
  /\ order.state \in {"none", "pending_payment", "confirmed", "completed", "refunded"}
  /\ order.vendorShare \in Nat
  /\ {charged, sent} \subseteq [Instalments -> Nat]

Booked == order.state \in {"confirmed", "completed"}
PaidOut == order.state = "completed" /\ jobs.transfer = NoDate

\* The customer is charged what the screen said when they went ahead, however
\* the catalogue and the rates moved before or since (assertAgreement).
ChargedAsAgreed ==
  Booked => /\ charged["deposit"] = pressed.deposit
            /\ charged["balance"] \in {0, pressed.balance}
            /\ pressed.deposit + pressed.balance = pressed.total

\* The vendor's shares come to the total less the platform's cut, as sold, to
\* the cent (sliceOrderMoney).
SharesAddUp ==
  PaidOut => sent["deposit"] + sent["balance"] = order.vendorShare

\* No share is more than the charge it is drawn on (allocate).
ShareWithinItsCharge ==
  \A i \in Instalments : Booked => sent[i] <= charged[i]

Distance(a, b) == IF a >= b THEN a - b ELSE b - a

\* Each share is its instalment's proportion, to the nearest cent, so that a
\* cancellation after the deposit claws nothing back (sliceOrderMoney).
ShareIsProportional ==
  \A i \in Instalments :
    Booked /\ sent[i] > 0 /\ order.figures.balance > 0 =>
      2 * Distance(sent[i] * order.figures.total, order.vendorShare * order.figures[i])
        <= order.figures.total

\* The vendor's shares come out to the cent, in proportion, and neither is drawn
\* on more than its own charge.
SharesComeOut ==
  /\ SharesAddUp
  /\ ShareWithinItsCharge
  /\ ShareIsProportional

\* No step of the plan charges nothing (buildPaymentPlan).
EveryChargeTakesSomething ==
  order # NoOrder => /\ order.figures.deposit > 0
                     /\ order.figures.due # NoDate <=> order.figures.balance > 0

\* The date a screen shows for the balance is the date the job works to, even
\* if the lead time was edited since the sale (setState's balanceDueAt).
BalanceDateIsWorkedTo ==
  order.state = "confirmed" => order.figures.due = jobs.balance

\* The plan on the row is one that can be carried out, on the date it shows.
Consistent ==
  /\ TypeOK
  /\ EveryChargeTakesSomething
  /\ BalanceDateIsWorkedTo

=============================================================================

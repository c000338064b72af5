------------------------- MODULE PaymentPlan_proofs -------------------------
(***************************************************************************)
(* One booking's money, for every price, rate, window and lead time: what  *)
(* the screen said is what is charged, whatever is edited in between, and  *)
(* the vendor's shares come out to the cent.  SplitToTheCent is the        *)
(* arithmetic of Allocate; Sound is the invariant that says which figures  *)
(* a charge and a transfer were worked out from.                           *)
(***************************************************************************)
EXTENDS PaymentPlan, TLAPS

-----------------------------------------------------------------------------
(* The split, over the integers.                                           *)

LEMMA Divides ==
  ASSUME NEW a \in Nat, NEW n \in Nat \ {0}
  PROVE  /\ a \div n \in Nat /\ a % n \in Nat /\ a % n < n
         /\ a = n * (a \div n) + (a % n)
OBVIOUS

LEMMA Times == ASSUME NEW a \in Nat, NEW b \in Nat PROVE a * b \in Nat
OBVIOUS

\* Two remainders that leave a whole number of units leave none, or one.
LEMMA OneIsSpare ==
  ASSUME NEW n \in Nat \ {0}, NEW k \in Int, NEW r \in Nat, NEW s \in Nat,
         r < n, s < n, r + s = n * k
  PROVE  k \in {0, 1}
<1>1. CASE k <= -1
  <2>1. n * k <= n * (-1)
    BY <1>1
  <2> QED BY <2>1
<1>2. CASE k >= 2
  <2>1. n * k >= n * 2
    BY <1>2
  <2> QED BY <2>1
<1> QED BY <1>1, <1>2

\* A part of something no larger than the whole is no larger than its weight,
\* and a floored part with a remainder is smaller.
LEMMA WithinWeight ==
  ASSUME NEW n \in Nat \ {0}, NEW q \in Nat, NEW w \in Nat, NEW amount \in Nat, NEW r \in Nat,
         amount <= n, amount * w = n * q + r
  PROVE  q <= w /\ (r > 0 => q < w)
<1>1. amount * w <= n * w
  OBVIOUS
<1>2. amount * w \in Int /\ n * w \in Int /\ n * q \in Int
  OBVIOUS
<1>3. n * q <= n * w /\ (r > 0 => n * q < n * w)
  BY <1>1, <1>2
<1>4. CASE q >= w
  <2>1. n * q >= n * w
    BY <1>4
  <2>2. q > w => n * q > n * w
    BY <1>4
  <2> QED BY <1>2, <1>3, <2>1, <2>2
<1> QED BY <1>4

\* For every amount and weights, the parts come to the amount, none exceeds its
\* weight when the amount does not exceed the whole, and each is its proportion
\* to the nearest cent (allocate, as sliceOrderMoney calls it).
THEOREM SplitToTheCent ==
  ASSUME NEW amount \in Nat, NEW weights \in [Instalments -> Nat],
         weights["deposit"] + weights["balance"] > 0,
         amount <= weights["deposit"] + weights["balance"]
  PROVE  LET whole == weights["deposit"] + weights["balance"]
             part == Allocate(amount, weights)
         IN /\ part \in [Instalments -> Nat]
            /\ part["deposit"] + part["balance"] = amount
            /\ \A i \in Instalments :
                 /\ part[i] <= weights[i]
                 /\ 2 * Distance(part[i] * whole, amount * weights[i]) <= whole
<1> DEFINE d == weights["deposit"]
           b == weights["balance"]
           n == d + b
           q == (amount * d) \div n
           r == (amount * d) % n
           p == (amount * b) \div n
           s == (amount * b) % n
           k == amount - q - p
<1>1. /\ d \in Nat /\ b \in Nat /\ n \in Nat \ {0} /\ amount <= n
      /\ amount * d \in Nat /\ amount * b \in Nat
  BY Times DEF Instalments
<1>2. /\ q \in Nat /\ r \in Nat /\ r < n /\ amount * d = n * q + r
      /\ p \in Nat /\ s \in Nat /\ s < n /\ amount * b = n * p + s
  <2> HIDE DEF d, b, n
  <2> QED BY <1>1, Divides
<1>3. Allocate(amount, weights) =
        [i \in Instalments |-> IF i = "deposit" THEN (IF r >= s THEN q + k ELSE q)
                                                ELSE (IF r >= s THEN p ELSE p + k)]
  BY DEF Allocate, Instalments
<1>4. amount * d + amount * b = amount * n
  BY <1>1
<1> HIDE DEF d, b, n, q, r, p, s
<1>5. r + s = n * k
  <2>1. n * k = n * amount - n * q - n * p
    BY <1>1, <1>2
  <2>2. amount * n = n * amount
    BY <1>1
  <2>3. n * amount \in Int /\ n * q \in Int /\ n * p \in Int
    BY <1>1, <1>2
  <2> QED BY <1>1, <1>2, <1>4, <2>1, <2>2, <2>3
<1>6. k \in {0, 1}
  BY <1>1, <1>2, <1>5, OneIsSpare
<1>7. /\ q <= d /\ (r > 0 => q < d)
      /\ p <= b /\ (s > 0 => p < b)
  BY <1>1, <1>2, WithinWeight
<1>8. n * k = IF k = 0 THEN 0 ELSE n
  BY <1>1, <1>6
<1>9. /\ q * n = amount * d - r /\ (q + 1) * n = amount * d + n - r
      /\ p * n = amount * b - s /\ (p + 1) * n = amount * b + n - s
  BY <1>1, <1>2
<1>10. CASE k = 0
  <2>1. r = 0 /\ s = 0
    BY <1>2, <1>5, <1>8, <1>10
  <2>2. Allocate(amount, weights) = [i \in Instalments |-> IF i = "deposit" THEN q ELSE p]
    BY <1>2, <1>3, <1>10
  <2>3. Distance(q * n, amount * d) = 0 /\ Distance(p * n, amount * b) = 0
    BY <1>1, <1>9, <2>1 DEF Distance
  <2> QED BY <1>1, <1>2, <1>7, <1>10, <2>2, <2>3 DEF Instalments, d, b, n
<1>11. CASE k = 1 /\ r >= s
  <2>1. r + s = n /\ r > 0 /\ 2 * s <= n
    BY <1>1, <1>2, <1>5, <1>8, <1>11
  <2>2. Allocate(amount, weights) = [i \in Instalments |-> IF i = "deposit" THEN q + 1 ELSE p]
    BY <1>2, <1>3, <1>11
  <2>3. Distance((q + 1) * n, amount * d) = s /\ Distance(p * n, amount * b) = s
    BY <1>1, <1>2, <1>9, <2>1 DEF Distance
  <2> QED BY <1>1, <1>2, <1>7, <1>11, <2>1, <2>2, <2>3 DEF Instalments, d, b, n
<1>12. CASE k = 1 /\ r < s
  <2>1. r + s = n /\ s > 0 /\ 2 * r <= n
    BY <1>1, <1>2, <1>5, <1>8, <1>12
  <2>2. Allocate(amount, weights) = [i \in Instalments |-> IF i = "deposit" THEN q ELSE p + 1]
    BY <1>2, <1>3, <1>12
  <2>3. Distance(q * n, amount * d) = r /\ Distance((p + 1) * n, amount * b) = r
    BY <1>1, <1>2, <1>9, <2>1 DEF Distance
  <2> QED BY <1>1, <1>2, <1>7, <1>12, <2>1, <2>2, <2>3 DEF Instalments, d, b, n
<1>13. (k = 1 /\ r >= s) \/ (k = 1 /\ r < s) \/ k = 0
  BY <1>2, <1>6
<1> QED BY <1>10, <1>11, <1>12, <1>13

-----------------------------------------------------------------------------
(* The figures.                                                            *)

\* A plan's steps add up, and none charges nothing.
FiguresSound(f) ==
  /\ f \in FiguresOf
  /\ f # NoFigures =>
       /\ f.deposit > 0 /\ f.deposit + f.balance = f.total
       /\ f.due # NoDate <=> f.balance > 0

LEMMA BpsOfNat ==
  ASSUME NEW amount \in Nat, NEW bps \in Nat
  PROVE  ApplyBps(amount, bps) \in Nat
<1>1. amount * bps \in Nat
  BY Times
<1> QED BY <1>1 DEF ApplyBps

LEMMA TermsAre ==
  ASSUME terms \in Terms
  PROVE  /\ terms.commission \in Nat /\ terms.hst \in Nat /\ terms.deposit \in Nat
         /\ terms.lead \in 0 .. EventDay /\ terms.window \in Nat
<1>1. CommissionRates \subseteq Nat
  BY PlanAssumption
<1>2. HstRates \subseteq Nat
  BY PlanAssumption
<1>3. DepositRates \subseteq Nat
  BY PlanAssumption
<1>4. LeadDays \subseteq 0 .. EventDay /\ EventDay \in Nat
  BY PlanAssumption
<1>5. Windows \subseteq Nat
  BY PlanAssumption
<1> QED BY <1>1, <1>2, <1>3, <1>4, <1>5 DEF Terms

LEMMA MoneyAdds ==
  ASSUME terms \in Terms, listing \in [price : Prices, registered : BOOLEAN]
  PROVE  Money.total \in Nat /\ Money.vendorShare \in Int /\ Money.vendorShare <= Money.total
<1> DEFINE tax == IF listing.registered THEN ApplyBps(listing.price, terms.hst) ELSE 0
           commission == ApplyBps(listing.price, terms.commission)
<1>0. Prices \subseteq Nat
  BY PlanAssumption
<1>1. listing.price \in Nat
  BY <1>0
<1>2. tax \in Nat /\ commission \in Nat
  BY <1>1, TermsAre, BpsOfNat
<1>3. ApplyBps(commission, terms.hst) \in Nat
  BY <1>2, TermsAre, BpsOfNat
<1>4. /\ Money.total = listing.price + tax
      /\ Money.vendorShare = listing.price + tax - commission - ApplyBps(commission, terms.hst)
  BY DEF Money, ComputeOrderMoney
<1> HIDE DEF tax, commission
<1> QED BY <1>1, <1>2, <1>3, <1>4

LEMMA FiguresAdd ==
  ASSUME terms \in Terms, listing \in [price : Prices, registered : BOOLEAN], today \in Nat, Priced
  PROVE  FiguresSound(Figures) /\ Figures # NoFigures /\ Figures.total = Money.total
<1> DEFINE total == Money.total
           deposit == ApplyBps(total, terms.deposit)
<1>0. EventDay \in Nat /\ terms.lead \in 0 .. EventDay /\ terms.deposit \in Nat
  BY PlanAssumption, TermsAre
<1>1. /\ total \in Nat /\ total > 0 /\ deposit \in Nat
      /\ EventDay - terms.lead \in Nat
  <2>1. total \in Nat /\ total > 0
    BY MoneyAdds DEF Priced
  <2> HIDE DEF total
  <2>2. deposit \in Nat
    BY <1>0, <2>1, BpsOfNat
  <2> HIDE DEF deposit
  <2> QED BY <1>0, <2>1, <2>2
<1>2. Figures = BuildPaymentPlan(total, terms)
  BY DEF Figures
<1>3. InTwo(total, terms) = [total |-> total, deposit |-> deposit, balance |-> total - deposit,
                             due |-> EventDay - terms.lead]
  BY DEF InTwo
<1> HIDE DEF total, deposit
<1>4. CASE Figures = InFull(total)
  BY <1>1, <1>4 DEF InFull, FiguresSound, FiguresOf, NoFigures, NoDate, total
<1>5. CASE Figures = InTwo(total, terms) /\ deposit > 0 /\ deposit < total
  BY <1>1, <1>3, <1>5 DEF FiguresSound, FiguresOf, NoFigures, NoDate, total
<1>6. \/ Figures = InFull(total)
      \/ Figures = InTwo(total, terms) /\ deposit > 0 /\ deposit < total
  BY <1>1, <1>2, <1>3 DEF BuildPaymentPlan
<1> QED BY <1>4, <1>5, <1>6

-----------------------------------------------------------------------------
(* The booking.                                                            *)

States == {"none", "pending_payment", "confirmed", "completed", "refunded"}
OrderRow == [figures : FiguresOf, vendorShare : Nat, windowEnds : Nat, state : States]

Typed ==
  /\ terms \in Terms
  /\ listing \in [price : Prices, registered : BOOLEAN]
  /\ today \in Nat
  /\ order \in OrderRow /\ jobs \in [transfer : Int, balance : Int]
  /\ charged \in [Instalments -> Nat] /\ sent \in [Instalments -> Nat]
  /\ FiguresSound(shown) /\ FiguresSound(pressed) /\ FiguresSound(order.figures)

\* A row carries a plan, a share within it, and what the customer agreed to.
OrderSound ==
  /\ order.state = "none" => order = NoOrder
  /\ order.state # "none" =>
       /\ order.figures.deposit > 0
       /\ order.vendorShare <= order.figures.total
       /\ pressed.deposit = order.figures.deposit
       /\ pressed.balance = order.figures.balance
       /\ pressed.total = order.figures.total

\* Money moves from a confirmation on, and only the row's figures.
ChargesSound ==
  /\ order.state \in {"none", "pending_payment"} => charged = Nothing
  /\ Booked => /\ charged["deposit"] = order.figures.deposit
               /\ charged["balance"] \in {0, order.figures.balance}
  /\ order.state = "completed" /\ order.figures.balance > 0 =>
       charged["balance"] = order.figures.balance
  /\ order.state = "confirmed" => order.figures.due = jobs.balance

SharesSound ==
  /\ order.state \in {"none", "pending_payment"} => sent = Nothing
  /\ Booked =>
       /\ sent["deposit"] = IF jobs.transfer = NoDate THEN ShareFor("deposit") ELSE 0
       /\ sent["balance"] = IF order.state = "completed" /\ order.figures.balance > 0
                            THEN ShareFor("balance") ELSE 0

Sound == Typed /\ OrderSound /\ ChargesSound /\ SharesSound

EditStep == UpdateSetting \/ EditListing \/ DayPasses
ScreenStep == QuoteCheckout \/ QuoteAgain \/ CreateCheckout

\* What a share is worked out from is on the row, and stays there.
LEMMA ShareStays ==
  ASSUME order'.figures = order.figures, order'.vendorShare = order.vendorShare, NEW i
  PROVE  ShareFor(i)' = ShareFor(i)
BY DEF ShareFor, StoredShare

\* An order with a balance shares its vendor's part out as it was charged; one
\* without moves it at once.
LEMMA SharesAre ==
  ASSUME Typed, OrderSound, order.state # "none"
  PROVE  /\ order.figures.balance = 0 => \A i \in Instalments : ShareFor(i) = order.vendorShare
         /\ order.figures.balance > 0 =>
              /\ ShareFor("deposit") + ShareFor("balance") = order.vendorShare
              /\ \A i \in Instalments :
                   /\ ShareFor(i) <= order.figures[i]
                   /\ 2 * Distance(ShareFor(i) * order.figures.total, order.vendorShare * order.figures[i])
                        <= order.figures.total
         /\ \A i \in Instalments : ShareFor(i) \in Nat
<1> DEFINE weights == [j \in Instalments |-> order.figures[j]]
<1>1. /\ order.figures \in FiguresOf /\ order.vendorShare \in Nat
      /\ order.figures.deposit > 0 /\ order.figures.deposit + order.figures.balance = order.figures.total
      /\ order.vendorShare <= order.figures.total
  <2>1. order.figures # NoFigures
    BY DEF OrderSound, NoFigures
  <2> QED BY <2>1 DEF Typed, OrderRow, OrderSound, FiguresSound
<1>2. /\ order.figures["deposit"] = order.figures.deposit
      /\ order.figures["balance"] = order.figures.balance
      /\ order.figures.deposit \in Nat /\ order.figures.balance \in Nat /\ order.figures.total \in Nat
  BY <1>1 DEF FiguresOf
<1>3. /\ weights \in [Instalments -> Nat]
      /\ weights["deposit"] = order.figures.deposit /\ weights["balance"] = order.figures.balance
      /\ \A i \in Instalments : weights[i] = order.figures[i]
  BY <1>1, <1>2 DEF Instalments, FiguresOf
<1>4. CASE order.figures.balance = 0
  BY <1>1, <1>4 DEF ShareFor, StoredShare
<1>5. CASE order.figures.balance > 0
  <2>1. \A i : ShareFor(i) = Allocate(order.vendorShare, weights)[i]
    BY <1>2, <1>5 DEF ShareFor, StoredShare
  <2> HIDE DEF weights
  <2>2. /\ Allocate(order.vendorShare, weights) \in [Instalments -> Nat]
        /\ Allocate(order.vendorShare, weights)["deposit"] + Allocate(order.vendorShare, weights)["balance"]
             = order.vendorShare
        /\ \A i \in Instalments :
             /\ Allocate(order.vendorShare, weights)[i] <= weights[i]
             /\ 2 * Distance(Allocate(order.vendorShare, weights)[i] * order.figures.total,
                             order.vendorShare * weights[i]) <= order.figures.total
    <3>1. weights["deposit"] + weights["balance"] = order.figures.total /\ order.figures.total > 0
      BY <1>1, <1>2, <1>3
    <3> QED BY <1>1, <1>3, <3>1, SplitToTheCent
  <2> QED BY <1>2, <1>3, <1>5, <2>1, <2>2
<1> QED BY <1>2, <1>4, <1>5

LEMMA EditsKeepSound ==
  ASSUME Sound, EditStep
  PROVE  Sound'
<1>1. UNCHANGED <<shown, order, pressed, jobs, charged, sent>>
  BY DEF EditStep, UpdateSetting, EditListing, DayPasses, Booking
<1>2. terms' \in Terms /\ listing' \in [price : Prices, registered : BOOLEAN] /\ today' \in Nat
  BY DEF Sound, Typed, EditStep, UpdateSetting, EditListing, DayPasses
<1>3. Typed'
  BY <1>1, <1>2 DEF Sound, Typed, FiguresSound
<1>4. OrderSound' /\ ChargesSound'
  BY <1>1 DEF Sound, OrderSound, ChargesSound, Booked
<1>5. SharesSound'
  BY <1>1, ShareStays DEF Sound, SharesSound, Booked
<1> QED BY <1>3, <1>4, <1>5 DEF Sound

\* The row is written with what the screen says, or the screen with what the
\* row, or the catalogue, says.
LEMMA ScreensKeepSound ==
  ASSUME Sound, ScreenStep
  PROVE  Sound'
<1>0. Typed /\ OrderSound /\ ChargesSound /\ SharesSound
  BY DEF Sound
<1>1. UNCHANGED <<terms, listing, today, jobs, charged, sent>> /\ Priced
  BY DEF ScreenStep, QuoteCheckout, QuoteAgain, CreateCheckout, Screen
<1>2. FiguresSound(Figures) /\ Figures # NoFigures /\ Figures.total = Money.total
  BY <1>0, <1>1, FiguresAdd DEF Typed
<1>3. Money.vendorShare \in Nat /\ Money.vendorShare <= Figures.total
  <2>1. Money.vendorShare \in Int /\ Money.vendorShare <= Money.total
    BY <1>0, MoneyAdds DEF Typed
  <2> QED BY <1>1, <1>2, <2>1 DEF Priced
<1> DEFINE Shows(f) == shown' = f /\ UNCHANGED <<order, pressed>>
           Placed == /\ order.state = "none"
                     /\ order' = [figures |-> Figures, vendorShare |-> Money.vendorShare,
                                  windowEnds |-> today + terms.window, state |-> "pending_payment"]
                     /\ pressed' = Figures /\ shown' = Figures
           Resumed == /\ order.state = "pending_payment" /\ UNCHANGED order
                      /\ pressed' = order.figures /\ shown' = order.figures
<1>4. Shows(Figures) \/ Shows(order.figures) \/ Placed \/ Resumed
  BY <1>0 DEF ScreenStep, QuoteCheckout, QuoteAgain, CreateCheckout, InsertOrder, ResumeOrder,
              Refused, NoOrder
<1>5. CASE Shows(Figures) \/ Shows(order.figures)
  <2>1. Typed'
    BY <1>0, <1>1, <1>2, <1>5 DEF Typed, FiguresSound
  <2>2. OrderSound' /\ ChargesSound'
    BY <1>0, <1>1, <1>5 DEF OrderSound, ChargesSound, Booked
  <2>3. SharesSound'
    BY <1>0, <1>1, <1>5, ShareStays DEF SharesSound, Booked
  <2> QED BY <2>1, <2>2, <2>3 DEF Sound
<1>6. CASE Resumed
  <2>1. Typed'
    BY <1>0, <1>1, <1>6 DEF Typed, FiguresSound
  <2>2. OrderSound' /\ ChargesSound'
    BY <1>0, <1>1, <1>6 DEF OrderSound, ChargesSound, Booked
  <2>3. SharesSound'
    BY <1>0, <1>1, <1>6, ShareStays DEF SharesSound, Booked
  <2> QED BY <2>1, <2>2, <2>3 DEF Sound
<1>7. CASE Placed
  <2>1. today + terms.window \in Nat
    BY <1>0, TermsAre DEF Typed
  <2>2. /\ order'.figures = Figures /\ order'.vendorShare = Money.vendorShare
        /\ order'.state = "pending_payment" /\ order' \in OrderRow
    BY <1>2, <1>3, <1>7, <2>1 DEF OrderRow, States, FiguresSound
  <2>3. Typed'
    BY <1>0, <1>1, <1>2, <1>7, <2>2 DEF Typed, FiguresSound
  <2>4. OrderSound'
    BY <1>2, <1>3, <1>7, <2>2 DEF OrderSound, FiguresSound
  <2>5. ChargesSound' /\ SharesSound'
    BY <1>0, <1>1, <1>7, <2>2 DEF ChargesSound, SharesSound, Booked
  <2> QED BY <2>3, <2>4, <2>5 DEF Sound
<1> QED BY <1>4, <1>5, <1>6, <1>7

\* A confirmation writes one date twice, on the row and on the job.
LEMMA ConfirmKeepsSound ==
  ASSUME Sound, ConfirmDeposit
  PROVE  Sound'
<1>0. /\ Typed /\ OrderSound /\ ChargesSound /\ SharesSound
      /\ order \in OrderRow /\ order.state = "pending_payment" /\ order.figures \in FiguresOf
      /\ charged = Nothing /\ sent = Nothing /\ today \in Nat
      /\ UNCHANGED <<terms, listing, today, shown, pressed, sent>>
  BY DEF Sound, Typed, FiguresSound, ChargesSound, SharesSound, ConfirmDeposit, Screen
<1>1. EventDay - terms.lead \in Nat
  <2>1. EventDay \in Nat
    BY PlanAssumption
  <2> QED BY <1>0, <2>1, TermsAre DEF Typed
<1>2. DueMirrored \in Int /\ (order.figures.balance > 0 => DueMirrored = EventDay - terms.lead)
      /\ (order.figures.balance = 0 => DueMirrored = NoDate)
  <2>1. order.figures # NoFigures
    BY <1>0 DEF OrderSound, NoFigures
  <2>2. order.figures.due \in Int /\ (order.figures.due # NoDate <=> order.figures.balance > 0)
        /\ order.figures.balance \in Nat
    BY <1>0, <2>1 DEF Typed, FiguresSound, FiguresOf
  <2> QED BY <1>1, <2>2 DEF DueMirrored
<1>3. order' = [order EXCEPT !.state = "confirmed", !.figures.due = DueMirrored]
  BY DEF ConfirmDeposit
<1>4. /\ order'.state = "confirmed" /\ order'.vendorShare = order.vendorShare
      /\ order'.figures.total = order.figures.total
      /\ order'.figures.deposit = order.figures.deposit
      /\ order'.figures.balance = order.figures.balance
      /\ order'.figures.due = DueMirrored
      /\ order'.figures \in FiguresOf /\ order' \in OrderRow
  <2> HIDE DEF DueMirrored
  <2> QED BY <1>0, <1>2, <1>3 DEF OrderRow, FiguresOf, States
<1>5. /\ jobs'.transfer = today + 2
      /\ jobs'.balance = IF order.figures.balance > 0 THEN EventDay - terms.lead ELSE NoDate
      /\ jobs' \in [transfer : Int, balance : Int]
  BY <1>0, <1>1 DEF ConfirmDeposit, TransferDue, NoDate
<1>6. /\ charged'["deposit"] = order.figures.deposit /\ charged'["balance"] = 0
      /\ charged' \in [Instalments -> Nat]
  BY <1>0 DEF ConfirmDeposit, Nothing, Instalments, FiguresOf
<1>7. FiguresSound(order.figures)'
  <2>1. order.figures # NoFigures
    BY <1>0 DEF OrderSound, NoFigures
  <2> QED BY <1>0, <1>1, <1>2, <1>4, <2>1 DEF Typed, FiguresSound, FiguresOf, NoDate
<1>8. Typed'
  BY <1>0, <1>4, <1>5, <1>6, <1>7 DEF Typed, FiguresSound
<1>9. OrderSound'
  BY <1>0, <1>4 DEF OrderSound
<1>10. ChargesSound'
  <2>1. DueMirrored = jobs'.balance
    BY <1>0, <1>2, <1>5 DEF FiguresOf
  <2> QED BY <1>0, <1>4, <1>6, <2>1 DEF ChargesSound, Booked
<1>11. SharesSound'
  BY <1>0, <1>4, <1>5 DEF SharesSound, Booked, Nothing, Instalments, NoDate
<1> QED BY <1>8, <1>9, <1>10, <1>11 DEF Sound

\* The balance is taken as the row has it.
LEMMA ChargeKeepsSound ==
  ASSUME Sound, ChargeBalance
  PROVE  Sound'
<1>0. /\ Typed /\ OrderSound /\ ChargesSound /\ SharesSound
      /\ order.state = "confirmed" /\ order.figures.balance \in Nat
      /\ UNCHANGED <<terms, listing, today, shown, order, pressed, jobs, sent>>
      /\ charged' = [charged EXCEPT !["balance"] = order.figures.balance]
  BY DEF Sound, Typed, FiguresSound, FiguresOf, ChargeBalance, Screen
<1>1. /\ charged' \in [Instalments -> Nat]
      /\ charged'["deposit"] = charged["deposit"] /\ charged'["balance"] = order.figures.balance
  BY <1>0 DEF Typed, Instalments
<1>2. Typed'
  BY <1>0, <1>1 DEF Typed, FiguresSound
<1>3. OrderSound'
  BY <1>0 DEF OrderSound
<1>4. ChargesSound'
  BY <1>0, <1>1 DEF ChargesSound, Booked
<1>5. SharesSound'
  BY <1>0, ShareStays DEF SharesSound, Booked
<1> QED BY <1>2, <1>3, <1>4, <1>5 DEF Sound

\* The deposit's share leaves once: the job that moves it is done with.
LEMMA TransferKeepsSound ==
  ASSUME Sound, CoolingWindowTransfer
  PROVE  Sound'
<1>0. /\ Typed /\ OrderSound /\ ChargesSound /\ SharesSound
      /\ order.state \in {"confirmed", "completed"}
      /\ UNCHANGED <<terms, listing, today, shown, order, pressed, charged>>
      /\ sent' = [sent EXCEPT !["deposit"] = ShareFor("deposit")]
      /\ jobs' = [jobs EXCEPT !.transfer = NoDate]
  BY DEF Sound, CoolingWindowTransfer, Transfer, Screen
<1>1. ShareFor("deposit") \in Nat
  BY <1>0, SharesAre DEF Instalments
<1>2. /\ sent' \in [Instalments -> Nat]
      /\ sent'["deposit"] = ShareFor("deposit") /\ sent'["balance"] = sent["balance"]
  BY <1>0, <1>1 DEF Typed, Instalments
<1>3. /\ jobs' \in [transfer : Int, balance : Int]
      /\ jobs'.transfer = NoDate /\ jobs'.balance = jobs.balance
  BY <1>0 DEF Typed, NoDate
<1>4. Typed'
  BY <1>0, <1>2, <1>3 DEF Typed, FiguresSound
<1>5. OrderSound' /\ ChargesSound'
  BY <1>0, <1>3 DEF OrderSound, ChargesSound, Booked
<1>6. SharesSound'
  <2>1. ShareFor("deposit")' = ShareFor("deposit") /\ ShareFor("balance")' = ShareFor("balance")
    BY <1>0, ShareStays
  <2> QED BY <1>0, <1>2, <1>3, <2>1 DEF SharesSound, Booked
<1> QED BY <1>4, <1>5, <1>6 DEF Sound

\* A completion moves the second share of an order whose balance is in.
LEMMA CompleteKeepsSound ==
  ASSUME Sound, AutoComplete
  PROVE  Sound'
<1>0. /\ Typed /\ OrderSound /\ ChargesSound /\ SharesSound /\ order \in OrderRow
      /\ order.state = "confirmed" /\ (order.figures.balance > 0 => charged["balance"] > 0)
      /\ order' = [order EXCEPT !.state = "completed"]
      /\ UNCHANGED <<terms, listing, today, shown, pressed, jobs, charged>>
  BY DEF Sound, Typed, AutoComplete, Screen
<1>1. /\ order' \in OrderRow /\ order'.state = "completed"
      /\ order'.figures = order.figures /\ order'.vendorShare = order.vendorShare
  BY <1>0 DEF OrderRow, States
<1>2. \A i \in Instalments : ShareFor(i)' = ShareFor(i) /\ ShareFor(i) \in Nat
  BY <1>0, <1>1, ShareStays, SharesAre
<1>3. /\ sent' \in [Instalments -> Nat] /\ sent'["deposit"] = sent["deposit"]
      /\ sent'["balance"] = IF order.figures.balance > 0 THEN ShareFor("balance") ELSE 0
  <2>1. CASE order.figures.balance > 0
    <3>1. sent' = [sent EXCEPT !["balance"] = ShareFor("balance")]
      BY <2>1 DEF AutoComplete, Transfer
    <3> QED BY <1>0, <1>2, <2>1, <3>1 DEF Typed, Instalments
  <2>2. CASE ~(order.figures.balance > 0)
    BY <1>0, <2>2 DEF Typed, AutoComplete, SharesSound, Booked
  <2> QED BY <2>1, <2>2
<1>4. Typed'
  BY <1>0, <1>1, <1>3 DEF Typed, FiguresSound
<1>5. OrderSound'
  BY <1>0, <1>1 DEF OrderSound
<1>6. ChargesSound'
  BY <1>0, <1>1 DEF ChargesSound, Booked
<1>7. SharesSound'
  BY <1>0, <1>1, <1>2, <1>3 DEF SharesSound, Booked, Instalments
<1> QED BY <1>4, <1>5, <1>6, <1>7 DEF Sound

\* A free cancellation leaves the row's figures as sold.
LEMMA RefundKeepsSound ==
  ASSUME Sound, RefundWithinCoolingWindow
  PROVE  Sound'
<1>0. /\ Typed /\ OrderSound /\ ChargesSound /\ SharesSound /\ order \in OrderRow
      /\ order.state = "confirmed"
      /\ order' = [order EXCEPT !.state = "refunded"]
      /\ charged' = Nothing
      /\ UNCHANGED <<terms, listing, today, shown, pressed, jobs, sent>>
  BY DEF Sound, Typed, RefundWithinCoolingWindow, LeftAfterRefund, Screen
<1>1. /\ order' \in OrderRow /\ order'.state = "refunded"
      /\ order'.figures = order.figures /\ order'.vendorShare = order.vendorShare
  BY <1>0 DEF OrderRow, States
<1>2. Typed'
  BY <1>0, <1>1 DEF Typed, FiguresSound, Nothing, Instalments
<1>3. OrderSound'
  BY <1>0, <1>1 DEF OrderSound
<1>4. ChargesSound' /\ SharesSound'
  BY <1>1 DEF ChargesSound, SharesSound, Booked
<1> QED BY <1>2, <1>3, <1>4 DEF Sound

-----------------------------------------------------------------------------

LEMMA SoundInitially == ASSUME Init PROVE Sound
<1>1. FiguresSound(NoFigures) /\ NoOrder \in OrderRow
  BY DEF FiguresSound, FiguresOf, NoFigures, NoOrder, NoDate, OrderRow, States
<1>2. Typed
  BY <1>1 DEF Init, Typed, NoOrder, Nothing, NoDate, Instalments
<1>3. OrderSound /\ ChargesSound /\ SharesSound
  BY DEF Init, OrderSound, ChargesSound, SharesSound, NoOrder, Booked
<1> QED BY <1>2, <1>3 DEF Sound

LEMMA SoundInductive == ASSUME Sound, [Next]_vars PROVE Sound'
<1>1. CASE UNCHANGED vars
  <2>1. Typed' /\ OrderSound' /\ ChargesSound'
    BY <1>1 DEF vars, Sound, Typed, FiguresSound, OrderSound, ChargesSound, Booked
  <2>2. SharesSound'
    BY <1>1, ShareStays DEF vars, Sound, SharesSound, Booked
  <2> QED BY <2>1, <2>2 DEF Sound
<1>2. CASE EditStep
  BY <1>2, EditsKeepSound
<1>3. CASE ScreenStep
  BY <1>3, ScreensKeepSound
<1>4. CASE ConfirmDeposit
  BY <1>4, ConfirmKeepsSound
<1>5. CASE ChargeBalance
  BY <1>5, ChargeKeepsSound
<1>6. CASE CoolingWindowTransfer
  BY <1>6, TransferKeepsSound
<1>7. CASE AutoComplete
  BY <1>7, CompleteKeepsSound
<1>8. CASE RefundWithinCoolingWindow
  BY <1>8, RefundKeepsSound
<1> QED BY <1>1, <1>2, <1>3, <1>4, <1>5, <1>6, <1>7, <1>8 DEF Next, EditStep, ScreenStep

\* The row, the charges and the transfers are what the figures on the row make
\* them, for the payment plan's whole life.
LEMMA SoundAlways == Spec => []Sound
<1>1. Init => Sound
  BY SoundInitially
<1>2. Sound /\ [Next]_vars => Sound'
  BY SoundInductive
<1> QED BY <1>1, <1>2, PTL DEF Spec

\* What Sound says of a charge and of a transfer is what the runs check.
LEMMA SoundIsConsistent == ASSUME Sound PROVE Consistent
<1>0. Typed /\ OrderSound /\ ChargesSound
  BY DEF Sound
<1>1. TypeOK
  BY <1>0 DEF TypeOK, Typed, FiguresSound, OrderRow, States
<1>2. EveryChargeTakesSomething
  <2>1. order # NoOrder => order.figures.deposit > 0 /\ order.figures # NoFigures
    BY <1>0 DEF OrderSound, Typed, OrderRow, States, NoFigures
  <2> QED BY <1>0, <2>1 DEF EveryChargeTakesSomething, Typed, FiguresSound
<1>3. BalanceDateIsWorkedTo
  BY <1>0 DEF BalanceDateIsWorkedTo, ChargesSound
<1> QED BY <1>1, <1>2, <1>3 DEF Consistent

LEMMA SoundIsAgreed == ASSUME Sound PROVE ChargedAsAgreed
<1>1. Typed /\ OrderSound /\ ChargesSound
  BY DEF Sound
<1>2. CASE Booked
  <2>1. order.state # "none" /\ order.figures.deposit > 0
    BY <1>1, <1>2 DEF OrderSound, Booked
  <2>2. order.figures.deposit + order.figures.balance = order.figures.total
    BY <1>1, <2>1 DEF Typed, FiguresSound, NoFigures
  <2> QED BY <1>1, <1>2, <2>1, <2>2 DEF ChargedAsAgreed, OrderSound, ChargesSound
<1> QED BY <1>2 DEF ChargedAsAgreed

LEMMA SoundSharesComeOut == ASSUME Sound PROVE SharesComeOut
<1>0. Typed /\ OrderSound /\ ChargesSound /\ SharesSound
  BY DEF Sound
<1>1. CASE Booked
  <2>1. /\ order.state # "none" /\ order.figures # NoFigures
        /\ order.figures["deposit"] = order.figures.deposit
        /\ order.figures["balance"] = order.figures.balance
        /\ order.figures.deposit \in Nat /\ order.figures.balance \in Nat
        /\ order.figures.total \in Nat /\ order.vendorShare \in Nat
        /\ order.figures.deposit + order.figures.balance = order.figures.total
        /\ order.vendorShare <= order.figures.total
    BY <1>0, <1>1 DEF Typed, OrderSound, OrderRow, FiguresSound, FiguresOf, NoFigures, Booked
  <2>2. /\ charged["deposit"] = order.figures.deposit
        /\ order.state = "completed" /\ order.figures.balance > 0 =>
             charged["balance"] = order.figures.balance
        /\ charged["deposit"] \in Nat /\ charged["balance"] \in Nat
    BY <1>0, <1>1 DEF Typed, ChargesSound, Instalments
  <2>3. /\ sent["deposit"] = IF jobs.transfer = NoDate THEN ShareFor("deposit") ELSE 0
        /\ sent["balance"] = IF order.state = "completed" /\ order.figures.balance > 0
                             THEN ShareFor("balance") ELSE 0
    BY <1>0, <1>1 DEF SharesSound
  <2>4. /\ order.figures.balance = 0 => ShareFor("deposit") = order.vendorShare
        /\ order.figures.balance > 0 =>
             /\ ShareFor("deposit") + ShareFor("balance") = order.vendorShare
             /\ ShareFor("deposit") <= order.figures.deposit
             /\ ShareFor("balance") <= order.figures.balance
        /\ ShareFor("deposit") \in Nat /\ ShareFor("balance") \in Nat
    BY <1>0, <2>1, SharesAre DEF Instalments
  <2>5. SharesAddUp
    BY <2>1, <2>3, <2>4 DEF SharesAddUp, PaidOut
  <2>6. ShareWithinItsCharge
    BY <2>1, <2>2, <2>3, <2>4 DEF ShareWithinItsCharge, Instalments
  <2>7. ShareIsProportional
    <3> SUFFICES ASSUME NEW i \in Instalments, sent[i] > 0, order.figures.balance > 0
                 PROVE  2 * Distance(sent[i] * order.figures.total, order.vendorShare * order.figures[i])
                          <= order.figures.total
      BY DEF ShareIsProportional
    <3>1. sent[i] = ShareFor(i)
      BY <2>3 DEF Instalments
    <3> QED BY <1>0, <2>1, <3>1, SharesAre
  <2> QED BY <2>5, <2>6, <2>7 DEF SharesComeOut
<1>2. CASE ~Booked
  BY <1>2 DEF SharesComeOut, SharesAddUp, ShareWithinItsCharge, ShareIsProportional, PaidOut, Booked
<1> QED BY <1>1, <1>2

-----------------------------------------------------------------------------

\* The plan on the row can be carried out on the date it shows, for every
\* price, rate, window and lead time: no step charges nothing, and the balance
\* date is the one the job works to, however the settings were edited in
\* between (buildPaymentPlan, setState's balanceDueAt).
THEOREM PlanIsConsistent == Spec => []Consistent
<1>1. Sound => Consistent
  BY SoundIsConsistent
<1> QED BY <1>1, SoundAlways, PTL

\* The customer is charged what the screen said when they went ahead, whatever
\* is edited before, between and after: a second tab, a resumed order and a
\* moved price included (assertAgreement).
THEOREM ChargesAreAgreed == Spec => []ChargedAsAgreed
<1>1. Sound => ChargedAsAgreed
  BY SoundIsAgreed
<1> QED BY <1>1, SoundAlways, PTL

\* The vendor's shares come to the stored share to the cent, each in its
\* instalment's proportion to the nearest cent and within its charge, for
\* every split of every amount (sliceOrderMoney, allocate).
THEOREM SharesComeOutToTheCent == Spec => []SharesComeOut
<1>1. Sound => SharesComeOut
  BY SoundSharesComeOut
<1> QED BY <1>1, SoundAlways, PTL

=============================================================================

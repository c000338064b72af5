---------------------------- MODULE PayoutPath_proofs ----------------------------
(***************************************************************************)
(* What becomes of a share and of a refund, for any amounts, any number of *)
(* refunds and deaths, and whichever calls overlap: a share leaves once, a *)
(* charge labelled refunded holds nothing, an order that ended as refunded *)
(* keeps nothing but what was captured in its midst, a reinstated vendor   *)
(* is owed nothing that is still parked for the suspension, and a          *)
(* delivered booking's completion is never spent; the ledger never says    *)
(* that more went back than was taken; and the order and its job rows move *)
(* only as the lifecycle allows.                                           *)
(***************************************************************************)
EXTENDS PayoutPath, FiniteSetTheorems, WellFoundedInduction, TLAPS

PayoutPcs == {"idle", "read", "complete", "decide", "claim", "hold", "provider", "mark",
              "done", "held", "threw"}
RefundPcs == {"idle", "open", "provider", "settle", "label", "cancel", "close", "flag"}

\* What a payout may be held for when it is decided; a standing parks it later.
DecidedReasons == Reasons \ {"standing"}

CallRow == [pc : PayoutPcs \cup RefundPcs, todo : SUBSET Kinds, row : Nat,
            reason : Reasons \cup OrderStates, full : BOOLEAN]

RefundRow == [state : {"none", "requested", "settled", "needs_attention"}, of : Kinds,
              amount : Nat, made : BOOLEAN]

TransferRow == [state : {"none", "pending", "held", "paid"}, reason : Reasons]

RowsTyped ==
  /\ RowsTypeOK
  /\ payment \in [Kinds -> {"none", "succeeded", "refunded"}]
  /\ left \in [Kinds -> Nat]
  /\ refund \in [RefundRows -> RefundRow]
  /\ dashboard \in Nat
  /\ transfer \in [Kinds -> TransferRow]
  /\ moved \in [Kinds -> Nat]
  /\ standing \in {"approved", "suspended"} /\ account \in BOOLEAN
  /\ windowOpen \in BOOLEAN
  /\ parkedBy \in {"none", "own", "standing"}
  /\ call \in [Calls -> CallRow]
  /\ late \subseteq Kinds
  /\ troubles \in 0 .. MaxTroubles

\* The payouts' calls decide on reasons of their own; the refunds' work on rows
\* that are theirs.
CallsSound ==
  /\ \A type \in Payouts : call[type].pc \in PayoutPcs /\ call[type].reason \in DecidedReasons
  /\ \A c \in {"refund", "record"} :
       /\ call[c].pc \in RefundPcs
       /\ call[c].pc \in {"provider", "settle", "label", "flag"} => call[c].row \in RefundRows

HeldHasReason ==
  \A k \in Kinds : transfer[k].state = "held" <=> transfer[k].reason # "none"

Typed == RowsTyped /\ CallsSound

\* A share whose row is about to say paid has left.
MarkedIsMoved ==
  \A type \in Payouts : call[type].pc = "mark" => moved[KindOf(type)] = 1

\* A hold has something to say.
HoldHasReason ==
  \A type \in Payouts : call[type].pc = "hold" => call[type].reason # "none"

ShareInv == SharePaidOnce /\ MarkedIsMoved

\* An in-app refund is of whole charges, each with a row of its own, and comes
\* to a label only when the provider has nothing of the charge left.
InAppSound ==
  LET row == refund[call["refund"].row]
  IN /\ \A k \in call["refund"].todo : payment[k] # "none"
     /\ call["refund"].pc \in {"provider", "settle", "label"} =>
          row.state # "none" /\ row.amount = Charge[row.of] /\ payment[row.of] # "none"
     /\ call["refund"].pc \in {"settle", "label"} => left[row.of] = 0

RecordSound ==
  call["record"].pc \in {"settle", "flag"} => refund[call["record"].row].state # "none"

RefundInv ==
  /\ \A k \in Kinds : left[k] <= Charge[k]
  /\ RefundedIsReturned
  /\ InAppSound
  /\ RecordSound

\* A completion that has read its order delivered or ended leaves it ended.
CompletionInv ==
  /\ job["auto_complete_order"] = "done" => IsTerminal(state)
  /\ call["auto_complete_order"].pc \in {"decide", "claim", "hold", "provider", "mark", "done"}
       => IsTerminal(state)
  /\ FulfilledIsAwaited

IInv ==
  /\ Typed
  /\ HeldHasReason /\ HoldHasReason /\ ShareInv
  /\ SuspensionLeavesNothing
  /\ CompletionInv
  /\ RefundInv

-----------------------------------------------------------------------------
(* Sums.  Induction over a set is taken at its least member for which a    *)
(* statement fails; it is a set, so no operator is passed to a theorem.    *)

Before == {pair \in Nat \X Nat : pair[1] < pair[2]}

\* The numbers have no endless descent, with the order as a set of pairs.
LEMMA BeforeIsWellFounded == IsWellFoundedOn(Before, Nat)
BY NatLessThanWellFounded DEF Before, OpToRel

\* A set of numbers has a least one.
LEMMA LeastNumber ==
  ASSUME NEW N \in SUBSET Nat, N # {}
  PROVE  \E n \in N : \A m \in N : n <= m
<1>1. \E n \in N : \A m \in N : <<m, n>> \notin Before
  BY BeforeIsWellFounded, WFMin
<1>2. \A n, m \in N : <<m, n>> \notin Before => n <= m
  BY DEF Before
<1> QED BY <1>1, <1>2

\* A family of subsets of a finite set has one that contains no other: where a
\* statement about sets fails at all, it fails there first.
LEMMA SmallestSubset ==
  ASSUME NEW S, IsFiniteSet(S), NEW B \in SUBSET (SUBSET S), B # {}
  PROVE  \E T \in B : \A U \in B : U \subseteq T => U = T
<1> DEFINE N == {Cardinality(T) : T \in B}
<1>1. \A T \in B : IsFiniteSet(T) /\ Cardinality(T) \in Nat
  BY FS_Subset, FS_CardinalityType
<1>2. PICK n \in N : \A m \in N : n <= m
  <2>1. N \in SUBSET Nat /\ N # {}
    BY <1>1
  <2> HIDE DEF N
  <2> QED BY <2>1, LeastNumber
<1>3. PICK T \in B : n = Cardinality(T)
  BY <1>2
<1>4. ASSUME NEW U \in B, U \subseteq T PROVE U = T
  <2>1. Cardinality(U) <= Cardinality(T) /\ (Cardinality(T) = Cardinality(U) => T = U)
    BY <1>1, <1>4, FS_Subset
  <2>2. Cardinality(T) <= Cardinality(U)
    BY <1>2, <1>3
  <2> QED BY <1>1, <2>1, <2>2
<1> QED BY <1>4

\* The member of a set that the fold takes next.
Pick(s) == CHOOSE x \in s : TRUE

\* The equation a fold of f over the subsets of S satisfies.
Totals(f, S, it) ==
  it = [s \in SUBSET S |-> IF s = {} THEN 0 ELSE f[Pick(s)] + it[s \ {Pick(s)}]]

\* The library's sum is whatever satisfies that equation.
LEMMA SumIsChosen ==
  ASSUME NEW f, NEW S
  PROVE  SumFunctionOnSet(f, S) = (CHOOSE it : Totals(f, S, it))[S]
BY DEF SumFunctionOnSet, FoldFunctionOnSet, MapThenFoldSet, Totals, Pick

\* At most one function satisfies the equation of the fold.
LEMMA OneTotals ==
  ASSUME NEW f, NEW S, IsFiniteSet(S), NEW g, NEW h, Totals(f, S, g), Totals(f, S, h)
  PROVE  g = h
<1> DEFINE B == {T \in SUBSET S : g[T] # h[T]}
<1>1. ASSUME B # {} PROVE FALSE
  <2>1. PICK T \in B : \A U \in B : U \subseteq T => U = T
    <3>1. B \in SUBSET (SUBSET S)
      OBVIOUS
    <3> HIDE DEF B
    <3> QED BY <1>1, <3>1, SmallestSubset
  <2>2. T # {}
    BY DEF Totals
  <2>3. Pick(T) \in T
    BY <2>2 DEF Pick
  <2>4. g[T \ {Pick(T)}] = h[T \ {Pick(T)}]
    BY <2>1, <2>3
  <2> QED BY <2>2, <2>4 DEF Totals
<1>2. \A T \in SUBSET S : g[T] = h[T]
  BY <1>1
<1> QED BY <1>2 DEF Totals

\* The equation has a solution, and it is the sum of every part.
LEMMA SumsAreTotals ==
  ASSUME NEW f, NEW S, IsFiniteSet(S)
  PROVE  Totals(f, S, [T \in SUBSET S |-> SumFunctionOnSet(f, T)])
<1> DEFINE Sums(T) == [U \in SUBSET T |-> SumFunctionOnSet(f, U)]
           B == {T \in SUBSET S : ~Totals(f, T, Sums(T))}
<1>1. ASSUME B # {} PROVE FALSE
  <2>1. PICK T \in B : \A U \in B : U \subseteq T => U = T
    <3>1. B \in SUBSET (SUBSET S)
      OBVIOUS
    <3> HIDE DEF B
    <3> QED BY <1>1, <3>1, SmallestSubset
  <2> DEFINE p == Pick(T)
             rest == IF T = {} THEN 0 ELSE f[p] + SumFunctionOnSet(f, T \ {p})
             it == [U \in SUBSET T |-> IF U = T THEN rest ELSE SumFunctionOnSet(f, U)]
  <2>2. ASSUME NEW U \in SUBSET T, U # T
        PROVE  SumFunctionOnSet(f, U) =
                 IF U = {} THEN 0 ELSE f[Pick(U)] + SumFunctionOnSet(f, U \ {Pick(U)})
    <3>1. Totals(f, U, Sums(U))
      BY <2>1, <2>2
    <3>2. U # {} => Pick(U) \in U
      BY DEF Pick
    <3> QED BY <3>1, <3>2 DEF Totals
  <2>3. T # {} => p \in T
    BY DEF Pick
  <2>4. Totals(f, T, it)
    <3>1. ASSUME NEW U \in SUBSET T
          PROVE  it[U] = IF U = {} THEN 0 ELSE f[Pick(U)] + it[U \ {Pick(U)}]
      <4>1. U # {} => Pick(U) \in U
        BY DEF Pick
      <4>2. CASE U = T
        BY <2>3, <4>2
      <4>3. CASE U # T
        <5>1. U \ {Pick(U)} # T /\ U \ {Pick(U)} \in SUBSET T
          BY <4>3
        <5> QED BY <2>2, <4>3, <5>1
      <4> QED BY <4>2, <4>3
    <3> HIDE DEF rest, p
    <3> QED BY <3>1 DEF Totals
  <2>5. SumFunctionOnSet(f, T) = it[T]
    <3>1. Totals(f, T, CHOOSE any : Totals(f, T, any))
      <4> HIDE DEF it
      <4> QED BY <2>4
    <3>2. IsFiniteSet(T)
      BY FS_Subset
    <3>3. it = CHOOSE any : Totals(f, T, any)
      <4> HIDE DEF it
      <4> QED BY <2>4, <3>1, <3>2, OneTotals
    <3> HIDE DEF it
    <3> QED BY <3>3, SumIsChosen
  <2>6. \A U \in SUBSET T : Sums(T)[U] = it[U]
    BY <2>5
  <2>7. Sums(T) = it
    BY <2>6
  <2> HIDE DEF it
  <2> QED BY <2>1, <2>4, <2>7
<1> QED BY <1>1

\* The sum of nothing is zero, and of something is one value and the rest.
LEMMA SumStep ==
  ASSUME NEW f, NEW S, IsFiniteSet(S)
  PROVE  /\ SumFunctionOnSet(f, {}) = 0
         /\ S # {} => /\ Pick(S) \in S
                      /\ SumFunctionOnSet(f, S) =
                           f[Pick(S)] + SumFunctionOnSet(f, S \ {Pick(S)})
<1>1. S # {} => Pick(S) \in S
  BY DEF Pick
<1> DEFINE sum == [T \in SUBSET S |-> SumFunctionOnSet(f, T)]
<1>2. sum = [T \in SUBSET S |-> IF T = {} THEN 0 ELSE f[Pick(T)] + sum[T \ {Pick(T)}]]
  BY SumsAreTotals DEF Totals
<1>3. \A T \in SUBSET S : sum[T] = IF T = {} THEN 0 ELSE f[Pick(T)] + sum[T \ {Pick(T)}]
  <2> HIDE DEF sum
  <2> QED BY <1>2
<1>4. {} \in SUBSET S /\ S \in SUBSET S /\ S \ {Pick(S)} \in SUBSET S
  OBVIOUS
<1>5. \A T \in SUBSET S : sum[T] = SumFunctionOnSet(f, T)
  OBVIOUS
<1> HIDE DEF sum
<1> QED BY <1>1, <1>3, <1>4, <1>5

\* Numbers sum to a number.
LEMMA SumIsNat ==
  ASSUME NEW f, NEW S, IsFiniteSet(S), \A x \in S : f[x] \in Nat
  PROVE  SumFunctionOnSet(f, S) \in Nat
<1> DEFINE B == {T \in SUBSET S : SumFunctionOnSet(f, T) \notin Nat}
<1>1. ASSUME B # {} PROVE FALSE
  <2>1. PICK T \in B : \A U \in B : U \subseteq T => U = T
    <3>1. B \in SUBSET (SUBSET S)
      OBVIOUS
    <3> HIDE DEF B
    <3> QED BY <1>1, <3>1, SmallestSubset
  <2>2. IsFiniteSet(T)
    BY FS_Subset
  <2>3. T # {}
    <3>1. SumFunctionOnSet(f, {}) = 0
      BY FS_EmptySet, SumStep
    <3>2. {} \notin B
      BY <3>1
    <3> HIDE DEF B
    <3> QED BY <2>1, <3>2
  <2>4. Pick(T) \in T /\ SumFunctionOnSet(f, T) = f[Pick(T)] + SumFunctionOnSet(f, T \ {Pick(T)})
    BY <2>2, <2>3, SumStep
  <2>5. SumFunctionOnSet(f, T \ {Pick(T)}) \in Nat
    BY <2>1, <2>4
  <2> QED BY <2>1, <2>4, <2>5
<1> QED BY <1>1

\* Any member may be taken out first.
LEMMA SumSplits ==
  ASSUME NEW f, NEW S, IsFiniteSet(S), \A x \in S : f[x] \in Nat, NEW x \in S
  PROVE  SumFunctionOnSet(f, S) = f[x] + SumFunctionOnSet(f, S \ {x})
<1> DEFINE B == {T \in SUBSET S : \E y \in T :
                   SumFunctionOnSet(f, T) # f[y] + SumFunctionOnSet(f, T \ {y})}
<1>1. ASSUME B # {} PROVE FALSE
  <2>1. PICK T \in B : \A U \in B : U \subseteq T => U = T
    <3>1. B \in SUBSET (SUBSET S)
      OBVIOUS
    <3> HIDE DEF B
    <3> QED BY <1>1, <3>1, SmallestSubset
  <2>2. PICK y \in T : SumFunctionOnSet(f, T) # f[y] + SumFunctionOnSet(f, T \ {y})
    BY <2>1
  <2> DEFINE p == Pick(T)
  <2>3. p \in T /\ SumFunctionOnSet(f, T) = f[p] + SumFunctionOnSet(f, T \ {p})
    BY <2>2, FS_Subset, SumStep
  <2> HIDE DEF p
  <2>4. p # y
    BY <2>2, <2>3
  <2>5. SumFunctionOnSet(f, T \ {p}) = f[y] + SumFunctionOnSet(f, (T \ {p}) \ {y})
    BY <2>1, <2>3, <2>4
  <2>6. SumFunctionOnSet(f, T \ {y}) = f[p] + SumFunctionOnSet(f, (T \ {y}) \ {p})
    BY <2>1, <2>3, <2>4
  <2>7. (T \ {p}) \ {y} = (T \ {y}) \ {p}
    OBVIOUS
  <2>8. f[p] \in Nat /\ f[y] \in Nat /\ SumFunctionOnSet(f, (T \ {y}) \ {p}) \in Nat
    <3>1. (T \ {y}) \ {p} \in SUBSET S /\ IsFiniteSet((T \ {y}) \ {p})
      BY FS_Subset
    <3> QED BY <2>3, <3>1, SumIsNat
  <2>9. \A a, b, c \in Nat : a + (b + c) = b + (a + c)
    OBVIOUS
  <2> HIDE DEF B
  <2> QED BY <2>2, <2>3, <2>5, <2>6, <2>7, <2>8, <2>9
<1> QED BY <1>1

\* A sum depends on the values over its set only.
LEMMA SumDependsOnValues ==
  ASSUME NEW f, NEW g, NEW S, IsFiniteSet(S), \A x \in S : f[x] = g[x]
  PROVE  SumFunctionOnSet(f, S) = SumFunctionOnSet(g, S)
<1> DEFINE B == {T \in SUBSET S : SumFunctionOnSet(f, T) # SumFunctionOnSet(g, T)}
<1>1. ASSUME B # {} PROVE FALSE
  <2>1. PICK T \in B : \A U \in B : U \subseteq T => U = T
    <3>1. B \in SUBSET (SUBSET S)
      OBVIOUS
    <3> HIDE DEF B
    <3> QED BY <1>1, <3>1, SmallestSubset
  <2>2. IsFiniteSet(T)
    BY FS_Subset
  <2>3. T # {}
    BY <2>1, <2>2, SumStep
  <2>4. /\ Pick(T) \in T
        /\ SumFunctionOnSet(f, T) = f[Pick(T)] + SumFunctionOnSet(f, T \ {Pick(T)})
        /\ SumFunctionOnSet(g, T) = g[Pick(T)] + SumFunctionOnSet(g, T \ {Pick(T)})
    BY <2>2, <2>3, SumStep
  <2>5. SumFunctionOnSet(f, T \ {Pick(T)}) = SumFunctionOnSet(g, T \ {Pick(T)})
    BY <2>1, <2>4
  <2> QED BY <2>1, <2>4, <2>5
<1> QED BY <1>1

\* Zeros sum to zero.
LEMMA SumOfNothing ==
  ASSUME NEW f, NEW S, IsFiniteSet(S), \A x \in S : f[x] = 0
  PROVE  SumFunctionOnSet(f, S) = 0
<1> DEFINE B == {T \in SUBSET S : SumFunctionOnSet(f, T) # 0}
<1>1. ASSUME B # {} PROVE FALSE
  <2>1. PICK T \in B : \A U \in B : U \subseteq T => U = T
    <3>1. B \in SUBSET (SUBSET S)
      OBVIOUS
    <3> HIDE DEF B
    <3> QED BY <1>1, <3>1, SmallestSubset
  <2>2. IsFiniteSet(T)
    BY FS_Subset
  <2>3. T # {}
    BY <2>1, <2>2, SumStep
  <2>4. Pick(T) \in T /\ SumFunctionOnSet(f, T) = f[Pick(T)] + SumFunctionOnSet(f, T \ {Pick(T)})
    BY <2>2, <2>3, SumStep
  <2>5. SumFunctionOnSet(f, T \ {Pick(T)}) = 0
    BY <2>1, <2>4
  <2> QED BY <2>1, <2>4, <2>5
<1> QED BY <1>1

\* Larger values have a larger sum.
LEMMA SumGrows ==
  ASSUME NEW S, IsFiniteSet(S), NEW f, NEW g,
         \A x \in S : f[x] \in Nat /\ g[x] \in Nat /\ f[x] <= g[x]
  PROVE  SumFunctionOnSet(f, S) <= SumFunctionOnSet(g, S)
<1> DEFINE B == {T \in SUBSET S : ~(SumFunctionOnSet(f, T) <= SumFunctionOnSet(g, T))}
<1>1. ASSUME B # {} PROVE FALSE
  <2>1. PICK T \in B : \A U \in B : U \subseteq T => U = T
    <3>1. B \in SUBSET (SUBSET S)
      OBVIOUS
    <3> HIDE DEF B
    <3> QED BY <1>1, <3>1, SmallestSubset
  <2>2. IsFiniteSet(T)
    BY FS_Subset
  <2>3. T # {}
    <3>1. SumFunctionOnSet(f, {}) = 0 /\ SumFunctionOnSet(g, {}) = 0
      BY FS_EmptySet, SumStep
    <3>2. {} \notin B
      BY <3>1
    <3> HIDE DEF B
    <3> QED BY <2>1, <3>2
  <2> DEFINE rest == T \ {Pick(T)}
  <2>4. /\ Pick(T) \in T
        /\ SumFunctionOnSet(f, T) = f[Pick(T)] + SumFunctionOnSet(f, rest)
        /\ SumFunctionOnSet(g, T) = g[Pick(T)] + SumFunctionOnSet(g, rest)
    BY <2>2, <2>3, SumStep
  <2>5. SumFunctionOnSet(f, rest) <= SumFunctionOnSet(g, rest)
    BY <2>1, <2>4
  <2>6. SumFunctionOnSet(f, rest) \in Nat /\ SumFunctionOnSet(g, rest) \in Nat
    <3>1. IsFiniteSet(rest) /\ rest \in SUBSET S
      BY FS_Subset
    <3> HIDE DEF rest
    <3> QED BY <3>1, SumIsNat
  <2>7. ~(SumFunctionOnSet(f, T) <= SumFunctionOnSet(g, T))
    BY <2>1
  <2>8. Pick(T) \in S
    BY <2>4
  <2> HIDE DEF rest, B
  <2> QED BY <2>4, <2>5, <2>6, <2>7, <2>8
<1> QED BY <1>1

\* What one instalment adds to a sum over some of the two.
LEMMA SumOfKinds ==
  ASSUME NEW f, f["deposit"] \in Nat, f["balance"] \in Nat, NEW some \in SUBSET Kinds
  PROVE  SumFunctionOnSet(f, some) =
           (IF "deposit" \in some THEN f["deposit"] ELSE 0)
             + (IF "balance" \in some THEN f["balance"] ELSE 0)
<1>1. IsFiniteSet(Kinds)
  <2>1. Kinds = {"deposit"} \cup {"balance"} /\ IsFiniteSet({"deposit"})
    BY FS_Singleton DEF Kinds
  <2> QED BY <2>1, FS_AddElement
<1>2. IsFiniteSet(some) /\ IsFiniteSet(some \ {"deposit"}) /\ IsFiniteSet((some \ {"deposit"}) \ {"balance"})
  BY <1>1, FS_Subset
<1>3. \A k \in some : f[k] \in Nat
  BY DEF Kinds
<1>4. (some \ {"deposit"}) \ {"balance"} = {}
  BY DEF Kinds
<1>5. SumFunctionOnSet(f, {}) = 0
  BY <1>2, <1>4, SumStep
<1> DEFINE rest == some \ {"deposit"}
<1>6. SumFunctionOnSet(f, rest) = IF "balance" \in some THEN f["balance"] ELSE 0
  <2>1. CASE "balance" \in some
    <3>1. "balance" \in rest /\ \A k \in rest : f[k] \in Nat
      BY <1>3, <2>1
    <3>2. SumFunctionOnSet(f, rest) = f["balance"] + SumFunctionOnSet(f, rest \ {"balance"})
      <4> HIDE DEF rest
      <4> QED BY <1>2, <3>1, SumSplits DEF rest
    <3>3. SumFunctionOnSet(f, rest \ {"balance"}) = 0
      BY <1>4, <1>5
    <3> HIDE DEF rest
    <3> QED BY <2>1, <3>2, <3>3
  <2>2. CASE "balance" \notin some
    <3>1. rest = {}
      BY <1>4, <2>2
    <3> QED BY <1>5, <2>2, <3>1
  <2> QED BY <2>1, <2>2
<1>7. CASE "deposit" \in some
  <2>1. SumFunctionOnSet(f, some) = f["deposit"] + SumFunctionOnSet(f, rest)
    BY <1>2, <1>3, <1>7, SumSplits
  <2> QED BY <1>6, <1>7, <2>1
<1>8. CASE "deposit" \notin some
  <2>1. rest = some
    BY <1>8
  <2> HIDE DEF rest
  <2> QED BY <1>6, <1>8, <2>1
<1> QED BY <1>7, <1>8

LEMMA RowsAreFinite == IsFiniteSet(RefundRows)
BY FS_Interval, PayoutAssumption DEF RefundRows, PayoutAssumption

\* When one row is written, the sum changes by what the row's amount does.
LEMMA OneRowChanges ==
  ASSUME NEW f \in [RefundRows -> Nat], NEW g \in [RefundRows -> Nat], NEW r \in RefundRows,
         \A q \in RefundRows \ {r} : g[q] = f[q]
  PROVE  /\ SumFunction(f) \in Nat /\ SumFunction(g) \in Nat
         /\ SumFunction(g) + f[r] = SumFunction(f) + g[r]
<1>1. SumFunction(f) = SumFunctionOnSet(f, RefundRows) /\ SumFunction(g) = SumFunctionOnSet(g, RefundRows)
  BY DEF SumFunction
<1> DEFINE others == RefundRows \ {r}
<1>2. IsFiniteSet(others)
  BY RowsAreFinite, FS_Subset
<1>3. SumFunctionOnSet(f, others) = SumFunctionOnSet(g, others)
  BY <1>2, SumDependsOnValues
<1>4. SumFunctionOnSet(f, others) \in Nat
  BY <1>2, SumIsNat
<1>5. SumFunctionOnSet(f, RefundRows) = f[r] + SumFunctionOnSet(f, others)
  BY RowsAreFinite, SumSplits
<1>6. SumFunctionOnSet(g, RefundRows) = g[r] + SumFunctionOnSet(g, others)
  BY RowsAreFinite, SumSplits
<1> HIDE DEF others
<1> QED BY <1>1, <1>3, <1>4, <1>5, <1>6

\* Where no row's amount falls, neither does the sum.
LEMMA RowsGrow ==
  ASSUME NEW f \in [RefundRows -> Nat], NEW g \in [RefundRows -> Nat],
         \A q \in RefundRows : f[q] <= g[q]
  PROVE  /\ SumFunction(f) \in Nat /\ SumFunction(g) \in Nat
         /\ SumFunction(f) <= SumFunction(g)
BY RowsAreFinite, SumIsNat, SumGrows DEF SumFunction

-----------------------------------------------------------------------------
(* What the statements on a row leave in it.                               *)

LEMMA KindsOfPayouts ==
  /\ \A type \in Payouts : KindOf(type) \in Kinds
  /\ \A type, other \in Payouts : KindOf(type) = KindOf(other) => type = other
  /\ Payouts \subseteq JobTypes /\ Payouts \subseteq Calls
  /\ "refund" \in Calls \ Payouts /\ "record" \in Calls \ Payouts
BY DEF Payouts, KindOf, Kinds, JobTypes, Calls

\* A move writes the order's rows only, and each with a value of its type.
LEMMA MoveTyped ==
  ASSUME RowsTypeOK, NEW to, Move(to)
  PROVE  RowsTypeOK' /\ state' = to /\ CanTransition(state, to)
<1>1. /\ state' = to /\ to \in Allowed(state) /\ job' = JobsAfterMove(state, to)
  BY DEF Move, ApplyTransition, CanTransition
<1>2. to \in OrderStates
  BY <1>1 DEF Allowed, OrderStates
<1>3. \A status \in JobStatus : Enqueued(status) \in JobStatus /\ CalledOff(status) \in JobStatus
  BY DEF JobStatus, Enqueued, CalledOff
<1>4. job' \in [JobTypes -> JobStatus]
  BY <1>1, <1>3 DEF JobsAfterMove, RowsTypeOK
<1>5. graceOpen' \in BOOLEAN
  BY DEF Move, ApplyTransition, GraceAfterMove
<1>6. dateHeld' \in BOOLEAN
  BY DEF Move, ApplyTransition
<1>7. link' \in LinkState
  BY DEF Move, ApplyTransition, Retired, LinkState, RowsTypeOK
<1> QED BY <1>1, <1>2, <1>4, <1>5, <1>6, <1>7 DEF RowsTypeOK, CanTransition

LEMMA JobSet ==
  ASSUME RowsTypeOK, NEW type \in Payouts, NEW status \in JobStatus, SetJob(type, status),
         UNCHANGED <<state, graceOpen, dateHeld, link>>
  PROVE  /\ RowsTypeOK'
         /\ job'[type] = status
         /\ \A other \in JobTypes \ {type} : job'[other] = job[other]
BY KindsOfPayouts DEF SetJob, RowsTypeOK

\* A call goes on, or ends as it began.
LEMMA CallGoes ==
  ASSUME call \in [Calls -> CallRow], NEW c \in Calls, NEW pc \in PayoutPcs \cup RefundPcs
  PROVE  /\ GoTo(c, pc) =>
              /\ call' \in [Calls -> CallRow]
              /\ call'[c].pc = pc /\ call'[c].todo = call[c].todo /\ call'[c].row = call[c].row
              /\ call'[c].reason = call[c].reason /\ call'[c].full = call[c].full
              /\ \A d \in Calls \ {c} : call'[d] = call[d]
         /\ End(c, pc) =>
              /\ call' \in [Calls -> CallRow]
              /\ call'[c].pc = pc /\ call'[c].todo = {} /\ call'[c].row = 0
              /\ call'[c].reason = "none"
              /\ \A d \in Calls \ {c} : call'[d] = call[d]
<1>1. call[c] \in CallRow
  OBVIOUS
<1>2. ASSUME GoTo(c, pc)
      PROVE  /\ call' \in [Calls -> CallRow]
             /\ call'[c].pc = pc /\ call'[c].todo = call[c].todo /\ call'[c].row = call[c].row
             /\ call'[c].reason = call[c].reason /\ call'[c].full = call[c].full
             /\ \A d \in Calls \ {c} : call'[d] = call[d]
  BY <1>1, <1>2 DEF GoTo, CallRow
<1>3. ASSUME End(c, pc)
      PROVE  /\ call' \in [Calls -> CallRow]
             /\ call'[c].pc = pc /\ call'[c].todo = {} /\ call'[c].row = 0
             /\ call'[c].reason = "none"
             /\ \A d \in Calls \ {c} : call'[d] = call[d]
  BY <1>3 DEF End, Idle, CallRow, Reasons
<1> QED BY <1>2, <1>3

\* A row of the vendor's money or of the customer's is rewritten as a whole.
LEMMA ReasonDecided ==
  ASSUME NEW kind \in Kinds
  PROVE  HeldReason(kind) \in DecidedReasons
BY DEF HeldReason, BlockedReason, DecidedReasons, Reasons

-----------------------------------------------------------------------------
(* Every row keeps a value of its type.                                    *)

LEMMA OrderStepTyped ==
  ASSUME Typed, (\E k \in Kinds : Capture(k)) \/ Proceed \/ CloseWindow
  PROVE  Typed'
<1>1. CASE \E k \in Kinds : Capture(k)
  <2>1. PICK k \in Kinds : Capture(k)
    BY <1>1
  <2>2. RowsTypeOK'
    BY <2>1, MoveTyped DEF Capture, Typed, RowsTyped
  <2>3. /\ payment' \in [Kinds -> {"none", "succeeded", "refunded"}]
        /\ left' \in [Kinds -> Nat]
    BY <2>1, PayoutAssumption DEF Capture, Typed, RowsTyped, Charge, PayoutAssumption, Kinds
  <2>4. late' \subseteq Kinds
    BY <2>1 DEF Capture, Typed, RowsTyped
  <2> QED BY <2>1, <2>2, <2>3, <2>4 DEF Capture, Elsewhere, Typed, RowsTyped, CallsSound, shares, vendor
<1>2. CASE Proceed
  <2>1. RowsTypeOK'
    BY <1>2, MoveTyped DEF Proceed, Typed, RowsTyped
  <2> QED BY <1>2, <2>1 DEF Proceed, Elsewhere, Typed, RowsTyped, CallsSound, shares, vendor
<1>3. CASE CloseWindow
  BY <1>3 DEF CloseWindow, Elsewhere, Typed, RowsTyped, RowsTypeOK, rows, CallsSound, shares, vendor
<1> QED BY <1>1, <1>2, <1>3

LEMMA JobStepTyped ==
  ASSUME Typed, NEW type \in Payouts,
         StartJob(type) \/ Requeue(type) \/ FinishJob(type)
  PROVE  Typed'
<1>1. CASE StartJob(type)
  <2>1. RowsTypeOK'
    BY <1>1, JobSet DEF StartJob, ClaimRow, Typed, RowsTyped, JobStatus
  <2>2. call' \in [Calls -> CallRow] /\ CallsSound'
    BY <1>1, CallGoes, KindsOfPayouts DEF StartJob, Typed, RowsTyped, CallsSound, PayoutPcs
  <2> QED BY <1>1, <2>1, <2>2 DEF StartJob, Typed, RowsTyped, money, shares, vendor
<1>2. CASE Requeue(type)
  <2>1. RowsTypeOK'
    BY <1>2, JobSet DEF Requeue, RequeueRow, Typed, RowsTyped, JobStatus
  <2> QED BY <1>2, <2>1 DEF Requeue, Typed, RowsTyped, CallsSound, money, shares, vendor
<1>3. CASE FinishJob(type)
  <2>1. RowsTypeOK'
    BY <1>3, JobSet DEF FinishJob, Typed, RowsTyped, JobStatus
  <2>2. call' \in [Calls -> CallRow] /\ CallsSound'
    BY <1>3, CallGoes, KindsOfPayouts
       DEF FinishJob, Typed, RowsTyped, CallsSound, PayoutPcs, DecidedReasons, Reasons
  <2> QED BY <1>3, <2>1, <2>2 DEF FinishJob, Typed, RowsTyped, money, shares, vendor
<1> QED BY <1>1, <1>2, <1>3

LEMMA CompletionStepTyped ==
  ASSUME Typed, ReadDelivered \/ CompleteOrder
  PROVE  Typed'
<1>1. RowsTypeOK'
  <2>1. \/ \E to : Move(to)
        \/ UNCHANGED rows
    BY DEF ReadDelivered, CompleteOrder
  <2> QED BY <2>1, MoveTyped DEF Typed, RowsTyped, RowsTypeOK, rows
<1>2. \E pc \in PayoutPcs :
        GoTo("auto_complete_order", pc) \/ End("auto_complete_order", pc)
  BY DEF ReadDelivered, CompleteOrder, PayoutPcs
<1>3. call' \in [Calls -> CallRow] /\ CallsSound'
  BY <1>2, CallGoes, KindsOfPayouts
     DEF Typed, RowsTyped, CallsSound, Payouts, DecidedReasons, Reasons
<1> QED BY <1>1, <1>3 DEF ReadDelivered, CompleteOrder, Typed, RowsTyped, money, shares, vendor

LEMMA ShareStepTyped ==
  ASSUME Typed, NEW type \in Payouts,
         \/ Decide(type) \/ ClaimTransfer(type) \/ HoldTransfer(type)
         \/ CreateTransfer(type) \/ MarkTransferPaid(type)
  PROVE  Typed'
<1>1. type \in Calls /\ KindOf(type) \in Kinds /\ call[type] \in CallRow
      /\ call[type].reason \in DecidedReasons
  BY KindsOfPayouts DEF Typed, RowsTyped, CallsSound
<1>2. CASE Decide(type)
  <2>1. CASE payment[KindOf(type)] = "succeeded"
    <3>1. call' = [call EXCEPT ![type].pc = "claim", ![type].reason = HeldReason(KindOf(type))]
      BY <1>2, <2>1 DEF Decide
    <3>2. HeldReason(KindOf(type)) \in DecidedReasons
      BY <1>1, ReasonDecided
    <3>3. call' \in [Calls -> CallRow] /\ call'[type].pc = "claim"
          /\ call'[type].reason = HeldReason(KindOf(type))
          /\ \A d \in Calls \ {type} : call'[d] = call[d]
      BY <1>1, <3>1, <3>2 DEF Typed, RowsTyped, CallRow, PayoutPcs, DecidedReasons
    <3>4. CallsSound'
      BY <3>2, <3>3, KindsOfPayouts, <1>2
         DEF Decide, Typed, CallsSound, PayoutPcs
    <3> QED BY <1>2, <3>3, <3>4 DEF Decide, Typed, RowsTyped, RowsTypeOK, rows, money, shares, vendor
  <2>2. CASE payment[KindOf(type)] # "succeeded"
    <3>1. call' \in [Calls -> CallRow] /\ CallsSound'
      BY <1>1, <1>2, <2>2, CallGoes, KindsOfPayouts
         DEF Decide, Typed, RowsTyped, CallsSound, PayoutPcs, DecidedReasons, Reasons
    <3> QED BY <1>2, <3>1 DEF Decide, Typed, RowsTyped, RowsTypeOK, rows, money, shares, vendor
  <2> QED BY <2>1, <2>2
<1>3. CASE \/ ClaimTransfer(type) \/ HoldTransfer(type) \/ CreateTransfer(type)
           \/ MarkTransferPaid(type)
  <2>1. \E pc \in PayoutPcs : GoTo(type, pc) \/ End(type, pc)
    BY <1>3 DEF ClaimTransfer, HoldTransfer, CreateTransfer, MarkTransferPaid, Answer, PayoutPcs
  <2>2. call' \in [Calls -> CallRow] /\ CallsSound'
    BY <1>1, <2>1, CallGoes, KindsOfPayouts
       DEF Typed, RowsTyped, CallsSound, DecidedReasons, Reasons
  <2>3. transfer' \in [Kinds -> TransferRow]
    <3> DEFINE kind == KindOf(type)
    <3>1. transfer \in [Kinds -> TransferRow] /\ kind \in Kinds
          /\ call[type].reason \in Reasons
      BY <1>1 DEF Typed, RowsTyped, DecidedReasons, Reasons
    <3>2. \/ UNCHANGED transfer
          \/ \E row \in TransferRow : transfer' = [transfer EXCEPT ![kind] = row]
      <4>1. CASE ClaimTransfer(type)
        BY <3>1, <4>1 DEF ClaimTransfer, TransferRow, Reasons
      <4>2. CASE HoldTransfer(type)
        BY <3>1, <4>2 DEF HoldTransfer, TransferRow
      <4>3. CASE CreateTransfer(type)
        BY <4>3 DEF CreateTransfer
      <4>4. CASE MarkTransferPaid(type)
        BY <3>1, <4>4 DEF MarkTransferPaid, TransferRow, Reasons
      <4> QED BY <1>3, <4>1, <4>2, <4>3, <4>4
    <3> HIDE DEF kind
    <3> QED BY <3>1, <3>2
  <2>4. moved' \in [Kinds -> Nat]
    BY <1>1, <1>3
       DEF ClaimTransfer, HoldTransfer, CreateTransfer, MarkTransferPaid, Typed, RowsTyped
  <2>5. troubles' \in 0 .. MaxTroubles
    BY <1>3, PayoutAssumption
       DEF ClaimTransfer, HoldTransfer, CreateTransfer, MarkTransferPaid, Answer, Typed,
           RowsTyped, PayoutAssumption
  <2> QED BY <1>3, <2>2, <2>3, <2>4, <2>5
          DEF ClaimTransfer, HoldTransfer, CreateTransfer, MarkTransferPaid, Typed, RowsTyped,
              RowsTypeOK, rows, money, vendor
<1> QED BY <1>2, <1>3

LEMMA FreeRowIsRow == \A r \in FreeRow : r \in RefundRows /\ refund[r].state = "none"
BY DEF FreeRow

\* The charge that is next is one that is left to do.
LEMMA NextIsToDo ==
  ASSUME call["refund"] \in CallRow, call["refund"].todo # {}
  PROVE  NextCharge \in call["refund"].todo /\ NextCharge \in Kinds
BY DEF NextCharge, CallRow, Kinds

\* What opening a row does: a row nobody used, for the whole of the charge.
LEMMA RowOpened ==
  ASSUME Typed, OpenRefund
  PROVE  \E r \in FreeRow :
           /\ refund' \in [RefundRows -> RefundRow] /\ call' \in [Calls -> CallRow]
           /\ refund'[r].state = "requested" /\ refund'[r].of = NextCharge
           /\ refund'[r].amount = Charge[NextCharge] /\ refund'[r].made = FALSE
           /\ \A q \in RefundRows \ {r} : refund'[q] = refund[q]
           /\ call'["refund"].pc = "provider" /\ call'["refund"].row = r
           /\ call'["refund"].todo = call["refund"].todo \ {NextCharge}
           /\ \A d \in Calls \ {"refund"} : call'[d] = call[d]
<1>1. PICK r \in FreeRow :
    /\ refund' = [refund EXCEPT ![r] =
         [state |-> "requested", of |-> NextCharge, amount |-> Charge[NextCharge], made |-> FALSE]]
    /\ call' = [call EXCEPT !["refund"].pc = "provider", !["refund"].row = r,
                            !["refund"].todo = @ \ {NextCharge}]
  BY DEF OpenRefund, OpenRow
<1>2. /\ r \in RefundRows /\ r \in Nat
      /\ NextCharge \in Kinds /\ Charge[NextCharge] \in Nat
      /\ "refund" \in Calls /\ call["refund"] \in CallRow
  BY FreeRowIsRow, NextIsToDo, PayoutAssumption, KindsOfPayouts
     DEF OpenRefund, Typed, RowsTyped, Charge, Kinds, PayoutAssumption, RefundRows
<1>3. /\ refund' \in [RefundRows -> RefundRow]
      /\ refund'[r].state = "requested" /\ refund'[r].of = NextCharge
      /\ refund'[r].amount = Charge[NextCharge] /\ refund'[r].made = FALSE
      /\ \A q \in RefundRows \ {r} : refund'[q] = refund[q]
  BY <1>1, <1>2 DEF Typed, RowsTyped, RefundRow
<1>4. /\ call' \in [Calls -> CallRow]
      /\ call'["refund"].pc = "provider" /\ call'["refund"].row = r
      /\ call'["refund"].todo = call["refund"].todo \ {NextCharge}
      /\ \A d \in Calls \ {"refund"} : call'[d] = call[d]
  BY <1>1, <1>2 DEF Typed, RowsTyped, CallRow, RefundPcs
<1> QED BY <1>3, <1>4

LEMMA RefundStepTyped ==
  ASSUME Typed, RefundInApp
  PROVE  Typed'
<1>1. "refund" \in Calls /\ call["refund"] \in CallRow
      /\ (At("refund", "provider") \/ At("refund", "settle") \/ At("refund", "label")
            => call["refund"].row \in RefundRows)
  BY KindsOfPayouts DEF Typed, RowsTyped, CallsSound, At
<1>2. CASE StartRefund
  <2>1. PICK settled \in SUBSET Kinds :
          call' = [call EXCEPT !["refund"].pc = "open", !["refund"].todo = settled]
    BY <1>2 DEF StartRefund
  <2>2. /\ call' \in [Calls -> CallRow] /\ call'["refund"].pc = "open"
        /\ \A d \in Calls \ {"refund"} : call'[d] = call[d]
    BY <1>1, <2>1 DEF Typed, RowsTyped, CallRow, RefundPcs
  <2>3. CallsSound'
    BY <2>2, KindsOfPayouts DEF Typed, CallsSound, RefundPcs
  <2> QED BY <1>2, <2>2, <2>3
          DEF StartRefund, Typed, RowsTyped, RowsTypeOK, rows, money, shares, vendor
<1>3. CASE OpenRefund
  <2>1. refund' \in [RefundRows -> RefundRow] /\ call' \in [Calls -> CallRow] /\ CallsSound'
    <3>1. PICK r \in FreeRow :
            /\ refund' \in [RefundRows -> RefundRow] /\ call' \in [Calls -> CallRow]
            /\ call'["refund"].pc = "provider" /\ call'["refund"].row = r
            /\ \A d \in Calls \ {"refund"} : call'[d] = call[d]
      BY <1>3, RowOpened
    <3>2. r \in RefundRows
      BY FreeRowIsRow
    <3> QED BY <3>1, <3>2, KindsOfPayouts DEF Typed, CallsSound, RefundPcs
  <2> QED BY <1>3, <2>1
          DEF OpenRefund, Typed, RowsTyped, RowsTypeOK, rows, shares, vendor
<1>4. CASE CreateRefund \/ SettleRefund
  <2>1. \E pc \in {"settle", "label", "idle"} : (GoTo("refund", pc) /\ pc # "idle") \/ End("refund", "idle")
    BY <1>4, KindsOfPayouts DEF CreateRefund, SettleRefund, Answer
  <2>2. call' \in [Calls -> CallRow] /\ CallsSound'
    BY <1>1, <1>4, <2>1, CallGoes, KindsOfPayouts
       DEF CreateRefund, SettleRefund, Typed, RowsTyped, CallsSound, RefundPcs, At
  <2>3. refund' \in [RefundRows -> RefundRow] /\ left' \in [Kinds -> Nat]
    <3>1. call["refund"].row \in RefundRows /\ refund[call["refund"].row] \in RefundRow
      BY <1>1, <1>4 DEF CreateRefund, SettleRefund, Typed, RowsTyped
    <3>2. refund' \in [RefundRows -> RefundRow]
      <4> DEFINE r == call["refund"].row
      <4>1. refund' \in {refund, [refund EXCEPT ![r].made = TRUE], [refund EXCEPT ![r].state = "settled"]}
        BY <1>4 DEF CreateRefund, SettleRefund
      <4>2. /\ [refund[r] EXCEPT !.made = TRUE] \in RefundRow
            /\ [refund[r] EXCEPT !.state = "settled"] \in RefundRow
        BY <3>1 DEF RefundRow
      <4> HIDE DEF r
      <4> QED BY <4>1, <4>2 DEF Typed, RowsTyped
    <3>3. left' \in [Kinds -> Nat]
      BY <1>4, <3>1 DEF CreateRefund, SettleRefund, Typed, RowsTyped, RefundRow
    <3> QED BY <3>2, <3>3
  <2>4. troubles' \in 0 .. MaxTroubles
    BY <1>4, PayoutAssumption
       DEF CreateRefund, SettleRefund, Answer, Typed, RowsTyped, PayoutAssumption
  <2> QED BY <1>4, <2>2, <2>3, <2>4
          DEF CreateRefund, SettleRefund, Typed, RowsTyped, RowsTypeOK, rows, shares, vendor
<1>5. CASE MarkPaymentRefunded
  <2>1. call' \in [Calls -> CallRow] /\ CallsSound'
    <3>1. /\ call' \in [Calls -> CallRow] /\ call'["refund"].pc \in {"cancel", "open"}
          /\ \A d \in Calls \ {"refund"} : call'[d] = call[d]
      BY <1>1, <1>5 DEF MarkPaymentRefunded, Typed, RowsTyped, CallRow, RefundPcs
    <3> QED BY <3>1, KindsOfPayouts DEF Typed, CallsSound, RefundPcs
  <2>2. payment' \in [Kinds -> {"none", "succeeded", "refunded"}]
    BY <1>1, <1>5 DEF MarkPaymentRefunded, Typed, RowsTyped, RefundRow
  <2> QED BY <1>5, <2>1, <2>2
          DEF MarkPaymentRefunded, Typed, RowsTyped, RowsTypeOK, rows, shares, vendor
<1>6. CASE CloseOrder("refund")
  <2>1. call' \in [Calls -> CallRow] /\ CallsSound'
    BY <1>1, <1>6, CallGoes, KindsOfPayouts
       DEF CloseOrder, Typed, RowsTyped, CallsSound, RefundPcs
  <2>2. RowsTypeOK'
    BY <1>6, MoveTyped DEF CloseOrder, Typed, RowsTyped, RowsTypeOK, rows
  <2> QED BY <1>6, <2>1, <2>2 DEF CloseOrder, Typed, RowsTyped, money, shares, vendor
<1> QED BY <1>2, <1>3, <1>4, <1>5, <1>6 DEF RefundInApp

LEMMA RecordStepTyped ==
  ASSUME Typed, RecordRefund
  PROVE  Typed'
<1>1. "record" \in Calls /\ call["record"] \in CallRow
      /\ (At("record", "settle") \/ At("record", "flag") => call["record"].row \in RefundRows)
  BY KindsOfPayouts DEF Typed, RowsTyped, CallsSound, At
<1>2. CASE StartRecord
  <2>1. call' \in [Calls -> CallRow] /\ CallsSound'
    <3>1. state \in OrderStates
      BY DEF Typed, RowsTyped, RowsTypeOK
    <3> DEFINE full == dashboard >= NetCaptured
    <3>2. /\ full \in BOOLEAN
          /\ call' = [call EXCEPT !["record"].pc = "open", !["record"].reason = state,
                                  !["record"].full = full]
      BY <1>2 DEF StartRecord
    <3> HIDE DEF full
    <3>3. /\ call' \in [Calls -> CallRow] /\ call'["record"].pc = "open"
          /\ \A d \in Calls \ {"record"} : call'[d] = call[d]
      BY <1>1, <3>1, <3>2 DEF Typed, RowsTyped, CallRow, RefundPcs
    <3> QED BY <3>3, KindsOfPayouts DEF Typed, CallsSound, RefundPcs
  <2> QED BY <1>2, <2>1
          DEF StartRecord, Typed, RowsTyped, RowsTypeOK, rows, money, shares, vendor
<1>3. CASE OpenRecorded
  <2>1. PICK r \in FreeRow :
         /\ refund' = [refund EXCEPT ![r] =
              [state |-> "requested", of |-> "deposit", amount |-> dashboard, made |-> TRUE]]
         /\ call' = [call EXCEPT !["record"].pc = "settle", !["record"].row = r]
    BY <1>3 DEF OpenRecorded
  <2>2. r \in RefundRows /\ r \in Nat
    BY FreeRowIsRow DEF RefundRows
  <2>3. refund' \in [RefundRows -> RefundRow]
    BY <2>1, <2>2 DEF Typed, RowsTyped, RefundRow, Kinds
  <2>4. call' \in [Calls -> CallRow] /\ CallsSound'
    <3>1. /\ call' \in [Calls -> CallRow]
          /\ call'["record"].pc = "settle" /\ call'["record"].row = r
          /\ \A d \in Calls \ {"record"} : call'[d] = call[d]
      BY <1>1, <2>1, <2>2 DEF Typed, RowsTyped, CallRow, RefundPcs
    <3> QED BY <2>2, <3>1, KindsOfPayouts DEF Typed, CallsSound, RefundPcs
  <2> QED BY <1>3, <2>3, <2>4
          DEF OpenRecorded, Typed, RowsTyped, RowsTypeOK, rows, shares, vendor
<1>4. CASE SettleRecorded \/ FlagForAttention
  <2>1. call["record"].row \in RefundRows
    BY <1>1, <1>4 DEF SettleRecorded, FlagForAttention
  <2>2. refund' \in [RefundRows -> RefundRow]
    BY <1>4, <2>1 DEF SettleRecorded, FlagForAttention, Typed, RowsTyped, RefundRow
  <2>3. dashboard' \in Nat
    BY <1>4 DEF SettleRecorded, FlagForAttention, Typed, RowsTyped
  <2>4. call' \in [Calls -> CallRow] /\ CallsSound'
    BY <1>1, <1>4, <2>1, CallGoes, KindsOfPayouts
       DEF SettleRecorded, FlagForAttention, AfterFlag, Typed, RowsTyped, CallsSound, RefundPcs
  <2> QED BY <1>4, <2>2, <2>3, <2>4
          DEF SettleRecorded, FlagForAttention, Typed, RowsTyped, RowsTypeOK, rows, shares, vendor
<1>5. CASE CloseOrder("record")
  <2>1. call' \in [Calls -> CallRow] /\ CallsSound'
    BY <1>1, <1>5, CallGoes, KindsOfPayouts
       DEF CloseOrder, Typed, RowsTyped, CallsSound, RefundPcs
  <2>2. RowsTypeOK'
    BY <1>5, MoveTyped DEF CloseOrder, Typed, RowsTyped, RowsTypeOK, rows
  <2> QED BY <1>5, <2>1, <2>2 DEF CloseOrder, Typed, RowsTyped, money, shares, vendor
<1> QED BY <1>2, <1>3, <1>4, <1>5 DEF RecordRefund

LEMMA OutsideStepTyped ==
  ASSUME Typed, RefundInDashboard \/ Suspend \/ Reinstate \/ Onboard \/ Die
  PROVE  Typed'
<1>1. CASE RefundInDashboard
  <2>1. left' \in [Kinds -> Nat] /\ dashboard' \in Nat
    BY <1>1 DEF RefundInDashboard, Typed, RowsTyped
  <2> QED BY <1>1, <2>1
          DEF RefundInDashboard, Typed, RowsTyped, RowsTypeOK, CallsSound, rows, shares, vendor
<1>2. CASE Suspend \/ Reinstate
  <2>1. RowsTypeOK'
    BY <1>2, JobSet DEF Suspend, Reinstate, Typed, RowsTyped, RowsTypeOK, JobStatus, Payouts
  <2>2. transfer' \in [Kinds -> TransferRow]
    BY <1>2 DEF Suspend, Reinstate, ReleasedTransfers, Typed, RowsTyped, TransferRow, Reasons
  <2> QED BY <1>2, <2>1, <2>2
          DEF Suspend, Reinstate, Typed, RowsTyped, CallsSound, money
<1>3. CASE Onboard
  BY <1>3 DEF Onboard, Typed, RowsTyped, RowsTypeOK, CallsSound, rows, money, shares
<1>4. CASE Die
  <2>1. PICK c \in Calls : End(c, "idle")
    BY <1>4, PayoutAssumption DEF Die, PayoutAssumption
  <2>2. call' \in [Calls -> CallRow] /\ CallsSound'
    BY <2>1, CallGoes, KindsOfPayouts
       DEF Typed, RowsTyped, CallsSound, PayoutPcs, RefundPcs, DecidedReasons, Reasons
  <2>3. troubles' \in 0 .. MaxTroubles
    BY <1>4, PayoutAssumption DEF Die, Typed, RowsTyped, PayoutAssumption
  <2> QED BY <1>4, <2>2, <2>3
          DEF Die, Typed, RowsTyped, RowsTypeOK, rows, money, shares, vendor
<1> QED BY <1>1, <1>2, <1>3, <1>4

-----------------------------------------------------------------------------
(* The actions by what they can disturb.                                   *)

OrderStep == (\E k \in Kinds : Capture(k)) \/ Proceed \/ CloseWindow
JobStep(type) == StartJob(type) \/ Requeue(type) \/ FinishJob(type)
CompletionStep == ReadDelivered \/ CompleteOrder
ShareStep(type) ==
  \/ Decide(type) \/ ClaimTransfer(type) \/ HoldTransfer(type)
  \/ CreateTransfer(type) \/ MarkTransferPaid(type)
VendorStep == Suspend \/ Reinstate \/ Onboard

LEMMA NextByGroup ==
  Next <=> \/ OrderStep \/ CompletionStep \/ RefundInApp \/ RecordRefund
           \/ RefundInDashboard \/ VendorStep \/ Die
           \/ \E type \in Payouts : JobStep(type) \/ ShareStep(type)
BY DEF Next, RunJobs, Pay, OrderStep, JobStep, CompletionStep, ShareStep, VendorStep

LEMMA StepTyped == Typed /\ [Next]_vars => Typed'
<1> SUFFICES ASSUME Typed, [Next]_vars PROVE Typed'
  OBVIOUS
<1>1. CASE Next
  BY <1>1, NextByGroup, OrderStepTyped, JobStepTyped, CompletionStepTyped, ShareStepTyped,
     RefundStepTyped, RecordStepTyped, OutsideStepTyped
     DEF OrderStep, JobStep, CompletionStep, ShareStep, VendorStep
<1>2. CASE UNCHANGED vars
  BY <1>2 DEF vars, rows, money, shares, vendor, Typed, RowsTyped, RowsTypeOK, CallsSound
<1> QED BY <1>1, <1>2

-----------------------------------------------------------------------------
(* The share.                                                              *)

\* A step of one payout leaves the other's row alone, and the transfer and its
\* row are written by that payout only.
LEMMA ShareStepKeeps ==
  ASSUME Typed, ShareInv, HeldHasReason, HoldHasReason,
         NEW type \in Payouts, ShareStep(type)
  PROVE  ShareInv' /\ HeldHasReason' /\ HoldHasReason'
<1>1. /\ type \in Calls /\ KindOf(type) \in Kinds
      /\ call[type] \in CallRow /\ call[type].reason \in DecidedReasons
      /\ call \in [Calls -> CallRow] /\ transfer \in [Kinds -> TransferRow]
      /\ moved \in [Kinds -> Nat]
  BY KindsOfPayouts DEF Typed, RowsTyped, CallsSound
<1>2. \A other \in Payouts \ {type} : KindOf(other) # KindOf(type)
  BY KindsOfPayouts
<1>3. CASE Decide(type)
  <2>1. /\ call'[type].pc \notin {"mark", "hold"}
        /\ \A d \in Calls \ {type} : call'[d] = call[d]
    BY <1>1, <1>3, CallGoes DEF Decide, PayoutPcs, CallRow
  <2> QED BY <1>3, <2>1, KindsOfPayouts
          DEF Decide, ShareInv, SharePaidOnce, MarkedIsMoved, HeldHasReason, HoldHasReason, shares
<1>4. CASE ClaimTransfer(type)
  <2>1. /\ call'[type].pc # "mark"
        /\ call'[type].pc = "hold" => call'[type].reason # "none"
        /\ \A d \in Calls \ {type} : call'[d] = call[d]
    BY <1>1, <1>4, CallGoes DEF ClaimTransfer, PayoutPcs
  <2>2. /\ moved' = moved
        /\ \A k \in Kinds : transfer'[k] = transfer[k] \/
             (transfer'[k].state # "paid" /\ (transfer'[k].state = "held" <=> transfer'[k].reason # "none"))
    BY <1>1, <1>4 DEF ClaimTransfer, TransferRow
  <2> QED BY <2>1, <2>2, KindsOfPayouts
          DEF ShareInv, SharePaidOnce, MarkedIsMoved, HeldHasReason, HoldHasReason
<1>5. CASE HoldTransfer(type)
  <2>1. /\ call'[type].pc = "held"
        /\ \A d \in Calls \ {type} : call'[d] = call[d]
    BY <1>1, <1>5, CallGoes DEF HoldTransfer, PayoutPcs
  <2>2. /\ moved' = moved
        /\ call[type].reason # "none"
        /\ \A k \in Kinds : transfer'[k] = transfer[k] \/
             (transfer'[k].state = "held" /\ transfer'[k].reason = call[type].reason)
    BY <1>1, <1>5 DEF HoldTransfer, HoldHasReason, At
  <2> QED BY <2>1, <2>2, KindsOfPayouts
          DEF ShareInv, SharePaidOnce, MarkedIsMoved, HeldHasReason, HoldHasReason
<1>6. CASE CreateTransfer(type)
  <2>1. /\ call'[type].pc \in {"mark", "threw", "idle"}
        /\ \A d \in Calls \ {type} : call'[d] = call[d]
    BY <1>1, <1>6, CallGoes DEF CreateTransfer, Answer, PayoutPcs
  <2>2. /\ transfer' = transfer
        /\ moved'[KindOf(type)] = 1
        /\ \A k \in Kinds \ {KindOf(type)} : moved'[k] = moved[k]
    BY <1>1, <1>6 DEF CreateTransfer
  <2> QED BY <1>2, <2>1, <2>2, KindsOfPayouts
          DEF ShareInv, SharePaidOnce, MarkedIsMoved, HeldHasReason, HoldHasReason
<1>7. CASE MarkTransferPaid(type)
  <2>1. /\ call'[type].pc = "done"
        /\ \A d \in Calls \ {type} : call'[d] = call[d]
    BY <1>1, <1>7, CallGoes DEF MarkTransferPaid, PayoutPcs
  <2>2. /\ moved' = moved /\ moved[KindOf(type)] = 1
        /\ transfer'[KindOf(type)].state = "paid" /\ transfer'[KindOf(type)].reason = "none"
        /\ \A k \in Kinds \ {KindOf(type)} : transfer'[k] = transfer[k]
    BY <1>1, <1>7 DEF MarkTransferPaid, ShareInv, MarkedIsMoved, At
  <2> QED BY <2>1, <2>2, KindsOfPayouts
          DEF ShareInv, SharePaidOnce, MarkedIsMoved, HeldHasReason, HoldHasReason
<1> QED BY <1>3, <1>4, <1>5, <1>6, <1>7 DEF ShareStep

\* Every other step ends a payout's call or moves it to where nothing has been
\* decided, and rewrites a row only to park it or to let it go.
LEMMA PayoutCallElsewhere ==
  ASSUME Typed, NEW type \in Payouts,
         \/ OrderStep \/ CompletionStep \/ RefundInApp \/ RecordRefund
         \/ RefundInDashboard \/ VendorStep \/ Die
         \/ \E other \in Payouts : JobStep(other)
  PROVE  \/ call'[type] = call[type]
         \/ call'[type].pc \in {"idle", "read", "complete", "decide", "done", "held", "threw"}
<1>1. /\ type \in Calls /\ type \notin {"refund", "record"}
      /\ call \in [Calls -> CallRow]
      /\ "auto_complete_order" \in Calls /\ "refund" \in Calls /\ "record" \in Calls
  BY KindsOfPayouts DEF Typed, RowsTyped, Payouts, Calls
<1>2. CASE OrderStep \/ RefundInDashboard \/ VendorStep
  BY <1>2 DEF OrderStep, VendorStep, Capture, Proceed, CloseWindow, Elsewhere, RefundInDashboard,
              Suspend, Reinstate, Onboard
<1>3. CASE CompletionStep
  <2>1. \E pc \in {"complete", "decide", "done", "held", "threw"} :
          GoTo("auto_complete_order", pc) \/ End("auto_complete_order", pc)
    BY <1>3 DEF CompletionStep, ReadDelivered, CompleteOrder
  <2> QED BY <1>1, <2>1, CallGoes DEF PayoutPcs
<1>4. CASE RefundInApp
  BY <1>1, <1>4 DEF RefundInApp, StartRefund, OpenRefund, OpenRow, CreateRefund, Answer,
                    SettleRefund, MarkPaymentRefunded, CloseOrder, GoTo, End
<1>5. CASE RecordRefund
  BY <1>1, <1>5 DEF RecordRefund, StartRecord, OpenRecorded, SettleRecorded, FlagForAttention,
                    AfterFlag, CloseOrder, GoTo, End
<1>6. CASE Die
  <2>1. \E c \in Calls : End(c, "idle")
    BY <1>6, PayoutAssumption DEF Die, PayoutAssumption
  <2> QED BY <1>1, <2>1, CallGoes DEF PayoutPcs
<1>7. CASE \E other \in Payouts : JobStep(other)
  <2>1. PICK other \in Payouts : JobStep(other)
    BY <1>7
  <2>2. call' = call \/ \E pc \in {"idle", "read", "decide"} : GoTo(other, pc) \/ End(other, pc)
    BY <2>1 DEF JobStep, StartJob, Requeue, FinishJob
  <2>3. other \in Calls
    BY KindsOfPayouts
  <2> QED BY <1>1, <2>2, <2>3, CallGoes DEF PayoutPcs
<1> QED BY <1>2, <1>3, <1>4, <1>5, <1>6, <1>7

LEMMA RowsElsewhere ==
  ASSUME Typed, HeldHasReason, NEW k \in Kinds,
         \/ OrderStep \/ CompletionStep \/ RefundInApp \/ RecordRefund
         \/ RefundInDashboard \/ VendorStep \/ Die
         \/ \E other \in Payouts : JobStep(other)
  PROVE  /\ moved' = moved
         /\ \/ transfer'[k] = transfer[k]
            \/ transfer'[k].state = "held" /\ transfer'[k].reason = "standing"
            \/ transfer'[k].state = "pending" /\ transfer'[k].reason = "none"
<1>1. moved' = moved
  BY DEF OrderStep, CompletionStep, RefundInApp, RecordRefund, VendorStep, JobStep,
         Capture, Proceed, CloseWindow, Elsewhere, ReadDelivered, CompleteOrder,
         StartRefund, OpenRefund, CreateRefund, SettleRefund, MarkPaymentRefunded, CloseOrder,
         StartRecord, OpenRecorded, SettleRecorded, FlagForAttention, RefundInDashboard,
         Suspend, Reinstate, Onboard, Die, StartJob, Requeue, FinishJob, shares
<1>2. CASE ~VendorStep
  BY <1>2
     DEF OrderStep, CompletionStep, RefundInApp, RecordRefund, JobStep,
         Capture, Proceed, CloseWindow, Elsewhere, ReadDelivered, CompleteOrder,
         StartRefund, OpenRefund, CreateRefund, SettleRefund, MarkPaymentRefunded, CloseOrder,
         StartRecord, OpenRecorded, SettleRecorded, FlagForAttention, RefundInDashboard,
         Die, StartJob, Requeue, FinishJob, shares
<1>3. CASE VendorStep
  BY <1>3 DEF VendorStep, Suspend, Reinstate, Onboard, ReleasedTransfers, shares, Typed, RowsTyped
<1> QED BY <1>1, <1>2, <1>3

LEMMA ShareStepAll ==
  Typed /\ ShareInv /\ HeldHasReason /\ HoldHasReason /\ [Next]_vars
    => ShareInv' /\ HeldHasReason' /\ HoldHasReason'
<1> SUFFICES ASSUME Typed, ShareInv, HeldHasReason, HoldHasReason, [Next]_vars
             PROVE  ShareInv' /\ HeldHasReason' /\ HoldHasReason'
  OBVIOUS
<1>1. CASE \E type \in Payouts : ShareStep(type)
  BY <1>1, ShareStepKeeps
<1>2. CASE UNCHANGED vars
  BY <1>2 DEF vars, shares, ShareInv, SharePaidOnce, MarkedIsMoved, HeldHasReason, HoldHasReason
<1>3. CASE \/ OrderStep \/ CompletionStep \/ RefundInApp \/ RecordRefund
           \/ RefundInDashboard \/ VendorStep \/ Die
           \/ \E other \in Payouts : JobStep(other)
  <2>1. \A type \in Payouts :
          \/ call'[type] = call[type]
          \/ call'[type].pc \in {"idle", "read", "complete", "decide", "done", "held", "threw"}
    BY <1>3, PayoutCallElsewhere
  <2>2. \A k \in Kinds :
          /\ moved' = moved
          /\ \/ transfer'[k] = transfer[k]
             \/ transfer'[k].state = "held" /\ transfer'[k].reason = "standing"
             \/ transfer'[k].state = "pending" /\ transfer'[k].reason = "none"
    BY <1>3, RowsElsewhere
  <2>3. moved' = moved
    BY <2>2 DEF Kinds
  <2> QED BY <2>1, <2>2, <2>3
          DEF ShareInv, SharePaidOnce, MarkedIsMoved, HeldHasReason, HoldHasReason
<1> QED BY <1>1, <1>2, <1>3, NextByGroup

-----------------------------------------------------------------------------
(* The suspension.                                                         *)

\* A move parks nothing, and a job it finds done stays done.
LEMMA MoveOfJobs ==
  ASSUME RowsTypeOK, NEW to, Move(to), NEW type \in JobTypes
  PROVE  /\ job'[type] = "held" => job[type] = "held"
         /\ IsTerminal(state) => IsTerminal(to)
         /\ ~IsTerminal(to) /\ job'[type] = "done" /\ type # "expire_unpaid" => job[type] = "done"
         /\ to = "fulfilled" => job'["auto_complete_order"] # "none"
<1>1. /\ to \in Allowed(state) /\ job' = JobsAfterMove(state, to)
      /\ job[type] \in JobStatus /\ "auto_complete_order" \in JobTypes
  BY DEF Move, ApplyTransition, CanTransition, RowsTypeOK, JobTypes
<1>2. job'[type] = "held" => job[type] = "held"
  BY <1>1 DEF JobsAfterMove, Enqueued, CalledOff
<1>3. IsTerminal(state) => IsTerminal(to)
  BY <1>1 DEF IsTerminal, Allowed, ReleasesCapacity, CapacityIn
<1>4. ~IsTerminal(to) /\ job'[type] = "done" /\ type # "expire_unpaid" => job[type] = "done"
  BY <1>1 DEF JobsAfterMove, Enqueued, CalledOff, CancelsQueuedJobs, JobsCancelledOnLeaving
<1>5. to = "fulfilled" => job'["auto_complete_order"] # "none"
  <2>1. to = "fulfilled" => "auto_complete_order" \in JobsOnEntering(state, to, HasBalance)
    BY DEF JobsOnEntering, OnEntering
  <2>2. to = "fulfilled" =>
          job'["auto_complete_order"] \in
            {Enqueued(job["auto_complete_order"]), CalledOff(Enqueued(job["auto_complete_order"]))}
    BY <1>1, <2>1 DEF JobsAfterMove
  <2> QED BY <2>2 DEF Enqueued, CalledOff
<1> QED BY <1>2, <1>3, <1>4, <1>5

Parked == job["cooling_window_transfer"] = "held" /\ parkedBy = "standing"

\* Whoever is not the suspension parks the deposit share's job on its own
\* account, or leaves it as it was.
LEMMA ParkedElsewhere ==
  ASSUME Typed, Next, ~Suspend, ~Reinstate
  PROVE  /\ standing' = standing
         /\ Parked' => Parked
<1>1. "cooling_window_transfer" \in JobTypes /\ job \in [JobTypes -> JobStatus]
      /\ "cooling_window_transfer" \in Payouts
  BY DEF JobTypes, Typed, RowsTyped, RowsTypeOK, Payouts
<1>2. CASE OrderStep \/ CompletionStep
  <2>1. UNCHANGED <<standing, parkedBy>> /\ (UNCHANGED rows \/ \E to : Move(to))
    BY <1>2 DEF OrderStep, CompletionStep, Capture, Proceed, CloseWindow, Elsewhere,
                ReadDelivered, CompleteOrder, vendor
  <2> QED BY <1>1, <2>1, MoveOfJobs DEF Parked, rows, Typed, RowsTyped
<1>3. CASE RefundInApp \/ RecordRefund
  <2>1. UNCHANGED <<standing, parkedBy>> /\ (UNCHANGED rows \/ \E to : Move(to))
    BY <1>3 DEF RefundInApp, RecordRefund, StartRefund, OpenRefund, CreateRefund, SettleRefund,
                MarkPaymentRefunded, CloseOrder, StartRecord, OpenRecorded, SettleRecorded,
                FlagForAttention, vendor
  <2> QED BY <1>1, <2>1, MoveOfJobs DEF Parked, rows, Typed, RowsTyped
<1>4. CASE RefundInDashboard \/ Onboard \/ Die
  BY <1>4 DEF RefundInDashboard, Onboard, Die, Parked, rows, vendor
<1>5. CASE \E type \in Payouts : ShareStep(type)
  BY <1>5 DEF ShareStep, Decide, ClaimTransfer, HoldTransfer, CreateTransfer, MarkTransferPaid,
              Parked, rows, vendor
<1>6. ASSUME NEW type \in Payouts, JobStep(type)
      PROVE  standing' = standing /\ (Parked' => Parked)
  <2>1. standing' = standing
    BY <1>6 DEF JobStep, StartJob, Requeue, FinishJob, vendor
  <2>2. CASE StartJob(type) \/ Requeue(type)
    BY <1>1, <2>1, <2>2
       DEF StartJob, Requeue, ClaimRow, RequeueRow, SetJob, Parked
  <2>3. CASE FinishJob(type)
    <3>1. CASE type = "cooling_window_transfer"
      BY <1>1, <2>1, <2>3, <3>1 DEF FinishJob, SetJob, Parked, At
    <3>2. CASE type # "cooling_window_transfer"
      <4>1. parkedBy' = parkedBy
        BY <2>3, <3>2 DEF FinishJob
      <4>2. job'["cooling_window_transfer"] = job["cooling_window_transfer"]
        BY <1>1, <2>3, <3>2 DEF FinishJob, SetJob
      <4> QED BY <2>1, <4>1, <4>2 DEF Parked
    <3> QED BY <2>1, <3>1, <3>2
  <2> QED BY <1>6, <2>1, <2>2, <2>3 DEF JobStep
<1> QED BY <1>2, <1>3, <1>4, <1>5, <1>6, NextByGroup DEF VendorStep

\* A call rewrites a share's row for a reason of its own.
LEMMA ReasonElsewhere ==
  ASSUME Typed, HeldHasReason, Next, ~Suspend, ~Reinstate,
         NEW k \in Kinds, transfer'[k].reason = "standing"
  PROVE  transfer[k].reason = "standing"
<1>1. ASSUME NEW type \in Payouts, ShareStep(type)
      PROVE  transfer[k].reason = "standing"
  <2>1. call[type].reason \in DecidedReasons /\ KindOf(type) \in Kinds
    BY <1>1, KindsOfPayouts DEF Typed, CallsSound
  <2> QED BY <1>1, <2>1
          DEF ShareStep, Decide, ClaimTransfer, HoldTransfer, CreateTransfer, MarkTransferPaid,
              shares, Typed, RowsTyped, DecidedReasons
<1>2. CASE Onboard
  BY <1>2 DEF Onboard, shares
<1>3. CASE \/ OrderStep \/ CompletionStep \/ RefundInApp \/ RecordRefund
           \/ RefundInDashboard \/ Die \/ \E other \in Payouts : JobStep(other)
  BY <1>3
     DEF OrderStep, CompletionStep, RefundInApp, RecordRefund, JobStep,
         Capture, Proceed, CloseWindow, Elsewhere, ReadDelivered, CompleteOrder,
         StartRefund, OpenRefund, CreateRefund, SettleRefund, MarkPaymentRefunded, CloseOrder,
         StartRecord, OpenRecorded, SettleRecorded, FlagForAttention, RefundInDashboard,
         Die, StartJob, Requeue, FinishJob, shares
<1> QED BY <1>1, <1>2, <1>3, NextByGroup DEF VendorStep

LEMMA StandingStep ==
  Typed /\ HeldHasReason /\ SuspensionLeavesNothing /\ [Next]_vars => SuspensionLeavesNothing'
<1> SUFFICES ASSUME Typed, HeldHasReason, SuspensionLeavesNothing, [Next]_vars
             PROVE  SuspensionLeavesNothing'
  OBVIOUS
<1>1. CASE UNCHANGED vars
  BY <1>1 DEF vars, rows, shares, vendor, SuspensionLeavesNothing
<1>2. CASE Suspend
  BY <1>2 DEF Suspend, SuspensionLeavesNothing
<1>3. CASE Reinstate
  <2>1. \A k \in Kinds : transfer'[k].reason # "standing"
    <3> TAKE k \in Kinds
    <3>1. transfer'[k] = IF transfer[k] = [state |-> "held", reason |-> "standing"]
                         THEN [state |-> "pending", reason |-> "none"] ELSE transfer[k]
      BY <1>3 DEF Reinstate, ReleasedTransfers
    <3>2. transfer[k] \in TransferRow /\ (transfer[k].reason = "standing" => transfer[k].state = "held")
      BY DEF Typed, RowsTyped, HeldHasReason
    <3>3. transfer[k].reason = "standing" => transfer[k] = [state |-> "held", reason |-> "standing"]
      BY <3>2 DEF TransferRow
    <3> QED BY <3>1, <3>3
  <2>2. ~Parked'
    BY <1>3 DEF Reinstate, SetJob, Parked, JobTypes, Typed, RowsTyped, RowsTypeOK
  <2> QED BY <2>1, <2>2 DEF SuspensionLeavesNothing, Parked
<1>4. CASE Next /\ ~Suspend /\ ~Reinstate
  BY <1>4, ParkedElsewhere, ReasonElsewhere DEF SuspensionLeavesNothing, Parked
<1> QED BY <1>1, <1>2, <1>3, <1>4

-----------------------------------------------------------------------------
(* The completion.                                                         *)

\* The completion has seen the order end.
HasSeenTheEnd ==
  call["auto_complete_order"].pc \in {"decide", "claim", "hold", "provider", "mark", "done"}

\* A step that moves the order leaves the completion's call alone, unless it is
\* the completion itself; a step that does not leaves its row alone, unless it
\* is the completion's own.
LEMMA CompletionElsewhere ==
  ASSUME Typed, Next, ~CompletionStep,
         ~JobStep("auto_complete_order"), ~ShareStep("auto_complete_order")
  PROVE  /\ HasSeenTheEnd' => HasSeenTheEnd
         /\ \/ state' = state /\ job'["auto_complete_order"] = job["auto_complete_order"]
            \/ \E to : Move(to)
<1>1. /\ "auto_complete_order" \in Payouts /\ "auto_complete_order" \in Calls
      /\ call \in [Calls -> CallRow] /\ job \in [JobTypes -> JobStatus]
      /\ "auto_complete_order" \in JobTypes
      /\ "refund" \in Calls \ {"auto_complete_order"} /\ "record" \in Calls \ {"auto_complete_order"}
  BY DEF Payouts, Calls, Typed, RowsTyped, RowsTypeOK, JobTypes
<1>2. CASE OrderStep \/ RefundInDashboard \/ VendorStep
  BY <1>1, <1>2
     DEF OrderStep, Capture, Proceed, CloseWindow, Elsewhere, RefundInDashboard, VendorStep,
         Suspend, Reinstate, Onboard, SetJob, rows, HasSeenTheEnd
<1>3. CASE RefundInApp
  <2>1. call'["auto_complete_order"] = call["auto_complete_order"]
    BY <1>1, <1>3
       DEF RefundInApp, StartRefund, OpenRefund, OpenRow, CreateRefund, Answer, SettleRefund,
           MarkPaymentRefunded, CloseOrder, GoTo, End
  <2>2. UNCHANGED rows \/ \E to : Move(to)
    BY <1>3 DEF RefundInApp, StartRefund, OpenRefund, CreateRefund, SettleRefund,
                MarkPaymentRefunded, CloseOrder
  <2> QED BY <2>1, <2>2 DEF HasSeenTheEnd, rows
<1>4. CASE RecordRefund
  <2>1. call'["auto_complete_order"] = call["auto_complete_order"]
    BY <1>1, <1>4
       DEF RecordRefund, StartRecord, OpenRecorded, SettleRecorded, FlagForAttention, AfterFlag,
           CloseOrder, GoTo, End
  <2>2. UNCHANGED rows \/ \E to : Move(to)
    BY <1>4 DEF RecordRefund, StartRecord, OpenRecorded, SettleRecorded, FlagForAttention,
                CloseOrder
  <2> QED BY <2>1, <2>2 DEF HasSeenTheEnd, rows
<1>5. CASE Die
  <2>1. PICK c \in Calls : End(c, "idle")
    BY <1>5, PayoutAssumption DEF Die, PayoutAssumption
  <2>2. call'["auto_complete_order"] = call["auto_complete_order"]
        \/ call'["auto_complete_order"].pc = "idle"
    BY <1>1, <2>1, CallGoes DEF PayoutPcs
  <2> QED BY <1>5, <2>2 DEF Die, rows, HasSeenTheEnd
<1>6. CASE \E type \in Payouts : JobStep(type) \/ ShareStep(type)
  <2>1. PICK type \in Payouts \ {"auto_complete_order"} : JobStep(type) \/ ShareStep(type)
    BY <1>6
  <2>2. call'["auto_complete_order"] = call["auto_complete_order"]
    BY <1>1, <2>1
       DEF JobStep, StartJob, Requeue, FinishJob, ShareStep, Decide, ClaimTransfer, HoldTransfer,
           CreateTransfer, MarkTransferPaid, Answer, GoTo, End
  <2>3. state' = state /\ job'["auto_complete_order"] = job["auto_complete_order"]
    BY <1>1, <2>1
       DEF JobStep, StartJob, Requeue, FinishJob, ClaimRow, RequeueRow, SetJob, ShareStep, Decide,
           ClaimTransfer, HoldTransfer, CreateTransfer, MarkTransferPaid, rows
  <2> QED BY <2>2, <2>3 DEF HasSeenTheEnd
<1> QED BY <1>2, <1>3, <1>4, <1>5, <1>6, NextByGroup

LEMMA CompletionStepAll ==
  Typed /\ CompletionInv /\ [Next]_vars => CompletionInv'
<1> SUFFICES ASSUME Typed, CompletionInv, [Next]_vars
             PROVE  CompletionInv'
  OBVIOUS
<1> DEFINE auto == "auto_complete_order"
<1>1. /\ auto \in Payouts /\ auto \in Calls /\ auto \in JobTypes
      /\ call \in [Calls -> CallRow] /\ job \in [JobTypes -> JobStatus]
      /\ RowsTypeOK
  BY DEF Payouts, Calls, Typed, RowsTyped, RowsTypeOK, JobTypes
<1>2. /\ job[auto] = "done" \/ HasSeenTheEnd => IsTerminal(state)
      /\ state = "fulfilled" => job[auto] \notin {"none", "done"}
  BY DEF CompletionInv, HasSeenTheEnd, FulfilledIsAwaited
<1>3. ~IsTerminal("fulfilled") /\ IsTerminal("completed")
  BY DEF IsTerminal, Allowed, ReleasesCapacity, CapacityIn
<1> SUFFICES /\ job'[auto] = "done" \/ HasSeenTheEnd' => IsTerminal(state')
             /\ state' = "fulfilled" => job'[auto] # "none"
  BY <1>3 DEF CompletionInv, HasSeenTheEnd, FulfilledIsAwaited
<1>4. ASSUME NEW to, Move(to)
      PROVE  /\ job'[auto] = "done" => IsTerminal(state')
             /\ IsTerminal(state) => IsTerminal(state')
             /\ state' = "fulfilled" => job'[auto] # "none"
  BY <1>1, <1>2, <1>4, MoveOfJobs, MoveTyped
<1>5. CASE UNCHANGED vars
  BY <1>2, <1>5 DEF vars, rows, HasSeenTheEnd
<1>6. CASE ReadDelivered
  <2>1. IsTerminal(state) \/ call'[auto].pc \in {"complete", "held"}
    BY <1>1, <1>6, CallGoes DEF ReadDelivered, PayoutPcs
  <2> QED BY <1>2, <1>6, <2>1 DEF ReadDelivered, rows, HasSeenTheEnd
<1>7. CASE CompleteOrder
  <2>1. CASE Move("completed")
    BY <1>1, <1>3, <1>4, <2>1, MoveTyped
  <2>2. CASE ~Move("completed")
    <3>1. End(auto, "threw") /\ UNCHANGED rows
      BY <1>7, <2>2 DEF CompleteOrder
    <3>2. call'[auto].pc = "threw"
      BY <1>1, <3>1, CallGoes DEF PayoutPcs
    <3> QED BY <1>2, <3>1, <3>2 DEF rows, HasSeenTheEnd
  <2> QED BY <2>1, <2>2
<1>8. CASE JobStep(auto)
  <2>1. state' = state
    BY <1>8 DEF JobStep, StartJob, Requeue, FinishJob
  <2>2. \/ job'[auto] \in {"running", "queued", "failed", "held"}
        \/ job'[auto] = "done" /\ HasSeenTheEnd
    BY <1>1, <1>8 DEF JobStep, StartJob, Requeue, FinishJob, ClaimRow, RequeueRow, SetJob,
                      HasSeenTheEnd, At
  <2>3. call' = call \/ call'[auto].pc \in {"read", "idle"}
    BY <1>1, <1>8, CallGoes DEF JobStep, StartJob, Requeue, FinishJob, PayoutPcs
  <2> QED BY <1>2, <2>1, <2>2, <2>3 DEF HasSeenTheEnd
<1>9. CASE ShareStep(auto)
  <2>1. UNCHANGED rows /\ HasSeenTheEnd
    BY <1>9 DEF ShareStep, Decide, ClaimTransfer, HoldTransfer, CreateTransfer,
                MarkTransferPaid, HasSeenTheEnd, At
  <2> QED BY <1>2, <2>1 DEF rows
<1>10. CASE Next /\ ~CompletionStep /\ ~JobStep(auto) /\ ~ShareStep(auto)
  <2>1. /\ HasSeenTheEnd' => HasSeenTheEnd
        /\ \/ state' = state /\ job'[auto] = job[auto]
           \/ \E to : Move(to)
    BY <1>10, CompletionElsewhere
  <2> QED BY <1>2, <1>4, <2>1
<1> QED BY <1>5, <1>6, <1>7, <1>8, <1>9, <1>10 DEF CompletionStep

-----------------------------------------------------------------------------
(* The refund.                                                             *)

LEMMA ChargesAreNat == \A k \in Kinds : Charge[k] \in Nat
BY PayoutAssumption DEF PayoutAssumption, Charge, Kinds

\* Once captured a charge is never captured again, so what is known of a captured
\* charge stays so while money only leaves.
LEMMA RefundElsewhere ==
  ASSUME Typed, Next, ~RefundInApp, ~RecordRefund
  PROVE  /\ refund' = refund
         /\ call'["refund"] = call["refund"] \/ (call'["refund"].pc = "idle" /\ call'["refund"].todo = {})
         /\ call'["record"] = call["record"] \/ call'["record"].pc = "idle"
         /\ \A k \in Kinds :
              \/ payment'[k] = payment[k] /\ left'[k] <= left[k]
              \/ payment[k] = "none" /\ payment'[k] = "succeeded" /\ left'[k] = Charge[k]
<1>1. /\ "refund" \in Calls /\ "record" \in Calls /\ Payouts \subseteq Calls
      /\ \A type \in Payouts : type \notin {"refund", "record"}
      /\ call \in [Calls -> CallRow]
      /\ left \in [Kinds -> Nat] /\ payment \in [Kinds -> {"none", "succeeded", "refunded"}]
  BY DEF Calls, Payouts, Typed, RowsTyped
<1>2. CASE OrderStep
  <2>1. refund' = refund /\ call' = call
    BY <1>2 DEF OrderStep, Capture, Proceed, CloseWindow, Elsewhere
  <2>2. CASE \E k \in Kinds : Capture(k)
    BY <1>1, <2>1, <2>2 DEF Capture
  <2>3. CASE Proceed \/ CloseWindow
    BY <1>1, <2>1, <2>3 DEF Proceed, CloseWindow
  <2> QED BY <1>2, <2>2, <2>3 DEF OrderStep
<1>3. CASE RefundInDashboard
  <2>1. PICK k \in Kinds : \E amount \in {1, left[k]} \ {0} :
          amount <= left[k] /\ left' = [left EXCEPT ![k] = @ - amount]
    BY <1>3 DEF RefundInDashboard
  <2>2. PICK amount \in {1, left[k]} \ {0} :
          amount <= left[k] /\ left' = [left EXCEPT ![k] = @ - amount]
    BY <2>1
  <2>3. \A j \in Kinds : left'[j] <= left[j]
    BY <1>1, <2>2
  <2> QED BY <1>1, <1>3, <2>3 DEF RefundInDashboard
<1>4. CASE VendorStep
  BY <1>1, <1>4 DEF VendorStep, Suspend, Reinstate, Onboard, money
<1>5. CASE Die
  <2>1. PICK c \in Calls : End(c, "idle")
    BY <1>5, PayoutAssumption DEF Die, PayoutAssumption
  <2>2. \A d \in Calls : call'[d] = call[d] \/ (call'[d].pc = "idle" /\ call'[d].todo = {})
    BY <1>1, <2>1, CallGoes DEF PayoutPcs
  <2> QED BY <1>1, <1>5, <2>2 DEF Die, money
<1>6. CASE CompletionStep \/ \E type \in Payouts : JobStep(type) \/ ShareStep(type)
  <2>1. UNCHANGED money
    BY <1>6 DEF CompletionStep, ReadDelivered, CompleteOrder, JobStep, StartJob, Requeue,
                FinishJob, ShareStep, Decide, ClaimTransfer, HoldTransfer, CreateTransfer,
                MarkTransferPaid
  <2>2. call'["refund"] = call["refund"] /\ call'["record"] = call["record"]
    <3>1. CASE CompletionStep
      BY <1>1, <3>1 DEF CompletionStep, ReadDelivered, CompleteOrder, GoTo, End
    <3>2. ASSUME NEW type \in Payouts, JobStep(type) \/ ShareStep(type)
          PROVE  call'["refund"] = call["refund"] /\ call'["record"] = call["record"]
      BY <1>1, <3>2
         DEF JobStep, StartJob, Requeue, FinishJob, ShareStep, Decide, ClaimTransfer,
             HoldTransfer, CreateTransfer, MarkTransferPaid, Answer, GoTo, End
    <3> QED BY <1>6, <3>1, <3>2
  <2> QED BY <1>1, <2>1, <2>2 DEF money
<1> QED BY <1>2, <1>3, <1>4, <1>5, <1>6, NextByGroup

LEMMA RefundInvElsewhere ==
  ASSUME Typed, RefundInv, Next, ~RefundInApp, ~RecordRefund
  PROVE  RefundInv'
<1>1. /\ refund' = refund
      /\ call'["refund"] = call["refund"] \/ (call'["refund"].pc = "idle" /\ call'["refund"].todo = {})
      /\ call'["record"] = call["record"] \/ call'["record"].pc = "idle"
      /\ \A k \in Kinds :
           \/ payment'[k] = payment[k] /\ left'[k] <= left[k]
           \/ payment[k] = "none" /\ payment'[k] = "succeeded" /\ left'[k] = Charge[k]
  BY RefundElsewhere
<1>2. /\ left \in [Kinds -> Nat] /\ left' \in [Kinds -> Nat] /\ call["refund"] \in CallRow
      /\ refund \in [RefundRows -> RefundRow]
      /\ call["refund"].pc \in {"provider", "settle", "label"} => call["refund"].row \in RefundRows
      /\ call["refund"].todo \subseteq Kinds
  BY StepTyped, KindsOfPayouts DEF Typed, RowsTyped, CallsSound, CallRow
<1>3. \A k \in Kinds : left'[k] <= Charge[k]
  BY <1>1, <1>2, ChargesAreNat DEF RefundInv
<1>4. RefundedIsReturned'
  BY <1>1, <1>2 DEF RefundInv, RefundedIsReturned
<1>5. InAppSound'
  <2> DEFINE row == refund[call["refund"].row]
  <2>1. CASE call'["refund"].pc = "idle" /\ call'["refund"].todo = {}
    BY <2>1 DEF InAppSound
  <2>2. CASE call'["refund"] = call["refund"]
    <3>1. \A k \in call["refund"].todo : payment'[k] # "none"
      BY <1>1, <1>2 DEF RefundInv, InAppSound
    <3>2. call["refund"].pc \in {"provider", "settle", "label"} =>
            /\ row.of \in Kinds /\ row.state # "none" /\ row.amount = Charge[row.of]
            /\ payment[row.of] # "none"
            /\ payment'[row.of] # "none" /\ left'[row.of] <= left[row.of]
      BY <1>1, <1>2 DEF RefundInv, InAppSound, RefundRow
    <3>3. call["refund"].pc \in {"settle", "label"} => left'[row.of] = 0
      BY <1>2, <3>2 DEF RefundInv, InAppSound
    <3> QED BY <1>1, <2>2, <3>1, <3>2, <3>3 DEF InAppSound
  <2> QED BY <1>1, <2>1, <2>2
<1>6. RecordSound'
  BY <1>1 DEF RefundInv, RecordSound
<1> QED BY <1>3, <1>4, <1>5, <1>6 DEF RefundInv

\* No step takes a row back, or what it says of its charge.
LEMMA RowsStay ==
  ASSUME Typed, RefundInApp \/ RecordRefund, NEW q \in RefundRows, refund[q].state # "none"
  PROVE  /\ refund'[q].state # "none"
         /\ refund'[q].of = refund[q].of /\ refund'[q].amount = refund[q].amount
<1>1. /\ refund \in [RefundRows -> RefundRow] /\ refund[q] \in RefundRow
      /\ \A r \in FreeRow : r # q
  BY FreeRowIsRow DEF Typed, RowsTyped
<1>2. CASE OpenRefund
  BY <1>1, <1>2, RowOpened, FreeRowIsRow
<1>3. CASE OpenRecorded
  BY <1>1, <1>3 DEF OpenRecorded
<1>4. CASE CreateRefund
  BY <1>1, <1>4 DEF CreateRefund, RefundRow
<1>5. CASE SettleRefund \/ SettleRecorded \/ FlagForAttention
  BY <1>1, <1>5 DEF SettleRefund, SettleRecorded, FlagForAttention, RefundRow
<1>6. CASE \/ StartRefund \/ MarkPaymentRefunded \/ CloseOrder("refund")
           \/ StartRecord \/ CloseOrder("record")
  BY <1>6 DEF StartRefund, MarkPaymentRefunded, CloseOrder, StartRecord, money
<1> QED BY <1>2, <1>3, <1>4, <1>5, <1>6 DEF RefundInApp, RecordRefund

LEMMA RecordInvStep ==
  ASSUME Typed, RefundInv, RecordRefund
  PROVE  RefundInv'
<1>1. /\ "refund" \in Calls \ {"record"} /\ "record" \in Calls /\ call \in [Calls -> CallRow]
      /\ call["refund"].pc \in {"provider", "settle", "label"} => call["refund"].row \in RefundRows
      /\ call["record"].pc \in {"settle", "flag"} => call["record"].row \in RefundRows
      /\ refund \in [RefundRows -> RefundRow]
  BY DEF Calls, Typed, RowsTyped, CallsSound
<1>2. UNCHANGED <<payment, left>> /\ call'["refund"] = call["refund"]
  BY <1>1 DEF RecordRefund, StartRecord, OpenRecorded, SettleRecorded, FlagForAttention,
              AfterFlag, CloseOrder, GoTo, End, money
<1>3. InAppSound'
  <2>1. call["refund"].pc \in {"provider", "settle", "label"} =>
          LET q == call["refund"].row
          IN /\ refund'[q].state # "none"
             /\ refund'[q].of = refund[q].of /\ refund'[q].amount = refund[q].amount
    BY <1>1, RowsStay DEF RefundInv, InAppSound
  <2> QED BY <1>1, <1>2, <2>1 DEF RefundInv, InAppSound
<1>4. RecordSound'
  <2>1. CASE OpenRecorded
    <3>1. PICK r \in FreeRow :
            /\ refund' = [refund EXCEPT ![r] =
                 [state |-> "requested", of |-> "deposit", amount |-> dashboard, made |-> TRUE]]
            /\ call' = [call EXCEPT !["record"].pc = "settle", !["record"].row = r]
      BY <2>1 DEF OpenRecorded
    <3>2. call'["record"].row = r /\ refund'[r].state = "requested"
      BY <1>1, <3>1, FreeRowIsRow DEF CallRow
    <3> QED BY <3>2 DEF RecordSound
  <2>2. CASE ~OpenRecorded
    <3>1. call'["record"].pc \in {"settle", "flag"} =>
            call["record"].pc \in {"settle", "flag"} /\ call'["record"].row = call["record"].row
      BY <1>1, <2>2 DEF RecordRefund, StartRecord, SettleRecorded, FlagForAttention, AfterFlag,
                        CloseOrder, GoTo, End, Idle, CallRow, At
    <3> QED BY <1>1, <3>1, RowsStay DEF RefundInv, RecordSound
  <2> QED BY <2>1, <2>2
<1>5. (\A k \in Kinds : left[k] <= Charge[k])' /\ RefundedIsReturned'
  BY <1>2 DEF RefundInv, RefundedIsReturned
<1> QED BY <1>3, <1>4, <1>5 DEF RefundInv

LEMMA InAppInvStep ==
  ASSUME Typed, RefundInv, RefundInApp
  PROVE  RefundInv'
<1>1. /\ "refund" \in Calls /\ "record" \in Calls \ {"refund"} /\ call \in [Calls -> CallRow]
      /\ call["refund"] \in CallRow /\ call["refund"].todo \subseteq Kinds
      /\ call["refund"].pc \in {"provider", "settle", "label"} => call["refund"].row \in RefundRows
      /\ call["record"].pc \in {"settle", "flag"} => call["record"].row \in RefundRows
      /\ refund \in [RefundRows -> RefundRow]
      /\ left \in [Kinds -> Nat] /\ payment \in [Kinds -> {"none", "succeeded", "refunded"}]
  BY DEF Calls, Typed, RowsTyped, CallsSound, CallRow
<1>2. RecordSound'
  <2>1. call'["record"] = call["record"]
    BY <1>1 DEF RefundInApp, StartRefund, OpenRefund, OpenRow, CreateRefund, Answer, SettleRefund,
                MarkPaymentRefunded, CloseOrder, GoTo, End
  <2> QED BY <1>1, <2>1, RowsStay DEF RefundInv, RecordSound
<1> DEFINE q == call["refund"].row
           of == refund[q].of
<1>3. At("refund", "provider") \/ At("refund", "settle") \/ At("refund", "label") =>
        /\ q \in RefundRows /\ refund[q] \in RefundRow /\ of \in Kinds
        /\ refund[q].state # "none" /\ refund[q].amount = Charge[of] /\ payment[of] # "none"
        /\ refund'[q].state # "none" /\ refund'[q].of = of /\ refund'[q].amount = Charge[of]
  <2>1. At("refund", "provider") \/ At("refund", "settle") \/ At("refund", "label") =>
          /\ q \in RefundRows /\ refund[q] \in RefundRow /\ of \in Kinds
          /\ refund[q].state # "none" /\ refund[q].amount = Charge[of] /\ payment[of] # "none"
    BY <1>1 DEF At, RefundInv, InAppSound, RefundRow
  <2> QED BY <2>1, RowsStay
<1>4. CASE StartRefund
  <2>1. PICK settled \in SUBSET Kinds :
          /\ call' = [call EXCEPT !["refund"].pc = "open", !["refund"].todo = settled]
          /\ \A k \in settled : payment[k] = "succeeded"
    BY <1>4 DEF StartRefund
  <2>2. call'["refund"].pc = "open" /\ call'["refund"].todo = settled
    BY <1>1, <2>1 DEF CallRow
  <2> QED BY <1>2, <1>4, <2>1, <2>2
          DEF StartRefund, money, RefundInv, RefundedIsReturned, InAppSound
<1>5. CASE OpenRefund
  <2>1. PICK r \in FreeRow :
           /\ refund'[r].state = "requested" /\ refund'[r].of = NextCharge
           /\ refund'[r].amount = Charge[NextCharge]
           /\ call'["refund"].pc = "provider" /\ call'["refund"].row = r
           /\ call'["refund"].todo = call["refund"].todo \ {NextCharge}
    BY <1>5, RowOpened
  <2>2. NextCharge \in call["refund"].todo
    BY <1>1, <1>5, NextIsToDo DEF OpenRefund
  <2>3. UNCHANGED <<payment, left>>
    BY <1>5 DEF OpenRefund
  <2>4. InAppSound'
    BY <2>1, <2>2, <2>3 DEF RefundInv, InAppSound
  <2> QED BY <1>2, <2>3, <2>4 DEF RefundInv, RefundedIsReturned
<1>6. CASE CreateRefund
  <2>1. CASE left[of] < refund[q].amount
    <3>1. End("refund", "idle") /\ UNCHANGED <<payment, left>>
      BY <1>6, <2>1, <1>1, <1>3, ChargesAreNat DEF CreateRefund
    <3>2. call'["refund"].pc = "idle" /\ call'["refund"].todo = {}
      BY <1>1, <3>1, CallGoes DEF RefundPcs
    <3> QED BY <1>2, <3>1, <3>2 DEF RefundInv, RefundedIsReturned, InAppSound
  <2>2. CASE ~(left[of] < refund[q].amount)
    <3>1. /\ left' = [left EXCEPT ![of] = @ - refund[q].amount]
          /\ Answer("refund", "settle") /\ payment' = payment
      BY <1>6, <2>2 DEF CreateRefund
    <3>2. /\ of \in Kinds /\ left[of] <= Charge[of] /\ refund[q].amount = Charge[of]
          /\ left[of] \in Nat /\ Charge[of] \in Nat
      BY <1>1, <1>3, <1>6, ChargesAreNat DEF CreateRefund, RefundInv
    <3>3. left'[of] = 0 /\ \A k \in Kinds \ {of} : left'[k] = left[k]
      BY <1>1, <2>2, <3>1, <3>2
    <3>4. \/ call'["refund"].pc = "idle" /\ call'["refund"].todo = {}
          \/ /\ call'["refund"].pc = "settle" /\ call'["refund"].row = q
             /\ call'["refund"].todo = call["refund"].todo
      BY <1>1, <3>1, CallGoes, KindsOfPayouts DEF Answer, RefundPcs
    <3>5. InAppSound'
      BY <1>3, <1>6, <3>1, <3>3, <3>4 DEF CreateRefund, RefundInv, InAppSound
    <3>6. RefundedIsReturned'
      BY <1>1, <3>1, <3>2, <3>3 DEF RefundInv, RefundedIsReturned
    <3>7. \A k \in Kinds : left'[k] <= Charge[k]
      BY <3>2, <3>3 DEF RefundInv
    <3> QED BY <1>2, <3>5, <3>6, <3>7 DEF RefundInv
  <2> QED BY <2>1, <2>2
<1>7. CASE SettleRefund
  <2>1. /\ call'["refund"].pc = "label" /\ call'["refund"].row = q
        /\ call'["refund"].todo = call["refund"].todo
        /\ UNCHANGED <<payment, left>>
    BY <1>1, <1>7, CallGoes DEF SettleRefund, RefundPcs
  <2>2. left[of] = 0
    BY <1>7 DEF SettleRefund, RefundInv, InAppSound, At
  <2>3. InAppSound'
    BY <1>3, <1>7, <2>1, <2>2 DEF SettleRefund, RefundInv, InAppSound
  <2> QED BY <1>2, <2>1, <2>3 DEF RefundInv, RefundedIsReturned
<1>8. CASE MarkPaymentRefunded
  <2>1. /\ left[of] = 0 /\ of \in Kinds
        /\ payment' = [payment EXCEPT ![of] = "refunded"] /\ left' = left
    BY <1>3, <1>8 DEF MarkPaymentRefunded, RefundInv, InAppSound, At
  <2>2. /\ call'["refund"].pc \in {"cancel", "open"}
        /\ call'["refund"].todo = call["refund"].todo
    BY <1>1, <1>8 DEF MarkPaymentRefunded, CallRow
  <2>3. InAppSound'
    BY <1>1, <2>1, <2>2 DEF RefundInv, InAppSound
  <2>4. RefundedIsReturned'
    BY <1>1, <2>1 DEF RefundInv, RefundedIsReturned
  <2> QED BY <1>2, <2>1, <2>3, <2>4 DEF RefundInv
<1>9. CASE CloseOrder("refund")
  <2>1. UNCHANGED <<payment, left>>
    BY <1>9 DEF CloseOrder, money
  <2>2. /\ call'["refund"].pc \in {"close", "idle"}
        /\ call'["refund"].todo \subseteq call["refund"].todo
    BY <1>1, <1>9, CallGoes DEF CloseOrder, RefundPcs
  <2> QED BY <1>2, <2>1, <2>2 DEF RefundInv, RefundedIsReturned, InAppSound
<1> QED BY <1>4, <1>5, <1>6, <1>7, <1>8, <1>9 DEF RefundInApp

LEMMA RefundStepAll ==
  Typed /\ RefundInv /\ [Next]_vars => RefundInv'
<1> SUFFICES ASSUME Typed, RefundInv, [Next]_vars
             PROVE  RefundInv'
  OBVIOUS
<1>1. CASE UNCHANGED vars
  BY <1>1 DEF vars, money, RefundInv, RefundedIsReturned, InAppSound, RecordSound
<1>2. CASE Next
  BY <1>2, RecordInvStep, InAppInvStep, RefundInvElsewhere
<1> QED BY <1>1, <1>2

-----------------------------------------------------------------------------
(* The invariant.                                                          *)

LEMMA InitTyped == Init => Typed
<1> SUFFICES ASSUME Init PROVE Typed
  OBVIOUS
<1>1. RowsTypeOK
  BY DEF Init, OrderCreated, RowsTypeOK, OrderStates, JobTypes, JobStatus, LinkState, Enqueued
<1>2. /\ call \in [Calls -> CallRow]
      /\ \A c \in Calls : call[c].pc = "idle" /\ call[c].reason = "none"
  BY DEF Init, Idle, CallRow, PayoutPcs, RefundPcs, Reasons
<1>3. CallsSound
  BY <1>2, KindsOfPayouts DEF CallsSound, PayoutPcs, RefundPcs, DecidedReasons, Reasons
<1>4. refund \in [RefundRows -> RefundRow]
  BY DEF Init, NoRefund, RefundRow, Kinds
<1>5. transfer \in [Kinds -> TransferRow]
  BY DEF Init, TransferRow, Reasons
<1>6. troubles \in 0 .. MaxTroubles
  BY PayoutAssumption DEF Init, PayoutAssumption
<1> QED BY <1>1, <1>2, <1>3, <1>4, <1>5, <1>6 DEF Init, Typed, RowsTyped

LEMMA InitHolds == Init => IInv
<1> SUFFICES ASSUME Init PROVE IInv
  OBVIOUS
<1>1. \A c \in Calls : call[c].pc = "idle" /\ call[c].todo = {}
  BY DEF Init, Idle
<1>2. HeldHasReason /\ HoldHasReason /\ ShareInv
  BY <1>1, KindsOfPayouts
     DEF Init, HeldHasReason, HoldHasReason, ShareInv, SharePaidOnce, MarkedIsMoved
<1>3. SuspensionLeavesNothing
  BY DEF Init, SuspensionLeavesNothing
<1>4. CompletionInv
  <2>1. job["auto_complete_order"] = "none" /\ state = "pending_payment"
    BY DEF Init, OrderCreated, JobTypes, JobsOnEntering, OnEntering
  <2> QED BY <1>1, <2>1, KindsOfPayouts DEF CompletionInv, FulfilledIsAwaited, Payouts
<1>5. RefundInv
  BY <1>1, KindsOfPayouts, ChargesAreNat
     DEF Init, RefundInv, RefundedIsReturned, InAppSound, RecordSound
<1> QED BY InitTyped, <1>2, <1>3, <1>4, <1>5 DEF IInv

LEMMA Invariance == Spec => []IInv
<1>1. IInv /\ [Next]_vars => IInv'
  BY StepTyped, ShareStepAll, StandingStep, CompletionStepAll, RefundStepAll DEF IInv
<1> QED BY InitHolds, <1>1, PTL DEF Spec

-----------------------------------------------------------------------------

\* Every row, provider object and program counter holds a value its code can
\* write, a charge's remainder never exceeds the charge, and a share's row has
\* a reason exactly while it is held.
THEOREM PayoutsAreTyped == Spec => []TypeOK
<1>1. IInv => TypeOK
  <2> SUFFICES ASSUME IInv PROVE TypeOK
    OBVIOUS
  <2>1. \A k \in Kinds : left[k] \in 0 .. Charge[k]
    BY ChargesAreNat DEF IInv, Typed, RowsTyped, RefundInv
  <2>2. \A r \in RefundRows : refund[r].state \in {"none", "requested", "settled", "needs_attention"}
    BY DEF IInv, Typed, RowsTyped, RefundRow
  <2>3. \A k \in Kinds :
          /\ transfer[k].state \in {"none", "pending", "held", "paid"} /\ transfer[k].reason \in Reasons
          /\ transfer[k].state = "held" <=> transfer[k].reason # "none"
    BY DEF IInv, Typed, RowsTyped, TransferRow, HeldHasReason
  <2> QED BY <2>1, <2>2, <2>3 DEF IInv, Typed, RowsTyped, TypeOK
<1> QED BY Invariance, <1>1, PTL

\* A share leaves once, whatever dies or is asked again between the transfer and
\* its row, and a row says paid only when the money left (createOrAdoptTransfer).
THEOREM ShareLeavesOnce == Spec => []SharePaidOnce
<1>1. IInv => SharePaidOnce
  BY DEF IInv, ShareInv
<1> QED BY Invariance, <1>1, PTL

\* What a suspension parked, its reinstatement released, also when a payout was
\* under way when the vendor was suspended (releaseHeldForVendor).
THEOREM ReinstatementReleasesAll == Spec => []SuspensionLeavesNothing
<1>1. IInv => SuspensionLeavesNothing
  BY DEF IInv
<1> QED BY Invariance, <1>1, PTL

\* A charge that is labelled refunded holds nothing at the provider, whichever
\* way a refund was interrupted (refundWithinCoolingWindow).
THEOREM LabelledIsReturned == Spec => []RefundedIsReturned
<1>1. IInv => RefundedIsReturned
  BY DEF IInv, RefundInv
<1> QED BY Invariance, <1>1, PTL

\* A delivered booking's completion is never spent before the booking ends
\* (autoCompleteOrder).
THEOREM DeliveredIsCompleted == Spec => []FulfilledIsAwaited
<1>1. IInv => FulfilledIsAwaited
  BY DEF IInv, CompletionInv
<1> QED BY Invariance, <1>1, PTL

-----------------------------------------------------------------------------
(* The ledger: what was taken, what is still held, and what went back.     *)

Captured(k) == IF payment[k] = "none" THEN 0 ELSE Charge[k]
TakenIn == Captured("deposit") + Captured("balance")
StillHeld == left["deposit"] + left["balance"]

BeingRecorded(r) == At("record", "settle") /\ call["record"].row = r
Settled(r) == refund[r].state \in {"settled", "needs_attention"}

\* Money that went back and that a row knows of: settled, or made and left
\* unsettled by a call that ended.
Back(r) ==
  IF Settled(r) \/ (refund[r].state = "requested" /\ refund[r].made /\ ~BeingRecorded(r))
  THEN refund[r].amount ELSE 0

Givens == [r \in RefundRows |-> Given(r)]
Backs == [r \in RefundRows |-> Back(r)]
GivenBack == SumFunction(Givens)
KnownBack == SumFunction(Backs)

\* Made by the provider, and about to be settled.
InFlight == IF At("refund", "settle") THEN refund[call["refund"].row].amount ELSE 0

\* The two refunds' calls work on rows of their own, each as its call left it.
RowsApart ==
  LET mine == call["refund"].row
      theirs == call["record"].row
  IN /\ At("refund", "provider") => refund[mine].state = "requested" /\ ~refund[mine].made
     /\ At("refund", "settle") => refund[mine].state = "requested" /\ refund[mine].made
     /\ At("refund", "label") => refund[mine].state = "settled"
     /\ At("record", "open") => dashboard > 0
     /\ At("record", "settle") =>
          /\ dashboard > 0
          /\ refund[theirs].state = "requested" /\ refund[theirs].amount = dashboard
     /\ At("record", "flag") => refund[theirs].state = "settled"
     /\ call["refund"].pc \in {"provider", "settle", "label"}
          /\ call["record"].pc \in {"settle", "flag"} => mine # theirs

\* What the provider gave back lies between what the rows say and what they say
\* with the rows a call left behind.
LedgerInv ==
  /\ RowsApart
  /\ \A k \in Kinds : payment[k] = "none" => left[k] = 0
  /\ GivenBack + dashboard + InFlight + StillHeld <= TakenIn
  /\ TakenIn <= KnownBack + dashboard + StillHeld

\* The amounts are numbers, and the net is what was taken less what rows say
\* went back.
AmountsAreNumbers ==
  /\ Givens \in [RefundRows -> Nat] /\ Backs \in [RefundRows -> Nat]
  /\ GivenBack \in Nat /\ KnownBack \in Nat
  /\ TakenIn \in Nat /\ StillHeld \in Nat /\ InFlight \in Nat
  /\ NetCaptured = TakenIn - GivenBack

\* Typed rows give numbers, before a step and after it.
LEMMA NetNow == Typed => AmountsAreNumbers
<1> SUFFICES ASSUME Typed PROVE AmountsAreNumbers
  OBVIOUS
<1>1. \A r \in RefundRows : refund[r].amount \in Nat
  BY DEF Typed, RowsTyped, RefundRow
<1>2. Givens \in [RefundRows -> Nat] /\ Backs \in [RefundRows -> Nat]
  BY <1>1 DEF Givens, Backs, Given, Back
<1>3. TakenIn \in Nat /\ StillHeld \in Nat
  BY ChargesAreNat DEF TakenIn, Captured, StillHeld, Kinds, Typed, RowsTyped
<1>4. InFlight \in Nat
  BY <1>1, KindsOfPayouts DEF InFlight, At, Typed, CallsSound
<1>5. GivenBack \in Nat /\ KnownBack \in Nat
  BY <1>2, RowsGrow DEF GivenBack, KnownBack
<1>6. NetCaptured = TakenIn - GivenBack
  <2> DEFINE f == [k \in Kinds |-> IF payment[k] = "none" THEN 0 ELSE Charge[k]]
  <2>1. f["deposit"] = Captured("deposit") /\ f["balance"] = Captured("balance")
        /\ f["deposit"] \in Nat /\ f["balance"] \in Nat
    BY ChargesAreNat DEF Captured, Kinds
  <2>2. DOMAIN f = Kinds
    OBVIOUS
  <2>3. NetCaptured = SumFunction(f) - GivenBack
    BY DEF NetCaptured, GivenBack, Givens
  <2> HIDE DEF f
  <2>4. SumFunctionOnSet(f, Kinds) = f["deposit"] + f["balance"]
    BY <2>1, SumOfKinds DEF Kinds
  <2>5. SumFunction(f) = f["deposit"] + f["balance"]
    BY <2>2, <2>4 DEF SumFunction
  <2> QED BY <2>1, <2>3, <2>5 DEF TakenIn
<1> QED BY <1>2, <1>3, <1>4, <1>5, <1>6 DEF AmountsAreNumbers

LEMMA NetNext == Typed' => AmountsAreNumbers'
BY NetNow, PTL

\* Outside the refunds' own steps, what is taken in and not held any more is what
\* an administrator gave back in the dashboard.
LEMMA MoneyElsewhere ==
  ASSUME Typed, LedgerInv, Next, ~RefundInApp, ~RecordRefund
  PROVE  /\ TakenIn' + StillHeld + dashboard = TakenIn + StillHeld' + dashboard'
         /\ \A k \in Kinds : payment'[k] = "none" => left'[k] = 0
         /\ dashboard' = dashboard \/ dashboard = 0
<1>1. /\ left \in [Kinds -> Nat] /\ payment \in [Kinds -> {"none", "succeeded", "refunded"}]
      /\ dashboard \in Nat /\ \A k \in Kinds : Charge[k] \in Nat
      /\ \A k \in Kinds : payment[k] = "none" => left[k] = 0
  BY ChargesAreNat DEF Typed, RowsTyped, LedgerInv
<1>2. CASE \E k \in Kinds : Capture(k)
  <2>1. PICK k \in Kinds : Capture(k)
    BY <1>2
  <2>2. /\ payment' = [payment EXCEPT ![k] = "succeeded"] /\ payment[k] = "none"
        /\ left' = [left EXCEPT ![k] = Charge[k]] /\ left[k] = 0
        /\ dashboard' = dashboard
    BY <1>1, <2>1 DEF Capture, Elsewhere
  <2> QED BY <1>1, <2>2 DEF TakenIn, Captured, StillHeld, Kinds
<1>3. CASE RefundInDashboard
  <2>1. PICK k \in Kinds : \E amount \in {1, left[k]} \ {0} :
          amount <= left[k] /\ left' = [left EXCEPT ![k] = @ - amount] /\ dashboard' = amount
    BY <1>3 DEF RefundInDashboard
  <2>2. PICK amount \in {1, left[k]} \ {0} :
          amount <= left[k] /\ left' = [left EXCEPT ![k] = @ - amount] /\ dashboard' = amount
    BY <2>1
  <2>3. payment' = payment /\ dashboard = 0 /\ amount \in Nat
    BY <1>1, <1>3 DEF RefundInDashboard
  <2>4. TakenIn' = TakenIn
    BY <2>3 DEF TakenIn, Captured
  <2>5. StillHeld = StillHeld' + amount
    BY <1>1, <2>2, <2>3 DEF StillHeld, Kinds
  <2>6. \A j \in Kinds : payment'[j] = "none" => left'[j] = 0
    BY <1>1, <2>2, <2>3
  <2>7. StillHeld \in Nat /\ StillHeld' \in Int /\ TakenIn \in Nat
    <3>1. \A j \in Kinds : left'[j] \in Int
      BY <1>1, <2>2, <2>3
    <3> QED BY <1>1, <2>4, <3>1 DEF StillHeld, TakenIn, Captured, Kinds
  <2> QED BY <1>1, <2>2, <2>3, <2>4, <2>5, <2>6, <2>7
<1>4. CASE UNCHANGED <<payment, left, dashboard>>
  <2>1. TakenIn' = TakenIn /\ StillHeld' = StillHeld
    BY <1>4 DEF TakenIn, Captured, StillHeld
  <2> QED BY <1>1, <1>4, <2>1
<1>5. \/ \E k \in Kinds : Capture(k)
      \/ RefundInDashboard
      \/ UNCHANGED <<payment, left, dashboard>>
  BY NextByGroup
     DEF OrderStep, CompletionStep, VendorStep, JobStep, ShareStep,
         Proceed, CloseWindow, Elsewhere, ReadDelivered, CompleteOrder,
         Suspend, Reinstate, Onboard, Die, StartJob, Requeue, FinishJob,
         Decide, ClaimTransfer, HoldTransfer, CreateTransfer, MarkTransferPaid, money
<1> QED BY <1>2, <1>3, <1>4, <1>5

\* A row that a call leaves behind is one more that knows of money.
LEMMA LedgerElsewhere ==
  ASSUME Typed, LedgerInv, Next, ~RefundInApp, ~RecordRefund
  PROVE  LedgerInv'
<1>1. /\ refund' = refund
      /\ call'["refund"] = call["refund"] \/ call'["refund"].pc = "idle"
      /\ call'["record"] = call["record"] \/ call'["record"].pc = "idle"
  BY RefundElsewhere
<1>2. AmountsAreNumbers /\ AmountsAreNumbers'
  BY StepTyped, NetNow, NetNext
<1>3. /\ TakenIn' + StillHeld + dashboard = TakenIn + StillHeld' + dashboard'
      /\ \A k \in Kinds : payment'[k] = "none" => left'[k] = 0
      /\ dashboard' = dashboard \/ dashboard = 0
  BY MoneyElsewhere
<1>4. RowsApart'
  BY <1>1, <1>3 DEF LedgerInv, RowsApart, At
<1>5. GivenBack' = GivenBack
  BY <1>1 DEF GivenBack, Givens, Given
<1>6. InFlight' <= InFlight
  <2>1. InFlight' = 0 \/ InFlight' = InFlight
    BY <1>1 DEF InFlight, At
  <2>2. InFlight \in Nat
    BY <1>2 DEF AmountsAreNumbers
  <2> QED BY <2>1, <2>2
<1>7. KnownBack <= KnownBack'
  <2>1. \A q \in RefundRows : Backs[q] <= Backs'[q]
    <3>1. \A q \in RefundRows : Back(q)' = Back(q) \/ Back(q) = 0
      BY <1>1 DEF Back, Settled, BeingRecorded, At
    <3>2. \A q \in RefundRows : Backs[q] = Back(q) /\ Backs'[q] = Back(q)'
      BY DEF Backs
    <3>3. \A q \in RefundRows : Backs[q] \in Nat /\ Backs'[q] \in Nat
      BY <1>2 DEF AmountsAreNumbers
    <3> QED BY <3>1, <3>2, <3>3
  <2>2. Backs \in [RefundRows -> Nat] /\ Backs' \in [RefundRows -> Nat]
    BY <1>2 DEF AmountsAreNumbers
  <2>3. SumFunction(Backs) <= SumFunction(Backs')
    BY <2>1, <2>2, RowsGrow
  <2> QED BY <2>3 DEF KnownBack
<1>8. /\ GivenBack \in Nat /\ KnownBack \in Nat /\ KnownBack' \in Nat
      /\ TakenIn \in Nat /\ TakenIn' \in Nat /\ StillHeld \in Nat /\ StillHeld' \in Nat
      /\ InFlight \in Nat /\ InFlight' \in Nat /\ dashboard \in Nat /\ dashboard' \in Nat
  BY <1>2, StepTyped DEF AmountsAreNumbers, Typed, RowsTyped
<1>9. /\ GivenBack + dashboard + InFlight + StillHeld <= TakenIn
      /\ TakenIn <= KnownBack + dashboard + StillHeld
  BY DEF LedgerInv
<1>10. /\ GivenBack' + dashboard' + InFlight' + StillHeld' <= TakenIn'
       /\ TakenIn' <= KnownBack' + dashboard' + StillHeld'
  <2>1. TakenIn' + StillHeld + dashboard = TakenIn + StillHeld' + dashboard'
    BY <1>3
  <2>2. PICK g, b, t, h, d, f, b2, t2, h2, d2, f2 \in Nat :
          /\ g = GivenBack /\ b = KnownBack /\ t = TakenIn /\ h = StillHeld
          /\ d = dashboard /\ f = InFlight /\ b2 = KnownBack' /\ t2 = TakenIn'
          /\ h2 = StillHeld' /\ d2 = dashboard' /\ f2 = InFlight'
    BY <1>8
  <2>3. /\ t2 + h + d = t + h2 + d2 /\ f2 <= f /\ b <= b2
        /\ g + d + f + h <= t /\ t <= b + d + h
    BY <1>6, <1>7, <1>9, <2>1, <2>2
  <2>4. g + d2 + f2 + h2 <= t2 /\ t2 <= b2 + d2 + h2
    BY <2>3
  <2> QED BY <1>5, <2>2, <2>4
<1> QED BY <1>3, <1>4, <1>10 DEF LedgerInv

\* What one row's rewriting does to the two sums.
LEMMA RowWritten ==
  ASSUME Typed, Typed', NEW r \in RefundRows,
         \A q \in RefundRows \ {r} : refund'[q] = refund[q],
         \A q \in RefundRows \ {r} : BeingRecorded(q)' <=> BeingRecorded(q)
  PROVE  /\ GivenBack' + Given(r) = GivenBack + Given(r)'
         /\ KnownBack' + Back(r) = KnownBack + Back(r)'
<1>1. /\ Givens \in [RefundRows -> Nat] /\ Givens' \in [RefundRows -> Nat]
      /\ Backs \in [RefundRows -> Nat] /\ Backs' \in [RefundRows -> Nat]
  BY NetNow, NetNext DEF AmountsAreNumbers
<1>2. \A q \in RefundRows :
        /\ Givens[q] = Given(q) /\ Givens'[q] = Given(q)'
        /\ Backs[q] = Back(q) /\ Backs'[q] = Back(q)'
  BY DEF Givens, Backs
<1>3. \A q \in RefundRows \ {r} : Given(q)' = Given(q) /\ Back(q)' = Back(q)
  BY DEF Given, Back, Settled
<1>4. \A q \in RefundRows \ {r} : Givens'[q] = Givens[q] /\ Backs'[q] = Backs[q]
  BY <1>2, <1>3
<1>5. SumFunction(Givens') + Givens[r] = SumFunction(Givens) + Givens'[r]
  BY <1>1, <1>4, OneRowChanges
<1>6. SumFunction(Backs') + Backs[r] = SumFunction(Backs) + Backs'[r]
  BY <1>1, <1>4, OneRowChanges
<1> QED BY <1>2, <1>5, <1>6 DEF GivenBack, KnownBack

\* No row written, or none that says of money.
LEMMA RowsKeepSaying ==
  ASSUME \A q \in RefundRows : Given(q)' = Given(q) /\ Back(q)' = Back(q)
  PROVE  GivenBack' = GivenBack /\ KnownBack' = KnownBack
<1>1. Givens' = Givens /\ Backs' = Backs
  BY DEF Givens, Backs
<1> QED BY <1>1 DEF GivenBack, KnownBack

\* A refund inside the application opens a row, has the provider make it, settles
\* it and labels the charge: each moves the amount from one term to the next.
LEMMA LedgerInApp ==
  ASSUME Typed, RefundInv, LedgerInv, RefundInApp
  PROVE  LedgerInv'
<1> DEFINE q == call["refund"].row
           of == refund[q].of
           theirs == call["record"].row
<1>1. /\ "refund" \in Calls /\ "record" \in Calls \ {"refund"} /\ call \in [Calls -> CallRow]
      /\ call["refund"] \in CallRow /\ call["refund"].todo \subseteq Kinds
      /\ call["refund"].pc \in {"provider", "settle", "label"} => q \in RefundRows
      /\ call["record"].pc \in {"settle", "flag"} => theirs \in RefundRows
      /\ refund \in [RefundRows -> RefundRow] /\ dashboard \in Nat
      /\ left \in [Kinds -> Nat] /\ payment \in [Kinds -> {"none", "succeeded", "refunded"}]
  BY DEF Calls, Typed, RowsTyped, CallsSound, CallRow
<1>2. /\ AmountsAreNumbers /\ AmountsAreNumbers' /\ Typed'
  <2>1. Typed'
    BY RefundStepTyped
  <2> QED BY <2>1, NetNow, NetNext
<1>3. call'["record"] = call["record"] /\ dashboard' = dashboard
  BY <1>1 DEF RefundInApp, StartRefund, OpenRefund, OpenRow, CreateRefund, Answer, SettleRefund,
              MarkPaymentRefunded, CloseOrder, GoTo, End, money
<1>4. \A r \in RefundRows : BeingRecorded(r)' <=> BeingRecorded(r)
  BY <1>3 DEF BeingRecorded, At
<1>5. /\ GivenBack + dashboard + InFlight + StillHeld <= TakenIn
      /\ TakenIn <= KnownBack + dashboard + StillHeld
      /\ \A k \in Kinds : payment[k] = "none" => left[k] = 0
      /\ RowsApart
  BY DEF LedgerInv
<1>6. CASE StartRefund \/ CloseOrder("refund")
  <2>1. UNCHANGED money
    BY <1>6 DEF StartRefund, CloseOrder
  <2>2. /\ call["refund"].pc \in {"idle", "cancel", "close"}
        /\ call'["refund"].pc \in {"open", "close", "idle"}
    <3>1. CASE StartRefund
      BY <1>1, <3>1 DEF StartRefund, InProgress, At, CallRow
    <3>2. CASE CloseOrder("refund")
      BY <1>1, <3>2, CallGoes DEF CloseOrder, At, RefundPcs
    <3> QED BY <1>6, <3>1, <3>2
  <2>3. RowsApart'
    BY <1>3, <1>5, <2>1, <2>2 DEF RowsApart, At, money
  <2>4. InFlight' = 0 /\ InFlight = 0
    BY <2>2 DEF InFlight, At
  <2>5. GivenBack' = GivenBack /\ KnownBack' = KnownBack
    <3>1. \A r \in RefundRows : Given(r)' = Given(r) /\ Back(r)' = Back(r)
      BY <1>4, <2>1 DEF Given, Back, Settled, money
    <3> QED BY <3>1, RowsKeepSaying
  <2>6. TakenIn' = TakenIn /\ StillHeld' = StillHeld
    BY <2>1 DEF TakenIn, Captured, StillHeld, money
  <2> QED BY <1>5, <2>1, <2>3, <2>4, <2>5, <2>6 DEF LedgerInv, money
<1>7. CASE OpenRefund
  <2>1. PICK r \in FreeRow :
           /\ refund'[r].state = "requested" /\ refund'[r].made = FALSE
           /\ \A p \in RefundRows \ {r} : refund'[p] = refund[p]
           /\ call'["refund"].pc = "provider" /\ call'["refund"].row = r
    BY <1>7, RowOpened
  <2>2. r \in RefundRows /\ refund[r].state = "none"
    BY FreeRowIsRow
  <2>3. UNCHANGED <<payment, left>> /\ call["refund"].pc = "open"
    BY <1>7 DEF OpenRefund, At
  <2>4. call["record"].pc \in {"settle", "flag"} => theirs # r
    BY <1>5, <2>2 DEF RowsApart, At
  <2>5. RowsApart'
    BY <1>1, <1>3, <1>5, <2>1, <2>4 DEF RowsApart, At
  <2>6. InFlight' = 0 /\ InFlight = 0
    BY <2>1, <2>3 DEF InFlight, At
  <2>7. GivenBack' = GivenBack /\ KnownBack' = KnownBack
    <3>1. \A p \in RefundRows : Given(p)' = Given(p) /\ Back(p)' = Back(p)
      BY <1>4, <2>1, <2>2 DEF Given, Back, Settled
    <3> QED BY <3>1, RowsKeepSaying
  <2>8. TakenIn' = TakenIn /\ StillHeld' = StillHeld
    BY <2>3 DEF TakenIn, Captured, StillHeld
  <2> QED BY <1>3, <1>5, <2>3, <2>5, <2>6, <2>7, <2>8 DEF LedgerInv
<1>8. CASE MarkPaymentRefunded
  <2>1. /\ payment[of] # "none" /\ of \in Kinds
        /\ payment' = [payment EXCEPT ![of] = "refunded"] /\ UNCHANGED <<left, refund>>
    BY <1>1, <1>8 DEF MarkPaymentRefunded, RefundInv, InAppSound, At, RefundRow
  <2>2. call["refund"].pc = "label" /\ call'["refund"].pc \in {"cancel", "open"}
    BY <1>1, <1>8 DEF MarkPaymentRefunded, CallRow, At
  <2>3. RowsApart'
    BY <1>3, <1>5, <2>1, <2>2 DEF RowsApart, At
  <2>4. InFlight' = 0 /\ InFlight = 0
    BY <2>2 DEF InFlight, At
  <2>5. GivenBack' = GivenBack /\ KnownBack' = KnownBack
    <3>1. \A p \in RefundRows : Given(p)' = Given(p) /\ Back(p)' = Back(p)
      BY <1>4, <2>1 DEF Given, Back, Settled
    <3> QED BY <3>1, RowsKeepSaying
  <2>6. TakenIn' = TakenIn /\ StillHeld' = StillHeld
    BY <1>1, <2>1 DEF TakenIn, Captured, StillHeld, Kinds
  <2>7. \A k \in Kinds : payment'[k] = "none" => left'[k] = 0
    BY <1>1, <1>5, <2>1
  <2> QED BY <1>3, <1>5, <2>3, <2>4, <2>5, <2>6, <2>7 DEF LedgerInv
<1>9. CASE CreateRefund
  <2>0. PICK r \in RefundRows : r = q
    BY <1>1, <1>9 DEF CreateRefund, At
  <2>1. /\ refund[r] \in RefundRow /\ of \in Kinds /\ refund[r].amount \in Nat
        /\ refund[r].state = "requested" /\ refund[r].made = FALSE
        /\ call["record"].pc \in {"settle", "flag"} => theirs # r
        /\ call["refund"].pc = "provider"
        /\ payment[of] # "none"
    BY <1>1, <1>5, <1>9, <2>0 DEF CreateRefund, RowsApart, At, RefundRow, RefundInv, InAppSound
  <2>2. InFlight = 0
    BY <2>1 DEF InFlight, At
  <2>3. UNCHANGED <<payment, dashboard>> /\ TakenIn' = TakenIn
    BY <1>9 DEF CreateRefund, TakenIn, Captured
  <2>4. CASE left[of] < refund[r].amount
    <3>1. UNCHANGED <<left, refund>> /\ End("refund", "idle")
      BY <1>1, <1>9, <2>0, <2>1, <2>4 DEF CreateRefund
    <3>2. call'["refund"].pc = "idle"
      BY <1>1, <3>1, CallGoes DEF RefundPcs
    <3>3. RowsApart'
      BY <1>3, <1>5, <3>1, <3>2 DEF RowsApart, At
    <3>4. InFlight' = 0 /\ StillHeld' = StillHeld
      BY <3>1, <3>2 DEF InFlight, At, StillHeld
    <3>5. GivenBack' = GivenBack /\ KnownBack' = KnownBack
      <4>1. \A p \in RefundRows : Given(p)' = Given(p) /\ Back(p)' = Back(p)
        BY <1>4, <3>1 DEF Given, Back, Settled
      <4> QED BY <4>1, RowsKeepSaying
    <3> QED BY <1>5, <2>2, <2>3, <3>1, <3>3, <3>4, <3>5 DEF LedgerInv
  <2>5. CASE left[of] >= refund[r].amount
    <3>1. /\ left' = [left EXCEPT ![of] = @ - refund[r].amount]
          /\ refund' = [refund EXCEPT ![r].made = TRUE]
          /\ Answer("refund", "settle")
      BY <1>1, <1>9, <2>0, <2>1, <2>5 DEF CreateRefund
    <3>2. call'["refund"].pc \in {"settle", "idle"} /\ (call'["refund"].pc = "settle" => call'["refund"].row = r)
      BY <1>1, <2>0, <3>1, CallGoes DEF Answer, RefundPcs, Calls, Payouts
    <3>3. /\ refund'[r].state = "requested" /\ refund'[r].made = TRUE
          /\ refund'[r].amount = refund[r].amount
          /\ \A p \in RefundRows \ {r} : refund'[p] = refund[p]
      BY <1>1, <2>0, <2>1, <3>1 DEF RefundRow
    <3> HIDE DEF of, theirs
    <3>4. RowsApart'
      BY <1>1, <1>3, <1>5, <2>0, <2>1, <3>2, <3>3 DEF RowsApart, At, theirs
    <3>5. InFlight' = refund[r].amount \/ InFlight' = 0
      BY <3>2, <3>3 DEF InFlight, At
    <3>6. Given(r)' = Given(r) /\ Back(r) = 0 /\ Back(r)' = refund[r].amount
      BY <1>4, <2>1, <3>3 DEF Given, Back, Settled, BeingRecorded, At, theirs
    <3>7. GivenBack' + Given(r) = GivenBack + Given(r)' /\ KnownBack' + Back(r) = KnownBack + Back(r)'
      BY <1>2, <1>4, <2>1, <3>3, RowWritten
    <3>8. Given(r) \in Nat
      BY <2>1 DEF Given
    <3>9. /\ StillHeld = StillHeld' + refund[r].amount
          /\ \A k \in Kinds : payment'[k] = "none" => left'[k] = 0
      BY <1>1, <1>5, <2>1, <2>3, <2>5, <3>1 DEF StillHeld, Kinds
    <3>10. /\ GivenBack' + dashboard' + InFlight' + StillHeld' <= TakenIn'
           /\ TakenIn' <= KnownBack' + dashboard' + StillHeld'
      <4>1. PICK a, n, g, b, t, h, d, g2, b2, h2, f2 \in Nat :
              /\ a = refund[r].amount /\ n = Given(r) /\ g = GivenBack /\ b = KnownBack /\ t = TakenIn
              /\ h = StillHeld /\ d = dashboard /\ g2 = GivenBack' /\ b2 = KnownBack'
              /\ h2 = StillHeld' /\ f2 = InFlight'
        BY <1>1, <1>2, <2>1, <3>8 DEF AmountsAreNumbers
      <4>2. /\ g2 + n = g + n /\ b2 + 0 = b + a /\ h = h2 + a /\ (f2 = a \/ f2 = 0)
            /\ g + d + 0 + h <= t /\ t <= b + d + h
        BY <1>5, <2>2, <3>5, <3>6, <3>7, <3>9, <4>1
      <4>3. g2 + d + f2 + h2 <= t /\ t <= b2 + d + h2
        BY <4>2
      <4> QED BY <2>3, <4>1, <4>3
    <3> QED BY <3>4, <3>9, <3>10 DEF LedgerInv
  <2> QED BY <1>1, <2>1, <2>4, <2>5
<1>10. CASE SettleRefund
  <2>0. PICK r \in RefundRows : r = q
    BY <1>1, <1>10 DEF SettleRefund, At
  <2>1. /\ refund[r] \in RefundRow /\ refund[r].amount \in Nat
        /\ refund[r].state = "requested" /\ refund[r].made = TRUE
        /\ call["record"].pc \in {"settle", "flag"} => theirs # r
        /\ call["refund"].pc = "settle"
    BY <1>1, <1>5, <1>10, <2>0 DEF SettleRefund, RowsApart, At, RefundRow
  <2>2. /\ call'["refund"].pc = "label" /\ call'["refund"].row = r
    BY <1>1, <1>10, <2>0, CallGoes DEF SettleRefund, RefundPcs
  <2>3. /\ refund'[r].state = "settled" /\ refund'[r].amount = refund[r].amount
        /\ \A p \in RefundRows \ {r} : refund'[p] = refund[p]
    BY <1>1, <1>10, <2>0, <2>1 DEF SettleRefund, RefundRow
  <2>4. UNCHANGED <<payment, left>> /\ TakenIn' = TakenIn /\ StillHeld' = StillHeld
    BY <1>10 DEF SettleRefund, TakenIn, Captured, StillHeld
  <2>5. InFlight = refund[r].amount /\ InFlight' = 0
    BY <2>0, <2>1, <2>2 DEF InFlight, At
  <2> HIDE DEF of, theirs
  <2>6. RowsApart'
    BY <1>1, <1>3, <1>5, <2>0, <2>1, <2>2, <2>3 DEF RowsApart, At, theirs
  <2>7. Given(r) = 0 /\ Given(r)' = refund[r].amount /\ Back(r)' = Back(r)
        /\ Back(r) = refund[r].amount
    BY <1>4, <2>1, <2>3 DEF Given, Back, Settled, BeingRecorded, At, theirs
  <2>8. GivenBack' + Given(r) = GivenBack + Given(r)' /\ KnownBack' + Back(r) = KnownBack + Back(r)'
    BY <1>2, <1>4, <2>1, <2>3, RowWritten
  <2>9. /\ GivenBack' + dashboard' + InFlight' + StillHeld' <= TakenIn'
        /\ TakenIn' <= KnownBack' + dashboard' + StillHeld'
    <3>1. PICK a, g, b, t, h, d, g2, b2 \in Nat :
            /\ a = refund[r].amount /\ g = GivenBack /\ b = KnownBack /\ t = TakenIn
            /\ h = StillHeld /\ d = dashboard /\ g2 = GivenBack' /\ b2 = KnownBack'
      BY <1>1, <1>2, <2>1 DEF AmountsAreNumbers
    <3>2. /\ g2 + 0 = g + a /\ b2 + a = b + a /\ g + d + a + h <= t /\ t <= b + d + h
      BY <1>5, <2>5, <2>7, <2>8, <3>1
    <3>3. g2 + d + 0 + h <= t /\ t <= b2 + d + h
      BY <3>2
    <3> QED BY <1>3, <2>4, <2>5, <3>1, <3>3
  <2> QED BY <1>5, <2>4, <2>6, <2>9 DEF LedgerInv
<1> QED BY <1>6, <1>7, <1>8, <1>9, <1>10 DEF RefundInApp

\* A refund recorded from the dashboard opens a row for what already left.
LEMMA LedgerRecord ==
  ASSUME Typed, LedgerInv, RecordRefund
  PROVE  LedgerInv'
<1> DEFINE theirs == call["record"].row
           mine == call["refund"].row
<1>1. /\ "record" \in Calls /\ "refund" \in Calls \ {"record"} /\ call \in [Calls -> CallRow]
      /\ call["record"] \in CallRow
      /\ call["refund"].pc \in {"provider", "settle", "label"} => mine \in RefundRows
      /\ call["record"].pc \in {"settle", "flag"} => theirs \in RefundRows
      /\ refund \in [RefundRows -> RefundRow] /\ dashboard \in Nat
  BY DEF Calls, Typed, RowsTyped, CallsSound
<1>2. /\ AmountsAreNumbers /\ AmountsAreNumbers' /\ Typed'
  <2>1. Typed'
    BY RecordStepTyped
  <2> QED BY <2>1, NetNow, NetNext
<1>3. call'["refund"] = call["refund"] /\ UNCHANGED <<payment, left>>
  BY <1>1 DEF RecordRefund, StartRecord, OpenRecorded, SettleRecorded, FlagForAttention, AfterFlag,
              CloseOrder, GoTo, End, money
<1>4. TakenIn' = TakenIn /\ StillHeld' = StillHeld
  BY <1>3 DEF TakenIn, Captured, StillHeld
<1>5. /\ GivenBack + dashboard + InFlight + StillHeld <= TakenIn
      /\ TakenIn <= KnownBack + dashboard + StillHeld
      /\ \A k \in Kinds : payment'[k] = "none" => left'[k] = 0
      /\ RowsApart
  BY <1>3 DEF LedgerInv
<1>6. CASE StartRecord \/ CloseOrder("record")
  <2>1. UNCHANGED money
    BY <1>6 DEF StartRecord, CloseOrder
  <2>2. /\ call["record"].pc \in {"idle", "cancel", "close"}
        /\ call'["record"].pc \in {"open", "close", "idle"}
        /\ call'["record"].pc = "open" => dashboard > 0
    <3>1. CASE StartRecord
      BY <1>1, <3>1 DEF StartRecord, InProgress, At, CallRow
    <3>2. CASE CloseOrder("record")
      BY <1>1, <3>2, CallGoes DEF CloseOrder, At, RefundPcs
    <3> QED BY <1>6, <3>1, <3>2
  <2>3. RowsApart'
    BY <1>3, <1>5, <2>1, <2>2 DEF RowsApart, At, money
  <2>4. InFlight' = InFlight
    BY <1>3, <2>1 DEF InFlight, At, money
  <2>5. GivenBack' = GivenBack /\ KnownBack' = KnownBack
    <3>1. \A p \in RefundRows : Given(p)' = Given(p) /\ Back(p)' = Back(p)
      BY <2>1, <2>2 DEF Given, Back, Settled, BeingRecorded, At, money
    <3> QED BY <3>1, RowsKeepSaying
  <2> QED BY <1>4, <1>5, <2>1, <2>3, <2>4, <2>5 DEF LedgerInv, money
<1>7. CASE OpenRecorded
  <2>1. PICK r \in FreeRow :
          /\ refund' = [refund EXCEPT ![r] =
               [state |-> "requested", of |-> "deposit", amount |-> dashboard, made |-> TRUE]]
          /\ call' = [call EXCEPT !["record"].pc = "settle", !["record"].row = r]
    BY <1>7 DEF OpenRecorded
  <2>2. /\ r \in RefundRows /\ refund[r].state = "none" /\ dashboard' = dashboard
        /\ call["record"].pc = "open"
    BY <1>7, FreeRowIsRow DEF OpenRecorded, At
  <2>3. /\ refund'[r].state = "requested" /\ refund'[r].amount = dashboard
        /\ \A p \in RefundRows \ {r} : refund'[p] = refund[p]
        /\ call'["record"].pc = "settle" /\ call'["record"].row = r
    BY <1>1, <2>1, <2>2 DEF CallRow
  <2>4. call["refund"].pc \in {"provider", "settle", "label"} => mine # r
    BY <1>5, <2>2 DEF RowsApart, At
  <2>5. RowsApart'
    BY <1>1, <1>3, <1>5, <2>2, <2>3, <2>4 DEF RowsApart, At
  <2>6. InFlight' = InFlight
    BY <1>1, <1>3, <2>3, <2>4 DEF InFlight, At
  <2>7. GivenBack' = GivenBack /\ KnownBack' = KnownBack
    <3>1. \A p \in RefundRows : Given(p)' = Given(p) /\ Back(p)' = Back(p)
      BY <2>2, <2>3 DEF Given, Back, Settled, BeingRecorded, At
    <3> QED BY <3>1, RowsKeepSaying
  <2> QED BY <1>4, <1>5, <2>2, <2>5, <2>6, <2>7 DEF LedgerInv
<1>8. CASE SettleRecorded
  <2>0. PICK r \in RefundRows : r = theirs
    BY <1>1, <1>8 DEF SettleRecorded, At
  <2>1. /\ refund[r].state = "requested" /\ refund[r].amount = dashboard
        /\ call["refund"].pc \in {"provider", "settle", "label"} => mine # r
        /\ call["record"].pc = "settle"
    BY <1>1, <1>5, <1>8, <2>0 DEF SettleRecorded, RowsApart, At
  <2>2. call'["record"].pc = "flag" /\ call'["record"].row = r
    BY <1>1, <1>8, <2>0, CallGoes DEF SettleRecorded, RefundPcs
  <2>3. /\ refund'[r].state = "settled" /\ refund'[r].amount = dashboard /\ dashboard' = 0
        /\ \A p \in RefundRows \ {r} : refund'[p] = refund[p]
    BY <1>1, <1>8, <2>0, <2>1 DEF SettleRecorded, RefundRow
  <2> HIDE DEF mine
  <2>4. RowsApart'
    BY <1>1, <1>3, <1>5, <2>1, <2>2, <2>3 DEF RowsApart, At, mine
  <2>5. InFlight' = InFlight
    BY <1>1, <1>3, <2>1, <2>3 DEF InFlight, At, mine
  <2>6. Given(r) = 0 /\ Given(r)' = dashboard /\ Back(r) = 0 /\ Back(r)' = dashboard
    BY <2>0, <2>1, <2>3 DEF Given, Back, Settled, BeingRecorded, At
  <2>7. \A p \in RefundRows \ {r} : BeingRecorded(p)' <=> BeingRecorded(p)
    BY <2>0, <2>2 DEF BeingRecorded, At
  <2>8. GivenBack' + Given(r) = GivenBack + Given(r)' /\ KnownBack' + Back(r) = KnownBack + Back(r)'
    BY <1>2, <2>3, <2>7, RowWritten
  <2>9. /\ GivenBack' + dashboard' + InFlight' + StillHeld' <= TakenIn'
        /\ TakenIn' <= KnownBack' + dashboard' + StillHeld'
    <3>1. PICK g, b, t, h, d, f, g2, b2 \in Nat :
            /\ g = GivenBack /\ b = KnownBack /\ t = TakenIn /\ f = InFlight
            /\ h = StillHeld /\ d = dashboard /\ g2 = GivenBack' /\ b2 = KnownBack'
      BY <1>1, <1>2 DEF AmountsAreNumbers
    <3>2. g2 + 0 = g + d /\ b2 + 0 = b + d /\ g + d + f + h <= t /\ t <= b + d + h
      BY <1>5, <2>6, <2>8, <3>1
    <3>3. g2 + 0 + f + h <= t /\ t <= b2 + 0 + h
      BY <3>2
    <3> QED BY <1>4, <2>3, <2>5, <3>1, <3>3
  <2> QED BY <1>5, <2>4, <2>9 DEF LedgerInv
<1>9. CASE FlagForAttention
  <2>0. PICK r \in RefundRows : r = theirs
    BY <1>1, <1>9 DEF FlagForAttention, At
  <2>1. /\ refund[r].state = "settled"
        /\ call["refund"].pc \in {"provider", "settle", "label"} => mine # r
        /\ call["record"].pc = "flag"
    BY <1>1, <1>5, <1>9, <2>0 DEF FlagForAttention, RowsApart, At
  <2>2. call'["record"].pc \in {"idle", "close", "cancel"}
    BY <1>1, <1>9, CallGoes DEF FlagForAttention, AfterFlag, RefundPcs
  <2>3. /\ refund'[r].state \in {"settled", "needs_attention"} /\ refund'[r].amount = refund[r].amount
        /\ \A p \in RefundRows \ {r} : refund'[p] = refund[p]
        /\ dashboard' = dashboard
    BY <1>1, <1>9, <2>0, <2>1 DEF FlagForAttention, RefundRow
  <2> HIDE DEF mine
  <2>4. RowsApart'
    BY <1>1, <1>3, <1>5, <2>1, <2>2, <2>3 DEF RowsApart, At, mine
  <2>5. InFlight' = InFlight
    BY <1>1, <1>3, <2>1, <2>3 DEF InFlight, At, mine
  <2>6. GivenBack' = GivenBack /\ KnownBack' = KnownBack
    <3>1. \A p \in RefundRows : Given(p)' = Given(p) /\ Back(p)' = Back(p)
      BY <2>1, <2>2, <2>3 DEF Given, Back, Settled, BeingRecorded, At
    <3> QED BY <3>1, RowsKeepSaying
  <2> QED BY <1>4, <1>5, <2>3, <2>4, <2>5, <2>6 DEF LedgerInv
<1> QED BY <1>6, <1>7, <1>8, <1>9 DEF RecordRefund

\* The books hold through every step, calls overlapping or not.
LEMMA LedgerStep ==
  Typed /\ RefundInv /\ LedgerInv /\ [Next]_vars => LedgerInv'
<1> SUFFICES ASSUME Typed, RefundInv, LedgerInv, [Next]_vars PROVE LedgerInv'
  OBVIOUS
<1>1. CASE UNCHANGED vars
  <2>1. UNCHANGED <<payment, left, refund, dashboard, call>>
    BY <1>1 DEF vars, money
  <2>2. GivenBack' = GivenBack /\ KnownBack' = KnownBack
    BY <2>1 DEF GivenBack, Givens, Given, KnownBack, Backs, Back, Settled, BeingRecorded, At
  <2> QED BY <2>1, <2>2
          DEF LedgerInv, RowsApart, At, InFlight, StillHeld, TakenIn, Captured
<1> QED BY <1>1, LedgerInApp, LedgerRecord, LedgerElsewhere

\* Nothing is taken, held or returned at first.
LEMMA LedgerBegins == Init => LedgerInv
<1> SUFFICES ASSUME Init PROVE LedgerInv
  OBVIOUS
<1>1. AmountsAreNumbers
  BY InitTyped, NetNow
<1>2. \A r \in RefundRows : Givens[r] = 0 /\ Backs[r] = 0
  BY DEF Init, NoRefund, Givens, Backs, Given, Back, Settled
<1>3. TakenIn = 0 /\ StillHeld = 0 /\ InFlight = 0 /\ dashboard = 0
  BY KindsOfPayouts DEF Init, TakenIn, Captured, StillHeld, InFlight, At, Idle, Kinds
<1>4. GivenBack = 0
  <2>1. SumFunctionOnSet(Givens, RefundRows) = 0
    BY <1>2, RowsAreFinite, SumOfNothing
  <2>2. DOMAIN Givens = RefundRows
    BY DEF Givens
  <2> QED BY <2>1, <2>2 DEF GivenBack, SumFunction
<1>5. RowsApart /\ \A k \in Kinds : payment[k] = "none" => left[k] = 0
  BY KindsOfPayouts DEF Init, RowsApart, At, Idle
<1> QED BY <1>1, <1>3, <1>4, <1>5 DEF LedgerInv, AmountsAreNumbers

\* The ledger never says that more went back than was taken: whatever calls
\* overlap or die, the rows that say money went back sum to at most what the
\* charges that were captured brought in (netCaptured).
THEOREM LedgerStaysPositive == Spec => []LedgerNeverNegative
<1>1. Spec => []LedgerInv
  <2>1. IInv /\ LedgerInv /\ [Next]_vars => LedgerInv'
    BY LedgerStep DEF IInv
  <2> QED BY <2>1, LedgerBegins, Invariance, PTL DEF Spec
<1>2. IInv /\ LedgerInv => LedgerNeverNegative
  <2> SUFFICES ASSUME IInv, LedgerInv PROVE LedgerNeverNegative
    OBVIOUS
  <2>1. AmountsAreNumbers /\ dashboard \in Nat
    BY NetNow DEF IInv, Typed, RowsTyped
  <2>2. PICK g, d, f, h, t \in Nat :
          g = GivenBack /\ d = dashboard /\ f = InFlight /\ h = StillHeld /\ t = TakenIn
    BY <2>1 DEF AmountsAreNumbers
  <2>3. g + d + f + h <= t /\ NetCaptured = t - g
    BY <2>1, <2>2 DEF LedgerInv, AmountsAreNumbers
  <2>4. NetCaptured >= 0
    BY <2>3
  <2> QED BY <2>4 DEF LedgerNeverNegative
<1> QED BY <1>1, <1>2, Invariance, PTL

-----------------------------------------------------------------------------
(* A refunded order keeps nothing but what was captured in its midst.       *)

\* A charge labelled refunded has a settled row for the whole of it.
LabelHasRow ==
  \A k \in Kinds : payment[k] = "refunded" =>
    \E r \in RefundRows : Settled(r) /\ refund[r].of = k /\ refund[r].amount = Charge[k]

\* A settled row stays settled, for the same charge and the same amount.
LEMMA SettledStays ==
  ASSUME Typed, Next, NEW q \in RefundRows, Settled(q)
  PROVE  /\ refund'[q].state \in {"settled", "needs_attention"}
         /\ refund'[q].of = refund[q].of /\ refund'[q].amount = refund[q].amount
<1>1. /\ refund \in [RefundRows -> RefundRow] /\ refund[q] \in RefundRow
      /\ refund[q].state \in {"settled", "needs_attention"}
      /\ \A r \in FreeRow : r # q
  BY FreeRowIsRow DEF Typed, RowsTyped, Settled
<1>2. CASE ~RefundInApp /\ ~RecordRefund
  BY <1>1, <1>2, RefundElsewhere
<1>3. CASE OpenRefund
  BY <1>1, <1>3, RowOpened, FreeRowIsRow
<1>4. CASE OpenRecorded
  BY <1>1, <1>4 DEF OpenRecorded
<1>5. CASE CreateRefund
  BY <1>1, <1>5 DEF CreateRefund, RefundRow
<1>6. CASE SettleRefund \/ SettleRecorded \/ FlagForAttention
  BY <1>1, <1>6 DEF SettleRefund, SettleRecorded, FlagForAttention, RefundRow
<1>7. CASE \/ StartRefund \/ MarkPaymentRefunded \/ CloseOrder("refund")
           \/ StartRecord \/ CloseOrder("record")
  BY <1>1, <1>7 DEF StartRefund, MarkPaymentRefunded, CloseOrder, StartRecord, money
<1> QED BY <1>2, <1>3, <1>4, <1>5, <1>6, <1>7 DEF RefundInApp, RecordRefund

\* Only a refund inside the application labels a charge.
LEMMA LabelElsewhere ==
  ASSUME Typed, Next, ~MarkPaymentRefunded, NEW k \in Kinds, payment'[k] = "refunded"
  PROVE  payment[k] = "refunded"
<1>1. CASE ~RefundInApp /\ ~RecordRefund
  BY <1>1, RefundElsewhere
<1>2. CASE RefundInApp \/ RecordRefund
  BY <1>2 DEF RefundInApp, RecordRefund, StartRefund, OpenRefund, CreateRefund, SettleRefund,
              CloseOrder, StartRecord, OpenRecorded, SettleRecorded, FlagForAttention, money
<1> QED BY <1>1, <1>2

\* The label is written last, when the row is settled.
LEMMA LabelHasRowStep ==
  Typed /\ RefundInv /\ LedgerInv /\ LabelHasRow /\ [Next]_vars => LabelHasRow'
<1> SUFFICES ASSUME Typed, RefundInv, LedgerInv, LabelHasRow, [Next]_vars,
                    NEW k \in Kinds, payment'[k] = "refunded"
             PROVE  \E r \in RefundRows :
                      /\ refund'[r].state \in {"settled", "needs_attention"}
                      /\ refund'[r].of = k /\ refund'[r].amount = Charge[k]
  BY DEF LabelHasRow, Settled
<1>1. CASE UNCHANGED vars
  BY <1>1 DEF vars, money, LabelHasRow, Settled
<1>2. CASE Next /\ payment[k] = "refunded"
  <2>1. PICK r \in RefundRows : Settled(r) /\ refund[r].of = k /\ refund[r].amount = Charge[k]
    BY <1>2 DEF LabelHasRow
  <2> QED BY <1>2, <2>1, SettledStays
<1>3. CASE Next /\ payment[k] # "refunded"
  <2>1. MarkPaymentRefunded
    BY <1>3, LabelElsewhere
  <2>2. call["refund"].pc = "label" /\ call["refund"].row \in RefundRows
    BY <2>1 DEF MarkPaymentRefunded, At, Typed, CallsSound
  <2>3. PICK r \in RefundRows : r = call["refund"].row
    BY <2>2
  <2>4. refund[r].of = k
    BY <1>3, <2>1, <2>3 DEF MarkPaymentRefunded, Typed, RowsTyped
  <2>5. refund[r].state = "settled" /\ refund[r].amount = Charge[k]
    BY <2>2, <2>3, <2>4 DEF LedgerInv, RowsApart, At, RefundInv, InAppSound
  <2> QED BY <2>1, <2>4, <2>5 DEF MarkPaymentRefunded
<1> QED BY <1>1, <1>2, <1>3

\* Two rows sum to no more than all of them.
LEMMA TwoRowsCount ==
  ASSUME NEW f \in [RefundRows -> Nat], NEW r \in RefundRows, NEW q \in RefundRows, q # r
  PROVE  f[r] + f[q] <= SumFunction(f)
<1> DEFINE others == RefundRows \ {r}
<1>1. IsFiniteSet(others) /\ IsFiniteSet(others \ {q}) /\ q \in others
  BY RowsAreFinite, FS_Subset
<1>2. SumFunctionOnSet(f, RefundRows) = f[r] + SumFunctionOnSet(f, others)
  BY RowsAreFinite, SumSplits
<1>3. SumFunctionOnSet(f, others) = f[q] + SumFunctionOnSet(f, others \ {q})
  <2>1. \A x \in others : f[x] \in Nat
    OBVIOUS
  <2> HIDE DEF others
  <2> QED BY <1>1, <2>1, SumSplits
<1>4. SumFunctionOnSet(f, others \ {q}) \in Nat
  <2>1. \A x \in others \ {q} : f[x] \in Nat
    OBVIOUS
  <2> HIDE DEF others
  <2> QED BY <1>1, <2>1, SumIsNat
<1>5. SumFunction(f) = SumFunctionOnSet(f, RefundRows)
  BY DEF SumFunction
<1> HIDE DEF others
<1> QED BY <1>2, <1>3, <1>4, <1>5

\* One row is no more than all of them.
LEMMA OneRowCounts ==
  ASSUME NEW f \in [RefundRows -> Nat], NEW r \in RefundRows
  PROVE  f[r] <= SumFunction(f)
<1> DEFINE others == RefundRows \ {r}
<1>1. IsFiniteSet(others)
  BY RowsAreFinite, FS_Subset
<1>2. SumFunctionOnSet(f, RefundRows) = f[r] + SumFunctionOnSet(f, others)
  BY RowsAreFinite, SumSplits
<1>3. SumFunctionOnSet(f, others) \in Nat
  BY <1>1, SumIsNat
<1>4. SumFunction(f) = SumFunctionOnSet(f, RefundRows)
  BY DEF SumFunction
<1> HIDE DEF others
<1> QED BY <1>2, <1>3, <1>4

\* What was captured while a refund was in progress.
Excused(k) == IF k \in late THEN Charge[k] ELSE 0
LateSum == Excused("deposit") + Excused("balance")
LateWasCaptured == \A k \in late : payment[k] # "none"

LEMMA LateNow ==
  Typed => LateSum = SumFunctionOnSet(Charge, late) /\ LateSum \in Nat
<1> SUFFICES ASSUME Typed
             PROVE  LateSum = SumFunctionOnSet(Charge, late) /\ LateSum \in Nat
  OBVIOUS
<1>1. /\ Charge["deposit"] \in Nat /\ Charge["balance"] \in Nat /\ late \in SUBSET Kinds
      /\ "deposit" \in Kinds /\ "balance" \in Kinds /\ \A k \in Kinds : Charge[k] \in Nat
  BY ChargesAreNat DEF Kinds, Typed, RowsTyped
<1>2. SumFunctionOnSet(Charge, late) = Excused("deposit") + Excused("balance")
  BY <1>1, SumOfKinds DEF Excused
<1> QED BY <1>1, <1>2 DEF LateSum, Excused

LEMMA LateNext == Typed' => LateSum' \in Nat
<1>1. Typed => LateSum \in Nat
  BY LateNow
<1>2. Typed' => (LateSum \in Nat)'
  BY <1>1, PTL
<1> QED BY <1>2

\* The net depends on which charges were captured and on what rows say.
LEMMA NetStays ==
  ASSUME \A k \in Kinds : payment'[k] = "none" <=> payment[k] = "none",
         \A r \in RefundRows : Given(r)' = Given(r)
  PROVE  NetCaptured' = NetCaptured
<1>1. [k \in Kinds |-> IF payment[k] = "none" THEN 0 ELSE Charge[k]]'
        = [k \in Kinds |-> IF payment[k] = "none" THEN 0 ELSE Charge[k]]
  OBVIOUS
<1>2. [r \in RefundRows |-> Given(r)]' = [r \in RefundRows |-> Given(r)]
  OBVIOUS
<1> QED BY <1>1, <1>2 DEF NetCaptured

\* A charge is captured by Capture, and stays captured.
LEMMA PaymentsStay ==
  ASSUME Typed, RefundInv, Next, \A k \in Kinds : ~Capture(k)
  PROVE  /\ late' = late
         /\ \A k \in Kinds : payment'[k] = "none" <=> payment[k] = "none"
         /\ ~MarkPaymentRefunded => payment' = payment
<1>1. /\ payment \in [Kinds -> {"none", "succeeded", "refunded"}]
      /\ refund \in [RefundRows -> RefundRow]
  BY DEF Typed, RowsTyped
<1>2. CASE MarkPaymentRefunded
  <2>1. call["refund"].pc = "label" /\ call["refund"].row \in RefundRows
    BY <1>2 DEF MarkPaymentRefunded, At, Typed, CallsSound
  <2>2. /\ payment[refund[call["refund"].row].of] # "none"
        /\ refund[call["refund"].row].of \in Kinds
    BY <1>1, <2>1 DEF RefundInv, InAppSound, RefundRow
  <2> QED BY <1>1, <1>2, <2>2 DEF MarkPaymentRefunded
<1>3. CASE ~MarkPaymentRefunded
  <2>1. payment' = payment /\ late' = late
    BY <1>3, NextByGroup
       DEF OrderStep, CompletionStep, VendorStep, JobStep, ShareStep, RefundInApp, RecordRefund, money,
           Proceed, CloseWindow, ReadDelivered, CompleteOrder, RefundInDashboard,
           Suspend, Reinstate, Onboard, Die, StartJob, Requeue, FinishJob,
           Decide, ClaimTransfer, HoldTransfer, CreateTransfer, MarkTransferPaid,
           StartRefund, OpenRefund, CreateRefund, SettleRefund, CloseOrder,
           StartRecord, OpenRecorded, SettleRecorded, FlagForAttention
  <2> QED BY <2>1
<1> QED BY <1>2, <1>3

\* A capture writes its own charge, and while a refund is in progress marks it.
LEMMA CaptureMarks ==
  ASSUME Typed, LateWasCaptured, NEW k \in Kinds, Capture(k)
  PROVE  /\ payment[k] = "none" /\ payment'[k] = "succeeded" /\ k \notin late
         /\ \A j \in Kinds \ {k} : payment'[j] = payment[j]
         /\ late' = IF InProgress("refund") \/ InProgress("record") THEN late \cup {k} ELSE late
         /\ UNCHANGED <<refund, dashboard, call>>
BY DEF Capture, Elsewhere, LateWasCaptured, Typed, RowsTyped

LEMMA LateWasCapturedStep ==
  Typed /\ RefundInv /\ LateWasCaptured /\ [Next]_vars => LateWasCaptured'
<1> SUFFICES ASSUME Typed, RefundInv, LateWasCaptured, [Next]_vars, NEW j \in late'
             PROVE  payment'[j] # "none"
  BY DEF LateWasCaptured
<1>1. CASE UNCHANGED vars
  BY <1>1 DEF vars, money, LateWasCaptured
<1>2. CASE \E k \in Kinds : Capture(k)
  <2>1. PICK k \in Kinds : Capture(k)
    BY <1>2
  <2>2. j = k \/ (j \in late /\ j # k /\ j \in Kinds)
    BY <2>1, CaptureMarks DEF Typed, RowsTyped
  <2> QED BY <2>1, <2>2, CaptureMarks DEF LateWasCaptured
<1>3. CASE Next /\ \A k \in Kinds : ~Capture(k)
  <2>1. j \in late /\ j \in Kinds
    BY <1>3, PaymentsStay DEF Typed, RowsTyped
  <2> QED BY <1>3, <2>1, PaymentsStay DEF LateWasCaptured
<1> QED BY <1>1, <1>2, <1>3

\* Rows only come to say more: what is settled stays, for the same amount.
LEMMA RowsSayMore ==
  ASSUME Typed, Next
  PROVE  GivenBack <= GivenBack'
<1>1. /\ Givens \in [RefundRows -> Nat] /\ Givens' \in [RefundRows -> Nat]
      /\ GivenBack = SumFunction(Givens) /\ GivenBack' = SumFunction(Givens')
  BY StepTyped, NetNow, NetNext DEF AmountsAreNumbers, GivenBack
<1>2. ASSUME NEW q \in RefundRows PROVE Givens[q] <= Givens'[q]
  <2>1. Givens[q] = Given(q) /\ Givens'[q] = Given(q)'
    BY DEF Givens
  <2>2. Givens[q] \in Nat /\ Givens'[q] \in Nat
    BY <1>1
  <2>3. CASE Settled(q)
    <3>1. Given(q)' = Given(q)
      BY <2>3, SettledStays DEF Given, Settled
    <3> QED BY <2>1, <2>2, <3>1
  <2>4. CASE ~Settled(q)
    <3>1. Given(q) = 0
      BY <2>4 DEF Given, Settled
    <3> QED BY <2>1, <2>2, <3>1
  <2> QED BY <2>3, <2>4
<1> QED BY <1>1, <1>2, RowsGrow

\* What is kept and was not captured in the midst of a refund does not grow, but by
\* a capture while no refund is in progress.
LEMMA KeptFalls ==
  ASSUME Typed, RefundInv, LateWasCaptured, Next,
         InProgress("refund") \/ InProgress("record") \/ \A k \in Kinds : ~Capture(k)
  PROVE  NetCaptured' + LateSum <= NetCaptured + LateSum'
<1>1. AmountsAreNumbers /\ AmountsAreNumbers' /\ LateSum \in Nat /\ LateSum' \in Nat
  BY StepTyped, NetNow, NetNext, LateNow, LateNext
<1>2. GivenBack <= GivenBack'
  BY RowsSayMore
<1>3. TakenIn' + LateSum = TakenIn + LateSum'
  <2>1. \A k \in Kinds : Charge[k] \in Nat
    BY ChargesAreNat
  <2>2. CASE \A k \in Kinds : ~Capture(k)
    <3>1. TakenIn' = TakenIn /\ LateSum' = LateSum
      BY <2>2, PaymentsStay DEF TakenIn, Captured, LateSum, Excused, Kinds
    <3> QED BY <1>1, <3>1 DEF AmountsAreNumbers
  <2>3. ASSUME NEW k \in Kinds, Capture(k)
        PROVE  TakenIn' + LateSum = TakenIn + LateSum'
    <3>1. /\ payment[k] = "none" /\ payment'[k] = "succeeded"
          /\ k \notin late /\ late' = late \cup {k}
          /\ \A j \in Kinds \ {k} : payment'[j] = payment[j]
      BY <2>3, CaptureMarks
    <3>2. /\ Captured(k) = 0 /\ Captured(k)' = Charge[k]
          /\ Excused(k) = 0 /\ Excused(k)' = Charge[k]
          /\ \A j \in Kinds \ {k} : Captured(j)' = Captured(j) /\ Excused(j)' = Excused(j)
      BY <3>1 DEF Captured, Excused
    <3>3. \A j \in Kinds : Captured(j) \in Nat /\ Excused(j) \in Nat
      BY <2>1 DEF Captured, Excused
    <3> QED BY <2>1, <3>2, <3>3 DEF TakenIn, LateSum, Kinds
  <2> QED BY <2>2, <2>3
<1>4. PICK g, g2, t, t2, l, l2 \in Nat :
        /\ g = GivenBack /\ g2 = GivenBack' /\ t = TakenIn /\ t2 = TakenIn'
        /\ l = LateSum /\ l2 = LateSum'
  BY <1>1 DEF AmountsAreNumbers
<1>5. NetCaptured = t - g /\ NetCaptured' = t2 - g2 /\ g <= g2 /\ t2 + l = t + l2
  BY <1>1, <1>2, <1>3, <1>4 DEF AmountsAreNumbers
<1>6. (t2 - g2) + l <= (t - g) + l2
  BY <1>5
<1> QED BY <1>4, <1>5, <1>6

\* An order of which every other charge taken is labelled refunded keeps nothing
\* but those captured in the midst.
LEMMA AllLabelled ==
  ASSUME Typed, LabelHasRow, \A k \in Kinds \ late : payment[k] # "succeeded"
  PROVE  NetCaptured <= LateSum
<1> DEFINE Labelled(k) == IF payment[k] = "refunded" THEN Charge[k] ELSE 0
<1>1. AmountsAreNumbers /\ LateSum \in Nat
  BY NetNow, LateNow
<1>2. "deposit" \in Kinds /\ "balance" \in Kinds /\ \A k \in Kinds : Charge[k] \in Nat
  BY ChargesAreNat DEF Kinds
<1>3. \A k \in Kinds : payment[k] \in {"none", "succeeded", "refunded"}
  BY DEF Typed, RowsTyped
<1>4. Labelled("deposit") + Labelled("balance") <= GivenBack
  <2>1. ASSUME NEW k \in Kinds, payment[k] = "refunded"
        PROVE  \E r \in RefundRows : refund[r].of = k /\ Givens[r] = Charge[k]
    BY <2>1 DEF LabelHasRow, Settled, Givens, Given
  <2>2. Givens \in [RefundRows -> Nat] /\ GivenBack \in Nat
    BY <1>1 DEF AmountsAreNumbers
  <2>3. CASE payment["deposit"] = "refunded" /\ payment["balance"] = "refunded"
    <3>1. PICK r \in RefundRows : refund[r].of = "deposit" /\ Givens[r] = Charge["deposit"]
      BY <1>2, <2>1, <2>3
    <3>2. PICK q \in RefundRows : refund[q].of = "balance" /\ Givens[q] = Charge["balance"]
      BY <1>2, <2>1, <2>3
    <3>3. Givens[r] + Givens[q] <= GivenBack
      BY <2>2, <3>1, <3>2, TwoRowsCount DEF GivenBack
    <3> QED BY <2>3, <3>1, <3>2, <3>3
  <2>4. ASSUME NEW k \in Kinds, NEW j \in Kinds, k # j, payment[k] = "refunded", payment[j] # "refunded"
        PROVE  Labelled("deposit") + Labelled("balance") <= GivenBack
    <3>1. PICK r \in RefundRows : refund[r].of = k /\ Givens[r] = Charge[k]
      BY <2>1, <2>4
    <3>2. Givens[r] <= GivenBack
      BY <2>2, <3>1, OneRowCounts DEF GivenBack
    <3>3. Labelled("deposit") + Labelled("balance") = Charge[k]
      BY <1>2, <2>4 DEF Kinds
    <3> QED BY <3>1, <3>2, <3>3
  <2>5. CASE payment["deposit"] # "refunded" /\ payment["balance"] # "refunded"
    BY <2>2, <2>5
  <2> QED BY <1>2, <2>3, <2>4, <2>5
<1>5. \A k \in Kinds :
        /\ Captured(k) <= Labelled(k) + Excused(k)
        /\ Captured(k) \in Nat /\ Labelled(k) \in Nat /\ Excused(k) \in Nat
  BY <1>2, <1>3 DEF Captured, Excused
<1>6. Labelled("deposit") \in Nat /\ Labelled("balance") \in Nat
  BY <1>2, <1>5
<1>7. TakenIn <= Labelled("deposit") + Labelled("balance") + LateSum
  BY <1>2, <1>5 DEF TakenIn, LateSum
<1> HIDE DEF Labelled
<1>8. TakenIn <= GivenBack + LateSum
  BY <1>1, <1>4, <1>6, <1>7 DEF AmountsAreNumbers
<1> QED BY <1>1, <1>8 DEF AmountsAreNumbers

\* The whole of what was paid is being refunded, one charge after the other.
WholeRefund ==
  LET mine == call["refund"]
  IN \A k \in Kinds \ late : payment[k] = "succeeded" =>
       /\ mine.pc = "open" => k \in mine.todo
       /\ mine.pc \in {"provider", "settle", "label"} => k \in mine.todo \/ k = refund[mine.row].of
       /\ mine.pc \notin {"cancel", "close"}

\* Somebody else's step leaves the call its charges and its row's.
LEMMA WholeRefundElsewhere ==
  ASSUME Typed, RefundInv, LedgerInv, LateWasCaptured, WholeRefund, Next,
         ~RefundInApp, call'["refund"].pc # "idle"
  PROVE  WholeRefund'
<1>1. /\ "refund" \in Calls /\ "record" \in Calls \ {"refund"} /\ call \in [Calls -> CallRow]
      /\ refund \in [RefundRows -> RefundRow]
      /\ call["refund"].pc \in {"provider", "settle", "label"} => call["refund"].row \in RefundRows
  BY DEF Calls, Typed, RowsTyped, CallsSound
<1>2. call'["refund"] = call["refund"]
  <2>1. CASE RecordRefund
    BY <1>1, <2>1 DEF RecordRefund, StartRecord, OpenRecorded, SettleRecorded, FlagForAttention,
                      AfterFlag, CloseOrder, GoTo, End
  <2>2. CASE ~RecordRefund
    BY <2>2, RefundElsewhere
  <2> QED BY <2>1, <2>2
<1>3. InProgress("refund")
  BY <1>2 DEF InProgress, At
<1>4. ASSUME call["refund"].pc \in {"provider", "settle", "label"}
      PROVE  refund'[call["refund"].row].of = refund[call["refund"].row].of
  <2>1. PICK r \in RefundRows : r = call["refund"].row
    BY <1>1, <1>4
  <2>2. refund[r].state # "none"
    BY <1>4, <2>1 DEF LedgerInv, RowsApart, At
  <2>3. CASE ~RecordRefund
    BY <2>1, <2>3, RefundElsewhere
  <2>4. CASE OpenRecorded
    BY <1>1, <2>1, <2>2, <2>4, FreeRowIsRow DEF OpenRecorded
  <2>5. CASE SettleRecorded \/ FlagForAttention
    BY <1>1, <2>1, <2>5 DEF SettleRecorded, FlagForAttention, RefundRow
  <2>6. CASE StartRecord \/ CloseOrder("record")
    BY <2>1, <2>6 DEF StartRecord, CloseOrder, money
  <2> QED BY <2>3, <2>4, <2>5, <2>6 DEF RecordRefund
<1>5. ASSUME NEW k \in Kinds \ late', payment'[k] = "succeeded"
      PROVE  k \in Kinds \ late /\ payment[k] = "succeeded"
  <2>1. CASE \E j \in Kinds : Capture(j)
    BY <1>3, <1>5, <2>1, CaptureMarks
  <2>2. CASE \A j \in Kinds : ~Capture(j)
    BY <1>5, <2>2, PaymentsStay DEF RefundInApp
  <2> QED BY <2>1, <2>2
<1> QED BY <1>2, <1>4, <1>5 DEF WholeRefund

\* No charge is forgotten, and none is added while the refund runs but those
\* captured in its midst.
LEMMA WholeRefundStep ==
  Typed /\ RefundInv /\ LedgerInv /\ LateWasCaptured /\ WholeRefund /\ [Next]_vars => WholeRefund'
<1> SUFFICES ASSUME Typed, RefundInv, LedgerInv, LateWasCaptured, WholeRefund, [Next]_vars
             PROVE  WholeRefund'
  OBVIOUS
<1>1. /\ "refund" \in Calls /\ call \in [Calls -> CallRow]
      /\ call["refund"] \in CallRow /\ refund \in [RefundRows -> RefundRow]
      /\ payment \in [Kinds -> {"none", "succeeded", "refunded"}]
      /\ call["refund"].pc \in {"provider", "settle", "label"} => call["refund"].row \in RefundRows
  BY DEF Calls, Typed, RowsTyped, CallsSound
<1>2. CASE UNCHANGED vars
  BY <1>2 DEF vars, money, WholeRefund
<1>3. CASE call'["refund"].pc = "idle"
  BY <1>3 DEF WholeRefund
<1>4. CASE Next /\ call'["refund"].pc # "idle" /\ ~RefundInApp
  BY <1>4, WholeRefundElsewhere
<1>5. CASE StartRefund
  <2>1. /\ call'["refund"].pc = "open" /\ UNCHANGED <<money, late>>
        /\ call'["refund"].todo = {k \in Kinds : payment[k] = "succeeded"}
    BY <1>1, <1>5 DEF StartRefund, CallRow
  <2> QED BY <2>1 DEF WholeRefund, money
<1>6. CASE OpenRefund
  <2>1. PICK r \in FreeRow :
          /\ refund'[r].of = NextCharge
          /\ call'["refund"].pc = "provider" /\ call'["refund"].row = r
          /\ call'["refund"].todo = call["refund"].todo \ {NextCharge}
    BY <1>6, RowOpened
  <2>2. payment' = payment /\ late' = late /\ call["refund"].pc = "open"
    BY <1>6 DEF OpenRefund, At
  <2> QED BY <2>1, <2>2 DEF WholeRefund
<1>7. CASE CreateRefund \/ SettleRefund
  <2>1. /\ call["refund"].pc \in {"provider", "settle"} /\ payment' = payment /\ late' = late
        /\ refund'[call["refund"].row].of = refund[call["refund"].row].of
    BY <1>1, <1>7 DEF CreateRefund, SettleRefund, At, RefundRow
  <2>2. \/ call'["refund"].pc = "idle"
        \/ /\ call'["refund"].pc \in {"settle", "label"} /\ call'["refund"].row = call["refund"].row
           /\ call'["refund"].todo = call["refund"].todo
    BY <1>1, <1>7, CallGoes DEF CreateRefund, SettleRefund, Answer, RefundPcs, Payouts
  <2> QED BY <1>3, <2>1, <2>2 DEF WholeRefund
<1>8. CASE MarkPaymentRefunded
  <2>1. /\ call["refund"].pc = "label" /\ call["refund"].row \in RefundRows
        /\ payment' = [payment EXCEPT ![refund[call["refund"].row].of] = "refunded"]
        /\ call'["refund"].pc = IF call["refund"].todo = {} THEN "cancel" ELSE "open"
        /\ call'["refund"].todo = call["refund"].todo /\ late' = late
    BY <1>1, <1>8 DEF MarkPaymentRefunded, At, CallRow
  <2>2. refund[call["refund"].row].of \in Kinds
    BY <1>1, <2>1 DEF RefundRow
  <2>3. \A k \in Kinds \ late : payment'[k] = "succeeded" => k \in call["refund"].todo
    BY <1>1, <2>1, <2>2 DEF WholeRefund
  <2> QED BY <2>1, <2>3 DEF WholeRefund
<1>9. CASE CloseOrder("refund")
  <2>1. call["refund"].pc \in {"cancel", "close"} /\ payment' = payment /\ late' = late
    BY <1>9 DEF CloseOrder, At, money
  <2> QED BY <2>1 DEF WholeRefund
<1> QED BY <1>2, <1>3, <1>4, <1>5, <1>6, <1>7, <1>8, <1>9 DEF RefundInApp

\* What an administrator records in full is all that is left.
RestIsRecorded ==
  LET its == call["record"]
  IN /\ its.pc \in {"open", "settle"} /\ its.full => NetCaptured <= dashboard + LateSum
     /\ its.pc \in {"cancel", "close"} => its.full
     /\ its.pc \in {"flag", "cancel", "close"} /\ its.full => NetCaptured <= LateSum

\* Somebody else's step adds nothing to what is left but what it marks.
LEMMA RestIsRecordedElsewhere ==
  ASSUME Typed, RefundInv, LedgerInv, LateWasCaptured, RestIsRecorded, Next,
         ~RecordRefund, call'["record"].pc # "idle"
  PROVE  RestIsRecorded'
<1>1. /\ "record" \in Calls /\ "refund" \in Calls \ {"record"} /\ call \in [Calls -> CallRow]
      /\ dashboard \in Nat
  BY DEF Calls, Typed, RowsTyped
<1>2. call'["record"] = call["record"]
  <2>1. CASE RefundInApp
    BY <1>1, <2>1 DEF RefundInApp, StartRefund, OpenRefund, OpenRow, CreateRefund, Answer,
                      SettleRefund, MarkPaymentRefunded, CloseOrder, GoTo, End
  <2>2. CASE ~RefundInApp
    BY <2>2, RefundElsewhere
  <2> QED BY <2>1, <2>2
<1>3. InProgress("record")
  BY <1>2 DEF InProgress, At
<1>4. NetCaptured' + LateSum <= NetCaptured + LateSum'
  BY <1>3, KeptFalls
<1>5. call["record"].pc \in {"open", "settle"} => dashboard' = dashboard
  <2>1. CASE RefundInApp
    BY <2>1 DEF RefundInApp, StartRefund, OpenRefund, CreateRefund, SettleRefund,
                MarkPaymentRefunded, CloseOrder, money
  <2>2. CASE ~RefundInApp
    BY <1>1, <2>2, MoneyElsewhere DEF LedgerInv, RowsApart, At
  <2> QED BY <2>1, <2>2
<1>6. /\ NetCaptured \in Int /\ NetCaptured' \in Int /\ LateSum \in Nat /\ LateSum' \in Nat
  BY StepTyped, NetNow, NetNext, LateNow, LateNext DEF AmountsAreNumbers
<1>7. PICK n, n2 \in Int : n = NetCaptured /\ n2 = NetCaptured'
  BY <1>6
<1>8. PICK l, l2 \in Nat : l = LateSum /\ l2 = LateSum'
  BY <1>6
<1>9. n2 + l <= n + l2
  BY <1>4, <1>7, <1>8
<1>10. /\ n <= dashboard + l => n2 <= dashboard + l2
       /\ n <= l => n2 <= l2
  BY <1>1, <1>9
<1> QED BY <1>2, <1>5, <1>7, <1>8, <1>10 DEF RestIsRecorded

\* Settling takes the whole of a full record off the net.
LEMMA RestIsRecordedStep ==
  Typed /\ RefundInv /\ LedgerInv /\ LateWasCaptured /\ RestIsRecorded /\ [Next]_vars
    => RestIsRecorded'
<1> SUFFICES ASSUME Typed, RefundInv, LedgerInv, LateWasCaptured, RestIsRecorded, [Next]_vars
             PROVE  RestIsRecorded'
  OBVIOUS
<1>1. /\ "record" \in Calls /\ call \in [Calls -> CallRow]
      /\ call["record"] \in CallRow /\ refund \in [RefundRows -> RefundRow]
      /\ call["record"].pc \in {"settle", "flag"} => call["record"].row \in RefundRows
      /\ dashboard \in Nat /\ NetCaptured \in Int /\ LateSum \in Nat
  BY NetNow, LateNow DEF Calls, Typed, RowsTyped, CallsSound, AmountsAreNumbers
<1>2. CASE UNCHANGED vars
  <2>1. NetCaptured' = NetCaptured /\ LateSum' = LateSum
    BY <1>2, NetStays DEF vars, money, Given, LateSum, Excused
  <2> QED BY <1>2, <2>1 DEF vars, money, RestIsRecorded
<1>3. CASE call'["record"].pc = "idle"
  BY <1>3 DEF RestIsRecorded
<1>4. CASE Next /\ call'["record"].pc # "idle" /\ ~RecordRefund
  BY <1>4, RestIsRecordedElsewhere
<1>5. CASE StartRecord
  <2>1. /\ UNCHANGED <<money, late>> /\ dashboard <= NetCaptured
        /\ call'["record"].pc = "open" /\ (call'["record"].full => dashboard >= NetCaptured)
    BY <1>1, <1>5 DEF StartRecord, CallRow
  <2>2. NetCaptured' = NetCaptured /\ LateSum' = LateSum /\ dashboard' = dashboard
    BY <2>1, NetStays DEF money, Given, LateSum, Excused
  <2>3. call'["record"].full => NetCaptured <= dashboard + LateSum
    BY <1>1, <2>1
  <2> QED BY <2>1, <2>2, <2>3 DEF RestIsRecorded
<1>6. CASE OpenRecorded
  <2>1. PICK r \in FreeRow :
          /\ refund' = [refund EXCEPT ![r] =
               [state |-> "requested", of |-> "deposit", amount |-> dashboard, made |-> TRUE]]
          /\ call' = [call EXCEPT !["record"].pc = "settle", !["record"].row = r]
    BY <1>6 DEF OpenRecorded
  <2>2. r \in RefundRows /\ refund[r].state = "none" /\ UNCHANGED <<payment, dashboard, late>>
        /\ call["record"].pc = "open"
    BY <1>6, FreeRowIsRow DEF OpenRecorded, At
  <2>3. /\ call'["record"].pc = "settle" /\ call'["record"].full = call["record"].full
        /\ \A q \in RefundRows : Given(q)' = Given(q)
    BY <1>1, <2>1, <2>2 DEF CallRow, Given
  <2>4. NetCaptured' = NetCaptured /\ LateSum' = LateSum
    BY <2>2, <2>3, NetStays DEF LateSum, Excused
  <2> QED BY <2>2, <2>3, <2>4 DEF RestIsRecorded
<1>7. CASE SettleRecorded
  <2>1. PICK r \in RefundRows : r = call["record"].row
    BY <1>1, <1>7 DEF SettleRecorded, At
  <2>2. /\ refund[r].state = "requested" /\ refund[r].amount = dashboard
        /\ call["record"].pc = "settle"
    BY <1>7, <2>1 DEF SettleRecorded, LedgerInv, RowsApart, At
  <2>3. /\ call'["record"].pc = "flag" /\ call'["record"].row = r
        /\ call'["record"].full = call["record"].full
    BY <1>1, <1>7, <2>1, CallGoes DEF SettleRecorded, RefundPcs
  <2>4. /\ refund'[r].state = "settled" /\ refund'[r].amount = dashboard
        /\ \A p \in RefundRows \ {r} : refund'[p] = refund[p]
        /\ payment' = payment /\ late' = late
    BY <1>1, <1>7, <2>1, <2>2 DEF SettleRecorded, RefundRow
  <2>5. Given(r) = 0 /\ Given(r)' = dashboard
    BY <2>2, <2>4 DEF Given
  <2>6. \A p \in RefundRows \ {r} : BeingRecorded(p)' <=> BeingRecorded(p)
    BY <2>1, <2>3 DEF BeingRecorded, At
  <2>7. Typed'
    BY <1>7, RecordStepTyped DEF RecordRefund
  <2>8. GivenBack' + Given(r) = GivenBack + Given(r)'
    BY <2>4, <2>6, <2>7, RowWritten
  <2>9. TakenIn' = TakenIn /\ LateSum' = LateSum
    BY <2>4 DEF TakenIn, Captured, LateSum, Excused
  <2>10. /\ AmountsAreNumbers /\ AmountsAreNumbers'
    BY <2>7, NetNow, NetNext
  <2>11. PICK g, g2, t, d, l \in Nat :
           /\ g = GivenBack /\ g2 = GivenBack' /\ t = TakenIn /\ d = dashboard /\ l = LateSum
    BY <1>1, <2>10 DEF AmountsAreNumbers
  <2>12. g2 + 0 = g + d /\ NetCaptured = t - g /\ NetCaptured' = t - g2
    BY <2>5, <2>8, <2>9, <2>10, <2>11 DEF AmountsAreNumbers
  <2>13. ASSUME NetCaptured <= dashboard + LateSum PROVE NetCaptured' <= LateSum'
    <3>1. t - g <= d + l
      BY <2>11, <2>12, <2>13
    <3>2. t - g2 <= l
      BY <2>12, <3>1
    <3> QED BY <2>9, <2>11, <2>12, <3>2
  <2> QED BY <2>2, <2>3, <2>13 DEF RestIsRecorded
<1>8. CASE FlagForAttention
  <2>1. PICK r \in RefundRows : r = call["record"].row
    BY <1>1, <1>8 DEF FlagForAttention, At
  <2>2. /\ refund[r].state = "settled" /\ call["record"].pc = "flag"
        /\ payment' = payment /\ late' = late
    BY <1>8, <2>1 DEF FlagForAttention, LedgerInv, RowsApart, At
  <2>3. \A q \in RefundRows : Given(q)' = Given(q)
    BY <1>1, <1>8, <2>1, <2>2 DEF FlagForAttention, Given, RefundRow
  <2>4. NetCaptured' = NetCaptured /\ LateSum' = LateSum
    BY <2>2, <2>3, NetStays DEF LateSum, Excused
  <2>5. \/ call'["record"].pc = "idle"
        \/ /\ call'["record"].pc \in {"close", "cancel"} /\ call["record"].full
           /\ call'["record"].full = call["record"].full
    <3>1. AfterFlag
      BY <1>8 DEF FlagForAttention
    <3> DEFINE ended == ~call["record"].full \/ call["record"].reason = "refunded"
    <3>2. CASE ended
      <4>1. End("record", "idle")
        BY <3>1, <3>2 DEF AfterFlag
      <4> QED BY <1>1, <4>1, CallGoes DEF RefundPcs
    <3>3. CASE ~ended
      <4>1. \E pc \in {"close", "cancel"} : GoTo("record", pc)
        BY <3>1, <3>3 DEF AfterFlag
      <4> QED BY <1>1, <3>3, <4>1, CallGoes DEF RefundPcs
    <3> QED BY <3>2, <3>3
  <2> QED BY <1>3, <2>2, <2>4, <2>5 DEF RestIsRecorded
<1>9. CASE CloseOrder("record")
  <2>1. call["record"].pc \in {"cancel", "close"} /\ UNCHANGED <<money, late>>
    BY <1>9 DEF CloseOrder, At
  <2>2. \/ call'["record"].pc = "idle"
        \/ call'["record"].pc = "close" /\ call'["record"].full = call["record"].full
    BY <1>1, <1>9, CallGoes DEF CloseOrder, RefundPcs
  <2>3. NetCaptured' = NetCaptured /\ LateSum' = LateSum
    BY <2>1, NetStays DEF money, Given, LateSum, Excused
  <2> QED BY <1>3, <2>1, <2>2, <2>3 DEF RestIsRecorded
<1> QED BY <1>2, <1>3, <1>4, <1>5, <1>6, <1>7, <1>8, <1>9 DEF RecordRefund

\* Only a refund's last transaction ends an order as refunded, and nothing moves
\* it on.
LEMMA OnlyClosingRefunds ==
  ASSUME Next
  PROVE  /\ state = "refunded" => state' = state /\ ~\E k \in Kinds : Capture(k)
         /\ state # "refunded" /\ state' = "refunded" =>
              \E c \in {"refund", "record"} : CloseOrder(c) /\ At(c, "close")
<1>1. ASSUME NEW to, Move(to)
      PROVE  state' = to /\ state # "refunded"
  BY <1>1 DEF Move, ApplyTransition, CanTransition, Allowed
<1>2. ASSUME NEW k \in Kinds, Capture(k)
      PROVE  state' = "confirmed" /\ state # "refunded"
  BY <1>1, <1>2 DEF Capture
<1>3. CASE Proceed
  BY <1>1, <1>2, <1>3 DEF Proceed
<1>4. CASE CompletionStep
  BY <1>1, <1>2, <1>4 DEF CompletionStep, ReadDelivered, CompleteOrder, rows
<1>5. ASSUME NEW c \in {"refund", "record"}, CloseOrder(c)
      PROVE  /\ state = "refunded" => state' = state
             /\ state # "refunded" /\ state' = "refunded" => At(c, "close")
  BY <1>1, <1>5 DEF CloseOrder, rows
<1>6. CASE state' = state
  BY <1>2, <1>6
<1>7. \/ \E k \in Kinds : Capture(k)
      \/ Proceed \/ CompletionStep
      \/ \E c \in {"refund", "record"} : CloseOrder(c)
      \/ state' = state
  BY NextByGroup
     DEF OrderStep, VendorStep, JobStep, ShareStep, CloseWindow, RefundInApp, RecordRefund, StartRefund,
         OpenRefund, CreateRefund, SettleRefund, MarkPaymentRefunded, StartRecord, OpenRecorded,
         SettleRecorded, FlagForAttention, RefundInDashboard, Suspend, Reinstate, Onboard, Die,
         StartJob, Requeue, FinishJob, Decide, ClaimTransfer, HoldTransfer, CreateTransfer,
         MarkTransferPaid, rows
<1> QED BY <1>2, <1>3, <1>4, <1>5, <1>6, <1>7

\* The order ends as refunded in the last step of a refund of everything, and
\* nothing is captured on it after that.
RefundedIsOver == state = "refunded" => NetCaptured <= LateSum

LEMMA RefundedIsOverStep ==
  /\ Typed /\ RefundInv /\ LateWasCaptured /\ LabelHasRow /\ WholeRefund /\ RestIsRecorded
  /\ RefundedIsOver /\ [Next]_vars
  => RefundedIsOver'
<1> SUFFICES ASSUME Typed, RefundInv, LateWasCaptured, LabelHasRow, WholeRefund, RestIsRecorded,
                    RefundedIsOver, [Next]_vars, state' = "refunded"
             PROVE  NetCaptured' <= LateSum'
  BY DEF RefundedIsOver
<1>1. CASE UNCHANGED vars
  <2>1. NetCaptured' = NetCaptured /\ LateSum' = LateSum
    BY <1>1, NetStays DEF vars, money, Given, LateSum, Excused
  <2> QED BY <1>1, <2>1 DEF vars, rows, RefundedIsOver
<1>2. CASE Next /\ state = "refunded"
  <2>1. NetCaptured' + LateSum <= NetCaptured + LateSum'
    BY <1>2, OnlyClosingRefunds, KeptFalls
  <2>2. NetCaptured <= LateSum
    BY <1>2 DEF RefundedIsOver
  <2>3. NetCaptured \in Int /\ NetCaptured' \in Int /\ LateSum \in Nat /\ LateSum' \in Nat
    BY StepTyped, NetNow, NetNext, LateNow, LateNext DEF AmountsAreNumbers
  <2>4. PICK n, n2 \in Int : n = NetCaptured /\ n2 = NetCaptured'
    BY <2>3
  <2>5. PICK l, l2 \in Nat : l = LateSum /\ l2 = LateSum'
    BY <2>3
  <2>6. n2 + l <= n + l2 /\ n <= l
    BY <2>1, <2>2, <2>4, <2>5
  <2>7. n2 <= l2
    BY <2>6
  <2> QED BY <2>4, <2>5, <2>7
<1>3. CASE Next /\ state # "refunded"
  <2>1. PICK c \in {"refund", "record"} : CloseOrder(c) /\ At(c, "close")
    BY <1>3, OnlyClosingRefunds
  <2>2. UNCHANGED <<money, late>>
    BY <2>1 DEF CloseOrder
  <2>3. NetCaptured' = NetCaptured /\ LateSum' = LateSum
    BY <2>2, NetStays DEF money, Given, LateSum, Excused
  <2>4. CASE c = "record"
    BY <2>1, <2>3, <2>4 DEF RestIsRecorded, At
  <2>5. CASE c = "refund"
    <3>1. \A k \in Kinds \ late : payment[k] # "succeeded"
      BY <2>1, <2>5 DEF WholeRefund, At
    <3> QED BY <2>3, <3>1, AllLabelled
  <2> QED BY <2>4, <2>5
<1> QED BY <1>1, <1>2, <1>3

\* An order that ended as refunded keeps nothing of the customer's but what was
\* captured while one of its refunds was in progress: the refund inside the
\* application has labelled every other charge by the time it ends the order
\* (refundWithinCoolingWindow), and one recorded from the dashboard ends it only
\* when it was all that was left (recordExternalRefund).
THEOREM RefundedOrderKeepsNothing == Spec => []RefundedOrderIsEmpty
<1> DEFINE Kept == /\ IInv /\ LedgerInv /\ LabelHasRow /\ LateWasCaptured
                   /\ WholeRefund /\ RestIsRecorded /\ RefundedIsOver
<1>1. Init => Kept
  <2>1. Init => \A c \in Calls : call[c].pc = "idle"
    BY DEF Init, Idle
  <2>2. Init => RestIsRecorded
    BY <2>1, KindsOfPayouts DEF RestIsRecorded
  <2>3. Init => LabelHasRow /\ WholeRefund /\ RefundedIsOver /\ LateWasCaptured
    BY DEF Init, OrderCreated, LabelHasRow, WholeRefund, RefundedIsOver, LateWasCaptured
  <2> QED BY <2>2, <2>3, InitHolds, LedgerBegins
<1>2. Kept /\ [Next]_vars => Kept'
  <2>1. Kept /\ [Next]_vars => IInv'
    BY StepTyped, ShareStepAll, StandingStep, CompletionStepAll, RefundStepAll DEF IInv
  <2> QED BY <2>1, LedgerStep, LabelHasRowStep, LateWasCapturedStep, WholeRefundStep,
             RestIsRecordedStep, RefundedIsOverStep DEF IInv
<1>3. Kept => RefundedOrderIsEmpty
  BY LateNow DEF IInv, RefundedIsOver, RefundedOrderIsEmpty
<1> HIDE DEF Kept
<1> QED BY <1>1, <1>2, <1>3, PTL DEF Spec

\* The ledger says what the provider did, and a delivered booking's completion is
\* never spent (the conjunction the runs check).
THEOREM LedgerIsConsistent == Spec => []Consistent
BY PayoutsAreTyped, LedgerStaysPositive, LabelledIsReturned, RefundedOrderKeepsNothing,
   DeliveredIsCompleted, PTL DEF Consistent

-----------------------------------------------------------------------------
(* The lifecycle.                                                          *)

\* A payout's row is its runner's while the call goes on.
RunnersOwnRows == \A type \in Payouts : InProgress(type) => job[type] = "running"

\* Only a claim begins a payout.
LEMMA OnlyClaimsBegin ==
  ASSUME Typed, Next, NEW type \in Payouts, ~StartJob(type)
  PROVE  InProgress(type)' => InProgress(type)
<1>1. /\ type \in Calls /\ type \notin {"refund", "record"} /\ call \in [Calls -> CallRow]
      /\ "auto_complete_order" \in Payouts /\ "refund" \in Calls /\ "record" \in Calls
      /\ Payouts \subseteq Calls
  BY KindsOfPayouts DEF Typed, RowsTyped, Payouts
<1> USE DEF InProgress, At
<1>2. CASE OrderStep \/ RefundInDashboard \/ VendorStep
  BY <1>2 DEF OrderStep, VendorStep, Capture, Proceed, CloseWindow, Elsewhere, RefundInDashboard,
              Suspend, Reinstate, Onboard
<1>3. CASE CompletionStep
  <2>1. /\ call["auto_complete_order"].pc # "idle"
        /\ \E pc \in {"complete", "decide", "done", "held", "threw"} :
             GoTo("auto_complete_order", pc) \/ End("auto_complete_order", pc)
    BY <1>3 DEF CompletionStep, ReadDelivered, CompleteOrder
  <2> QED BY <1>1, <2>1, CallGoes DEF PayoutPcs
<1>4. CASE RefundInApp
  BY <1>1, <1>4 DEF RefundInApp, StartRefund, OpenRefund, OpenRow, CreateRefund, Answer,
                    SettleRefund, MarkPaymentRefunded, CloseOrder, GoTo, End
<1>5. CASE RecordRefund
  BY <1>1, <1>5 DEF RecordRefund, StartRecord, OpenRecorded, SettleRecorded, FlagForAttention,
                    AfterFlag, CloseOrder, GoTo, End
<1>6. CASE Die
  <2>1. \E c \in Calls : End(c, "idle")
    BY <1>6, PayoutAssumption DEF Die, PayoutAssumption
  <2> QED BY <1>1, <2>1, CallGoes DEF PayoutPcs
<1>7. ASSUME NEW other \in Payouts, ShareStep(other)
      PROVE  InProgress(type)' => InProgress(type)
  <2>1. call[other].pc # "idle"
    BY <1>7 DEF ShareStep, Decide, ClaimTransfer, HoldTransfer, CreateTransfer, MarkTransferPaid
  <2>2. \A d \in Calls \ {other} : call'[d] = call[d]
    BY <1>1, <1>7 DEF ShareStep, Decide, ClaimTransfer, HoldTransfer, CreateTransfer,
                      MarkTransferPaid, Answer, GoTo, End
  <2> QED BY <1>1, <2>1, <2>2
<1>8. ASSUME NEW other \in Payouts, JobStep(other)
      PROVE  InProgress(type)' => InProgress(type)
  <2>1. CASE StartJob(other)
    BY <1>1, <2>1 DEF StartJob, GoTo
  <2>2. CASE Requeue(other)
    BY <2>2 DEF Requeue
  <2>3. CASE FinishJob(other)
    BY <1>1, <2>3 DEF FinishJob, End, Idle
  <2> QED BY <1>8, <2>1, <2>2, <2>3 DEF JobStep
<1> QED BY <1>2, <1>3, <1>4, <1>5, <1>6, <1>7, <1>8, NextByGroup

\* Moves and suspensions leave a running row alone.
LEMMA RunningStays ==
  ASSUME Typed, Next, NEW type \in Payouts, ~FinishJob(type), job[type] = "running"
  PROVE  job'[type] = "running"
<1>1. type \in JobTypes /\ job \in [JobTypes -> JobStatus] /\ Payouts \subseteq JobTypes
  BY KindsOfPayouts DEF Typed, RowsTyped, RowsTypeOK
<1>2. ASSUME NEW to, Move(to) PROVE job'[type] = "running"
  BY <1>1, <1>2 DEF Move, ApplyTransition, JobsAfterMove, Enqueued, CalledOff
<1>3. CASE OrderStep \/ CompletionStep
  <2>1. UNCHANGED rows \/ \E to : Move(to)
    BY <1>3 DEF OrderStep, CompletionStep, Capture, Proceed, CloseWindow, ReadDelivered, CompleteOrder
  <2> QED BY <1>2, <2>1 DEF rows
<1>4. CASE RefundInApp \/ RecordRefund
  <2>1. UNCHANGED rows \/ \E to : Move(to)
    BY <1>4 DEF RefundInApp, RecordRefund, StartRefund, OpenRefund, CreateRefund, SettleRefund,
                MarkPaymentRefunded, CloseOrder, StartRecord, OpenRecorded, SettleRecorded,
                FlagForAttention
  <2> QED BY <1>2, <2>1 DEF rows
<1>5. CASE RefundInDashboard \/ Onboard \/ Die
  BY <1>5 DEF RefundInDashboard, Onboard, Die, rows
<1>6. CASE Suspend \/ Reinstate
  BY <1>1, <1>6 DEF Suspend, Reinstate, SetJob
<1>7. CASE \E other \in Payouts : ShareStep(other)
  BY <1>7 DEF ShareStep, Decide, ClaimTransfer, HoldTransfer, CreateTransfer, MarkTransferPaid, rows
<1>8. ASSUME NEW other \in Payouts, JobStep(other) PROVE job'[type] = "running"
  BY <1>1, <1>8 DEF JobStep, StartJob, Requeue, FinishJob, ClaimRow, RequeueRow, SetJob
<1> QED BY <1>3, <1>4, <1>5, <1>6, <1>7, <1>8, NextByGroup DEF VendorStep

LEMMA OwnershipStep ==
  Typed /\ RunnersOwnRows /\ [Next]_vars => RunnersOwnRows'
<1> SUFFICES ASSUME Typed, RunnersOwnRows, [Next]_vars, NEW type \in Payouts, InProgress(type)'
             PROVE  job'[type] = "running"
  BY DEF RunnersOwnRows
<1>1. CASE UNCHANGED vars
  BY <1>1 DEF vars, rows, RunnersOwnRows, InProgress, At
<1>2. CASE StartJob(type)
  BY <1>2, KindsOfPayouts DEF StartJob, ClaimRow, SetJob, Typed, RowsTyped, RowsTypeOK
<1>3. CASE Next /\ ~StartJob(type)
  <2>1. InProgress(type)
    BY <1>3, OnlyClaimsBegin
  <2>2. ~FinishJob(type)
    BY KindsOfPayouts DEF FinishJob, End, Idle, InProgress, At, Typed, RowsTyped
  <2> QED BY <1>3, <2>1, <2>2, RunningStays DEF RunnersOwnRows
<1> QED BY <1>1, <1>2, <1>3

\* The abstract module's move is the same transaction.
LEMMA SameMove ==
  ASSUME NEW to
  PROVE  Move(to) <=> Lifecycle!Move(to)
<1>1. JobsAfterMove(state, to) = Lifecycle!JobsAfterMove(state, to)
  BY DEF JobsAfterMove, JobsOnEntering, OnEntering, JobTypes, CancelsQueuedJobs,
         JobsCancelledOnLeaving, Enqueued, CalledOff, IsTerminal, Allowed,
         ReleasesCapacity, CapacityIn,
         Lifecycle!JobsAfterMove, Lifecycle!JobsOnEntering, Lifecycle!OnEntering,
         Lifecycle!JobTypes, Lifecycle!CancelsQueuedJobs,
         Lifecycle!JobsCancelledOnLeaving, Lifecycle!Enqueued, Lifecycle!CalledOff,
         Lifecycle!IsTerminal, Lifecycle!Allowed, Lifecycle!ReleasesCapacity,
         Lifecycle!CapacityIn
<1>2. Retired(to) = Lifecycle!Retired(to)
  BY DEF Retired, Lifecycle!Retired
<1>3. CanTransition(state, to) <=> Lifecycle!CanTransition(state, to)
  BY DEF CanTransition, Allowed, Lifecycle!CanTransition, Lifecycle!Allowed
<1>4. /\ ReleasesCapacity(to) <=> Lifecycle!ReleasesCapacity(to)
      /\ RetiresPaymentLinks(state, to) <=> Lifecycle!RetiresPaymentLinks(state, to)
  BY DEF ReleasesCapacity, CapacityIn, RetiresPaymentLinks, IsTerminal, Allowed,
         Lifecycle!ReleasesCapacity, Lifecycle!CapacityIn,
         Lifecycle!RetiresPaymentLinks, Lifecycle!IsTerminal, Lifecycle!Allowed
<1> QED BY <1>1, <1>2, <1>3, <1>4
        DEF Move, ApplyTransition, GraceAfterMove,
            Lifecycle!Move, Lifecycle!ApplyTransition, Lifecycle!GraceAfterMove


\* Who moves the order asks for a move some caller of the lifecycle asks for.
LEMMA MovesAreCallers ==
  ASSUME OrderStep \/ CompletionStep \/ RefundInApp \/ RecordRefund
  PROVE  UNCHANGED rows \/ Lifecycle!MoveOrder
<1>1. ASSUME NEW to \in {"confirmed", "fulfilled", "issue", "completed", "cancelled", "refunded"},
             Move(to)
      PROVE  Lifecycle!MoveOrder
  BY <1>1, SameMove
     DEF Lifecycle!MoveOrder, Lifecycle!ConfirmPaid, Lifecycle!MarkFulfilled, Lifecycle!RaiseIssue,
         Lifecycle!AutoComplete, Lifecycle!CancelOrder, Lifecycle!RefundOrder
<1>2. CASE OrderStep
  <2>1. CASE HasBalance /\ Move("balance_due")
    BY <2>1, SameMove DEF Lifecycle!MoveOrder, Lifecycle!StartBalanceCharge
  <2>2. \/ UNCHANGED rows
        \/ HasBalance /\ Move("balance_due")
        \/ \E to \in {"confirmed", "fulfilled", "issue", "cancelled"} : Move(to)
    BY <1>2 DEF OrderStep, Capture, Proceed, CloseWindow
  <2> QED BY <1>1, <2>1, <2>2
<1>3. CASE CompletionStep
  <2>1. UNCHANGED rows \/ Move("completed")
    BY <1>3 DEF CompletionStep, ReadDelivered, CompleteOrder
  <2> QED BY <1>1, <2>1
<1>4. CASE RefundInApp \/ RecordRefund
  <2>1. UNCHANGED rows \/ Move("cancelled") \/ Move("refunded")
    BY <1>4 DEF RefundInApp, RecordRefund, StartRefund, OpenRefund, CreateRefund, SettleRefund,
                MarkPaymentRefunded, CloseOrder, StartRecord, OpenRecorded, SettleRecorded,
                FlagForAttention
  <2> QED BY <1>1, <2>1
<1> QED BY <1>2, <1>3, <1>4

\* A payout's row changes hands as any row of the queue does: it says done of a
\* completion only once the order is over.
LEMMA JobsAreQueued ==
  ASSUME IInv, RunnersOwnRows, NEW type \in Payouts, JobStep(type)
  PROVE  Lifecycle!RunQueue
<1>1. type \in Lifecycle!JobTypes
  BY DEF Payouts, Lifecycle!JobTypes
<1>2. CASE StartJob(type)
  <2>1. Lifecycle!ClaimJob(type)
    BY <1>2 DEF StartJob, ClaimRow, SetJob, Lifecycle!ClaimJob, Lifecycle!ClaimRow, Lifecycle!SetJob
  <2> QED BY <1>1, <2>1 DEF Lifecycle!RunQueue
<1>3. CASE Requeue(type)
  <2>1. Lifecycle!RequeueJob(type)
    BY <1>3 DEF Requeue, RequeueRow, SetJob, Lifecycle!RequeueJob, Lifecycle!RequeueRow, Lifecycle!SetJob
  <2> QED BY <1>1, <2>1 DEF Lifecycle!RunQueue
<1>4. CASE FinishJob(type)
  <2>1. job[type] = "running" /\ UNCHANGED <<state, graceOpen, dateHeld, link>>
    BY <1>4 DEF FinishJob, RunnersOwnRows, InProgress, At
  <2>2. CASE At(type, "done") /\ SetJob(type, "done")
    <3>1. Lifecycle!MayFinish(type)
      <4>1. type = "auto_complete_order" => Lifecycle!IsTerminal(state)
        BY <2>2 DEF IInv, CompletionInv, At, IsTerminal, Allowed, Lifecycle!IsTerminal, Lifecycle!Allowed,
                    ReleasesCapacity, CapacityIn, Lifecycle!ReleasesCapacity, Lifecycle!CapacityIn
      <4> QED BY <4>1 DEF Payouts, Lifecycle!MayFinish
    <3> QED BY <1>1, <2>1, <2>2, <3>1
            DEF SetJob, Lifecycle!FinishJob, Lifecycle!SetJob, Lifecycle!RunQueue
  <2>3. CASE SetJob(type, "held")
    <3>1. Lifecycle!HoldJob(type)
      BY <2>1, <2>3 DEF Payouts, SetJob, Lifecycle!HoldJob, Lifecycle!MayHold, Lifecycle!SetJob
    <3> QED BY <1>1, <3>1 DEF Lifecycle!RunQueue
  <2>4. CASE \E status \in {"queued", "failed"} : SetJob(type, status)
    <3>1. Lifecycle!RetryJob(type)
      BY <2>1, <2>4 DEF SetJob, Lifecycle!RetryJob, Lifecycle!SetJob
    <3> QED BY <1>1, <3>1 DEF Lifecycle!RunQueue
  <2> QED BY <1>4, <2>2, <2>3, <2>4 DEF FinishJob
<1> QED BY <1>2, <1>3, <1>4 DEF JobStep

LEMMA StepImplementsLifecycle ==
  IInv /\ RunnersOwnRows /\ [Next]_vars => [Lifecycle!Next]_(Lifecycle!rows)
<1> SUFFICES ASSUME IInv, RunnersOwnRows, [Next]_vars
             PROVE  UNCHANGED rows \/ Lifecycle!Next
  BY DEF rows, Lifecycle!rows
<1>1. CASE OrderStep \/ CompletionStep \/ RefundInApp \/ RecordRefund
  BY <1>1, MovesAreCallers DEF Lifecycle!Next
<1>2. CASE \E type \in Payouts : JobStep(type)
  BY <1>2, JobsAreQueued DEF Lifecycle!Next
<1>3. CASE \E type \in Payouts : ShareStep(type)
  BY <1>3 DEF ShareStep, Decide, ClaimTransfer, HoldTransfer, CreateTransfer, MarkTransferPaid
<1>4. CASE RefundInDashboard \/ Onboard \/ Die
  BY <1>4 DEF RefundInDashboard, Onboard, Die
<1>5. CASE Suspend
  <2>1. UNCHANGED rows \/ Lifecycle!ParkTransfer
    BY <1>5 DEF Suspend, rows, SetJob, Lifecycle!ParkTransfer, Lifecycle!SetJob
  <2> QED BY <2>1 DEF Lifecycle!Next
<1>6. CASE Reinstate
  <2>1. UNCHANGED rows \/ Lifecycle!RequeueJob("cooling_window_transfer")
    BY <1>6 DEF Reinstate, rows, SetJob, Lifecycle!RequeueJob, Lifecycle!RequeueRow, Lifecycle!SetJob
  <2>2. "cooling_window_transfer" \in Lifecycle!JobTypes
    BY DEF Lifecycle!JobTypes
  <2> QED BY <2>1, <2>2 DEF Lifecycle!Next, Lifecycle!RunQueue
<1>7. CASE UNCHANGED vars
  BY <1>7 DEF vars, rows
<1> QED BY <1>1, <1>2, <1>3, <1>4, <1>5, <1>6, <1>7, NextByGroup DEF VendorStep

\* Payout jobs, refunds, dashboard refunds and the vendor's standing, deaths and
\* overlapping calls included, only move the order and its job rows as the
\* lifecycle allows (transferShare, autoCompleteOrder, changeStatus).
THEOREM PayoutImplementsLifecycle == Spec => ImplementsLifecycle
<1>1. Init => RunnersOwnRows
  BY KindsOfPayouts DEF Init, RunnersOwnRows, InProgress, At, Idle
<1>2. Init => Lifecycle!Init
  BY DEF Init, OrderCreated, JobsOnEntering, OnEntering, JobTypes, Enqueued,
         Lifecycle!Init, Lifecycle!OrderCreated, Lifecycle!JobsOnEntering,
         Lifecycle!OnEntering, Lifecycle!JobTypes, Lifecycle!Enqueued
<1>3. IInv /\ RunnersOwnRows /\ [Next]_vars => RunnersOwnRows'
  BY OwnershipStep DEF IInv
<1>4. Spec => []RunnersOwnRows
  BY <1>1, <1>3, Invariance, PTL DEF Spec
<1>5. IInv /\ RunnersOwnRows /\ [Next]_vars => [Lifecycle!Next]_(Lifecycle!rows)
  BY StepImplementsLifecycle
<1> QED BY <1>2, <1>4, <1>5, Invariance, PTL DEF Spec, ImplementsLifecycle, Lifecycle!Spec

=============================================================================

-------------------------- MODULE MCCheckoutCapacity --------------------------
(***************************************************************************)
(* Two events, three services of two vendors, one of whom sells two, two    *)
(* days and two checkouts at once.                                         *)
(***************************************************************************)
EXTENDS CheckoutCapacity, TLC

CONSTANTS cake, flowers, garland

TwoVendors == flowers :> "florist" @@ garland :> "florist" @@ cake :> "baker"

Symmetry == Permutations(Orders) \cup Permutations(Events)
              \cup Permutations(Days) \cup Permutations(Sessions)

=============================================================================

---------------------------- MODULE MCDepositPath ----------------------------
(* One order with a balance and the actors the configurations choose; the   *)
(* safety run takes the customer's tabs for one another.                    *)
EXTENDS DepositPath, TLC
TabsAlike == Permutations(Tabs)
=============================================================================

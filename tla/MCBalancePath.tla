---------------------------- MODULE MCBalancePath ----------------------------
(***************************************************************************)
(* The charge's job beside the emailed link and one trouble: a press of    *)
(* Retry, a death or a lost answer.  A trouble and a link that was used    *)
(* are followed together only as long as one attempt was opened.           *)
(***************************************************************************)
EXTENDS BalancePath
LinkUsed == ~Resting("customer") \/ \E a \in Attempts : intent[a] \in {"hosted", "paid"}
FewAttempts == (LinkUsed /\ troubles > 0) => Latest <= 1
=============================================================================

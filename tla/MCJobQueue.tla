----------------------------- MODULE MCJobQueue -----------------------------
(***************************************************************************)
(* Three rows whose flags cover the ways they can disagree: a demo row of  *)
(* a demo order, a demo row whose order is real, and a real row.  A batch  *)
(* holds two, so there is a backlog.                                       *)
(***************************************************************************)
EXTENDS JobQueue
=============================================================================

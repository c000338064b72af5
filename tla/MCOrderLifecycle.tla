-------------------------- MODULE MCOrderLifecycle --------------------------
(* One order, with a balance or paid in full: the configurations choose.   *)
EXTENDS OrderLifecycle
=============================================================================

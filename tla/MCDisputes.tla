----------------------------- MODULE MCDisputes -----------------------------
EXTENDS Disputes

=============================================================================

---------------------------- MODULE MCEmailOutbox ----------------------------
EXTENDS EmailOutbox

=============================================================================

----------------------------- MODULE MCPayoutPath -----------------------------
\* Two instalments of two, a share of one each.
EXTENDS PayoutPath
=============================================================================

---------------------------- MODULE MCPaymentPlan ----------------------------
EXTENDS PaymentPlan

=============================================================================

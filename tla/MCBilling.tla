----------------------------- MODULE MCBilling -----------------------------
EXTENDS BillingProps, TLC

=============================================================================

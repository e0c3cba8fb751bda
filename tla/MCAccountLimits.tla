-------------------------- MODULE MCAccountLimits --------------------------
EXTENDS AccountLimitsProps, TLC

CONSTANTS h1, h2

TwoHandlers == {h1, h2}
OneHandler == {h1}

=============================================================================

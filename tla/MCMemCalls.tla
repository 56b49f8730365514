----------------------------- MODULE MCMemCalls -----------------------------
EXTENDS MemCalls

NoRaceYet == ~racy
=============================================================================

----------------------------- MODULE MCDealLedger -----------------------------
EXTENDS DealLedger, TLC

CONSTANTS c1, c2, c3, c4, a1, a2

Symmetry == Permutations(Calls)
=============================================================================

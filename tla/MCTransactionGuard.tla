------------------------- MODULE MCTransactionGuard -------------------------
EXTENDS TransactionGuard, TLC

\* Writes differ in their identity only.
Symmetry == Permutations(Writes)
=============================================================================

--------------------------- MODULE MC_QueryBatch ---------------------------
EXTENDS QueryBatch, TLC
Symmetry == Permutations(Batches)
=============================================================================

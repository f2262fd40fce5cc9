--------------------------- MODULE MCAHIPartition ---------------------------
EXTENDS AHIPartition, TLC

MCFolds == 0 .. 3
MCHeaps == 1 .. 1
MCSymmetry == Permutations(SlabBlocks) \cup Permutations(Threads)
=============================================================================

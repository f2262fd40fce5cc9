CONSTANTS
  Folds <- MCFolds
  NCells = 2
  Pages = {p1, p2}
  Heaps <- MCHeaps
  SlabBlocks = {b1, b2, b3}
  NodesPerBlock = 2
  Threads = {t1, t2}
  NULL = NULL

SPECIFICATION Spec

INVARIANT TypeOK
INVARIANT HashTableValid
INVARIANT SlabCompact
INVARIANT BlocksConserved

SYMMETRY MCSymmetry

PROPERTY AbsSpec

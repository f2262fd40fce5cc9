CONSTANTS
  t1 = t1  t2 = t2  p1 = p1  p2 = p2  p3 = p3  i1 = i1  i2 = i2  s1 = s1  s2 = s2
  NULL = NULL
  Threads <- MCThreads
  Pages <- MCPages
  Indexes <- MCIndexes
  Sigs <- MCSigs
SPECIFICATION Spec




INVARIANT NoUseAfterFree
SYMMETRY MCSymmetry

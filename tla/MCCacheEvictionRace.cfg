SPECIFICATION Spec
CONSTANTS
  k1 = k1
  k2 = k2
  k3 = k3
  small = small
  big = big
  huge = huge
  Thread = {t1, t2}
  Key = {k1, k2}
  Fold <- DistinctFold
  Value = {small, big, huge}
  Size <- Sizes
  StrLen <- Terminated
  Addr = {a1, a2, a3, a4}
  MaxCacheSize = 3
  MaxObjectSize = 4
  SizeMax = 15
INVARIANT NoFault
SYMMETRY Symmetry

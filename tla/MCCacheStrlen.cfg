SPECIFICATION Spec
CONSTANTS
  k1 = k1
  k2 = k2
  k3 = k3
  small = small
  big = big
  huge = huge
  Thread = {t1}
  Key = {k1, k2, k3}
  Fold <- DistinctFold
  Value = {small, big, huge}
  Size <- Sizes
  StrLen <- Unterminated
  Addr = {a1, a2, a3, a4}
  MaxCacheSize = 3
  MaxObjectSize = 4
  SizeMax = 63
INVARIANT EmptyLoadZero

SPECIFICATION FairSpec
CONSTANTS
  Producer = {p1, p2}
  Consumer = {c1, c2}
  Item = {a, b}
  Zero = a
  N = 2
  IntMax = 7
  MaxInserts = 4
INVARIANT SbufInv
PROPERTIES ImplementsQueue EventuallyRemoved
CHECK_DEADLOCK FALSE

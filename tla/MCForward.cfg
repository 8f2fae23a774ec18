SPECIFICATION FairSpec
CONSTANTS
  Byte = {"a", "NUL", "nl"}
  MaxResponse = 6
  Ending = {"eof", "reset", "error"}
  MAXLINE = 3
  NIO_BUFSIZE = 2
  MaxObjectSize = 5
  SizeMax = 31
INVARIANTS TypeOK Conserved Delivered CachedIsRelayed OverrunCrashes CachedComplete BlockFits
PROPERTY TransferEnds

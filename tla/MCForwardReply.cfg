SPECIFICATION Spec
CONSTANTS
  Byte = {"a", "nl"}
  MaxResponse = 4
  Ending = {"eof"}
  MAXLINE = 3
  NIO_BUFSIZE = 2
  MaxObjectSize = 6
  SizeMax = 31
INVARIANT ReplyHandedOn

SPECIFICATION Spec
CONSTANTS
  Token = {"http", "long", "a", "1", ":", "/"}
  MaxStart = 4
  MaxRest = 5
  Uri <- Uris
  Method = {"GET", "POST"}
  Protocol = {"HTTP/1.0", "HTTP/1.1", "other"}
  Digit = {"1", "80"}
  Width <- Widths
  Stale <- StalePorts
  Header <- Headers
  HEADER_LINE_SIZE = 3
  MaxField = 3
INVARIANTS FormatParsed PartsFromUri AnsweredOnce NeverWaits

CONSTANTS
  Headers <- MCHeaders
  Extras <- MCExtras
  Data <- MCData
  Segments <- MCSegments
  ConnAddrs <- MCConnAddrs
  HelloSize = 3
SPECIFICATION FairWireSpec
INVARIANTS RoundTrip Verdict Replayed
PROPERTIES Answered Progress
\* One behavior is one connection, whose stream ends.
CHECK_DEADLOCK FALSE

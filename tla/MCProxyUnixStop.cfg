SPECIFICATION LiveSpec
CONSTANTS
  Server = Server
  Other = Other
  Conns = {c1}
  Acceptors = {a1}
  Closers = {k1}
  Main = Main
  InnerErr = InnerErr
  TempErr = TempErr
  ErrClosed = ErrClosed
  None = None
  MaxErrors = 1
  MaxLstatErrors = 1
PROPERTY StopReported

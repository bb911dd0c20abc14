SPECIFICATION LiveSpec
CONSTANTS
  Conns = {c1, c2}
  Acceptors = {a1}
  Closers = {k1, k2}
  Main = Main
  MaxErrors = 1
  InnerErr = InnerErr
  TempErr = TempErr
  ErrClosed = ErrClosed
  None = None
INVARIANTS
  TypeOK
  Custody
  HandshakeDone
  CloseCompletes
  NoPanic
PROPERTIES
  Shutdown
  NoHeadOfLineBlocking
  ContractSpec

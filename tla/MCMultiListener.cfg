SPECIFICATION LiveSpec
CONSTANTS
  Listeners = {l1, l2}
  Conns = {c1, c2}
  Acceptors = {a1, a2}
  Closers = {k1, k2}
  MaxErrors = 1
  Err = Err
  ErrClosed = ErrClosed
  None = None
INVARIANTS
  Custody
  CloseCompletes
  NoPanic
  WorkerLifetime
PROPERTIES
  NoLateDelivery
  Shutdown
  Served
  ContractFairSpec

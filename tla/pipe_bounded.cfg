\* A limit of 2 elements of 2 bytes: the pipe holds 4 elements before pushers
\* wait.  One producer, two consumers.  Spurious wakeups keep the deadlock of
\* pipe_stall.cfg out of this run.
CONSTANTS
  ElemSize = 2
  Limit = 2
  DefaultMincap = 2
  SizeMax = 31
  Producers = {p1}
  Consumers = {c1, c2}
  Main = main
  NoThread = none
  Junk = junk
  Elements = 5
  PushCounts = {2,3}
  PopCounts = {2}
  ReserveCounts = {0}
  Spurious = TRUE
SPECIFICATION Spec
SYMMETRY Symmetry
INVARIANTS
  LockOwnership
  BufferSafe
  CloseWakesConsumers
  CloseWakesProducers
  EofIsFinal
PROPERTIES
  SnapshotsStayValid
  ImplementsFifo

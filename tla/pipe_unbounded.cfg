\* No limit: the buffer grows and shrinks while two producers push and one
\* consumer pops.  DEFAULT_MINCAP is 2, as under PIPE_DEBUG.
CONSTANTS
  ElemSize = 1
  Limit = 0
  DefaultMincap = 2
  SizeMax = 31
  Producers = {p1, p2}
  Consumers = {c1}
  Main = main
  NoThread = none
  Junk = junk
  Elements = 2
  PushCounts = {1, 2}
  PopCounts = {1, 2}
  ReserveCounts = {1}
  Spurious = FALSE
SPECIFICATION Spec
SYMMETRY Symmetry
INVARIANTS
  TypeOK
  BufferSafe
  CheckInvariants
PROPERTIES
  ImplementsFifo

\* A limit below DEFAULT_MINCAP: the push overwrites the sentinel.
CONSTANTS
  ElemSize = 1
  Limit = 1
  DefaultMincap = 2
  SizeMax = 31
  Producers = {p1}
  Consumers = {c1}
  Main = main
  NoThread = none
  Junk = junk
  Elements = 2
  PushCounts = {1, 2}
  PopCounts = {1}
  ReserveCounts = {}
  Spurious = FALSE
SPECIFICATION Spec
INVARIANT
  NothingLost

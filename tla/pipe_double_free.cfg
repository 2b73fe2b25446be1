\* The last producer and the last consumer free their handles together.
CONSTANTS
  ElemSize = 1
  Limit = 0
  DefaultMincap = 2
  SizeMax = 31
  Producers = {p1}
  Consumers = {c1}
  Main = main
  NoThread = none
  Junk = junk
  Elements = 1
  PushCounts = {1}
  PopCounts = {1}
  ReserveCounts = {}
  Spurious = FALSE
SPECIFICATION Spec
INVARIANT
  DeallocatedOnce

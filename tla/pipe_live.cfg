\* Every call returns in a pipe without a limit.
CONSTANTS
  ElemSize = 1
  Limit = 0
  DefaultMincap = 2
  SizeMax = 31
  Producers = {p1}
  Consumers = {c1, c2}
  Main = main
  NoThread = none
  Junk = junk
  Elements = 2
  PushCounts = {1, 2}
  PopCounts = {2}
  ReserveCounts = {}
  Spurious = FALSE
SPECIFICATION FairSpec
PROPERTIES
  PushesReturn
  PopsReturn

\* Everybody asleep: a push larger than the limit and a consumer that missed its broadcast.
CONSTANTS
  ElemSize = 1
  Limit = 2
  DefaultMincap = 2
  SizeMax = 31
  Producers = {p1}
  Consumers = {c1}
  Main = main
  NoThread = none
  Junk = junk
  Elements = 5
  PushCounts = {5}
  PopCounts = {1}
  ReserveCounts = {}
  Spurious = FALSE
SPECIFICATION Spec
INVARIANT
  SomebodyAwake

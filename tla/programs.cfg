\* Three waiters and three wakes: a wake for one, one before the first has left,
\* and one more for a thread that comes in between.
CONSTANTS
  Threads = {t1, t2, t3}
  Waits = 1
  Wakes = 3
  Kinds = {"chain", "sink", "parallel", "ring"}
  Workers = 3
  DEFAULT_BUFFER_SIZE = 2
  Elements = 3
  Passes = {0, 1, 5}
  TCOUNT = 3
  COUNT_LIMIT = 4
  Bonus = 125
  NUMTHRDS = 3
  VECLEN = 2
  Clients = {"c1", "c2"}
  Lines = 3
  Wrong <- MCWrong
  Sends <- MCSends
  MaxFds = 2
  MaxThreads = 3
  Size = 2
  Packages = {"a", "b", "c", "d"}
  Requires <- MCRequires
  Unknown = {"d"}
  Essential = {"c"}
  Commands <- MCCommands
  Runs = 3
  Interrupts = 1
  Outages = 1
SPECIFICATION AnyFairSpec
CHECK_DEADLOCK FALSE
INVARIANTS
  TypesOK
  ResultComplete
  HandlesFreed
  RingAnswer
  NoStolenWake
  NoReleaseKept
  CountExact
  PrintedSumComplete
  SumsOwn
  InStep
  HandlersApart
  EchoesMessages
  NoPackageTwice
  DatabaseTrue
  StaysClosed
  AllScriptsRun
PROPERTIES
  EndsAreFinal
  
  AllJoined

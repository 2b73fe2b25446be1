\* Two waiters and two wakes: one thread is about to reset the event when the
\* broadcast for the next one sets it.
CONSTANTS
  Threads = {t1, t2}
  Waits = 1
  Wakes = 2
SPECIFICATION FairSpec
CHECK_DEADLOCK FALSE
PROPERTY BroadcastReleasesAll

\* One client that sends two bytes and then one, into a buffer of three.
CONSTANTS
  Clients = {"c1"}
  Sends <- TwoThenOne
  MaxFds = 1
  MaxThreads = 1
  Size = 3
SPECIFICATION Spec
CHECK_DEADLOCK FALSE
INVARIANT
  RepeatsWhatWasTyped

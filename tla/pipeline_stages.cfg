\* A caller that keeps its producer handle while it waits for the results;
\* the second processor is followed by a size of 0.
CONSTANTS
  Kinds = {"sink"}
  Workers = 2
  DEFAULT_BUFFER_SIZE = 2
  Elements = 1
  Passes = {0}
SPECIFICATION CallerWaits
CHECK_DEADLOCK FALSE
PROPERTY ProcessedAsReceived

CONSTANTS
  c1 = c1
  c2 = c2
  Conns = {c1, c2}
  Fds = {1, 2, 3}
  Asks <- MCAsks
  FieldLen <- MCFieldLen
  Payload <- MCPayload
  Pauses <- MCPauses
  Faults <- MCFaults
  BUFFER_SIZE = 2
  LenMax = 2
  None = None
SPECIFICATION FairSpec
INVARIANTS
  TypeOK
  DescriptorsOwned
  NoFreedWatcherRuns
  RelayInOrder
  AnswersTrue
PROPERTIES
  TornDownAtEnd
  HandshakesEnd
  PairsEnd
CHECK_DEADLOCK FALSE

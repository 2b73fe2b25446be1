\* A client that pauses in the middle of its request.
CONSTANTS
  c1 = c1
  c2 = c2
  Conns = {c1}
  Fds = {1, 2}
  Asks <- AsksAddress
  FieldLen <- MCFieldLen
  Payload <- AlonePayload
  Pauses <- PausesInRequest
  Faults <- AloneFaults
  BUFFER_SIZE = 2
  LenMax = 2
  None = None
SPECIFICATION Spec
INVARIANT
  ConnectedAsAsked
CHECK_DEADLOCK FALSE

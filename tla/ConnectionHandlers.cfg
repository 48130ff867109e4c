SPECIFICATION Spec
CONSTANTS
  None = None
  c1 = c1
  c2 = c2
  a1 = a1
  r1 = r1
  r2 = r2
  Calls <- OneCall
  Casts <- NoCalls
  Requests <- TwoRequests
  PathOf <- PathsOfTwo
  PeerRequests <- NoRequests
  Nested <- HandlerCallsOut
  Bodiless <- OneCall
  Repeated <- NoCalls
  Swallowed <- NoCalls
  Patterns <- OverlappingPatterns
  SerialSpace = 3
  Faults = {"loss", "malformed"}
PROPERTIES
  CallsReturnUnlessStranded
  RequestsAnswered
  LoopStops
CHECK_DEADLOCK FALSE

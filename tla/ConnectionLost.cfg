SPECIFICATION Spec
CONSTANTS
  None = None
  c1 = c1
  c2 = c2
  a1 = a1
  r1 = r1
  r2 = r2
  Calls <- OneCall
  Casts <- NoCalls
  Requests <- NoRequests
  PathOf <- NoPaths
  PeerRequests <- NoRequests
  Nested <- NotNested
  Bodiless <- NoCalls
  Repeated <- NoCalls
  Swallowed <- NoCalls
  Patterns <- NoPatterns
  SerialSpace = 8
  Faults = {"loss"}
PROPERTIES
  CallsReturn
CHECK_DEADLOCK FALSE

SPECIFICATION Spec
CONSTANTS
  None = None
  c1 = c1
  c2 = c2
  a1 = a1
  r1 = r1
  r2 = r2
  Calls <- TwoCalls
  Casts <- OneCast
  Requests <- OneRequest
  PathOf <- PathsOfOne
  PeerRequests <- OneRequest
  Nested <- NotNested
  Bodiless <- SecondCall
  Repeated <- OneCall
  Swallowed <- OneCast
  Patterns <- NoPatterns
  SerialSpace = 2
  Faults = {"close", "loss", "malformed"}
INVARIANTS
  OwnReply
  WholeFrames
  NoLeakedWaiter
  AnswerNotLost
PROPERTIES
  ImplementsCallService
CHECK_DEADLOCK FALSE

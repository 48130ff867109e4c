SPECIFICATION Spec
CONSTANTS
  None = None
  Request = Request
  Lost = Lost
  Acquired = Acquired
  x1 = x1
  x2 = x2
  Releases <- TwoReleases
  FlagChoices <- SomeFlags
  Owners <- AnyOwner
  Faults = {"AddMatch", "RemoveMatch", "RequestName", "ReleaseName"}
  MaxMoves = 2
INVARIANTS
  PanicsOnlyIfHeld
  GivenUp
  Informed
PROPERTIES
  ReleaseReturns
CHECK_DEADLOCK FALSE

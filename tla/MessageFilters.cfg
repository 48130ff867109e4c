SPECIFICATION Spec
CONSTANTS
  f1 = f1
  f2 = f2
  f3 = f3
  f4 = f4
  f5 = f5
  Free = Free
  Filters <- FiveFilters
  MaxArrays = 5
SYMMETRY Alike
INVARIANTS
  ThroughEveryFilter
CHECK_DEADLOCK FALSE

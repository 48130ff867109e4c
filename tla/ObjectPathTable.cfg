SPECIFICATION Spec
CONSTANTS
  None = None
  Components <- MCComponents
  Patterns <- MCPatterns
  Paths <- MCPaths
INVARIANTS
  BestHandlerWins
PROPERTIES
  ChangesAreLocal

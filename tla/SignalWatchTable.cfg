SPECIFICATION Spec
CONSTANTS
  w1 = w1
  w2 = w2
  w3 = w3
  w4 = w4
  w5 = w5
  Watches <- MCWatches
  RuleOf <- MCRuleOf
  Owners = {"", ":1", ":2"}
  Signals <- MCSignals
INVARIANTS
  IndexInv
  EachMatchOnce
PROPERTIES
  RemoveTellsTruth
CHECK_DEADLOCK FALSE

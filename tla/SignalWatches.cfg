SPECIFICATION Spec
CONSTANTS
  None = None
  w1 = w1
  w2 = w2
  k1 = k1
  k2 = k2
  s1 = s1
  s2 = s2
  Watches <- TwoWatches
  Cancels <- RacingCancels
  WatchOf <- CancelTwice
  Pumped <- OtherWatch
  Signals <- TwoSignals
  MatchedBy <- Overlapping
  Faults = {"refuse", "keep", "close"}
INVARIANTS
  NoSendOnClosed
  NoSignalLost
  RulesAgree
PROPERTIES
  WatchReturns
  CancelReturns
  SignalsReceived
CHECK_DEADLOCK FALSE

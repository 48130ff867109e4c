SPECIFICATION Spec
CONSTANTS
  None = None
  Unknown = Unknown
  Loop = Loop
  w1 = w1
  w2 = w2
  NameWatchers <- FirstWatch
  SignalWatchers <- SecondWatch
  Cancels = {1, 2, 3}
  WatchOf <- CancelThree
  MaxChanges = 2
  MaxCancels = 2
  Ownerless = {0, 2}
  Names <- AnyName
  Faults = {"refuse", "keep", "silence"}
INVARIANTS
  NoSendOnClosed
  OwnersInOrder
  NoChangeLost
  SenderTracked
  InfoShared
PROPERTIES
  WatchReturns
  CancelReturns
  OwnerArrives
CHECK_DEADLOCK FALSE

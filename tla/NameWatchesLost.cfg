SPECIFICATION Spec
CONSTANTS
  None = None
  Unknown = Unknown
  Loop = Loop
  w1 = w1
  w2 = w2
  NameWatchers <- NoWatches
  SignalWatchers <- SecondWatch
  Cancels = {}
  WatchOf <- CancelNone
  MaxChanges = 2
  MaxCancels = 0
  Ownerless = {0, 2}
  Names <- InUse
  Faults = {}
PROPERTIES
  LostNameCancels
CHECK_DEADLOCK FALSE

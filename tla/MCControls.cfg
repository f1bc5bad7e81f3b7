\* Every call on the Qt thread; the gain's readings may fail.
CONSTANTS
  gain = gain
  temp = temp
  qt0 = qt0
  osc = osc
  Entry = {gain, temp}
  Readable = {gain, temp}
  Writable = {gain}
  Value = {0, 1}
  Default = 0
  Faulty = {gain}
  Writer = {qt0}
  Qt = qt0
  MaxListeners = 2
  MaxEvents = 1
  None = None
SPECIFICATION FocusSpec
INVARIANTS
  TypeOK
  PendingCollapsed
  QuietTreeMatchesCamera
  NothingOutlivesTree
  PolledCountsObserved
PROPERTIES
  WritesArriveInOrder
  WriteReachesCamera
  ObservedSensorTracked
  IdleWorkerSleeps
  DestructorReturnsWhilePolling

\* The destructor may never return.
CONSTANTS
  gain = gain
  temp = temp
  qt0 = qt0
  osc = osc
  Entry = {gain}
  Readable = {gain}
  Writable = {gain}
  Value = {0, 1}
  Default = 0
  Faulty = {}
  Writer = {qt0}
  Qt = qt0
  MaxListeners = 1
  MaxEvents = 1
  None = None
SPECIFICATION FairSpec
PROPERTY
  DestructorReturns

\* A write from another thread than Qt meets the destruction of the tree.
CONSTANTS
  gain = gain
  temp = temp
  qt0 = qt0
  osc = osc
  Entry = {gain}
  Readable = {gain}
  Writable = {gain}
  Value = {0, 1}
  Default = 0
  Faulty = {}
  Writer = {osc}
  Qt = qt0
  MaxListeners = 1
  MaxEvents = 1
  None = None
SPECIFICATION Spec
INVARIANT
  DeadTreeUntouched

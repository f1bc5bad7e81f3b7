\* Two cameras of one model whose names collide after one of them has gone.
CONSTANTS
  orbbec = orbbec
  freenect = freenect
  g1 = g1
  g2 = g2
  kinect = kinect
  gemini = gemini
  xbox = xbox
  Camera = {g1, g2, kinect}
  Library <- MCLibrary
  BackendOf <- MCBackendOf
  Model <- MCModel
  Hotplug = {orbbec}
  MaxChanges = 3
SPECIFICATION Spec
INVARIANT
  NamesDistinct
\* The process ends.
CHECK_DEADLOCK FALSE

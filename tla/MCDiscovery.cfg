\* Every start, and up to three changes, at any moment.
CONSTANTS
  orbbec = orbbec
  freenect = freenect
  g1 = g1
  g2 = g2
  kinect = kinect
  gemini = gemini
  xbox = xbox
  Camera = {g1, g2, kinect}
  Library <- MCLibrary
  BackendOf <- MCBackendOf
  Model <- MCModel
  Hotplug = {orbbec}
  MaxChanges = 3
SPECIFICATION FairSpec
INVARIANTS
  TypeOK
  BrowserShowsDevices
  BrowserOpensFresh
  CallsWhatItTested
  GoneIsQuiet
PROPERTIES
  ListConverges
  ShutdownReturns
\* The process ends.
CHECK_DEADLOCK FALSE

\* One host thread, a backend whose stop joins its threads.
CONSTANTS
  depth = depth
  cloud = cloud
  cam = cam
  imu = imu
  xdepth = xdepth
  xcloud = xcloud
  Caller = {gui}
  Producer = {cam, imu}
  Buffer = {b1, b2}
  Output = {depth, cloud}
  Cloud = {cloud}
  Extractor = {xdepth, xcloud}
  Voter = {xdepth}
  Serves <- MCServes
  Capacity <- MCCapacity
  Reads <- MCReads
  Joining = TRUE
  Decoded = Decoded
  None = None
SPECIFICATION FairSpec
INVARIANTS
  TypeOK
  OwnedOnce
  QueueBounded
  ImuClearedIsQuiet
  StoppedIsQuiet
PROPERTIES
  UsesTheContract
  LostOnlyOutsideRunning
  CallsReturn

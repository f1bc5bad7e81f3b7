\* Frames that arrive while stop() is under way are never handed back.
CONSTANTS
  depth = depth
  cloud = cloud
  cam = cam
  imu = imu
  xdepth = xdepth
  xcloud = xcloud
  Caller = {gui}
  Producer = {cam, imu}
  Buffer = {b1, b2}
  Output = {depth, cloud}
  Cloud = {cloud}
  Extractor = {xdepth, xcloud}
  Voter = {xdepth}
  Serves <- MCServes
  Capacity <- MCCapacity
  Reads <- MCReads
  Joining = TRUE
  Decoded = Decoded
  None = None
SPECIFICATION Spec
PROPERTY
  FilledBufferReturns

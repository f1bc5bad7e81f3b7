\* Two textures and no cloud: one extractor votes twice.
CONSTANTS
  depth = depth
  cloud = cloud
  cam = cam
  imu = imu
  xdepth = xdepth
  xcloud = xcloud
  Caller = {gui}
  Producer = {cam, imu}
  Buffer = {b1}
  Output = {depth, cloud}
  Cloud = {}
  Extractor = {xdepth, xcloud}
  Voter = {xdepth, xcloud}
  Serves <- MCServes
  Capacity <- MCCapacity
  Reads <- MCReads
  Joining = TRUE
  Decoded = Decoded
  None = None
SPECIFICATION Spec
PROPERTY
  VotesStopIdleOnly

\* How an Azure Kinect that a document names is opened.
CONSTANTS
  Chosen = {"addresses"}
  Image = {i1, i2}
  Kinect = {xbox}
  Tilt = {up, down}
  None = None
  auto = auto
  manual = manual
  integration = integration
  Mode = {auto, manual}
  FirstMode = auto
  Param = {integration}
  ModeOf <- MCModeOf
  Value = {0, 1}
  Default = 0
  Queue = {colorQ, imuQ}
  Setting = {factory, dim}
  Factory = factory
  MaxItems = 2
  Camera = {c1, c2}
  MaxLeft = 1
  Label = {la, lb, lc}
SPECIFICATION Spec
INVARIANTS
  NoSilentFallback

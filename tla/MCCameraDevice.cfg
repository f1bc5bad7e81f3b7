\* Two devices, two cameras, streams enough for one that lingers.
CONSTANTS
  named = named
  any = any
  femto = femto
  plain = plain
  Device = {named, any}
  Camera = {femto, plain}
  Address <- MCAddress
  HasImu = {femto}
  HasControls = {femto}
  Stream = {s1, s2, s3}
  None = None
SPECIFICATION FairSpec
INVARIANTS
  TypeOK
  NodesOutliveTheirTrees
  CameraOutlivesItsWorker
  HandlesAreOwned
  ConnectedIsUsable
PROPERTY
  CallsReturn
CHECK_DEADLOCK FALSE

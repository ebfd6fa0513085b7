SPECIFICATION Spec
CONSTANTS
  Velocities = {"go"}
  Buckets = {"up"}
  Zero = "zero"
  MaxFrames = 2
  PortSize = 4
  MaxInbox = 2
  MayFail = TRUE
CHECK_DEADLOCK FALSE
INVARIANTS PauseRealigns PublishedInOrder LastFrame
PROPERTIES BucketReachesBase

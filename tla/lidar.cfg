SPECIFICATION LidarSpec
CONSTANTS
  Modes = {"capsule", "ultra", "hq", "standard"}
  PerTurn = 2
  MaxNodes = 3
  Batch = 2
  MaxItems = 5
  MaxCalls = 1
INVARIANTS ScansAreWhole
PROPERTIES ScansInOrder LatestScanPublished

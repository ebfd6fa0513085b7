SPECIFICATION Spec
CONSTANTS
  Lasers = {front, back}
  Poses = {0, 3}
  Garbage = {9}
  Threshold = 1
  Interval = 2
  MaxMoves = 2
  MaxCalls = 2
  MaxFaults = 1
  MaxStops = 1
INVARIANTS MotionCountedOnce RestartResumes
PROPERTIES PoseIsPublished
CHECK_DEADLOCK FALSE

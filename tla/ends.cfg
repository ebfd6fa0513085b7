SPECIFICATION LiveSpec
CONSTANTS
  MaxGoals = 1
  Buffers = {b1, b2, b3}
  NoBuffer = NoBuffer
  PeriodicPlanning = FALSE
  OscillationTimeout = FALSE
  RecoveryEnabled = TRUE
  NumRecoveries = 1
  MaxPlanningRetries = 1
  ShutdownCostmaps = FALSE
  InvalidGoals = {}
  ForeignGoals = {}
  Callable = {}
  MaxCalls = 0
  CancelableGoals = {1}
  Faults = {"sensors"}
  NodeMayStop = TRUE
PROPERTIES CancelEndsGoal ThreadsEnd NoEndlessPlanning

SPECIFICATION Spec
CONSTANTS
  MaxGoals = 2
  Buffers = {b1, b2, b3}
  NoBuffer = NoBuffer
  PeriodicPlanning = FALSE
  OscillationTimeout = TRUE
  RecoveryEnabled = TRUE
  NumRecoveries = 1
  MaxPlanningRetries = 1
  ShutdownCostmaps = TRUE
  InvalidGoals = {2}
  ForeignGoals = {1}
  Callable = {"reconfigureCB", "planService", "clearCostmapsService"}
  MaxCalls = 1
  CancelableGoals = {}
  Faults = {"setPlan"}
  NodeMayStop = FALSE
SYMMETRY BufferSymmetry
INVARIANTS TypeOK PlanBuffersDistinct ActiveWhileExecuting AtRestBetweenGoals AllRecoveriesBeforeGiveUp

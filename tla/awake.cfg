SPECIFICATION LiveSpec
CONSTANTS
  MaxGoals = 2
  Buffers = {b1, b2, b3}
  NoBuffer = NoBuffer
  PeriodicPlanning = TRUE
  OscillationTimeout = FALSE
  RecoveryEnabled = FALSE
  NumRecoveries = 0
  MaxPlanningRetries <- NoRetryLimit
  ShutdownCostmaps = FALSE
  InvalidGoals = {}
  ForeignGoals = {}
  Callable = {}
  MaxCalls = 0
  CancelableGoals = {1}
  Faults = {}
  NodeMayStop = FALSE
PROPERTIES PursuedGoalIsPlanned WaitingGoalIsTakenUp ImplementsNavService

SPECIFICATION Spec
CONSTANTS
  Goals = {g1, g2}
  Outcomes = {"fail"}
  Impls = {"cpp", "py"}
  NodeMayStop = TRUE
  None = None
CHECK_DEADLOCK FALSE
INVARIANTS QueuesAgree
PROPERTIES TerminatedCallEnds GoalIsTakenUp ShutdownEnds

SPECIFICATION Spec
CONSTANTS
  Queues = {"fsm", "bt", "tmp", "stop", "main", "sel", "alt", "par", "a", "b", "c", "d", "qa", "qb", "qc", "qd"}
  Root = "fsm"
  ParentOf <- TreeParents
  Above <- TreeAbove
  Nodes = {"bt", "tmp", "stop", "main", "sel", "alt", "par", "a", "b", "c", "d"}
  Transit = {"bt", "tmp", "stop", "main", "sel", "alt", "par", "a", "b", "c", "d"}
  Threads = {"bt", "tmp", "stop", "main", "sel", "alt", "par", "a", "b", "c", "d"}
  Events = {"result"}
  SpinEvent = "/SPIN"
  MaxUnread = 3
  RosRoot = FALSE
  Top = "bt"
  Kind <- TreeKind
  Children <- TreeChildren
  TaskQueue <- TreeTaskQueue
  SelfEnding = {"a", "b", "d"}
CHECK_DEADLOCK FALSE
INVARIANTS NothingRunsBelowReturned OrderedResult PassedOver
PROPERTIES LeavingEndsTree

SPECIFICATION Spec
CONSTANTS
  Queues = {"ros", "task"}
  Root = "ros"
  ParentOf <- TaskParent
  Above <- TaskAbove
  Transit = {}
  Threads = {"fsm"}
  Events = {"/start", "/arrived", "/timeOut", "/more_goal", "/no_goal", "result"}
  SpinEvent = "/SPIN"
  MaxUnread = 3
  RosRoot = TRUE
  PointNum = 3
  MaxGoals = 5
INVARIANTS TourInOrder BucketForTheGoal NoStaleEvent
PROPERTIES MissionEnds

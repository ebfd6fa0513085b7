SPECIFICATION Spec
CONSTANTS
  Queues = {"ros", "node", "task"}
  Root = "ros"
  ParentOf <- ChainParents
  Above <- ChainAbove
  Transit = {"node"}
  Threads = {t1, t2}
  Events = {1, 2, 3}
  SpinEvent = 0
  MaxUnread = 1
  RosRoot = TRUE
  MaxRaises = 3
INVARIANTS NoLostWakeup LatestInOrder ClosedBelow
PROPERTIES StoppedQueueLetsGo

SPECIFICATION CostmapSpec
CONSTANTS
  Size = 5
  Half = 1
  MaxRadius = 2
  ClearRange = 1
  Maps <- OneWall
  Updates <- TheWall
  RobotPlaces = {4, 5}
  Targets = {6}
  MaxEvents = 2
INVARIANTS MasterIsRight
PROPERTIES StartMeansUpdated StartEnds
CHECK_DEADLOCK FALSE

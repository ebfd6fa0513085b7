# A verification development for ACCR

ACCR is the software of a conveyor cleaning robot on ROS Noetic: a mission node
decides where to go and what the bucket does, the ROS navigation stack takes the
base there, a lidar driver and a serial node connect it to the hardware.
This directory holds TLA+ models of its concurrent core, the TLC configurations
that check them, and proofs checked by TLAPS. All paths below are relative to
the repository (`src/` is its root here).

Status: the executors of navigation (`move_base`), of the mission (`cleaning`), of
tasks and trees (`decision_making`, `robot_task`), the drivers (`my_serial_node`,
`rplidar_ros`), the costmap and the localization are modelled and checked. All their
safety properties are also proved, for every size of the instance. What is left out is listed in sections 6 and 7.

## 1. Inventory

Paths in this table are under `src/src/`; `dm` stands for
`decision_layer/decision_making-master`.

| component | state it keeps | operations | how it interacts |
|---|---|---|---|
| `navigation/move_base` | state machine (`state_`, `recovery_index_`, `recovery_trigger_`), triple plan buffer, `runPlanner_`, `planner_goal_`, time stamps | `executeCb`, `executeCycle`, `planThread`, `reconfigureCB`, `goalCB`, `wakePlanner`, services | three threads of one class; action server towards clients; costmaps, planners and recoveries are called |
| `actionlib` (not in the repository) | current and pending goal, preempt flags, goal status | goal, cancel, accept, result | callbacks of the node, thread of the executor |
| `decision_layer/cleaning` | goal index `i`, bucket message, FSM state | tasks `cleaning_begin`, `moveToGoal`, `nextGoal` | client of move_base, publishes to the serial node, raises events to its own FSM |
| `dm/decision_making` event queues (`EventSystem.h`) | bounded queue, subscribers, stop flag | raise, wait, close, subscribe, spin | a tree of queues, one mutex each |
| `dm/decision_making` FSM, ROSTask | current state, task threads, call context | transition, call, terminate | event queues, local and remote tasks |
| `dm/decision_making` behavior trees (`BT.h`) | node result, `finished`, `terminated`, child threads | SEQ, SEL, PAR, decorators | condition variable per node, event queues |
| `dm/decision_making` TAO | plans, stop and start conditions, protocols | alloc, next, team | threads, event queues |
| `dm/robot_task` (`MultiGoalActionServer.h`, `RobotTask.h`) | queues of new and active goals, a thread per goal | goal, cancel, execute loop, shutdown | recursive lock, condition, actionlib |
| `my_serial_node` | a shared 16-byte frame, the port | velocity and bucket callbacks, read loop | topics `cmd_vel`, `bucket_msgs`, `odom` |
| `rplidar_ros-master` | scan cache, transaction lock, event | grab, cache loop, start, stop | driver thread against node |
| `navigation/costmap_2d` | layers, `initialized_`, `stopped_`, `stop_updates_`, observation buffers | start, stop, pause, resume, update loop, reset | map update thread, executor, planner, services; per-map mutex |
| recovery behaviors (`rotate_recovery`, `clear_costmap_recovery`, `move_slow_and_clear`) | limits in force, distance thread | `runBehavior` | called by the executor; costmaps; parameters of the local planner |
| local planners (`dwa_local_planner`, `base_local_planner`) | plan, stop-and-rotate latch, oscillation flags | setPlan, computeVelocityCommands, isGoalReached | called by the executor |
| global planners (`global_planner`, `navfn`, `carrot_planner`) | potential arrays | makePlan | called by the planner thread and a service |
| `navigation/amcl` | particle filter, pose, map | laser, map, initial pose callbacks | tf, topics |
| `map_server`, `fake_localization`, `voxel_grid`, `nav_core` | map, none | I/O, bit operations, interfaces | topics |
| parser, GUI, Gazebo worlds, robot description, launch files | - | - | tooling and assets |

What makes the system hard: each of these programs runs one piece of state from
several threads, with fewer locks than threads; goals, cancels, events and results
cross processes and may be late; planning, control, reads, tasks and scans fail and
time out; nodes are interrupted and started again. What makes each component correct:

- *move_base*: one result per goal; a new goal takes over, a cancel ends the
  goal; the plan being made is never the plan being followed; recoveries run
  in order, all of them before giving up; the node rests between goals; it
  never waits for ever; it shuts down.
- *cleaning*: the tour visits the points in order; the bucket is in the state of the
  point driven to; no event is left over; the mission ends.
- *event queues*: no waiter sleeps beside an event; the newest events are kept in
  order; a closed queue lets everyone below it go.
- *behavior trees*: a node reports what its children did; no thread outlives it;
  the tree ends when the FSM leaves the state.
- *MGActionServer*: every goal is executed once and gets a status; threads are
  joined; cancels and shutdowns get through.
- *my_serial_node*: odometry is published in order; the frame sent is the latest of
  both commands; a reader out of step gets back into step.
- *rplidar_ros*: scans are whole, of one session, in order, and the last one is not lost.
- *costmap*: the master map is what the layers say; `start` returns, with an update made.
- *amcl*: a motion is applied to the particles once; a given pose is published; a
  restart goes on where the run before ended.

`PROJECT.json` lists the components with their sources, and under `hazards` each
place where these can go wrong, with the properties that watch it.

## 2. Modules

| module | what it is |
|---|---|
| `SimpleActionServer` | external: the calls of actionlib move_base is written against, each under the server's lock |
| `NavService` | abstract: what move_base promises its clients |
| `MoveBase` | `move_base.cpp`: three threads, all steps of `executeCb`, `executeCycle`, `planThread`, `reconfigureCB`, and the two services; properties, fairness, and the refinement mapping to `NavService` |
| `MCMoveBase` | for TLC: the symmetry set, the specification of the liveness runs, a negative constant |
| `MoveBaseClaims` | a comment that the code does not live up to |
| `MoveBaseProofs` | proofs: types, triple buffer, recovery index; goals and results, rest, the refinement; recoveries before giving up |
| `EventQueue` | `EventSystem.h`: the tree of bounded queues, as operators and actions for its clients |
| `EventQueueClients`, `MCEventQueue` | the queues with clients that may do anything; the chain of queues TLC checks |
| `EventQueueProofs`, `EventQueueClientsProofs` | proofs: what every operation keeps in any tree of queues, which the proofs of the machines on the queues rest on; wake-ups, closing, order of the events |
| `Cleaning`, `MCCleaning` | the mission node on `FSM.h`, `ROSTask.cpp` and `EventQueue`, composed with `NavService` (`Nav == INSTANCE NavService`) |
| `CleaningProofs` | proofs: the order of the tour, the bucket, no stale event |
| `BehaviorTree`, `MCBehaviorTree` | `BT.h` on `EventQueue`; the tree TLC checks |
| `BehaviorTreeProofs` | proofs: nothing runs below a node that returned; results are those of the children |
| `MultiGoalServer` | `MultiGoalActionServer.h`, `RobotTask.h`, `ROSTask.cpp` and the two Python scripts |
| `MultiGoalServerProofs` | proofs: queues, threads and statuses agree; a goal is run and ended once |
| `SerialNode` | `my_serial_node.cpp` on the calls it makes into the serial library |
| `Lidar` | `node.cpp` and `rplidar_driver.cpp` of `rplidar_ros` |
| `DriverProofs` | proofs about both drivers: a pause realigns the reader, odometry in order, the last frame is the latest; scans are whole and in order |
| `LayeredCostmap` | the computation of a map update: bounds and costs of three layers on a row of cells |
| `Costmap2DROS`, `MCCostmap2DROS` | the threads around that computation |
| `Amcl` | `amcl_node.cpp` |
| `PerceptionProofs` | proofs about localization and costmap: motions are counted once, runs resume; the master map is right, `start` waits for an update |

Two compositions carry the architecture. `NavService` stands between the two
nodes: `MoveBase` implements it (checked and proved), `Cleaning` uses it.
`EventQueue` is extended by the machines that run on it, so that `Cleaning` and
`BehaviorTree` use the same raise, wait and close that `EventQueueClients` checks.
Of two components whose proofs share a module, one has its name in `Init`, `Next`,
`Spec` and the tuple of its variables (`CostmapSpec`, `LidarSpec`).

### How MoveBase corresponds to the code

Variables carry the members' names (`runPlanner_` is `runPlanner`), and three
program counters say where each thread is. An action is a stretch of one thread
between two points where another thread can see or change what it uses: a
critical section of `planner_mutex_` is one action, an unlocked access to a
shared member starts another. So `planThread` is cut at the copy of the goal, in
`makePlan`, before the swap, and between the unlocked tests of a failed attempt
and the lock that counts it; `executeCycle` is cut between
reading `new_global_plan_` and the swap, between the swap and `setPlan`, before
`switch(state_)`, and so on. `configuration_mutex_` is a predicate over the
program counters (`CycleHoldsConfig`, `ReconfigureHoldsConfig`), and so are the costmaps'
mutexes (`PlannerCostmapFree`, `ControllerCostmapFree`): the planner's is held during `makePlan`,
the controller's during `computeVelocityCommands` and what follows a failure of it,
both by `clearCostmapsService`. One thread delivers all callbacks, services included.
`resetState` is one step where the caller excludes the threads that could
tell, and two (`ReconfigureLocal`, `ReconfigureReset`) where it does not.

A condition variable is the program counter value "waiting": `NotifyPlanner`
moves a waiting planner to "woken", from which it takes the mutex again, and does
nothing otherwise - that is how notifications get lost.

Abstractions:

- A plan is the goal it leads to, or empty. Whether planning, control, a
  transform or the sensor check succeeds is a nondeterministic choice.
- Time is three flags, "patience since the stored instant is over", lowered
  where the code stores `now()` and raised by the `Time` actions just before a
  comparison could see it.
- `planning_retries_` is counted up to the first value past the limit.
- A velocity command is "zero" or "move"; a recovery behavior may leave "move"
  (rotate_recovery publishes no stop at its end).
- Uninitialized members (`planning_retries_`) start with any value.
- `recoveriesRun` is a history variable: the indices of the behaviors run for the goal.
- A torn `std::vector` (reconfigureCB clears plans the planner may be writing) is
  taken as the cleared plan.

### The mission and its machinery

`EventQueue` makes each operation on the tree one step, because `addEvent` and
`close` hold a queue's mutex while they take those below, always downwards. A
waiter is a state of its thread ("asleep", "notified", "awake"); `NotifyOne` wakes one,
which takes its event only when it has the mutex again. The test `size() > max`
is modelled as it stands, with the event more than the maximum that it permits.

`Cleaning` has one FSM thread and one task thread. An event raised by a task
goes to a topic and comes back (`OnNewEvent`); a goal is sent to the phases of
`NavService`, or is lost when move_base is not connected; the wait for the result
may end by time-out at any time. `MaxGoals` bounds the goals sent.

`BehaviorTree` runs any finite tree. `inherited` is the result that a node starts
from, `reported` (history) the order in which the children of a PAR came in.
`Terminate` marks a subtree in one step.

`MultiGoalServer` covers both implementations with the variable `impl`, chosen in
the initial state. Goals and cancels wait on topics of their own, so a cancel
may overtake its goal. Threads of goals are the program counters `thread[g]`.

### The drivers

`SerialNode` has a byte stream in each direction, in parts that are large
enough to show where a frame is cut; the base may pause, be reset, and overrun the
port. `ReadOver` models `read` of `unix.cc`: whole, or short at a time-out.

`Lidar` follows the node's only thread through its loop and services and the
driver's grabbing thread through both kinds of stream. `isScanning`, the cache and the
event are shared as in the code: an unlocked flag, a locked buffer, an event
that resets itself. Items of the stream carry session and number, so that a property can
tell what a scan is made of.

### Costmap and localization

`LayeredCostmap` computes on a row of cells: what is lost on the way from two
dimensions to one is the shape of footprints and rays, not the accounting of bounds,
which `MasterIsRight` is about. Lengths and cells are kept apart: bounds, the robot,
the ends of rays and `inflation_radius_` are points and lengths, `CellOf` and `Centre` convert
them as `worldToMapEnforceBounds` and `mapToWorld` do, and costs are spread over
`CellDistance(radius)` cells, the radius rounded up (`Costmap2D::cellDistance`), while the bounds
grow by the radius as it is. `FullMap` is the reference: the map computed
anew from all layers. `Costmap2DROS` cuts the update between the bounds and the
costs of each layer (`UpdateHead` to `UpdateDone`), and the executor and callbacks at
every lock. What the static layer's callbacks tell the update thread has no lock: `x_`, `width_`,
`map_received_` and `has_updated_data_` are written in a step each (`WriteX` to `WriteUpdated`) and
read in a step each (`StaticBounds` to `StaticRead`), in the order of the statements, so that an update may
collect bounds of two messages. `unread` (history) are the cells that are new in the grid and
within no bounds yet, `lost` says that some of them are no longer told of.

`Amcl` keeps the mean of the particles as a place on a line and leaves out what a
measurement does to it: then every change of the offset between the filter and
odometry is one of the accounting of motion, which can be checked. All the early
returns of `laserReceived` are actions. What is uninitialized after construction
and can be read (`latest_tf_`) starts with any value of `Garbage`.

## 3. Runs

`tlc -workers 2 -config <run>.cfg <module>`; the bounds are in the cfg files.

| run | module | checks | distinct states | time |
|---|---|---|---|---|
| `safety` | `MCMoveBase` | `TypeOK`; `PlanBuffersDistinct`: the three plan buffers never alias; `ActiveWhileExecuting`: a goal is active exactly while `executeCb` works on it; `AtRestBetweenGoals`; `AllRecoveriesBeforeGiveUp` | 5,697,020 | 2 min |
| `awake` | `MCMoveBase` | `PursuedGoalIsPlanned`: a goal handed to the planner gets planned for, lost notifications or not; `WaitingGoalIsTakenUp`; `ImplementsNavService`: the refinement | 595,875 | 2 min 20 s |
| `ends` | `MCMoveBase` | `CancelEndsGoal`, `ThreadsEnd`: cancel and shutdown get through; `NoEndlessPlanning`: patience and recoveries end a hopeless goal | 224,909 | 1 min 30 s |
| `claim_success` | `MoveBaseClaims` | expected to be violated (section 4) | - | 5 s |
| `events` | `MCEventQueue` | `NoLostWakeup`, `LatestInOrder`, `ClosedBelow`, `StoppedQueueLetsGo` | 41,906 | 20 s |
| `mission` | `MCCleaning` | `TourInOrder`, `BucketForTheGoal`, `NoStaleEvent`, `MissionEnds` | 281,880 | 30 s |
| `tree` | `MCBehaviorTree` | `NothingRunsBelowReturned`, `OrderedResult`, `PassedOver`, `LeavingEndsTree` | 29,515 | 2 min 20 s |
| `robot_task` | `MultiGoalServer` | `QueuesAgree`, `TerminatedCallEnds`, `GoalIsTakenUp`, `ShutdownEnds` | 146,307 | 1 min |
| `serial` | `SerialNode` | `PauseRealigns`, `PublishedInOrder`, `LastFrame`, `BucketReachesBase` | 357,185 | 25 s |
| `lidar` | `Lidar` | `ScansAreWhole`, `ScansInOrder`, `LatestScanPublished` | 1,196,401 | 2 min |
| `costmap` | `MCCostmap2DROS` | `MasterIsRight`, `StartMeansUpdated`, `StartEnds` | 800,995 | 2 min 10 s |
| `amcl` | `Amcl` | `MotionCountedOnce`, `RestartResumes`, `PoseIsPublished` | 651,725 | 1 min 10 s |

Except in `MoveBase`, the type invariant is the first conjunct of one of the
invariants, as the comment there says.

Bounds and why they do:

- *move_base*: two goals show every pair of a goal and the one that takes over,
  precedes or cancels it; `InvalidGoals` and `ForeignGoals` are chosen so that a take-over
  by a valid and by an invalid goal both happen. Buffers are three because the code has
  three; they are a symmetry set in `safety`, and `LiveSpec` fixes which is which
  elsewhere. One retry of planning, one recovery and the oscillation
  time-out in `safety`, so that all three causes of a recovery happen and a goal is given up
  after one or without one (that the order holds for any number of them is proved);
  one call of what is `Callable`: a
  reconfiguration that replaces any subset of the two plugins, a plan for an external user, or
  `clearCostmapsService`, at any point. The liveness runs have no such call: their states would
  treble. Cancels are in
  `awake` and `ends`, where the lost wake-ups and the ends are; that a cancelled goal leaves the
  node at rest is proved. `ends` has one goal, since cancel, shutdown and patience
  concern the goal being pursued.
- *events*: three queues in a chain, the shortest in which an event passes through a queue to
  another; two threads, since `notify_one` chooses between two; three events in queues of
  one (which hold two), so that the oldest is dropped.
- *mission*: three points and five goals: the first, a middle and the last point, and
  two goals lost or timed out on the way.
- *tree*: eleven nodes: what FSM_CALL_BT makes around a SEQ of a SEL and a PAR; the PAR has a
  task that waits and one that ends by itself, and comes after a child that has a result, so that it
  inherits one. A SEQ that inherits FAIL and a PAR that is left occur too.
- *robot_task*: two callers, so that one goal is queued, runs or is joined while the other
  is; both implementations.
- *serial*: frames of three parts, two frames, a port that holds four parts: an overrun cuts
  a frame in any place.
- *lidar*: five items a session in turns of two, a local buffer of three nodes, batches of
  two: turns that begin within and at the edge of a batch, and buffers that run full; one
  call of a service, and with it two sessions.
- *costmap*: five cells of two units, the robot in the middle one (at either of its points), a wall in the cell on
  one side of it that the map server's updates put up and take away, the end of the sensor's ray on
  the other side. Beyond the wall and beyond what is seen there is one more cell, which only bounds
  that were widened by the radius reach: without the widening `MasterIsRight` fails (its mutant). Radii of
  0, 1 and 2: none, one that is rounded up to a cell, and a whole cell. Two events (messages, calls, moves,
  changes of the radius) besides what follows from them. With these bounds a cost outlives its obstacle in an outermost
  cell, bounds are read torn and parts are lost (each was confirmed by a run that denied it). Longer
  sequences of events are left to the proofs; only `StartEnds` depends on this bound.
- *amcl*: two lasers, two moves of one with a threshold of one (one move is below it, two
  are not), two messages or calls, one failed scan, one interrupt or kill.

Fairness is weak fairness of threads, which are threads of an operating system whose
locks are held for finitely many steps; of the delivery of messages that were sent
(goals, cancels, results, the latched map); and of the sources that the
documentation takes as running: scans for `amcl`, the base's stream for `serial`, a
localization that finds the robot again for `costmap`. Time-outs of a waiting thread are
steps of that thread. Nothing is assumed of users, of failures, or of shutdowns.

In `MoveBase`: weak fairness of the executor, of the planner and of the thread of the
callbacks (timer, a running `reconfigureCB`, `planService`); strong fairness of the locks it
waits for (the executor releases `configuration_mutex_` at the end of every cycle and
sleeps, `makePlan` the planner's costmap at the end of every plan); strong fairness of
patience running out (time passes; a patience that is restarted for ever is
lowered by code, not by the clock). Nothing is assumed of clients, of the
outcome of planning and control, or of shutdown. `NoEndlessPlanning` names its
own premises: sensor data stays current, CONTROLLING is not reached again.

Some properties name cases that they leave out, because the code allows them and
nothing in the repository says it should not: each is a history variable or a
definition in the module, and a line in section 4.

## 4. Where code and comments disagree, and what is plain from the code

`claim_success` finds a violation and is a `finding` in `PROJECT.json`: goal 2 takes over
while a plan to goal 1 is being published; the robot is at the end of that plan; goal 2
is reported as reached (`move_base.cpp:886`).

The rest was met while modelling. Each is plain from the lines named, and where a
property has to leave it out it does so by name:

- `move_base.cpp`: a reconfiguration clears the plans and leaves `new_global_plan_` (256);
  with `shutdown_costmaps` it stops the costmaps during a goal and nothing starts them again (1159);
  a goal whose frame cannot be transformed restarts patience every cycle (740);
  a take-over by an invalid goal leaves `recovery_index_` for the next goal (698);
  without a planning frequency, publishing the old goal's plan switches off the planner the new goal
  had just switched on (612); a take-over enters PLANNING without stopping the base, which the
  comment at 615 takes for granted; taking `planner_mutex_` (231) is not "wait for the current planner
  to finish planning".
- `BT.h`: a PAR that inherits a result returns it whatever its children report (59, 72), so
  below a SEQ the failures of a PAR that is not its first child are lost; a PAR that begins to wait after all its children ended is not notified again
  (`MissedAll`); a queue constructed below a closed one is deaf (`Deaf`, from
  `EventSystem.h:246`).
- `cleaning.cpp`: the bucket of the first point is never commanded; after a time-out at the last point
  the mission stays in Stop.
- `multi_goal_action_server.py`: the drain at shutdown dies of an exception (398); a goal cancelled
  before its start is forgotten.
- `my_serial_node.cpp`: an unplugged port ends the node (257); a read cut behind a header passes its
  check sum (133).
- `rplidar_driver.cpp`: a time-out within a node makes the standard mode handle the rest of the
  batch before once more (`replayed`); two seconds of silence end its grabbing thread and
  nothing starts another.
- `costmap_2d`: the bounds of a map update are lost if another comes before a cycle has read them or
  while it reads them, or between their reading and the reset of `has_updated_data_` (`static_layer.cpp:239-243`
  against 283-291): the part stays wrong in the master map until an update covers it (`lost`);
  bounds grow by the radius in metres (`inflation_layer.cpp:157-160`) while costs are spread over the
  radius rounded up to cells (`costmap_2d.cpp:183`): unless it is a multiple of the resolution the least
  cost may outlive its obstacle in the outermost ring of cells (second disjunct of `Right`); an
  update in flight over `stop()` counts as one of the new session (`early`); the map may
  arrive between `subscribe` and `map_received_ = false` (`MapIsGone`); between
  `clear_costmaps` and the next cycle the planner sees an empty map; `movementCB` compares a pose
  with itself (`costmap_2d_ros.cpp:424`).
- `amcl_node.cpp`: a bad scan returns after the motion update, and the next one applies the
  motion again (`twice`); if the first scan is not published the forced publication is lost
  (`forceLost`); interrupted before its first transform, the node saves an uninitialized one;
  `reconfigureCB` starts from the pose published last and drops one not yet published (614).

## 5. Proofs

TLC checks an instance; the theorems hold for every value of the constants that satisfies the named
assumptions, which say no more than what the constructors and the build of the node guarantee:

- `SimpleActionServer`, `MoveBase`: constants have their types, there are three buffers. So any number
  of goals, any size of the recovery list, every parameter, any number of reconfigurations and services.
- `EventQueue` (`QueuesAssumption`): the queues form a tree (`Above` are the ancestors of a queue, and
  each is reached by the parents), the spin event is none of the events. Any tree, any bound, any threads.
  `EventQueueClients` numbers the events in the order they are raised.
- `Cleaning`: the FSM has a queue and its task one below it; any number of points and goals, any bound
  of the queues.
- `BehaviorTree` (`TreeAssumption`): a node is child of one node and once, a task's queue is below it,
  the top node's parent is the FSM's queue. Any such tree.
- `MultiGoalServer`: any set of goals. `SerialNode`: any number of frames, size of the port, number of messages;
  velocity and bucket commands differ. `Amcl`: any set of lasers, any poses, thresholds and intervals, any number
  of moves, calls, faults and restarts.
- `Lidar`: any of the four modes, any positive length of a turn and of a batch, a buffer of two nodes or more
  (the driver's has 8192), any number of items and of calls.
- `LayeredCostmap`, `Costmap2DROS`: a row of three cells or more; cells of any even length; any radius of
  inflation, also one that is no multiple of a cell; any maps, places of the robot and ends of rays on the row; any
  parts that the map's updates replace; any number of events.

| theorem | states | rests on |
|---|---|---|
| `TypeCorrect` | `TypeOK` | `CapturedPlans`, `ResultChosen` |
| `BuffersDistinct` | `PlanBuffersDistinct` | `CapturedPlans` |
| `RecoveriesExist` | `RecoveryExists` | types |
| `GoalsGetTheirResult` | `ActiveWhileExecuting` | `OneGoalEach`, `AcceptsAGoal`, `ResultChosen` |
| `RestsBetweenGoals` | `AtRestBetweenGoals` | `AtRestWhenReporting` |
| `RecoveriesComeFirst` | `AllRecoveriesBeforeGiveUp` | `RunBelowIndex`, `OneHolder`, `GoalsAscend`, the invariants above |
| `Implements` | `ImplementsNavService` | the invariants above |
| `WakeupsKept` | `NoLostWakeup` | `OnePlace`, `FiniteWaiters` |
| `CloseReachesAll` | `ClosedBelow` | `AncestorsAlive` |
| `EventsLatestInOrder` | `LatestInOrder` | `Bounded`, `Numbered`, `AncestorsAlive` |
| `GoalsFollowTheTour` | `TourInOrder` | `Control`, `OnTheWay`, `AtPoint`, `Progress`, the queues' `EQInv` |
| `BucketIsWhereTheGoalIs` | `BucketForTheGoal` | the same |
| `NoEventIsStale` | `NoStaleEvent` | `Control`, `OnTheWay`, `EQInv` |
| `NothingIsLeftRunning` | `NothingRunsBelowReturned` | `Family` (`KidsInPlace`, `InOrder`, `Reports`), `ActiveAbove` |
| `ResultsAreTheChildrens` | `OrderedResult` | `Family` |
| `OnlyTheInheritedResultPassesOver` | `PassedOver` | `Family` |
| `QueuesAlwaysAgree` | `QueuesAgree` | `OnTheWay`, `Returned` |
| `GoalsRunAndEndOnce` | `OneRunOneResult`: no goal is executed again, no result replaced (action property) | the same |
| `PausesRealign` | `PauseRealigns` | `InStep` |
| `OdometryInOrder` | `PublishedInOrder` | `InSequence`, `Rising` |
| `LastFrameIsLatest` | `LastFrame` | `Writes` |
| `MotionIsCounted` | `MotionCountedOnce` | `OffsetKept`, types |
| `RunsResume` | `RestartResumes` | `EndKept`, `OffsetKept` |
| `MasterIsAlwaysRight` | `MasterIsRight` | `CallsInPlace`, `UnreadTold`, `Obstacles`, `Inflated`, `Justified`, types; `UpdatedValue`: what an update computes |
| `StartWaitsForAnUpdate` | `StartMeansUpdated` | `InitializedByUpdate` |
| `ScansAreAlwaysWhole` | `ScansAreWhole` | `ThisTurn`, `Handover`, `Buffers`, `NodesTyped`, `CachedWhole` |
| `ScansComeInOrder` | `ScansInOrder` | `Untaken` |

The arguments, `move_base` first. *The triple buffer*: both threads copy a pointer before taking the
lock; the pointers stay distinct because the copy still equals the member when it is
swapped in (`CapturedPlans`: only the planner writes `planner_plan_`, only the
executor `controller_plan_`), and then each swap is a transposition. *Results*:
the server's two handles and its flags agree with the status of the goals
(`OneGoalEach`), whoever sees a new goal can accept it because only the executor
consumes it (`AcceptsAGoal`), and every way out of `executeCb` sets a result exactly
once. `ActiveWhileExecuting` alone is not inductive: without `OneGoalEach` accepting a
goal could leave another one running. *Rest*: a result is reported after `resetState`
except where the goal is given up or refused; the strengthening says the node is at
rest at the report already, and no planner step disturbs rest because the planner
changes state only while it is to run. *Refinement*: goals' statuses map to
phases; each server call maps to `Submit`, `Refuse`, `TakeUp`, `Conclude` or a stutter.
*Recoveries*: the behaviors below `recovery_index_` were run for the goal (`RunBelowIndex`); that a
reconfiguration cannot take the index back between the last behavior and the abort is the
exclusion by `configuration_mutex_` (`OneHolder`), and that the goal begins with index 0 is rest
between goals, where goals accepted one after the other ascend (`GoalsAscend`).

*Event queues*: `EQInv` holds whatever operation is called next (`AnyCallInv`), so the mission and the
trees take it over without looking at an operation again. A wake-up is kept because a thread is in one place only
(`OnePlace`): one `notify_one` moves one sleeper over, if there is one, and the event added is matched by it.
A close reaches every subscriber because a queue is constructed and destroyed within the life of its ancestors
(`AncestorsAlive`). Order: an event goes to all connected queues in one step, so each of
them ends with the number raised last (`Numbered`); the spin event is let in only at the front.

*The mission*: that an event is never stale is a matter of at most one transition event being on its
way - raised by the task, on the topic, or in the queue (`OnTheWay`: at most one, and it was raised for the
present state, by a task that has nothing more to say). `Control` ties the FSM thread to the task
thread; `AtPoint` carries the success of the goal from `/arrived` to `nextGoal`; `Progress` is
what `nextGoal` then needs to advance the point. None of them is inductive without the others.

*Trees*: `Family(n)` relates one node to its children, and the proof is that a step of a node disturbs the
family of the node and of its parent only (`Elsewhere`, `Others`). `KidsInPlace` says which children exist and
were started, `InOrder` what a SEQ or SEL has taken from them, `Reports` what a PAR has got. That nothing runs
below a node that returned is climbed up the tree: all nodes between an active node and the top are active
(`ActiveAbove`).

*MGActionServer*: goals, cancels and the loop race, but a goal enters the queues once, when it is received; the
strengthening says what holds of a goal not received yet, wherever its cancel is (`OnTheWay`).

*The serial node*: what the node has read and what the port holds are one stream. Its parts are in the order they
were sent, behind what was published (`InSequence`), and while the node is in step frames lie one behind the
other from the first place on (`InStep`). A pause that empties the port and lets the read time out
starts such a stream anew, when the base goes on at the start of a frame.

*Localization*: `MotionCountedOnce` says nothing of a filter before its first scan;
`OffsetKept` adds that then no transform counts as new and that only a node with a map has a filter
in use. The offset of the run before travels from the transform to the parameter server, to the
filter and, with the first scan, to the offset of the next run: `EndKept` says for each
stage where it is.

*The costmap*: `MasterIsRight` speaks of the moments when nothing is announced; the invariant has to say what the
master map is worth at all others. A cell is `Pending` from the change of its layer until an update has computed
it, whether it is announced by a flag and the part of a message, by extra bounds, or by the bounds that the update
under way has collected. What the static layer changed counts as pending while it is `unread`, and `UnreadTold` says that
an update has collected it, or is told of it, or some of it is known to be `lost`: this is where the steps
of the callback between its statements and those of the update between its own are weighed against each
other. Three things are said of the rest: a lethal cell of the master map is one of the layers (`Obstacles`); a
lethal cell that is not pending has spread its costs, wherever they reach (`Inflated`); and a cost that is there was
spread by a lethal cell that still is, unless something within the radius is pending or only the rounded radius
reaches that far (`Justified`, with `Outermost` for the exception). The last two measure differently, the first in
cells rounded up and the second in lengths, as the code does; one statement about both would be wrong. None of
them is inductive alone: an update inflates its window also from lethal cells outside of it, and those
have to be right already (`UpdatedValue`). That the window is
wide enough is `CallsInPlace`: the bounds handed to the costs are those collected, widened by the radius, or the
whole map. The lemmas on `CellOf` turn distances of points into distances of cells without
division. `Max` and `Min` are choices, so that their values follow from the well-foundedness of `<`; nothing
is computed by recursion.

*The lidar*: what the caching thread has collected is of the session under way because no session begins before the thread
of the last one is joined, and a thread that ends leaves nothing behind but the cache, which is whole by
itself (`Handover`, `CachedWhole`). Within a session the nodes collected and those read but not yet handled
rise in number, the latter behind the former, and none is newer than what the stream has sent, less the one capsule that express
modes hold back (`ThisTurn`, `Newest`); so the next read goes on behind them. `Handover` also says that a capsule
held back is the last one that the lidar sent, unless this session has sent none yet: after a loss it is gone. A
scan is copied only after a test that found it (`Untaken`): the test is made without the lock, but only the
thread that tests takes scans away.

All strengthenings were checked by TLC before they were proved.

Three properties are stated more strongly than before because their proofs showed that they said less than they
could: of a PAR, `OrderedResult` spoke only when it had not been terminated, and a PAR always terminates
itself - it now speaks of every PAR that returned; `QueuesAgree` excepted the Python server's
drain that dies of an exception, which does not break it; `PublishedInOrder` excepted the
frames behind the last that the base sends, and there are none.

Model-checked only: all liveness properties (fairness and ENABLED are beyond the prover): `PursuedGoalIsPlanned`,
`WaitingGoalIsTakenUp`, `CancelEndsGoal`, `ThreadsEnd`, `NoEndlessPlanning`, `StoppedQueueLetsGo`, `MissionEnds`,
`LeavingEndsTree`, `TerminatedCallEnds`, `GoalIsTakenUp`, `ShutdownEnds`, `BucketReachesBase`, `LatestScanPublished`,
`StartEnds`, `PoseIsPublished`. No invariant and no action property is left to the runs alone.

## 6. Not modelled

- `~MoveBase`'s order of deletion (it deletes the costmaps before it stops the planner thread,
  455-462, plain from the statements), what `planService` and the planner thread do to each other
  inside one planner plugin, the
  `default` case of the state switch (unreachable by type). Changes of scalar parameters at run time are
  constants of the model, chosen freely per run. The plugins' results are nondeterministic choices.
- `FSM.h`: machines nested in states and in parallel, the log of decisions. `BT.h`: decorators.
  `TAO.h`: no node of the robot uses it.
- `rplidar_ros`: the decoding of distances, grabbing by interval, the channels below, the conversion
  to a message.
- `costmap_2d`: rolling maps and changes of size, the voxel layer, kept observations, `resume`,
  footprints larger than a cell, publishing; `force_updating` of the clearing recovery (off by default), with which
  the executor itself calls `updateMap`; callbacks that `onInitialize` spins on the executor's thread while it waits
  for the map (97): one thread runs them all.
- `robot_task`: the third result, PLAN, of a task (`RobotTask.h:92-99`); the drain of the queues without the lock after the
  loop (426-430) is one step.
- `my_serial_node`: the end of its loop by `ros::ok()`; a frame that dribbles in so slowly that the total
  time-out of `read` cuts it; damaged frames whose check sum is right by chance.
- `amcl`: particles, motion and laser models (floating point, random numbers), bags, diagnostics.
- The scoring of trajectories in the local planners and the potentials of the global planners are
  floating-point numerics over large arrays; drivers for other operating systems, parsers, GUI and robot
  descriptions have no state machine of interest.
- Everything else listed as `not_modelled` in `PROJECT.json`, for the reason given there.

## 7. What is left to do

In order of what matters to the robot:

1. The shutdown of `move_base`, in the order of the deletions in `~MoveBase`; liveness with
   `clearCostmapsService`, whose part in `safety` shows only that no circle of waiting arises.
2. The latches of the local planners (stop and rotate, oscillation flags) and
   `move_slow_and_clear`.
3. Nested FSMs; TAO, should a node come to use it.
4. The search of the global planners over a small grid, as a pure algorithm against a reference.

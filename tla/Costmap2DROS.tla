---------------------------- MODULE Costmap2DROS ----------------------------
(***************************************************************************)
(* Costmap2DROS with a static, an obstacle and an inflation layer, and the *)
(* threads that meet in it: the map update thread, the executor of         *)
(* move_base (start, stop, pause, the clearing recovery) and the callbacks *)
(* (sensors, maps and their updates, reconfiguration, clear_costmaps).     *)
(* The master map is updated under its mutex; the layers' own data are     *)
(* not, or under other mutexes: what the static layer's callbacks write    *)
(* and the update thread reads, both do member by member.                  *)
(*                                                                         *)
(* The map does not roll; its size is locked by the first map, so that a   *)
(* reconfiguration does not resize it; observations are not kept           *)
(* (observation_persistence is 0); clear_costmaps is not called while the  *)
(* costmap is stopped.                                                     *)
(***************************************************************************)
EXTENDS LayeredCostmap, Sequences

CONSTANTS
  Maps,         \* the maps that the map server may send
  Updates,      \* the parts of a map that its updates may replace
  RobotPlaces,  \* the points where the robot may be
  Targets,      \* the points where a ray may end
  MaxEvents     \* bound: how often the world does something

ASSUME WorldAssumption ==
  /\ Maps \subseteq [Cells -> {Free, Lethal}] /\ MaxEvents \in Nat
  /\ RobotPlaces \subseteq Places /\ Targets \subseteq Places
  /\ Updates \subseteq [x : Cells, width : 1..Size]

VARIABLES
  ok,           \* ros::ok()
  upd,          \* where the map update thread is
  bounds,       \* minx_, maxx_ of the update
  at,           \* the robot's pose that the update goes by
  exec,         \* what the executor is doing
  cb,           \* what the callback thread is doing
  incoming,     \* the part of the grid that its message replaces
  stopUpdates,  \* stop_updates_
  initialized,  \* initialized_
  stopped,      \* stopped_; the layers are not subscribed
  master,       \* the master map
  static,       \* the grid of the static layer
  mapX,         \* x_: where the part of it that is new begins
  mapWidth,     \* width_
  hasUpdated,   \* has_updated_data_
  mapReceived,  \* map_received_
  mapOnItsWay,  \* the map server's message to the static layer
  obstacle,     \* the grid of the obstacle layer
  buffer,       \* the observation buffer: the last one, or none
  extra,        \* has_extra_bounds_: the whole map, whenever there are any
  radius,       \* inflation_radius_
  reinflate,    \* need_reinflation_
  last,         \* last_min_x_, last_max_x_
  pos,          \* where the robot is
  localized,    \* tf knows it
  events,       \* how often the world did something
  unread,       \* history: what is new in the grid since an update's bounds covered it
  lost,         \* history: a part that was new was forgotten unread
  inFlight,     \* history: this update began before the last stop or pause
  early,        \* history: such an update set initialized_
  updated       \* history: an update that began after it did

regionVars == <<mapX, mapWidth>>
staticVars == <<static, regionVars, hasUpdated, mapReceived, mapOnItsWay, unread, lost>>
obstacleVars == <<obstacle, extra>>
inflationVars == <<radius, reinflate, last>>
updateVars == <<upd, bounds, at, master>>
lifeVars == <<stopUpdates, initialized, stopped, inFlight, early, updated>>
worldVars == <<ok, pos, localized, events>>
costmapVars == <<updateVars, exec, cb, incoming, lifeVars, staticVars, obstacleVars, buffer,
          inflationVars, worldVars>>

Observations == [from : RobotPlaces, to : Targets, mark : BOOLEAN]

\* The static layer's bounds of the update are complete, and have not yet been widened.
Collecting == upd \in {"flag", "extra", "obstacle", "inflate"}

\* The update thread holds the mutex of the master map.
Locked == Collecting \/ upd \in {"low", "high", "width", "costs"}

Updating == Locked \/ upd \in {"static", "done"}

\* A callback of the static layer has written the grid, and has begun to say so.
Overwriting == cb \in {"mapWidth", "updateWidth", "received", "flag"}

Writing == cb \in {"map", "update"} \/ Overwriting

WholeGrid == [x |-> 0, width |-> Size]

CostmapTypeOK ==
  /\ {ok, localized, stopUpdates, initialized, stopped, hasUpdated, mapReceived, mapOnItsWay,
      extra, reinflate, lost, inFlight, early, updated} \subseteq BOOLEAN
  /\ pos \in RobotPlaces /\ at \in RobotPlaces /\ events \in 0..MaxEvents
  /\ upd \in {"none", "head", "test"} \/ Updating
  /\ exec \in {"idle", "stopping", "subscribing", "forgetting", "awaitMap", "starting",
               "clearing"}
  /\ cb \in {"idle", "join", "restart"} \/ Writing
  /\ incoming \in {WholeGrid} \cup Updates
  /\ mapX \in Cells /\ mapWidth \in 1..Size /\ unread \subseteq Cells
  /\ {bounds, last} \subseteq [lo : Int, hi : Int] /\ radius \in 0..MaxRadius
  /\ master \in [Cells -> Costs] /\ static \in [Cells -> {Free, Lethal}]
  /\ obstacle \in [Cells -> {NoInfo, Free, Lethal}]
  /\ buffer \in {<<>>} \cup {<<obs>> : obs \in Observations}

\* The constructors have waited for the transform and the map, and the first
\* reconfiguration has started the update thread.
CostmapInit ==
  /\ ok = TRUE /\ pos \in RobotPlaces /\ localized = TRUE /\ events = 0
  /\ upd = "head" /\ bounds = NoBounds /\ at = pos
  /\ exec = "idle" /\ cb = "idle" /\ incoming = WholeGrid
  /\ stopUpdates = FALSE /\ initialized = TRUE /\ stopped = FALSE
  /\ master = NothingThere /\ static \in Maps /\ mapX = 0 /\ mapWidth = Size
  /\ hasUpdated = TRUE /\ mapReceived = TRUE /\ mapOnItsWay = FALSE
  /\ obstacle = NothingThere /\ buffer = <<>> /\ extra = FALSE
  /\ radius \in 0..MaxRadius /\ reinflate = TRUE /\ last = AllBounds
  /\ unread = Cells /\ lost = FALSE
  /\ inFlight = FALSE /\ early = FALSE /\ updated = TRUE

-----------------------------------------------------------------------------
\* mapUpdateLoop.  A reconfiguration that waits for the thread has set its flag.
UpdateHead ==
  /\ upd = "head"
  /\ upd' = IF ok /\ cb # "join" THEN "test" ELSE "none"
  /\ inFlight' = FALSE
  /\ UNCHANGED <<bounds, at, master, exec, cb, incoming, stopUpdates, initialized, stopped,
                 early, updated, staticVars, obstacleVars, buffer, inflationVars, worldVars>>

\* updateMap: updates may be stopped, and the pose of the robot unknown.
UpdateTest ==
  /\ upd = "test"
  /\ upd' = IF ~stopUpdates /\ localized THEN "static" ELSE "head"
  /\ at' = pos
  /\ UNCHANGED <<bounds, master, exec, cb, incoming, lifeVars, staticVars, obstacleVars,
                 buffer, inflationVars, worldVars>>

\* The mutex is taken; updateBounds of the static layer looks whether something is new ...
StaticBounds ==
  /\ upd = "static"
  /\ upd' = IF mapReceived /\ hasUpdated THEN "low" ELSE "extra"
  /\ UNCHANGED <<bounds, at, master, exec, cb, incoming, lifeVars, staticVars, obstacleVars,
                 buffer, inflationVars, worldVars>>

\* ... reads x_, x_ once more and width_, while a callback may write them ...
StaticLow ==
  /\ upd = "low"
  /\ bounds' = [bounds EXCEPT !.lo = Centre(mapX)] /\ upd' = "high"
  /\ UNCHANGED <<at, master, exec, cb, incoming, lifeVars, staticVars, obstacleVars, buffer,
                 inflationVars, worldVars>>

StaticHigh ==
  /\ upd = "high"
  /\ bounds' = [bounds EXCEPT !.hi = Centre(mapX)] /\ upd' = "width"
  /\ UNCHANGED <<at, master, exec, cb, incoming, lifeVars, staticVars, obstacleVars, buffer,
                 inflationVars, worldVars>>

StaticWidth ==
  /\ upd = "width"
  /\ bounds' = [bounds EXCEPT !.hi = @ + Resolution * mapWidth] /\ upd' = "flag"
  /\ UNCHANGED <<at, master, exec, cb, incoming, lifeVars, staticVars, obstacleVars, buffer,
                 inflationVars, worldVars>>

\* History: has_updated_data_ or x_ is overwritten, and what it told of is neither among the
\* bounds that were read nor in the part that will be told of next.
Collected == IF Collecting THEN Window(bounds) ELSE {}
Loses(next) ==
  /\ mapReceived /\ hasUpdated /\ ~Overwriting
  /\ ~(Area(mapX, mapWidth) \subseteq Collected \cup next)

\* ... and says that it did.
StaticRead ==
  /\ upd = "flag"
  /\ hasUpdated' = FALSE /\ upd' = "extra"
  /\ lost' = (lost \/ Loses({}))
  /\ UNCHANGED <<bounds, at, master, exec, cb, incoming, lifeVars, static, regionVars,
                 mapReceived, mapOnItsWay, unread, obstacleVars, buffer, inflationVars,
                 worldVars>>

\* useExtraBounds of the obstacle layer.
ExtraBounds ==
  /\ upd = "extra"
  /\ bounds' = IF extra THEN Joined(bounds, WholeMap) ELSE bounds
  /\ extra' = FALSE /\ upd' = "obstacle"
  /\ UNCHANGED <<at, master, exec, cb, incoming, lifeVars, staticVars, obstacle, buffer,
                 inflationVars, worldVars>>

\* The bounds of a ray.
Touched(b, obs) ==
  Joined(b, Bounds(Min({obs.from, obs.to}), Max({obs.from, obs.to})))

\* The rest of its updateBounds.
ObstacleBounds ==
  /\ upd = "obstacle"
  /\ LET b == IF buffer = <<>> THEN bounds ELSE Touched(bounds, buffer[1]) IN
       bounds' = Joined(b, Bounds(at, at))
  /\ obstacle' = IF buffer = <<>> THEN obstacle ELSE Observed(obstacle, buffer[1])
  /\ upd' = "inflate"
  /\ UNCHANGED <<at, master, exec, cb, incoming, lifeVars, staticVars, extra, buffer,
                 inflationVars, worldVars>>

\* The bounds grow by the radius as it is given, not by the cells that it is rounded up to.
InflationBounds ==
  /\ upd = "inflate"
  /\ last' = bounds
  /\ bounds' = IF reinflate THEN AllBounds ELSE Widened(Joined(last, bounds), radius)
  /\ unread' = IF ~mapReceived THEN unread
               ELSE IF reinflate THEN {} ELSE unread \ Window(bounds)
  /\ reinflate' = FALSE /\ upd' = "costs"
  /\ UNCHANGED <<at, master, exec, cb, incoming, lifeVars, static, regionVars, hasUpdated,
                 mapReceived, mapOnItsWay, lost, obstacleVars, buffer, radius, worldVars>>

\* The rest of LayeredCostmap::updateMap.  The obstacle layer clears the footprint; the
\* static layer without a map leaves the master alone.  (minx_ and maxx_ are reset when the
\* next update begins; nobody reads them until then.)
UpdateCosts ==
  /\ upd = "costs"
  /\ obstacle' = [obstacle EXCEPT ![CellOf(at)] = Free]
  /\ \E window \in {Window(bounds)} :
       master' = Updated(master, IF mapReceived THEN static ELSE NothingThere, obstacle',
                         CellDistance(radius), window)
  /\ upd' = "done" /\ bounds' = NoBounds
  /\ UNCHANGED <<at, exec, cb, incoming, lifeVars, staticVars, extra, buffer,
                 inflationVars, worldVars>>

UpdateDone ==
  /\ upd = "done"
  /\ initialized' = TRUE
  /\ early' = (early \/ inFlight) /\ updated' = (updated \/ ~inFlight)
  /\ upd' = "head"
  /\ UNCHANGED <<bounds, at, master, exec, cb, incoming, stopUpdates, stopped, inFlight,
                 staticVars, obstacleVars, buffer, inflationVars, worldVars>>

-----------------------------------------------------------------------------
Event == events < MaxEvents /\ events' = events + 1

\* What begins with a stop or a pause.
UpdatesStop ==
  /\ stopUpdates' = TRUE
  /\ inFlight' = (Updating \/ inFlight) /\ early' = FALSE /\ updated' = FALSE

\* Mutant: initialized_ is left as it was.
StillInitialized == initialized
NotInitialized == FALSE

Pause ==
  /\ exec = "idle" /\ Event
  /\ UpdatesStop /\ initialized' = NotInitialized
  /\ UNCHANGED <<updateVars, exec, cb, incoming, stopped, staticVars, obstacleVars, buffer,
                 inflationVars, ok, pos, localized>>

Stop ==
  /\ exec = "idle" /\ Event
  /\ UpdatesStop /\ exec' = "stopping"
  /\ UNCHANGED <<updateVars, cb, incoming, initialized, stopped, staticVars, obstacleVars,
                 buffer, inflationVars, ok, pos, localized>>

\* The layers are deactivated.
StopLayers ==
  /\ exec = "stopping"
  /\ mapOnItsWay' = FALSE
  /\ initialized' = NotInitialized /\ stopped' = TRUE /\ exec' = "idle"
  /\ UNCHANGED <<updateVars, cb, incoming, stopUpdates, inFlight, early, updated, static,
                 regionVars, hasUpdated, mapReceived, unread, lost, obstacleVars, buffer,
                 inflationVars, worldVars>>

\* Mutant: stop_updates_ is left as it was.
StillStopped == stopUpdates
UpdatesGoOn == FALSE

\* start.  The static layer subscribes again, and the map is sent again.
Start ==
  /\ exec = "idle" /\ (stopUpdates \/ stopped)
  /\ IF stopped
     THEN exec' = "subscribing" /\ mapOnItsWay' = TRUE /\ UNCHANGED stopUpdates
     ELSE exec' = "starting" /\ stopUpdates' = UpdatesGoOn /\ UNCHANGED mapOnItsWay
  /\ UNCHANGED <<updateVars, cb, incoming, initialized, stopped, inFlight, early, updated, static,
                 regionVars, hasUpdated, mapReceived, unread, lost, obstacleVars, buffer,
                 inflationVars, worldVars>>

\* onInitialize of the static layer then forgets the map that it had, and what was new in it.
StartForgets ==
  /\ exec = "subscribing"
  /\ mapReceived' = FALSE /\ exec' = "forgetting"
  /\ unread' = Cells
  /\ UNCHANGED <<updateVars, cb, incoming, lifeVars, static, regionVars, hasUpdated,
                 mapOnItsWay, lost, obstacleVars, buffer, inflationVars, worldVars>>

StartResets ==
  /\ exec = "forgetting"
  /\ hasUpdated' = FALSE /\ exec' = "awaitMap"
  /\ lost' = (lost \/ Loses({}))
  /\ UNCHANGED <<updateVars, cb, incoming, lifeVars, static, regionVars, mapReceived,
                 mapOnItsWay, unread, obstacleVars, buffer, inflationVars, worldVars>>

StartHasMap ==
  /\ exec = "awaitMap" /\ (mapReceived \/ ~ok)
  /\ stopped' = FALSE /\ stopUpdates' = UpdatesGoOn /\ exec' = "starting"
  /\ UNCHANGED <<updateVars, cb, incoming, initialized, inFlight, early, updated, staticVars,
                 obstacleVars, buffer, inflationVars, worldVars>>

\* There is no update thread: map_update_thread_ is NULL.
NoThread == upd = "none" /\ cb # "join"

StartReturns ==
  /\ exec = "starting" /\ (initialized \/ NoThread \/ ~ok)
  /\ exec' = "idle"
  /\ UNCHANGED <<updateVars, cb, incoming, lifeVars, staticVars, obstacleVars, buffer,
                 inflationVars, worldVars>>

\* The clearing recovery clears the grid of the obstacle layer ...
Clear ==
  /\ exec = "idle" /\ localized /\ Event
  /\ obstacle' = Cleared(obstacle, pos) /\ exec' = "clearing"
  /\ UNCHANGED <<updateVars, cb, incoming, lifeVars, staticVars, extra, buffer, inflationVars,
                 ok, pos, localized>>

\* ... and asks for an update of the whole map.
ClearBounds ==
  /\ exec = "clearing"
  /\ extra' = TRUE /\ exec' = "idle"
  /\ UNCHANGED <<updateVars, cb, incoming, lifeVars, staticVars, obstacle, buffer,
                 inflationVars, worldVars>>

-----------------------------------------------------------------------------
Busy(what, part) == cb = "idle" /\ cb' = what /\ incoming' = part

\* incomingMap and incomingUpdate write the grid ...
IncomingMap ==
  /\ mapOnItsWay /\ Busy("map", WholeGrid)
  /\ static' \in Maps /\ mapOnItsWay' = FALSE
  /\ unread' = Cells
  /\ UNCHANGED <<updateVars, exec, lifeVars, regionVars, hasUpdated, mapReceived, lost,
                 obstacleVars, buffer, inflationVars, worldVars>>

IncomingUpdate ==
  /\ ~stopped /\ Event
  /\ \E part \in Updates :
       LET new == Area(part.x, part.width) IN
       /\ Busy("update", part)
       /\ static' = [c \in Cells |-> IF c \in new THEN Lethal - static[c] ELSE static[c]]
       /\ unread' = unread \cup new
  /\ UNCHANGED <<updateVars, exec, lifeVars, regionVars, hasUpdated, mapReceived, mapOnItsWay,
                 lost, obstacleVars, buffer, inflationVars, ok, pos, localized>>

\* ... and then say what is new, in this order.
WriteX ==
  /\ cb \in {"map", "update"}
  /\ mapX' = incoming.x
  /\ cb' = IF cb = "map" THEN "mapWidth" ELSE "updateWidth"
  /\ lost' = (lost \/ Loses(Area(incoming.x, incoming.width)))
  /\ UNCHANGED <<updateVars, exec, incoming, lifeVars, static, mapWidth, hasUpdated,
                 mapReceived, mapOnItsWay, unread, obstacleVars, buffer, inflationVars,
                 worldVars>>

WriteWidth ==
  /\ cb \in {"mapWidth", "updateWidth"}
  /\ mapWidth' = incoming.width
  /\ cb' = IF cb = "mapWidth" THEN "received" ELSE "flag"
  /\ UNCHANGED <<updateVars, exec, incoming, lifeVars, static, mapX, hasUpdated, mapReceived,
                 mapOnItsWay, unread, lost, obstacleVars, buffer, inflationVars, worldVars>>

WriteReceived ==
  /\ cb = "received"
  /\ mapReceived' = TRUE /\ cb' = "flag"
  /\ UNCHANGED <<updateVars, exec, incoming, lifeVars, static, regionVars, hasUpdated,
                 mapOnItsWay, unread, lost, obstacleVars, buffer, inflationVars, worldVars>>

WriteUpdated ==
  /\ cb = "flag"
  /\ hasUpdated' = TRUE /\ cb' = "idle"
  /\ UNCHANGED <<updateVars, exec, incoming, lifeVars, static, regionVars, mapReceived,
                 mapOnItsWay, unread, lost, obstacleVars, buffer, inflationVars, worldVars>>

MapServerSends ==
  /\ ~stopped /\ Event
  /\ mapOnItsWay' = TRUE
  /\ UNCHANGED <<updateVars, exec, cb, incoming, lifeVars, static, regionVars, hasUpdated,
                 mapReceived, unread, lost, obstacleVars, buffer, inflationVars, ok, pos,
                 localized>>

\* laserScanCallback; an observation that cannot be transformed is left out.
Observe ==
  /\ ~stopped /\ cb = "idle" /\ Event
  /\ buffer' \in {<<obs>> : obs \in {o \in Observations : o.from = pos /\ o.to # pos}}
  /\ UNCHANGED <<updateVars, exec, cb, incoming, lifeVars, staticVars, obstacleVars,
                 inflationVars, ok, pos, localized>>

\* clear_costmaps, under the mutex of the master map.  The inflation layer is initialized
\* anew, with need_reinflation_ false.
ResetLayers ==
  /\ ~stopped /\ exec \notin {"stopping", "subscribing", "forgetting", "awaitMap"}
  /\ cb = "idle" /\ ~Locked /\ Event
  /\ master' = NothingThere
  /\ obstacle' = NothingThere /\ reinflate' = FALSE
  /\ hasUpdated' = TRUE
  /\ unread' = Cells /\ lost' = (lost \/ Area(mapX, mapWidth) # Cells)
  /\ UNCHANGED <<upd, bounds, at, exec, cb, incoming, lifeVars, static, regionVars,
                 mapReceived, mapOnItsWay, extra, buffer, radius, last, ok, pos, localized>>

SetInflation ==
  /\ cb = "idle" /\ Event
  /\ radius' \in (0..MaxRadius) \ {radius} /\ reinflate' = TRUE
  /\ UNCHANGED <<updateVars, exec, cb, incoming, lifeVars, staticVars, obstacleVars, buffer,
                 last, ok, pos, localized>>

\* reconfigureCB stops the update thread, joins it ...
ReconfigureStops ==
  /\ cb = "idle" /\ Event
  /\ cb' = IF NoThread THEN "restart" ELSE "join"
  /\ UNCHANGED <<updateVars, exec, incoming, lifeVars, staticVars, obstacleVars, buffer,
                 inflationVars, ok, pos, localized>>

ReconfigureJoins ==
  /\ cb = "join" /\ upd = "none"
  /\ cb' = "restart"
  /\ UNCHANGED <<updateVars, exec, incoming, lifeVars, staticVars, obstacleVars, buffer,
                 inflationVars, worldVars>>

\* ... and starts another, if there is a frequency; the padding may have changed.
ReconfigureRestarts ==
  /\ cb = "restart"
  /\ cb' = "idle" /\ upd' \in {"head", "none"}
  /\ reinflate' \in {reinflate, TRUE}
  /\ UNCHANGED <<bounds, at, master, exec, incoming, lifeVars, staticVars, obstacleVars, buffer,
                 radius, last, worldVars>>

-----------------------------------------------------------------------------
RobotMoves ==
  /\ Event
  /\ pos' \in RobotPlaces \ {pos}
  /\ UNCHANGED <<updateVars, exec, cb, incoming, lifeVars, staticVars, obstacleVars, buffer,
                 inflationVars, ok, localized>>

GetLost ==
  /\ localized /\ Event
  /\ localized' = FALSE
  /\ UNCHANGED <<updateVars, exec, cb, incoming, lifeVars, staticVars, obstacleVars, buffer,
                 inflationVars, ok, pos>>

Localize ==
  /\ ~localized
  /\ localized' = TRUE
  /\ UNCHANGED <<updateVars, exec, cb, incoming, lifeVars, staticVars, obstacleVars, buffer,
                 inflationVars, ok, pos, events>>

NodeStops ==
  /\ ok /\ Event
  /\ ok' = FALSE
  /\ UNCHANGED <<updateVars, exec, cb, incoming, lifeVars, staticVars, obstacleVars, buffer,
                 inflationVars, pos, localized>>

Update ==
  \/ UpdateHead \/ UpdateTest
  \/ StaticBounds \/ StaticLow \/ StaticHigh \/ StaticWidth \/ StaticRead \/ ExtraBounds
  \/ ObstacleBounds \/ InflationBounds \/ UpdateCosts \/ UpdateDone

ExecutorGoesOn ==
  StopLayers \/ StartForgets \/ StartResets \/ StartHasMap \/ StartReturns \/ ClearBounds

CallbackGoesOn ==
  \/ IncomingMap \/ WriteX \/ WriteWidth \/ WriteReceived \/ WriteUpdated
  \/ ReconfigureJoins \/ ReconfigureRestarts

World ==
  \/ Pause \/ Stop \/ Start \/ Clear \/ IncomingUpdate \/ MapServerSends \/ Observe
  \/ ResetLayers \/ SetInflation \/ ReconfigureStops \/ RobotMoves \/ GetLost \/ NodeStops

CostmapNext == Update \/ ExecutorGoesOn \/ CallbackGoesOn \/ Localize \/ World

\* The threads run, the map is delivered, and a robot that is lost is found.
CostmapFairness ==
  /\ WF_costmapVars(Update) /\ WF_costmapVars(ExecutorGoesOn)
  /\ WF_costmapVars(CallbackGoesOn) /\ WF_costmapVars(Localize)

CostmapSpec == CostmapInit /\ [][CostmapNext]_costmapVars /\ CostmapFairness

-----------------------------------------------------------------------------
\* Nothing is under way or announced that the master map does not show.
Settled ==
  /\ ~Locked /\ ~Writing /\ exec # "clearing"
  /\ mapReceived /\ ~hasUpdated /\ ~extra /\ ~reinflate

\* A cell has the cost that it would have if all were computed anew.  But if the radius is no
\* multiple of the cell's length, then the outermost cells, which inflation reaches because
\* the radius is rounded up, may lie beyond the bounds, which grow by the radius as it is:
\* there the least cost may outlive its obstacle.
Right(c) ==
  LET full == FullMap(static, obstacle, CellDistance(radius))[c] IN
  \/ master[c] = full
  \/ /\ radius % Resolution # 0
     /\ full = Free /\ master[c] = CostAt(CellDistance(radius))

(***************************************************************************)
(* Once all changes that were announced have been taken up, every cell of  *)
(* the master map is Right: no change of a layer is lost between the       *)
(* threads, no bounds are too narrow and no inflated cost outlives its     *)
(* obstacle, but for the outermost ring of one that Right admits.  (The    *)
(* static layer may forget what is new in its grid before an update has    *)
(* read it: a second message overwrites x_ and width_, also while they     *)
(* are read; has_updated_data_ is reset for a message that came meanwhile; *)
(* clear_costmaps brings back only the part of the last message.  Then the *)
(* cells around that part are wrong until an update covers it.)  Every     *)
(* variable has its type.                                                  *)
(***************************************************************************)
MasterIsRight ==
  /\ CostmapTypeOK
  /\ Settled =>
       \A c \in Cells :
         Right(c) \/ (lost /\ \E d \in unread : Distance(c, d) <= CellDistance(radius))

(***************************************************************************)
(* "block until the costmap is re-initialized.. meaning one update cycle   *)
(* has run": when start() returns an update was made since the costmap was *)
(* stopped - unless there is no update thread (that of a reconfiguration   *)
(* may not have been started yet), or an update that was in progress when  *)
(* the costmap was stopped is taken for one.                               *)
(***************************************************************************)
StartMeansUpdated ==
  [][exec = "starting" /\ exec' = "idle" => updated \/ early \/ NoThread \/ ~ok]_costmapVars

\* The message with the map was handled before onInitialize reset map_received_.
MapIsGone ==
  /\ exec = "awaitMap" /\ ~mapReceived
  /\ ~mapOnItsWay /\ cb \notin {"map", "mapWidth", "received"}

(***************************************************************************)
(* start() returns, whatever is reconfigured, cleared or lost meanwhile -  *)
(* but not if the map came between the subscription and the reset of       *)
(* map_received_.                                                          *)
(***************************************************************************)
StartEnds ==
  exec \in {"subscribing", "forgetting", "awaitMap", "starting"} ~> exec = "idle" \/ MapIsGone
=============================================================================

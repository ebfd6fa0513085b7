-------------------------------- MODULE Amcl --------------------------------
(***************************************************************************)
(* amcl: when the particle filter is initialized, moved, measured and      *)
(* published, and what survives a restart.  The robot moves along a line;  *)
(* the filter is the mean of its particles, and the transform from map to  *)
(* odometry is an offset.  What a measurement does to the mean is left     *)
(* out, so that every change of the offset is one of the accounting of     *)
(* motion.  All callbacks run on one thread, the handler of SIGINT between *)
(* them.                                                                   *)
(*                                                                         *)
(* The map comes from its topic (first_map_only is false), the transform   *)
(* is broadcast, a reconfiguration comes after the first map and changes   *)
(* no threshold.                                                           *)
(***************************************************************************)
EXTENDS Integers

CONSTANTS
  Lasers,      \* the frames that scans come in
  Poses,       \* the poses that the user, or chance, may give
  Garbage,     \* the poses that a transform never set may come to
  Threshold,   \* update_min_d
  Interval,    \* resample_interval
  MaxMoves,    \* bound: how often the robot moves
  MaxCalls,    \* bound: messages and calls of services
  MaxFaults,   \* bound: scans that come to nothing
  MaxStops     \* bound: how often the node ends

ASSUME AmclAssumption ==
  /\ Poses \subseteq Int /\ Poses # {} /\ Garbage \subseteq Int /\ Garbage # {}
  /\ Threshold \in Nat /\ Interval \in Nat \ {0}
  /\ {MaxMoves, MaxCalls, MaxFaults, MaxStops} \subseteq Nat

VARIABLES
  up,          \* the node runs
  map,         \* map_ is not NULL
  hyp,         \* initial_pose_hyp_, or none
  est,         \* the mean of the particles of pf_
  pfInit,      \* pf_init_
  pfOdom,      \* pf_odom_pose_
  known,       \* frame_to_laser_
  due,         \* lasers_update_: the lasers whose flag is set
  resamples,   \* resample_count_, modulo the interval
  force,       \* m_force_update
  tf,          \* latest_tf_: the map's pose less that of odometry
  tfValid,     \* latest_tf_valid_
  lastOdom,    \* latest_odom_pose_
  published,   \* last_published_pose
  saved,       \* initial_pose_x on the parameter server
  odom,        \* where the robot is, by odometry
  scan,        \* a scan on its way, with the odometry of its time
  used,        \* the bounds used up
  offset,      \* history: the offset that the filter was initialized with
  first,       \* history: the odometry of the scan that it was initialized with
  twice,       \* history: a motion was counted twice since
  fresh,       \* history: latest_tf_ was set since
  forceLost,   \* history: the scan that it was initialized with was not published
  before       \* history: the offset at the end of the run before, and the odometry

filterVars == <<est, pfInit, pfOdom>>
laserVars == <<known, due, resamples, force>>
outVars == <<tf, tfValid, lastOdom, published>>
historyVars == <<offset, first, twice, fresh, forceLost, before>>
vars == <<up, map, hyp, filterVars, laserVars, outVars, saved, odom, scan, used, historyVars>>

Spend(what, most) == used[what] < most /\ used' = [used EXCEPT ![what] = @ + 1]

TypeOK ==
  /\ {up, map, pfInit, force, tfValid, twice, fresh, forceLost} \subseteq BOOLEAN
  /\ {est, pfOdom, tf, lastOdom, published, saved, odom, offset, first} \subseteq Int
  /\ hyp \in {<<>>} \cup {<<p>> : p \in Poses}
  /\ due \subseteq known /\ known \subseteq Lasers /\ resamples \in 0..(Interval - 1)
  /\ scan \in {<<>>} \cup {<<s>> : s \in [laser : Lasers, odom : 0..MaxMoves]}

\* The node as its constructor leaves it; what it leaves uninitialized is 0 here, and
\* not read before it is set, but for latest_tf_.
Started ==
  /\ up' = TRUE /\ map' = FALSE /\ hyp' = <<>>
  /\ est' = 0 /\ pfInit' = FALSE /\ pfOdom' = 0
  /\ known' = {} /\ due' = {} /\ resamples' = 0 /\ force' = FALSE
  /\ tf' \in Garbage /\ tfValid' = FALSE /\ lastOdom' = 0 /\ published' = 0
  /\ scan' = <<>>

Init ==
  /\ up = TRUE /\ map = FALSE /\ hyp = <<>>
  /\ est = 0 /\ pfInit = FALSE /\ pfOdom = 0
  /\ known = {} /\ due = {} /\ resamples = 0 /\ force = FALSE
  /\ tf \in Garbage /\ tfValid = FALSE /\ lastOdom = 0 /\ published = 0
  /\ saved \in Poses /\ odom = 0 /\ scan = <<>>
  /\ used = [moves |-> 0, calls |-> 0, faults |-> 0, stops |-> 0]
  /\ offset = 0 /\ first = 0 /\ twice = FALSE /\ fresh = FALSE /\ forceLost = FALSE /\ before = <<>>

-----------------------------------------------------------------------------
\* pf_init: the next scan says where odometry is.
Initialized(p) ==
  /\ est' = p /\ pfInit' = FALSE
  /\ twice' = FALSE /\ fresh' = FALSE /\ forceLost' = FALSE
  /\ UNCHANGED <<pfOdom, offset, first>>

LasersForgotten == known' = {} /\ due' = {}

\* handleMapMessage.  A pose that was waiting for the map is applied.
HandleMap(poses) ==
  /\ up /\ map' = TRUE /\ hyp' = <<>>
  /\ LasersForgotten
  /\ Initialized(IF poses # <<>> THEN poses[1] ELSE saved)
  /\ before' = IF map \/ poses # <<>> THEN <<>> ELSE before
  /\ UNCHANGED <<up, resamples, force, outVars, saved, odom, scan>>

FirstMap == ~map /\ HandleMap(hyp) /\ UNCHANGED used

AnotherMap == map /\ Spend("calls", MaxCalls) /\ HandleMap(hyp)

\* A pose in another frame is ignored.
SetMap ==
  /\ Spend("calls", MaxCalls)
  /\ \E poses \in {<<p>> : p \in Poses} \cup {hyp} : HandleMap(poses)

\* initialPoseReceived, of a pose in the global frame.
InitialPose ==
  /\ up /\ Spend("calls", MaxCalls)
  /\ \E p \in Poses :
       IF map THEN hyp' = <<>> /\ Initialized(p)
              ELSE hyp' = <<p>> /\ UNCHANGED <<filterVars, offset, first, twice, fresh, forceLost>>
  /\ before' = <<>>
  /\ UNCHANGED <<up, map, laserVars, outVars, saved, odom, scan>>

GlobalLocalization ==
  /\ up /\ map /\ Spend("calls", MaxCalls)
  /\ \E p \in Poses : Initialized(p)
  /\ before' = <<>>
  /\ UNCHANGED <<up, map, hyp, laserVars, outVars, saved, odom, scan>>

NomotionUpdate ==
  /\ up /\ Spend("calls", MaxCalls)
  /\ force' = TRUE
  /\ UNCHANGED <<up, map, hyp, filterVars, known, due, resamples, outVars, saved, odom, scan,
                 historyVars>>

\* reconfigureCB; with the message filter goes the scan that it holds.
Reconfigure ==
  /\ up /\ map /\ Spend("calls", MaxCalls)
  /\ LasersForgotten
  /\ Initialized(published)
  /\ scan' = <<>> /\ before' = <<>>
  /\ UNCHANGED <<up, map, hyp, resamples, force, outVars, saved, odom>>

-----------------------------------------------------------------------------
Laser == scan[1].laser
At == scan[1].odom
Received == up /\ scan # <<>> /\ scan' = <<>>

ScanWithoutMap ==
  /\ Received /\ ~map
  /\ UNCHANGED <<up, map, hyp, filterVars, laserVars, outVars, saved, odom, used, historyVars>>

\* The laser is not yet known, and where it is mounted not to be found out.
LaserUnknown ==
  /\ Received /\ map /\ Laser \notin known /\ Spend("faults", MaxFaults)
  /\ UNCHANGED <<up, map, hyp, filterVars, laserVars, outVars, saved, odom, historyVars>>

KnownNow == known \cup {Laser}

\* A laser that was not known is due.
DueBefore == due \cup (KnownNow \ known)

OdometryUnknown ==
  /\ Received /\ map /\ Spend("faults", MaxFaults)
  /\ known' = KnownNow /\ due' = DueBefore
  /\ UNCHANGED <<up, map, hyp, filterVars, resamples, force, outVars, saved, odom, historyVars>>

Delta == At - pfOdom

Moved == Delta > Threshold \/ -Delta > Threshold \/ force

DueNow == IF pfInit /\ ~Moved THEN DueBefore ELSE KnownNow

\* A scan of a known laser with a known pose, up to the measurement.
ScanBegins(updates) ==
  /\ Received /\ map /\ (Laser \in DueNow <=> updates)
  /\ known' = KnownNow /\ lastOdom' = At
  /\ pfInit' = TRUE /\ force' = (force /\ ~pfInit)
  /\ est' = IF pfInit /\ updates THEN est + Delta ELSE est
  /\ IF pfInit THEN UNCHANGED <<offset, first>> ELSE offset' = est - At /\ first' = At
  /\ UNCHANGED <<up, map, hyp, odom, before>>

\* Mutant: the pose that was published last is saved.
PublishedPose(at) == published
MapPose(at) == tf + at

\* Nothing is published; from time to time the pose is saved.
NothingNew ==
  /\ saved' \in IF tfValid THEN {saved, MapPose(At)} ELSE {saved}
  /\ UNCHANGED <<tf, tfValid, published, fresh>>

ScanNotNeeded ==
  /\ ScanBegins(FALSE)
  /\ due' = DueNow
  /\ NothingNew
  /\ UNCHANGED <<pfOdom, resamples, used, twice, forceLost>>

\* Its angles cannot be transformed, or its ranges are negative: an early return, with
\* the motion already applied to the particles.
ScanBad ==
  /\ ScanBegins(TRUE) /\ Spend("faults", MaxFaults)
  /\ due' = DueNow
  /\ pfOdom' = IF pfInit THEN pfOdom ELSE At
  /\ resamples' = IF pfInit THEN resamples ELSE 0
  /\ twice' = (twice \/ (pfInit /\ Delta # 0)) /\ forceLost' = (forceLost \/ ~pfInit)
  /\ UNCHANGED <<tf, tfValid, published, saved, fresh>>

\* Mutant: the pose of the update is remembered for the first only.
PoseOfFirst == IF pfInit THEN pfOdom ELSE At
PoseOfUpdate == At

\* Mutant: the first scan is treated as any other.
NeverForced == FALSE
ForcePublication == ~pfInit

\* The measurement; every so often the particles are resampled.
ScanMeasured ==
  /\ ScanBegins(TRUE)
  /\ due' = DueNow \ {Laser}
  /\ pfOdom' = PoseOfUpdate
  /\ resamples' = ((IF pfInit THEN resamples ELSE 0) + 1) % Interval
  /\ UNCHANGED twice

Publishes == resamples' = 0 \/ ForcePublication

ScanUsed ==
  /\ ScanMeasured /\ ~Publishes
  /\ NothingNew
  /\ UNCHANGED <<used, forceLost>>

ScanPublished ==
  /\ ScanMeasured /\ Publishes
  /\ published' = est' /\ tf' = est' - At /\ tfValid' = TRUE /\ fresh' = TRUE
  /\ UNCHANGED <<saved, used, forceLost>>

\* No cluster has a weight, or the odometry cannot be subtracted.
ScanNotPublished ==
  /\ ScanMeasured /\ Publishes /\ Spend("faults", MaxFaults)
  /\ published' \in {published, est'}
  /\ forceLost' = (forceLost \/ ~pfInit)
  /\ UNCHANGED <<tf, tfValid, saved, fresh>>

LaserReceived ==
  \/ ScanWithoutMap \/ LaserUnknown \/ OdometryUnknown
  \/ ScanNotNeeded \/ ScanBad \/ ScanUsed \/ ScanPublished \/ ScanNotPublished

-----------------------------------------------------------------------------
TakeScan ==
  /\ up /\ scan = <<>>
  /\ \E l \in Lasers : scan' = <<[laser |-> l, odom |-> odom]>>
  /\ UNCHANGED <<up, map, hyp, filterVars, laserVars, outVars, saved, odom, used, historyVars>>

Move ==
  /\ Spend("moves", MaxMoves)
  /\ odom' = odom + 1
  /\ UNCHANGED <<up, map, hyp, filterVars, laserVars, outVars, saved, scan, historyVars>>

\* sigintHandler saves the pose, whatever latest_tf_ is.
Interrupted ==
  /\ up /\ Spend("stops", MaxStops)
  /\ up' = FALSE
  /\ saved' = MapPose(lastOdom)
  /\ before' = IF fresh /\ ~twice THEN <<[offset |-> offset, odom |-> lastOdom]>> ELSE <<>>
  /\ UNCHANGED <<map, hyp, filterVars, laserVars, outVars, odom, scan, offset, first, twice, fresh,
                 forceLost>>

Killed ==
  /\ up /\ Spend("stops", MaxStops)
  /\ up' = FALSE /\ before' = <<>>
  /\ UNCHANGED <<map, hyp, filterVars, laserVars, outVars, saved, odom, scan, offset, first, twice,
                 fresh, forceLost>>

Restart ==
  /\ ~up
  /\ Started
  /\ offset' = 0 /\ first' = 0 /\ twice' = FALSE /\ fresh' = FALSE /\ forceLost' = FALSE
  /\ UNCHANGED <<saved, odom, used, before>>

Next ==
  \/ FirstMap \/ AnotherMap \/ SetMap \/ InitialPose \/ GlobalLocalization \/ NomotionUpdate
  \/ Reconfigure \/ LaserReceived \/ TakeScan \/ Move \/ Interrupted \/ Killed \/ Restart

\* The map is latched, scans keep coming and are handled.
Fairness == WF_vars(FirstMap) /\ WF_vars(TakeScan) /\ WF_vars(LaserReceived)

Spec == Init /\ [][Next]_vars /\ Fairness

-----------------------------------------------------------------------------
(***************************************************************************)
(* Every motion is applied to the particles once: those between two scans  *)
(* that are used and those too small for an update, with several lasers,   *)
(* forced updates and scans that come to nothing, so that the filter and   *)
(* the transform keep the offset that they were initialized with.  (A scan *)
(* that is found bad after the motion was applied makes the next one apply *)
(* it again.)  Every variable has its type.                                *)
(***************************************************************************)
MotionCountedOnce ==
  /\ TypeOK
  /\ up /\ pfInit /\ ~twice => est - pfOdom = offset /\ (fresh => tf = offset)

(***************************************************************************)
(* A pose that the filter is initialized with is published, be the robot   *)
(* at rest or not, and a pose that came before the map, with the map - but *)
(* not if the first scan is not published: then the transform of before    *)
(* stays in force until the robot has moved.                               *)
(***************************************************************************)
PoseIsPublished ==
  up /\ (hyp # <<>> \/ (map /\ ~pfInit)) ~> ~up \/ fresh \/ forceLost

(***************************************************************************)
(* A node that was interrupted goes on, when it is started again, where it *)
(* had been: but for the motion from the last scan before to the first     *)
(* after, the offset is the same, also if the pose had not been published  *)
(* since the robot moved.  (A node that was interrupted before it had a    *)
(* transform has saved nothing of use.)                                    *)
(***************************************************************************)
RestartResumes ==
  up /\ pfInit /\ before # <<>> =>
    offset = before[1].offset - (first - before[1].odom)
=============================================================================

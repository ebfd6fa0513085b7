------------------------------ MODULE MoveBase ------------------------------
(***************************************************************************)
(* move_base (src/src/navigation/move_base/src/move_base.cpp): the node    *)
(* that drives the robot to a goal.  Three threads share the members of    *)
(* class MoveBase:                                                         *)
(*   - the executor: the action server's thread, in executeCb and, once a  *)
(*     control cycle, executeCycle;                                        *)
(*   - the planner: planThread, which makes global plans;                  *)
(*   - the callbacks: ros::spin() delivers goals, cancels, the timer       *)
(*     wakePlanner and reconfigureCB one at a time.                        *)
(*                                                                         *)
(* An action is a stretch of one thread between two points where another   *)
(* thread can see or change what it uses: a critical section of            *)
(* planner_mutex_ is one action, an unlocked read or write of a shared     *)
(* member starts another.  Program counters (pcE, pcP, pcR) name the       *)
(* points.  configuration_mutex_ is held exactly at the program counters   *)
(* of CycleHoldsConfig and ReconfigureHoldsConfig.                         *)
(*                                                                         *)
(* Abstractions.  A plan is the goal it leads to (NoPlan for an empty      *)
(* vector).  The clock is three flags, "the patience since last_valid_...  *)
(* has run out", cleared where the code stores now() and raised by time.   *)
(* A velocity command is "zero" or "move".                                 *)
(***************************************************************************)
EXTENDS SimpleActionServer, FiniteSets

CONSTANTS
  Buffers,                \* the three vectors allocated by the constructor
  NoBuffer,               \* a temp_plan out of scope
  PeriodicPlanning,       \* planner_frequency_ > 0
  OscillationTimeout,     \* oscillation_timeout_ > 0.0
  RecoveryEnabled,        \* recovery_behavior_enabled_
  NumRecoveries,          \* recovery_behaviors_.size()
  MaxPlanningRetries,     \* max_planning_retries_, -1: no limit
  ShutdownCostmaps,       \* shutdown_costmaps_
  InvalidGoals,           \* goals whose quaternion may be invalid
  ForeignGoals,           \* goals not given in the planner's global frame
  Faults,                 \* bound: what may fail around the node, see AllFaults
  CancelableGoals,        \* bound: goals the clients may cancel
  Callable,               \* bound: which of AllCallable is called
  MaxCalls,               \* bound: how often
  NodeMayStop             \* whether the node may be shut down

\* Sensor data falls behind; the local planner refuses a plan.
AllFaults == {"sensors", "setPlan"}

\* What is called besides goals, cancels and the timer.
AllCallable == {"reconfigureCB", "planService", "clearCostmapsService"}

ASSUME MoveBaseAssumption ==
  /\ Cardinality(Buffers) = 3 /\ NoBuffer \notin Buffers
  /\ PeriodicPlanning \in BOOLEAN
  /\ OscillationTimeout \in BOOLEAN
  /\ RecoveryEnabled \in BOOLEAN
  /\ NumRecoveries \in Nat
  /\ MaxPlanningRetries \in Int
  /\ ShutdownCostmaps \in BOOLEAN
  /\ InvalidGoals \subseteq Goals
  /\ ForeignGoals \subseteq Goals
  /\ Faults \subseteq AllFaults
  /\ CancelableGoals \subseteq Goals
  /\ Callable \subseteq AllCallable
  /\ MaxCalls \in Nat
  /\ NodeMayStop \in BOOLEAN

NoPlan == NoGoal          \* an empty plan

\* planning_retries_ is only compared with max_planning_retries_; it is counted
\* up to the first value past it (a negative limit, cast to uint32_t, is never
\* reached).
RetryBound == IF MaxPlanningRetries < 0 THEN 0 ELSE MaxPlanningRetries + 1

VARIABLES
  state,                  \* state_
  recoveryIndex,          \* recovery_index_
  recoveryTrigger,        \* recovery_trigger_
  runPlanner,             \* runPlanner_
  plannerGoal,            \* planner_goal_
  newGlobalPlan,          \* new_global_plan_
  plannerPlan,            \* planner_plan_: the buffer it points to
  latestPlan,             \* latest_plan_
  controllerPlan,         \* controller_plan_
  planIn,                 \* planIn[b]: the plan stored in buffer b
  planningRetries,        \* planning_retries_
  planLate,               \* now() > last_valid_plan_ + planner_patience_
  controlLate,            \* now() > last_valid_control_ + controller_patience_
  oscillationLate,        \* now() > last_oscillation_reset_ + oscillation_timeout_
  velocity,               \* the last command published on cmd_vel
  costmapsRunning,        \* the costmaps have been started and not stopped
  tcPlan,                 \* the plan the local planner tc_ follows
  recoveriesRun           \* history: the recoveries run for the goal, by index

VARIABLES                 \* the executor
  pcE,
  goal,                   \* goal, in executeCb
  tempPlanE,              \* temp_plan, in executeCycle
  result                  \* the result to report after resetState()

VARIABLES                 \* the planner
  pcP,
  tempGoal,               \* temp_goal
  tempPlanP,              \* temp_plan, in planThread
  attemptLate,            \* now() > attempt_end
  timerRunning            \* the timer that calls wakePlanner exists

VARIABLES                 \* the callbacks, and the node
  pcR,
  replacing,              \* the planner plugins this call of reconfigureCB replaces
  calls,                  \* how often reconfigureCB or a service was called
  nodeOk                  \* n.ok()

navVars == <<state, recoveryIndex, recoveryTrigger, velocity, costmapsRunning>>
planVars == <<plannerPlan, latestPlan, controllerPlan, planIn, newGlobalPlan>>
askVars == <<runPlanner, plannerGoal>>
lateVars == <<planLate, controlLate, oscillationLate, planningRetries>>
execVars == <<pcE, goal, tempPlanE, result>>
plannerVars == <<pcP, tempGoal, tempPlanP, attemptLate, timerRunning>>
callbackVars == <<pcR, replacing, calls, nodeOk>>
tcVars == <<tcPlan, recoveriesRun>>
vars == <<asVars, navVars, planVars, askVars, lateVars, tcVars, execVars,
          plannerVars, callbackVars>>

NavStates == {"PLANNING", "CONTROLLING", "CLEARING"}

Triggers == {"PLANNING_R", "CONTROLLING_R", "OSCILLATION_R"}

\* A pose to plan to: which goal it is, and whether goalToGlobalFrame has
\* brought it into the planner's frame.
Poses == [id : Goals \cup {NoGoal}, inGlobalFrame : BOOLEAN]

NoPose == [id |-> NoGoal, inGlobalFrame |-> FALSE]

ExecutorPoints ==
  {"idle", "validate", "arm", "timers", "head", "preempted", "accept",
   "acceptValidate", "acceptArm", "acceptTimers", "frame", "frameArm",
   "frameTimers", "cycle", "newPlan", "swap", "setPlan", "switch",
   "enablePlanner", "replan", "control", "compute", "clear", "recover", "giveUp",
   "giveUpReset", "reset", "report"}

PlannerPoints == {"waiting", "woken", "planning", "publish", "failed", "end", "exit"}

CallbackPoints ==
  {"idle", "lock", "replaceGlobal", "initialize", "replaceLocal", "resetLocal",
   "plan", "clearPlanner"}

TypeOK ==
  /\ ASTypeOK
  /\ state \in NavStates
  /\ recoveryIndex \in Nat
  /\ recoveryTrigger \in Triggers
  /\ velocity \in {"zero", "move"}
  /\ costmapsRunning \in BOOLEAN
  /\ plannerPlan \in Buffers /\ latestPlan \in Buffers /\ controllerPlan \in Buffers
  /\ planIn \in [Buffers -> Goals \cup {NoPlan}]
  /\ newGlobalPlan \in BOOLEAN
  /\ runPlanner \in BOOLEAN
  /\ plannerGoal \in Poses
  /\ planLate \in BOOLEAN /\ controlLate \in BOOLEAN /\ oscillationLate \in BOOLEAN
  /\ planningRetries \in 0..RetryBound
  /\ tcPlan \in Goals \cup {NoPlan}
  /\ pcE \in ExecutorPoints
  /\ goal \in Poses
  /\ tempPlanE \in Buffers \cup {NoBuffer}
  /\ result \in {"none", "succeeded", "aborted", "preempted"}
  /\ pcP \in PlannerPoints
  /\ tempGoal \in Poses
  /\ tempPlanP \in Buffers \cup {NoBuffer}
  /\ attemptLate \in BOOLEAN
  /\ timerRunning \in BOOLEAN
  /\ pcR \in CallbackPoints
  /\ replacing \subseteq {"global", "local"}
  /\ calls \in 0..MaxCalls
  /\ nodeOk \in BOOLEAN

\* MoveBase::MoveBase.  planning_retries_ is not initialized; last_valid_plan_
\* and its like are time zero, long ago.
Init ==
  /\ ASInit
  /\ state = "PLANNING" /\ recoveryIndex = 0 /\ recoveryTrigger = "PLANNING_R"
  /\ velocity = "zero"
  /\ costmapsRunning = ~ShutdownCostmaps
  /\ plannerPlan \in Buffers
  /\ latestPlan \in Buffers \ {plannerPlan}
  /\ controllerPlan \in Buffers \ {plannerPlan, latestPlan}
  /\ planIn = [b \in Buffers |-> NoPlan]
  /\ newGlobalPlan = FALSE
  /\ runPlanner = FALSE /\ plannerGoal = NoPose
  /\ planLate = TRUE /\ controlLate = TRUE /\ oscillationLate = TRUE
  /\ planningRetries \in 0..RetryBound
  /\ tcPlan = NoPlan /\ recoveriesRun = {}
  /\ pcE = "idle" /\ goal = NoPose /\ tempPlanE = NoBuffer /\ result = "none"
  /\ pcP = "waiting" /\ tempGoal = NoPose /\ tempPlanP = NoBuffer
  /\ attemptLate = FALSE /\ timerRunning = FALSE
  /\ pcR = "idle" /\ replacing = {} /\ calls = 0 /\ nodeOk = TRUE

-----------------------------------------------------------------------------
(* Locks, the condition variable and resetState. *)

\* planner_mutex_ is held across actions only while reconfigureCB initializes a
\* new global planner.
PlannerMutexFree == pcR # "initialize"

ReconfigureHoldsConfig ==
  pcR \in {"replaceGlobal", "initialize", "replaceLocal", "resetLocal"}

\* executeCycle holds configuration_mutex_; the reset and the result that follow
\* an explicit preempt are made by executeCb, without it.
CycleHoldsConfig ==
  \/ pcE \in {"newPlan", "swap", "setPlan", "switch", "enablePlanner", "replan",
              "control", "compute", "clear", "recover", "giveUp", "giveUpReset"}
  \/ pcE \in {"reset", "report"} /\ result # "preempted"

\* The costmaps' mutexes: makePlan holds the planner's, a control cycle the
\* controller's, clearCostmapsService both.  A cycle waits for planner_mutex_ with it
\* when control failed.
PlannerCostmapFree == pcP # "planning"

ControllerCostmapFree == pcE # "replan" /\ pcR # "clearPlanner"

\* planner_cond_.notify_one(): planThread leaves its wait, and has yet to take
\* the mutex again; a notification nobody waits for is lost.
NotifyPlanner == pcP' = IF pcP = "waiting" THEN "woken" ELSE pcP

\* resetState: the planner is disabled under planner_mutex_ ...
DisablePlanner == PlannerMutexFree /\ runPlanner' = FALSE

\* ... and the rest is reset without it, where with the planner disabled only
\* reconfigureCB could see the difference.
ResetStateMachine ==
  /\ state' = "PLANNING"
  /\ recoveryIndex' = 0
  /\ recoveryTrigger' = "PLANNING_R"
  /\ velocity' = "zero"
  /\ costmapsRunning' = (costmapsRunning /\ ~ShutdownCostmaps)

\* Mutant: resetState leaves the planner running.
ResetStateOnly == PlannerMutexFree /\ UNCHANGED runPlanner /\ ResetStateMachine

ResetState == DisablePlanner /\ ResetStateMachine

-----------------------------------------------------------------------------
(* The callbacks: goals, cancels, the timer, reconfiguration, services.  One *)
(* thread delivers them, so none is delivered while another runs or waits.   *)

\* A goal arrives, through the action interface or re-sent by goalCB.
RecvGoal(g) ==
  /\ pcR = "idle" /\ nodeOk
  /\ GoalCallback(g)
  /\ UNCHANGED <<navVars, planVars, askVars, lateVars, tcVars, execVars,
                 plannerVars, callbackVars>>

RecvCancel(g) ==
  /\ pcR = "idle" /\ nodeOk
  /\ PreemptCallback(g)
  /\ UNCHANGED <<navVars, planVars, askVars, lateVars, tcVars, execVars,
                 plannerVars, callbackVars>>

\* The timer is periodic: it calls wakePlanner until planThread replaces it.
WakePlanner ==
  /\ pcR = "idle" /\ nodeOk
  /\ timerRunning
  /\ pcP = "waiting"
  /\ NotifyPlanner
  /\ UNCHANGED <<asVars, navVars, planVars, askVars, lateVars, tcVars, execVars,
                 tempGoal, tempPlanP, attemptLate, timerRunning, callbackVars>>

\* reconfigureCB is called; kinds are the planner plugins it is to replace and
\* whose class can be loaded.
RecvReconfigure(kinds) ==
  /\ pcR = "idle" /\ nodeOk
  /\ "reconfigureCB" \in Callable /\ calls < MaxCalls
  /\ pcR' = "lock"
  /\ replacing' = kinds
  /\ calls' = calls + 1
  /\ UNCHANGED <<asVars, navVars, planVars, askVars, lateVars, tcVars, execVars,
                 plannerVars, nodeOk>>

\* It takes configuration_mutex_; planner_ now points to the new planner.
ReconfigureLock ==
  /\ pcR = "lock"
  /\ ~CycleHoldsConfig
  /\ pcR' = IF "global" \in replacing THEN "replaceGlobal"
            ELSE IF "local" \in replacing THEN "replaceLocal"
            ELSE "idle"
  /\ UNCHANGED <<asVars, navVars, planVars, askVars, lateVars, tcVars, execVars,
                 plannerVars, replacing, calls, nodeOk>>

\* With planner_mutex_: the three plans are cleared and the state is reset.
ReconfigureGlobal ==
  /\ pcR = "replaceGlobal"
  /\ ResetState
  /\ planIn' = [b \in Buffers |-> NoPlan]
  /\ pcR' = "initialize"
  /\ UNCHANGED <<asVars, plannerPlan, latestPlan, controllerPlan, newGlobalPlan,
                 plannerGoal, lateVars, tcVars, execVars, plannerVars,
                 replacing, calls, nodeOk>>

\* The new global planner is ready; the mutex is released, the old planner freed.
ReconfigureInitialized ==
  /\ pcR = "initialize"
  /\ pcR' = IF "local" \in replacing THEN "replaceLocal" ELSE "idle"
  /\ UNCHANGED <<asVars, navVars, planVars, askVars, lateVars, tcVars, execVars,
                 plannerVars, replacing, calls, nodeOk>>

\* A new local planner, which has no plan; the plans are cleared without
\* planner_mutex_, and the planner is disabled.
ReconfigureLocal ==
  /\ pcR = "replaceLocal"
  /\ DisablePlanner
  /\ planIn' = [b \in Buffers |-> NoPlan]
  /\ tcPlan' = NoPlan /\ UNCHANGED recoveriesRun
  /\ pcR' = "resetLocal"
  /\ UNCHANGED <<asVars, navVars, plannerPlan, latestPlan, controllerPlan,
                 newGlobalPlan, plannerGoal, lateVars, execVars, plannerVars,
                 replacing, calls, nodeOk>>

\* The rest of resetState, while executeCb may have enabled the planner again.
ReconfigureReset ==
  /\ pcR = "resetLocal"
  /\ ResetStateMachine
  /\ pcR' = "idle"
  /\ UNCHANGED <<asVars, planVars, askVars, lateVars, tcVars, execVars,
                 plannerVars, replacing, calls, nodeOk>>

\* planService refuses while a goal is active; otherwise it plans, without a lock
\* of the node, and a goal may be taken up meanwhile.
RecvPlanRequest ==
  /\ pcR = "idle" /\ nodeOk
  /\ "planService" \in Callable /\ calls < MaxCalls
  /\ ~IsActive
  /\ pcR' = "plan"
  /\ calls' = calls + 1
  /\ UNCHANGED <<asVars, navVars, planVars, askVars, lateVars, tcVars, execVars,
                 plannerVars, replacing, nodeOk>>

\* The exact goal is planned for, or points around it, or none; the answer is sent.
PlanRequestServed ==
  /\ pcR = "plan"
  /\ pcR' = "idle"
  /\ UNCHANGED <<asVars, navVars, planVars, askVars, lateVars, tcVars, execVars,
                 plannerVars, replacing, calls, nodeOk>>

\* clearCostmapsService locks and resets the controller's costmap, and keeps it
\* locked while makePlan has the planner's.  (A call that finds the planner's free
\* changes nothing here.)
RecvClearCostmaps ==
  /\ pcR = "idle" /\ nodeOk
  /\ "clearCostmapsService" \in Callable /\ calls < MaxCalls
  /\ ControllerCostmapFree /\ ~PlannerCostmapFree
  /\ pcR' = "clearPlanner"
  /\ calls' = calls + 1
  /\ UNCHANGED <<asVars, navVars, planVars, askVars, lateVars, tcVars, execVars,
                 plannerVars, replacing, nodeOk>>

\* ... until the planner has its plan, or none.
CostmapsCleared ==
  /\ pcR = "clearPlanner"
  /\ PlannerCostmapFree
  /\ pcR' = "idle"
  /\ UNCHANGED <<asVars, navVars, planVars, askVars, lateVars, tcVars, execVars,
                 plannerVars, replacing, calls, nodeOk>>

\* ros::shutdown: n.ok() is false from now on, and ros::spin returns once the
\* callback it is in, if any, is done.
NodeStops ==
  /\ NodeMayStop /\ nodeOk
  /\ nodeOk' = FALSE
  /\ UNCHANGED <<asVars, navVars, planVars, askVars, lateVars, tcVars, execVars,
                 plannerVars, pcR, replacing, calls>>

-----------------------------------------------------------------------------
(* planThread.                                                               *)

\* With planner_mutex_ held, at the test of the inner loop: suspend, or copy the
\* goal, release the mutex and clear the planner's own buffer.
PlanOrSuspend(waitForWake) ==
  \/ /\ waitForWake \/ ~runPlanner
     /\ pcP' = "waiting"
     /\ UNCHANGED <<tempGoal, planIn>>
  \/ /\ ~waitForWake /\ runPlanner
     /\ pcP' = "planning"
     /\ tempGoal' = plannerGoal
     /\ planIn' = [planIn EXCEPT ![plannerPlan] = NoPlan]

\* planner_cond_.wait returns, with the mutex.
PlanWoken ==
  /\ pcP = "woken"
  /\ PlannerMutexFree
  /\ PlanOrSuspend(FALSE)
  /\ UNCHANGED <<asVars, navVars, plannerPlan, latestPlan, controllerPlan,
                 newGlobalPlan, askVars, lateVars, tcVars, execVars, tempPlanP,
                 attemptLate, timerRunning, callbackVars>>

\* Mutant: the timer is never created.
NoTimer(sleep) == UNCHANGED timerRunning

\* The timer that ends the sleep; it is replaced, never stopped.
StartTimer(sleep) == timerRunning' = (timerRunning \/ sleep)

\* The end of a round: with a planning frequency a timer is set, unless planning
\* took longer than a period; then the next round starts under the same mutex.
PlanNextRound ==
  /\ pcP = "end" /\ nodeOk
  /\ PlannerMutexFree
  /\ \E sleep \in BOOLEAN :
        /\ sleep => PeriodicPlanning
        /\ StartTimer(sleep)
        /\ PlanOrSuspend(sleep)
  /\ UNCHANGED <<asVars, navVars, plannerPlan, latestPlan, controllerPlan,
                 newGlobalPlan, askVars, lateVars, tcVars, execVars, tempPlanP,
                 attemptLate, callbackVars>>

\* makePlan finds a plan to the goal copied earlier.
PlanFound ==
  /\ pcP = "planning" /\ nodeOk
  /\ tempGoal.inGlobalFrame
  /\ planIn' = [planIn EXCEPT ![plannerPlan] = tempGoal.id]
  /\ tempPlanP' = plannerPlan
  /\ pcP' = "publish"
  /\ UNCHANGED <<asVars, navVars, plannerPlan, latestPlan, controllerPlan,
                 newGlobalPlan, askVars, lateVars, tcVars, execVars, tempGoal,
                 attemptLate, timerRunning, callbackVars>>

\* makePlan fails (no robot pose, no plan, a goal in another frame, the node is
\* stopping); state_ and last_valid_plan_ are read without the mutex.
PlanNotFound ==
  /\ pcP = "planning"
  /\ \/ /\ state = "PLANNING"
        /\ pcP' = "failed"
        /\ attemptLate' = planLate
     \/ /\ state # "PLANNING"
        /\ pcP' = "end"
        /\ UNCHANGED attemptLate
  /\ tempGoal' = NoPose
  /\ UNCHANGED <<asVars, navVars, planVars, askVars, lateVars, tcVars, execVars,
                 tempPlanP, timerRunning, callbackVars>>

\* Mutant: the planner keeps the vector it has just published.
KeepPlan == latestPlan' = tempPlanP /\ UNCHANGED plannerPlan

SwapPlans == plannerPlan' = latestPlan /\ latestPlan' = tempPlanP

\* The plan is swapped into latest_plan_ under the mutex.
PlanPublish ==
  /\ pcP = "publish"
  /\ PlannerMutexFree
  /\ SwapPlans
  /\ newGlobalPlan' = TRUE
  /\ planLate' = FALSE
  /\ planningRetries' = 0
  /\ state' = IF runPlanner THEN "CONTROLLING" ELSE state
  /\ runPlanner' = (runPlanner /\ PeriodicPlanning)
  /\ tempGoal' = NoPose /\ tempPlanP' = NoBuffer
  /\ pcP' = "end"
  /\ UNCHANGED <<asVars, recoveryIndex, recoveryTrigger, velocity,
                 costmapsRunning, controllerPlan, planIn, plannerGoal,
                 controlLate, oscillationLate, tcVars, execVars,
                 attemptLate, timerRunning, callbackVars>>

\* A failed attempt is counted; when patience or retries have run out the robot
\* is stopped and recovery is to begin.
PlanRetry ==
  /\ pcP = "failed"
  /\ PlannerMutexFree
  /\ planningRetries' =
       IF planningRetries < RetryBound THEN planningRetries + 1 ELSE RetryBound
  /\ \/ /\ runPlanner
        /\ attemptLate \/ (MaxPlanningRetries >= 0 /\ planningRetries' > MaxPlanningRetries)
        /\ state' = "CLEARING"
        /\ runPlanner' = FALSE
        /\ velocity' = "zero"
        /\ recoveryTrigger' = "PLANNING_R"
     \/ /\ \/ ~runPlanner
           \/ ~attemptLate /\ (MaxPlanningRetries < 0 \/ planningRetries' <= MaxPlanningRetries)
        /\ UNCHANGED <<state, runPlanner, velocity, recoveryTrigger>>
  /\ attemptLate' = FALSE
  /\ pcP' = "end"
  /\ UNCHANGED <<asVars, recoveryIndex, costmapsRunning, planVars, plannerGoal,
                 planLate, controlLate, oscillationLate, tcVars, execVars,
                 tempGoal, tempPlanP, timerRunning, callbackVars>>

\* The thread ends: its loop sees that the node is stopping, or ~MoveBase, which
\* runs after ros::spin and joins the executor first, interrupts its wait.
PlanExit ==
  /\ ~nodeOk
  /\ pcP = "end" \/ (pcP = "waiting" /\ pcE = "idle" /\ pcR = "idle")
  /\ pcP' = "exit"
  /\ UNCHANGED <<asVars, navVars, planVars, askVars, lateVars, tcVars, execVars,
                 tempGoal, tempPlanP, attemptLate, timerRunning, callbackVars>>

Planner == PlanWoken \/ PlanNextRound \/ PlanFound \/ PlanNotFound \/ PlanPublish
           \/ PlanRetry \/ PlanExit

-----------------------------------------------------------------------------
(* executeCb.                                                                *)

\* goalToGlobalFrame: a goal given in another frame may or may not transform; the
\* untransformed goal is used when it does not.
Transformed(g) ==
  {[id |-> g, inGlobalFrame |-> ok] : ok \in IF g \in ForeignGoals THEN BOOLEAN ELSE {TRUE}}

\* The execute loop of the action server accepts a goal and calls executeCb.
ExecStart ==
  /\ pcE = "idle" /\ nodeOk
  /\ newGoal /\ ~IsActive
  /\ AcceptNewGoal
  /\ pcE' = "validate"
  /\ UNCHANGED <<navVars, planVars, askVars, lateVars, tcVars, goal, tempPlanE,
                 result, plannerVars, callbackVars>>

\* A goal with an invalid quaternion is aborted and executeCb returns.
ExecRejectGoal ==
  /\ pcE \in {"validate", "acceptValidate"}
  /\ currentGoal \in InvalidGoals
  /\ SetResult("aborted")
  /\ recoveriesRun' = {}
  /\ pcE' = "idle" /\ goal' = NoPose
  /\ UNCHANGED <<navVars, planVars, askVars, lateVars, tcPlan, tempPlanE, result,
                 plannerVars, callbackVars>>

ExecValidate ==
  /\ pcE = "validate"
  /\ goal' \in Transformed(currentGoal)
  /\ recoveriesRun' = {}
  /\ velocity' = "zero"
  /\ pcE' = "arm"
  /\ UNCHANGED <<asVars, state, recoveryIndex, recoveryTrigger, costmapsRunning,
                 planVars, askVars, lateVars, tcPlan, tempPlanE, result,
                 plannerVars, callbackVars>>

\* The planner is given the goal and woken, under planner_mutex_.
ExecArm ==
  /\ \/ pcE = "arm" /\ pcE' = "timers"
     \/ pcE = "acceptArm" /\ pcE' = "acceptTimers"
     \/ pcE = "frameArm" /\ pcE' = "frameTimers"
  /\ PlannerMutexFree
  /\ plannerGoal' = goal
  /\ runPlanner' = TRUE
  /\ NotifyPlanner
  /\ UNCHANGED <<asVars, navVars, planVars, lateVars, tcVars, goal, tempPlanE,
                 result, tempGoal, tempPlanP, attemptLate, timerRunning,
                 callbackVars>>

\* Timeouts and counters start afresh, without the mutex; at the start of
\* executeCb the costmaps that were shut down are started first.
ExecResetTimers ==
  /\ \/ pcE = "timers" /\ pcE' = "head" /\ costmapsRunning' = TRUE
     \/ pcE = "acceptTimers" /\ pcE' = "frame" /\ UNCHANGED costmapsRunning
     \/ pcE = "frameTimers" /\ pcE' = "cycle" /\ UNCHANGED costmapsRunning
  /\ planLate' = FALSE /\ controlLate' = FALSE /\ oscillationLate' = FALSE
  /\ planningRetries' = 0
  /\ UNCHANGED <<asVars, state, recoveryIndex, recoveryTrigger, velocity,
                 planVars, askVars, tcVars, goal, tempPlanE, result, plannerVars,
                 callbackVars>>

\* Mutant: the loop does not look at n.ok().
LoopForEver == TRUE

LoopGoesOn == nodeOk

\* Mutant: isPreemptRequested() is not polled.
NeverPreempted == FALSE

PreemptRequested == preemptRequest

\* The head of the loop: is the goal to be preempted?
ExecHead ==
  /\ pcE = "head" /\ LoopGoesOn
  /\ pcE' = IF PreemptRequested THEN "preempted" ELSE "frame"
  /\ UNCHANGED <<asVars, navVars, planVars, askVars, lateVars, tcVars, goal,
                 tempPlanE, result, plannerVars, callbackVars>>

\* Mutant: every preempt request is taken for a new goal.
AlwaysNewGoal == TRUE

PreemptedByNewGoal == newGoal

\* By a new goal, or by a cancel?
ExecPreempted ==
  /\ pcE = "preempted"
  /\ pcE' = IF PreemptedByNewGoal THEN "accept" ELSE "reset"
  /\ result' = IF PreemptedByNewGoal THEN "none" ELSE "preempted"
  /\ UNCHANGED <<asVars, navVars, planVars, askVars, lateVars, tcVars, goal,
                 tempPlanE, plannerVars, callbackVars>>

ExecAccept ==
  /\ pcE = "accept"
  /\ AcceptNewGoal
  /\ pcE' = "acceptValidate"
  /\ UNCHANGED <<navVars, planVars, askVars, lateVars, tcVars, goal, tempPlanE,
                 result, plannerVars, callbackVars>>

\* Mutant: recovery_index_ is left where the last goal got to.
PlanAgain == state' = "PLANNING" /\ UNCHANGED recoveryIndex

PlanAfresh == state' = "PLANNING" /\ recoveryIndex' = 0

\* The accepted goal takes over: nothing is shut down, nothing is stopped.
ExecTakeOver ==
  /\ pcE = "acceptValidate"
  /\ goal' \in Transformed(currentGoal)
  /\ recoveriesRun' = {}
  /\ PlanAfresh
  /\ pcE' = "acceptArm"
  /\ UNCHANGED <<asVars, recoveryTrigger, velocity, costmapsRunning, planVars,
                 askVars, lateVars, tcPlan, tempPlanE, result, plannerVars,
                 callbackVars>>

\* A goal that is not in the planner's frame is transformed again, every cycle.
ExecFrame ==
  /\ pcE = "frame"
  /\ \/ /\ goal.inGlobalFrame
        /\ pcE' = "cycle"
        /\ UNCHANGED <<goal, recoveryIndex, state>>
     \/ /\ ~goal.inGlobalFrame
        /\ goal' \in Transformed(goal.id)
        /\ PlanAfresh
        /\ pcE' = "frameArm"
  /\ UNCHANGED <<asVars, recoveryTrigger, velocity, costmapsRunning, planVars,
                 askVars, lateVars, tcVars, tempPlanE, result, plannerVars,
                 callbackVars>>

\* The node is stopping: the planner is woken so that it can end, the goal is
\* aborted.
ExecKilled ==
  /\ pcE = "head" /\ ~LoopGoesOn
  /\ runPlanner' = TRUE
  /\ NotifyPlanner
  /\ SetResult("aborted")
  /\ pcE' = "idle" /\ goal' = NoPose
  /\ UNCHANGED <<navVars, planVars, plannerGoal, lateVars, tcVars, tempPlanE,
                 result, tempGoal, tempPlanP, attemptLate,
                 timerRunning, callbackVars>>

\* resetState(), before a result is reported ...
ExecReset ==
  /\ pcE = "reset"
  /\ ResetState
  /\ pcE' = "report"
  /\ UNCHANGED <<asVars, planVars, plannerGoal, lateVars, tcVars, goal, tempPlanE,
                 result, plannerVars, callbackVars>>

\* Mutant: the result is dropped before it is reported.
ExecReportNothing ==
  /\ pcE = "report"
  /\ SetResult("none")
  /\ result' = "none"
  /\ pcE' = "idle" /\ goal' = NoPose
  /\ UNCHANGED <<navVars, planVars, askVars, lateVars, tcVars, tempPlanE,
                 plannerVars, callbackVars>>

\* ... and the result; executeCb returns.
ExecReport ==
  /\ pcE = "report"
  /\ SetResult(result)
  /\ result' = "none"
  /\ pcE' = "idle" /\ goal' = NoPose
  /\ UNCHANGED <<navVars, planVars, askVars, lateVars, tcVars, tempPlanE,
                 plannerVars, callbackVars>>

-----------------------------------------------------------------------------
(* executeCycle.                                                             *)

\* The cycle takes configuration_mutex_.  A robot that moved far enough restarts
\* the oscillation timer; without current sensor data the robot is stopped and
\* the cycle ends.
ExecCycle ==
  /\ pcE = "cycle"
  /\ ~ReconfigureHoldsConfig
  /\ \E movedFar, isCurrent \in BOOLEAN :
        /\ isCurrent \/ "sensors" \in Faults
        /\ oscillationLate' = (oscillationLate /\ ~movedFar)
        /\ recoveryIndex' = IF movedFar /\ recoveryTrigger = "OSCILLATION_R"
                            THEN 0 ELSE recoveryIndex
        /\ velocity' = IF isCurrent THEN velocity ELSE "zero"
        /\ pcE' = IF isCurrent THEN "newPlan" ELSE "head"
  /\ UNCHANGED <<asVars, state, recoveryTrigger, costmapsRunning, planVars,
                 askVars, planLate, controlLate, planningRetries, tcVars, goal,
                 tempPlanE, result, plannerVars, callbackVars>>

\* new_global_plan_ is read and cleared, and the controller's buffer noted,
\* without planner_mutex_.
ExecNewPlan ==
  /\ pcE = "newPlan"
  /\ \/ /\ newGlobalPlan
        /\ newGlobalPlan' = FALSE
        /\ tempPlanE' = controllerPlan
        /\ pcE' = "swap"
     \/ /\ ~newGlobalPlan
        /\ pcE' = "switch"
        /\ UNCHANGED <<newGlobalPlan, tempPlanE>>
  /\ UNCHANGED <<asVars, navVars, plannerPlan, latestPlan, controllerPlan, planIn,
                 askVars, lateVars, tcVars, goal, result, plannerVars,
                 callbackVars>>

ExecSwap ==
  /\ pcE = "swap"
  /\ PlannerMutexFree
  /\ controllerPlan' = latestPlan
  /\ latestPlan' = tempPlanE
  /\ tempPlanE' = NoBuffer
  /\ pcE' = "setPlan"
  /\ UNCHANGED <<asVars, navVars, plannerPlan, planIn, newGlobalPlan, askVars,
                 lateVars, tcVars, goal, result, plannerVars, callbackVars>>

\* The local planner takes the plan, or refuses it and the goal is aborted.
ExecSetPlan ==
  /\ pcE = "setPlan"
  /\ \/ /\ tcPlan' = planIn[controllerPlan]
        /\ recoveryIndex' = IF recoveryTrigger = "PLANNING_R" THEN 0 ELSE recoveryIndex
        /\ pcE' = "switch"
        /\ UNCHANGED result
     \/ /\ "setPlan" \in Faults
        /\ result' = "aborted"
        /\ pcE' = "reset"
        /\ UNCHANGED <<tcPlan, recoveryIndex>>
  /\ UNCHANGED <<asVars, state, recoveryTrigger, velocity, costmapsRunning,
                 planVars, askVars, lateVars, recoveriesRun, goal, tempPlanE,
                 plannerVars, callbackVars>>

\* switch(state_)
ExecSwitch ==
  /\ pcE = "switch"
  /\ \/ state = "PLANNING" /\ pcE' = "enablePlanner"
     \/ state = "CONTROLLING" /\ pcE' = "control"
     \/ state = "CLEARING" /\ pcE' = "clear"
  /\ UNCHANGED <<asVars, navVars, planVars, askVars, lateVars, tcVars, goal,
                 tempPlanE, result, plannerVars, callbackVars>>

\* The planner is to run, on the goal it has; the cycle ends.
ExecEnablePlanner ==
  /\ pcE \in {"enablePlanner", "replan"}
  /\ PlannerMutexFree
  /\ runPlanner' = TRUE
  /\ NotifyPlanner
  /\ pcE' = "head"
  /\ UNCHANGED <<asVars, navVars, planVars, plannerGoal, lateVars, tcVars, goal,
                 tempPlanE, result, tempGoal, tempPlanP, attemptLate,
                 timerRunning, callbackVars>>

\* CONTROLLING: the goal is reached (the end of the plan the local planner
\* follows), or the robot may be oscillating.
ExecControl ==
  /\ pcE = "control"
  /\ \/ /\ tcPlan # NoPlan
        /\ result' = "succeeded"
        /\ pcE' = "reset"
        /\ UNCHANGED <<velocity, state, recoveryTrigger>>
     \/ /\ pcE' = "compute"
        /\ UNCHANGED result
        /\ IF OscillationTimeout /\ oscillationLate
           THEN /\ velocity' = "zero"
                /\ state' = "CLEARING"
                /\ recoveryTrigger' = "OSCILLATION_R"
           ELSE UNCHANGED <<velocity, state, recoveryTrigger>>
  /\ UNCHANGED <<asVars, recoveryIndex, costmapsRunning, planVars, askVars,
                 lateVars, tcVars, goal, tempPlanE, plannerVars, callbackVars>>

\* The local planner finds a velocity command along its plan ...
ExecCommand ==
  /\ pcE = "compute" /\ ControllerCostmapFree
  /\ tcPlan # NoPlan
  /\ velocity' = "move"
  /\ controlLate' = FALSE
  /\ recoveryIndex' = IF recoveryTrigger = "CONTROLLING_R" THEN 0 ELSE recoveryIndex
  /\ pcE' = "head"
  /\ UNCHANGED <<asVars, state, recoveryTrigger, costmapsRunning, planVars,
                 askVars, planLate, oscillationLate, planningRetries, tcVars,
                 goal, tempPlanE, result, plannerVars, callbackVars>>

\* ... or finds none: back to planning, or, out of patience, to recovery.
ExecNoCommand ==
  /\ pcE = "compute" /\ ControllerCostmapFree
  /\ velocity' = "zero"
  /\ \/ /\ controlLate
        /\ state' = "CLEARING"
        /\ recoveryTrigger' = "CONTROLLING_R"
        /\ pcE' = "head"
        /\ UNCHANGED <<planLate, planningRetries>>
     \/ /\ ~controlLate
        /\ planLate' = FALSE
        /\ planningRetries' = 0
        /\ state' = "PLANNING"
        /\ pcE' = "replan"
        /\ UNCHANGED recoveryTrigger
  /\ UNCHANGED <<asVars, recoveryIndex, costmapsRunning, planVars, askVars,
                 controlLate, oscillationLate, tcVars, goal, tempPlanE, result,
                 plannerVars, callbackVars>>

BehaviorLeft == recoveryIndex < NumRecoveries

\* CLEARING: the next recovery behavior starts, or none is left: the planner is
\* disabled and the goal given up.
ExecClear ==
  /\ pcE = "clear"
  /\ \/ /\ RecoveryEnabled /\ BehaviorLeft
        /\ pcE' = "recover"
        /\ UNCHANGED runPlanner
     \/ /\ ~(RecoveryEnabled /\ BehaviorLeft)
        /\ PlannerMutexFree
        /\ runPlanner' = FALSE
        /\ pcE' = "giveUp"
  /\ UNCHANGED <<asVars, navVars, planVars, plannerGoal, lateVars, tcVars, goal,
                 tempPlanE, result, plannerVars, callbackVars>>

\* Mutant: the same behavior is run again.
SameBehavior == UNCHANGED recoveryIndex

NextBehavior == recoveryIndex' = recoveryIndex + 1

\* runBehavior() returns; a rotation leaves its last command in force.
ExecRecovered ==
  /\ pcE = "recover"
  /\ velocity' \in {velocity, "move"}
  /\ oscillationLate' = FALSE /\ planLate' = FALSE /\ planningRetries' = 0
  /\ state' = "PLANNING"
  /\ NextBehavior
  /\ recoveriesRun' = recoveriesRun \cup {recoveryIndex}
  /\ pcE' = "head"
  /\ UNCHANGED <<asVars, recoveryTrigger, costmapsRunning, planVars, askVars,
                 controlLate, tcPlan, goal, tempPlanE, result, plannerVars,
                 callbackVars>>

\* Mutant: the goal is given up without a result.
ExecGiveUpSilently ==
  /\ pcE = "giveUp"
  /\ pcE' = "giveUpReset"
  /\ UNCHANGED <<asVars, navVars, planVars, askVars, lateVars, tcVars, goal,
                 tempPlanE, result, plannerVars, callbackVars>>

\* The goal is aborted first; the state is reset after that.
ExecGiveUp ==
  /\ pcE = "giveUp"
  /\ SetResult("aborted")
  /\ pcE' = "giveUpReset"
  /\ UNCHANGED <<navVars, planVars, askVars, lateVars, tcVars, goal, tempPlanE,
                 result, plannerVars, callbackVars>>

ExecGiveUpReset ==
  /\ pcE = "giveUpReset"
  /\ ResetState
  /\ pcE' = "idle" /\ goal' = NoPose
  /\ UNCHANGED <<asVars, planVars, plannerGoal, lateVars, tcVars, tempPlanE,
                 result, plannerVars, callbackVars>>

Cycle == ExecCycle \/ ExecNewPlan \/ ExecSwap \/ ExecSetPlan \/ ExecSwitch
         \/ ExecEnablePlanner \/ ExecControl \/ ExecCommand \/ ExecNoCommand
         \/ ExecClear \/ ExecRecovered \/ ExecGiveUp \/ ExecGiveUpReset

Executor == ExecStart \/ ExecRejectGoal \/ ExecValidate \/ ExecArm
            \/ ExecResetTimers \/ ExecHead \/ ExecPreempted \/ ExecAccept
            \/ ExecTakeOver \/ ExecFrame \/ ExecKilled \/ ExecReset \/ ExecReport
            \/ Cycle

-----------------------------------------------------------------------------
(* Time passes: a patience runs out.  Only the comparison with now() shows   *)
(* it, so it is taken to run out, if it does, just before it is compared.    *)

\* An attempt of the planner compares now() with an end computed earlier, so it
\* is late whenever the patience counted from a later instant has run out.
PlanPatienceRunsOut ==
  /\ pcP \in {"planning", "failed"}
  /\ ~planLate \/ (pcP = "failed" /\ ~attemptLate)
  /\ attemptLate' = (attemptLate \/ pcP = "failed")
  /\ planLate' \in (IF pcP = "failed" THEN {planLate, TRUE} ELSE {TRUE})
  /\ UNCHANGED <<asVars, navVars, planVars, askVars, controlLate, oscillationLate,
                 planningRetries, tcVars, execVars, pcP, tempGoal, tempPlanP,
                 timerRunning, callbackVars>>

ControlPatienceRunsOut ==
  /\ pcE = "compute" /\ ~controlLate
  /\ controlLate' = TRUE
  /\ UNCHANGED <<asVars, navVars, planVars, askVars, planLate, oscillationLate,
                 planningRetries, tcVars, execVars, plannerVars, callbackVars>>

OscillationTimeoutRunsOut ==
  /\ pcE = "control" /\ OscillationTimeout /\ ~oscillationLate
  /\ oscillationLate' = TRUE
  /\ UNCHANGED <<asVars, navVars, planVars, askVars, planLate, controlLate,
                 planningRetries, tcVars, execVars, plannerVars, callbackVars>>

Time == PlanPatienceRunsOut \/ ControlPatienceRunsOut \/ OscillationTimeoutRunsOut

Reconfigure == ReconfigureLock \/ ReconfigureGlobal \/ ReconfigureInitialized
               \/ ReconfigureLocal \/ ReconfigureReset

Services == RecvPlanRequest \/ PlanRequestServed \/ RecvClearCostmaps \/ CostmapsCleared

\* All goals have their result (or were never sent), both threads wait or ended.
Quiescent ==
  /\ pcE = "idle" /\ pcR = "idle"
  /\ pcP \in {"waiting", "exit"}
  /\ nodeOk => ~newGoal /\ pcP = "waiting"
  /\ ~nodeOk => pcP = "exit"
  /\ UNCHANGED vars

Next ==
  \/ Executor
  \/ Planner
  \/ WakePlanner
  \/ Reconfigure
  \/ Services
  \/ Time
  \/ \E g \in Goals : RecvGoal(g)
  \/ \E g \in CancelableGoals : RecvCancel(g)
  \/ \E kinds \in SUBSET {"global", "local"} : RecvReconfigure(kinds)
  \/ NodeStops
  \/ Quiescent

Spec == Init /\ [][Next]_vars

\* Threads that can run do run; configuration_mutex_ goes to a reconfigureCB that
\* waits for it every time the executor sleeps, and a costmap's to the service that
\* waits for it between two plans; time passes.  Clients, the
\* outcome of planning and control, and shutdown are free.
Fairness ==
  /\ WF_vars(Executor)
  /\ WF_vars(Planner)
  /\ WF_vars(WakePlanner \/ Reconfigure \/ PlanRequestServed)
  /\ SF_vars(ReconfigureLock \/ CostmapsCleared)
  /\ SF_vars(PlanPatienceRunsOut /\ planLate')

FairSpec == Spec /\ Fairness

-----------------------------------------------------------------------------
(* Safety.                                                                   *)

(***************************************************************************)
(* The triple buffer: whatever the two threads' unlocked captures of       *)
(* temp_plan, the three pointers point to three different vectors, so the  *)
(* plan being made is never the one being followed (move_base.cpp:597-604  *)
(* and 843-848).                                                           *)
(***************************************************************************)
PlanBuffersDistinct ==
  /\ plannerPlan # latestPlan
  /\ plannerPlan # controllerPlan
  /\ latestPlan # controllerPlan

\* temp_plan still is the pointer it was copied from, when it is swapped in.
CapturedPlans ==
  /\ pcP = "publish" => tempPlanP = plannerPlan
  /\ pcE = "swap" => tempPlanE = controllerPlan

(***************************************************************************)
(* The recovery behavior being run exists: recovery_behaviors_ is never    *)
(* indexed past its end (954-977), although reconfigureCB, new goals and   *)
(* late plans reset recovery_index_ at other points.                       *)
(***************************************************************************)
RecoveryExists ==
  /\ recoveryIndex <= NumRecoveries
  /\ pcE = "recover" => recoveryIndex < NumRecoveries

(***************************************************************************)
(* A goal is active exactly while executeCb works on it, and that goal is  *)
(* the one results are reported for: no goal is left without a result when *)
(* executeCb returns, and none is given two (the setSucceeded, setAborted  *)
(* and setPreempted calls of executeCb and executeCycle), whatever cancels *)
(* and newer goals arrive on the way.                                      *)
(***************************************************************************)
ActiveWhileExecuting ==
  /\ IsActive <=> pcE \notin {"idle", "giveUpReset"}
  /\ pcE \notin {"idle", "validate", "acceptValidate", "giveUpReset"}
        => goal.id = currentGoal

\* What the executor knows, without a lock, of the goals at its points.
ResultChosen == pcE \in {"reset", "report"} => result \in Finished

AcceptsAGoal == pcE = "accept" => newGoal

AtRest ==
  /\ ~runPlanner
  /\ state = "PLANNING"
  /\ recoveryIndex = 0
  /\ recoveryTrigger = "PLANNING_R"
  /\ velocity = "zero"
  /\ ShutdownCostmaps => ~costmapsRunning

(***************************************************************************)
(* Between goals the node is at rest: the planner is not to run, the state *)
(* machine and the recoveries are at their start, and the base was         *)
(* commanded to stop after its last motion - unless the last goal was      *)
(* refused for its quaternion (or might have been), which skips resetState *)
(* (698-701).                                                              *)
(***************************************************************************)
AtRestBetweenGoals ==
  (pcE = "idle" /\ nodeOk /\ currentGoal \notin InvalidGoals) => AtRest

\* Every goal the server accepted before the current one was a valid one.
NoGoalWasRefused == \A g \in InvalidGoals : g >= currentGoal

(***************************************************************************)
(* "Aborting because a valid plan could not be found. Even after executing *)
(* all recovery behaviors" (993, and 989 and 997 for the other causes): a  *)
(* goal is given up only after every recovery behavior was run for it -    *)
(* unless a goal was refused while it took over, which leaves              *)
(* recovery_index_ behind for the next one (698-701).                      *)
(***************************************************************************)
AllRecoveriesBeforeGiveUp ==
  (pcE = "giveUp" /\ RecoveryEnabled /\ NoGoalWasRefused)
      => recoveriesRun = 0..(NumRecoveries - 1)

\* A result is reported to the client only after the node came to rest.
AtRestWhenReporting == pcE = "report" => AtRest

\* The life of a goal that NavService.tla speaks of.
PhaseOf(s) == CASE s = "unsent" -> "new"
                [] s \in Waiting -> "queued"
                [] s \in Running -> "pursued"
                [] s \in {"preempted", "recalled"} -> "canceled"
                [] OTHER -> s

Promise == INSTANCE NavService WITH phase <- [g \in Goals |-> PhaseOf(status[g])]

(***************************************************************************)
(* move_base implements NavService: goals are pursued one at a time, get   *)
(* one result each, and only a pursued goal succeeds or is aborted.        *)
(***************************************************************************)
ImplementsNavService == Promise!Spec

-----------------------------------------------------------------------------
(* Liveness, under Fairness.                                                 *)

(***************************************************************************)
(* The pending goal is taken up: none is forgotten between                 *)
(* isPreemptRequested, isNewGoalAvailable and the return of executeCb, not *)
(* even when the pursued goal has just succeeded or been canceled          *)
(* (693-694, 726-735).                                                     *)
(***************************************************************************)
WaitingGoalIsTakenUp == (newGoal /\ nodeOk) ~> (~newGoal \/ ~nodeOk)

(***************************************************************************)
(* A cancel of the pursued goal ends it, whatever planning, control or     *)
(* recovery is going on (726-736).                                         *)
(***************************************************************************)
CancelEndsGoal ==
  \A g \in Goals : status[g] = "preempting" ~> status[g] \in Finished

\* A control cycle that sees current sensor data.
CurrentCycle == ExecCycle /\ pcE' = "newPlan"

(***************************************************************************)
(* "we have a new goal so make sure the planner is awake" (709): a goal    *)
(* the planner is about to be given is planned for, or the goal that       *)
(* replaces it is, unless it ends first (where sensor data stays current). *)
(***************************************************************************)
PursuedGoalIsPlanned ==
  pcE \in {"arm", "acceptArm"} ~> (tempGoal.id = currentGoal \/ ~IsActive)

(***************************************************************************)
(* Patience ends (625-632, 926-931, 954-1001): if sensor data keeps being  *)
(* current, a goal for which the node never again reaches CONTROLLING is   *)
(* not pursued for ever; recoveries run out and it is given up.            *)
(***************************************************************************)
NoEndlessPlanning ==
  \/ <>[][~CurrentCycle]_vars
  \/ []<>(state = "CONTROLLING")
  \/ \A g \in Goals : status[g] \in Running ~> status[g] \in Finished

(***************************************************************************)
(* A node that is stopping stops: executeCb leaves its loop (786-794) and  *)
(* planThread its wait or its round (461-462, 575).                        *)
(***************************************************************************)
ThreadsEnd == ~nodeOk ~> (pcE = "idle" /\ pcP = "exit")
=============================================================================

--------------------------- MODULE MoveBaseProofs ---------------------------
(***************************************************************************)
(* Theorems about MoveBase.tla, for every value of its constants: types,   *)
(* the plan buffers, the goals and what NavService.tla promises about      *)
(* them, and the recovery behaviors.                                       *)
(***************************************************************************)
EXTENDS MoveBase, TLAPS

USE DEF vars, asVars, navVars, planVars, askVars, lateVars, tcVars, execVars,
        plannerVars, callbackVars, StartTimer, SwapPlans, LoopGoesOn,
        PreemptRequested, PreemptedByNewGoal, PlanAfresh, BehaviorLeft, NextBehavior

-----------------------------------------------------------------------------
(* Type correctness.                                                         *)

LEMMA TypeInit == Init => TypeOK
<1> SUFFICES ASSUME Init PROVE TypeOK
  OBVIOUS
<1> USE MaxGoalsAssumption, MoveBaseAssumption DEF Init, NoGoal, NoPlan
<1>1. ASTypeOK
  BY DEF ASInit, ASTypeOK, GoalStatus
<1>2. /\ state \in NavStates
      /\ recoveryTrigger \in Triggers
      /\ pcE \in ExecutorPoints
      /\ pcP \in PlannerPoints
      /\ pcR \in CallbackPoints
  BY DEF NavStates, Triggers, ExecutorPoints, PlannerPoints, CallbackPoints
<1>3. NoPose \in Poses
  BY DEF NoPose, Poses
<1>4. planIn \in [Buffers -> Goals \cup {NoGoal}]
  OBVIOUS
<1>5. costmapsRunning \in BOOLEAN
  OBVIOUS
<1>6. recoveryIndex \in Nat /\ calls \in 0..MaxCalls
  OBVIOUS
<1>7. /\ plannerGoal \in Poses /\ goal \in Poses /\ tempGoal \in Poses
  BY <1>3
<1>8. /\ plannerPlan \in Buffers /\ latestPlan \in Buffers /\ controllerPlan \in Buffers
      /\ replacing \subseteq {"global", "local"}
  OBVIOUS
<1> QED
  BY <1>1, <1>2, <1>4, <1>5, <1>6, <1>7, <1>8 DEF TypeOK

\* The calls of the action server keep its variables in their types.
LEMMA ServerType ==
  ASSUME ASTypeOK,
         \/ \E g \in Goals : GoalCallback(g) \/ PreemptCallback(g)
         \/ AcceptNewGoal
         \/ \E r \in Finished : SetResult(r)
         \/ UNCHANGED asVars
  PROVE  ASTypeOK'
<1> USE DEF ASTypeOK, GoalStatus, Waiting, Running, Finished
<1>1. CASE \E g \in Goals : GoalCallback(g)
  BY <1>1 DEF GoalCallback, Canceled
<1>2. CASE \E g \in Goals : PreemptCallback(g)
  BY <1>2 DEF PreemptCallback
<1>3. CASE AcceptNewGoal
  BY <1>3 DEF AcceptNewGoal, Canceled
<1>4. CASE \E r \in Finished : SetResult(r)
  BY <1>4 DEF SetResult
<1>5. CASE UNCHANGED asVars
  BY <1>5
<1> QED BY <1>1, <1>2, <1>3, <1>4, <1>5
\* goalToGlobalFrame returns a pose of the goal it is given.
LEMMA Transforms ==
  ASSUME NEW g \in Goals \cup {NoGoal}, NEW p \in Transformed(g)
  PROVE  p \in Poses /\ p.id = g
<1>1. PICK ok \in BOOLEAN : p = [id |-> g, inGlobalFrame |-> ok]
  BY Zenon DEF Transformed
<1> QED
  BY <1>1 DEF Poses

\* Neither thread's temp_plan is overtaken by the other thread's swap.
LEMMA CapturedStep ==
  ASSUME CapturedPlans, [Next]_vars
  PROVE  CapturedPlans'
<1> USE DEF CapturedPlans
<1>1. CASE Planner
  BY <1>1 DEF Planner, PlanWoken, PlanOrSuspend, PlanNextRound, PlanFound,
         PlanNotFound, PlanPublish, PlanRetry, PlanExit
<1>2. CASE Cycle
  BY <1>2 DEF Cycle, ExecCycle, ExecNewPlan, ExecSwap, ExecSetPlan,
         ExecSwitch, ExecEnablePlanner, NotifyPlanner, ExecControl,
         ExecCommand, ExecNoCommand, ExecClear, ExecRecovered, ExecGiveUp,
         ExecGiveUpReset, ResetState,
         DisablePlanner, ResetStateMachine
<1>3. CASE Executor /\ ~Cycle
  BY <1>3 DEF Executor, ExecStart, ExecRejectGoal, ExecValidate, ExecArm,
         NotifyPlanner, ExecResetTimers, ExecHead, ExecPreempted, ExecAccept,
         ExecTakeOver, ExecFrame, ExecKilled, ExecReset, ResetState,
         DisablePlanner, ResetStateMachine,
         ExecReport
<1>4. CASE Reconfigure
  BY <1>4 DEF Reconfigure, ReconfigureLock, ReconfigureGlobal, ResetState,
         DisablePlanner, ResetStateMachine,
         ReconfigureInitialized, ReconfigureLocal, ReconfigureReset
<1>5. CASE Time \/ WakePlanner \/ NodeStops \/ Services \/ Quiescent
  BY <1>5 DEF Time, PlanPatienceRunsOut, ControlPatienceRunsOut,
         OscillationTimeoutRunsOut, WakePlanner, NotifyPlanner, NodeStops,
         Quiescent, Services,
         RecvPlanRequest, PlanRequestServed, RecvClearCostmaps, CostmapsCleared
<1>6. CASE \/ \E g \in Goals : RecvGoal(g) \/ RecvCancel(g)
           \/ \E kinds \in SUBSET {"global", "local"} : RecvReconfigure(kinds)
           \/ UNCHANGED vars
  BY <1>6 DEF RecvGoal, RecvCancel, RecvReconfigure
<1> QED
  BY MoveBaseAssumption, <1>1, <1>2, <1>3, <1>4, <1>5, <1>6 DEF Next

\* A result is chosen before the executor comes to report one.
LEMMA ResultStep ==
  ASSUME ResultChosen, [Next]_vars
  PROVE  ResultChosen'
<1> USE DEF ResultChosen, Finished
<1>1. CASE Planner
  BY <1>1 DEF Planner, PlanWoken, PlanOrSuspend, PlanNextRound, PlanFound,
         PlanNotFound, PlanPublish, PlanRetry, PlanExit
<1>2. CASE Cycle
  BY <1>2 DEF Cycle, ExecCycle, ExecNewPlan, ExecSwap, ExecSetPlan,
         ExecSwitch, ExecEnablePlanner, NotifyPlanner, ExecControl,
         ExecCommand, ExecNoCommand, ExecClear, ExecRecovered, ExecGiveUp,
         ExecGiveUpReset, ResetState,
         DisablePlanner, ResetStateMachine
<1>3. CASE Executor /\ ~Cycle
  BY <1>3 DEF Executor, ExecStart, ExecRejectGoal, ExecValidate, ExecArm,
         NotifyPlanner, ExecResetTimers, ExecHead, ExecPreempted, ExecAccept,
         ExecTakeOver, ExecFrame, ExecKilled, ExecReset, ResetState,
         DisablePlanner, ResetStateMachine,
         ExecReport
<1>4. CASE Reconfigure
  BY <1>4 DEF Reconfigure, ReconfigureLock, ReconfigureGlobal, ResetState,
         DisablePlanner, ResetStateMachine,
         ReconfigureInitialized, ReconfigureLocal, ReconfigureReset
<1>5. CASE Time \/ WakePlanner \/ NodeStops \/ Services \/ Quiescent
  BY <1>5 DEF Time, PlanPatienceRunsOut, ControlPatienceRunsOut,
         OscillationTimeoutRunsOut, WakePlanner, NotifyPlanner, NodeStops,
         Quiescent, Services,
         RecvPlanRequest, PlanRequestServed, RecvClearCostmaps, CostmapsCleared
<1>6. CASE \/ \E g \in Goals : RecvGoal(g) \/ RecvCancel(g)
           \/ \E kinds \in SUBSET {"global", "local"} : RecvReconfigure(kinds)
           \/ UNCHANGED vars
  BY <1>6 DEF RecvGoal, RecvCancel, RecvReconfigure
<1> QED
  BY MoveBaseAssumption, <1>1, <1>2, <1>3, <1>4, <1>5, <1>6 DEF Next

\* Every step keeps the types; that latest_plan_ gets a buffer, and the client a
\* result, rests on what the threads captured before.
LEMMA TypeStep ==
  ASSUME TypeOK, CapturedPlans, ResultChosen, [Next]_vars
  PROVE  TypeOK'
<1> USE MaxGoalsAssumption, MoveBaseAssumption
    DEF TypeOK, NavStates, Triggers, ExecutorPoints, PlannerPoints, CallbackPoints,
        NoGoal, NoPlan
<1>a. NoPose \in Poses
  BY DEF NoPose, Poses
<1>1. CASE \E g \in Goals : RecvGoal(g)
  BY <1>1, ServerType DEF RecvGoal
<1>2. CASE \E g \in CancelableGoals : RecvCancel(g)
  BY <1>2, ServerType DEF RecvCancel
<1>3. CASE WakePlanner
  BY <1>3, ServerType DEF WakePlanner, NotifyPlanner
<1>4. CASE \E kinds \in SUBSET {"global", "local"} : RecvReconfigure(kinds)
  BY <1>4, ServerType DEF RecvReconfigure
<1>5. CASE NodeStops
  <2>1. nodeOk' \in BOOLEAN
    BY <1>5, Zenon DEF NodeStops
  <2>2. ASTypeOK'
    BY <1>5, ServerType DEF NodeStops
  <2> QED
    BY <1>5, <2>1, <2>2 DEF NodeStops
<1>6. CASE Quiescent
  BY <1>6, ServerType DEF Quiescent
<1>7. CASE ReconfigureLock
  BY <1>7, ServerType DEF ReconfigureLock
<1>8. CASE ReconfigureGlobal
  <2>1. runPlanner' \in BOOLEAN /\ costmapsRunning' \in BOOLEAN
    BY <1>8, Zenon DEF ReconfigureGlobal, ResetState,
         DisablePlanner, ResetStateMachine
  <2>2. ASTypeOK'
    BY <1>8, ServerType DEF ReconfigureGlobal, ResetState,
         DisablePlanner, ResetStateMachine
  <2> QED
    BY <1>8, <2>1, <2>2 DEF ReconfigureGlobal, ResetState,
         DisablePlanner, ResetStateMachine
<1>9. CASE ReconfigureInitialized
  BY <1>9, ServerType DEF ReconfigureInitialized
<1>10. CASE ReconfigureLocal
  <2>1. runPlanner' \in BOOLEAN
    BY <1>10, Zenon DEF ReconfigureLocal, DisablePlanner
  <2>2. ASTypeOK'
    BY <1>10, ServerType DEF ReconfigureLocal
  <2> QED
    BY <1>10, <2>1, <2>2 DEF ReconfigureLocal, DisablePlanner
<1>48. CASE ReconfigureReset
  <2>1. costmapsRunning' \in BOOLEAN
    BY <1>48, Zenon DEF ReconfigureReset, ResetStateMachine
  <2>2. ASTypeOK'
    BY <1>48, ServerType DEF ReconfigureReset
  <2> QED
    BY <1>48, <2>1, <2>2 DEF ReconfigureReset, ResetStateMachine
<1>11. CASE PlanWoken
  BY <1>11, ServerType DEF PlanWoken, PlanOrSuspend
<1>12. CASE PlanNextRound
  BY <1>12, ServerType DEF PlanNextRound, PlanOrSuspend
<1>13. CASE PlanFound
  <2>1. planIn' \in [Buffers -> Goals \cup {NoPlan}]
    BY <1>13 DEF PlanFound, Poses
  <2>2. ASTypeOK'
    BY <1>13, ServerType DEF PlanFound
  <2> QED
    BY <1>13, <2>1, <2>2 DEF PlanFound
<1>14. CASE PlanNotFound
  <2>1. attemptLate' \in BOOLEAN
    BY <1>14, Zenon DEF PlanNotFound
  <2>2. ASTypeOK'
    BY <1>14, ServerType DEF PlanNotFound
  <2> QED
    BY <1>a, <1>14, <2>1, <2>2 DEF PlanNotFound
<1>15. CASE PlanPublish
  <2>1. planLate' \in BOOLEAN /\ runPlanner' \in BOOLEAN /\ newGlobalPlan' \in BOOLEAN
    BY <1>15, Zenon DEF PlanPublish
  <2>2. planningRetries' \in 0..RetryBound
    BY <1>15 DEF PlanPublish, RetryBound
  <2>3. latestPlan' \in Buffers /\ plannerPlan' \in Buffers
    BY <1>15 DEF PlanPublish, CapturedPlans
  <2>4. ASTypeOK'
    BY <1>15, ServerType DEF PlanPublish
  <2> QED
    BY <1>a, <1>15, <2>1, <2>2, <2>3, <2>4 DEF PlanPublish
<1>16. CASE PlanRetry
  <2>1. runPlanner' \in BOOLEAN /\ attemptLate' \in BOOLEAN
    BY <1>16, Zenon DEF PlanRetry
  <2>2. planningRetries' \in 0..RetryBound
    BY <1>16 DEF PlanRetry, RetryBound
  <2>3. ASTypeOK'
    BY <1>16, ServerType DEF PlanRetry
  <2> QED
    BY <1>16, <2>1, <2>2, <2>3 DEF PlanRetry
<1>17. CASE PlanExit
  BY <1>17, ServerType DEF PlanExit
<1>18. CASE PlanPatienceRunsOut
  <2>1. attemptLate' \in BOOLEAN /\ planLate' \in BOOLEAN
    BY <1>18, Zenon DEF PlanPatienceRunsOut
  <2>2. ASTypeOK'
    BY <1>18, ServerType DEF PlanPatienceRunsOut
  <2> QED
    BY <1>18, <2>1, <2>2 DEF PlanPatienceRunsOut
<1>19. CASE ControlPatienceRunsOut
  BY <1>19, ServerType DEF ControlPatienceRunsOut
<1>20. CASE OscillationTimeoutRunsOut
  BY <1>20, ServerType DEF OscillationTimeoutRunsOut
<1>21. CASE ExecStart
  BY <1>21, ServerType DEF ExecStart
<1>22. CASE ExecRejectGoal
  BY <1>a, <1>22, ServerType DEF ExecRejectGoal, Finished
<1>23. CASE ExecValidate
  <2>1. currentGoal \in Goals \cup {NoGoal} /\ goal' \in Transformed(currentGoal)
    BY <1>23 DEF ExecValidate, ASTypeOK
  <2>2. goal' \in Poses
    BY <2>1, Transforms
  <2>3. ASTypeOK'
    BY <1>23, ServerType DEF ExecValidate
  <2> QED
    BY <1>23, <2>2, <2>3 DEF ExecValidate
<1>24. CASE ExecArm
  BY <1>24, ServerType DEF ExecArm, NotifyPlanner
<1>25. CASE ExecResetTimers
  <2>1. planLate' \in BOOLEAN /\ controlLate' \in BOOLEAN /\ oscillationLate' \in BOOLEAN /\ costmapsRunning' \in BOOLEAN
    BY <1>25, Zenon DEF ExecResetTimers
  <2>2. planningRetries' \in 0..RetryBound
    BY <1>25 DEF ExecResetTimers, RetryBound
  <2>3. ASTypeOK'
    BY <1>25, ServerType DEF ExecResetTimers
  <2> QED
    BY <1>25, <2>1, <2>2, <2>3 DEF ExecResetTimers
<1>26. CASE ExecHead
  BY <1>26, ServerType DEF ExecHead
<1>27. CASE ExecPreempted
  BY <1>27, ServerType DEF ExecPreempted
<1>28. CASE ExecAccept
  <2>1. ASTypeOK'
    BY <1>28, ServerType DEF ExecAccept
  <2> QED
    BY <1>28, <2>1 DEF ExecAccept
<1>29. CASE ExecTakeOver
  <2>1. currentGoal \in Goals \cup {NoGoal} /\ goal' \in Transformed(currentGoal)
    BY <1>29 DEF ExecTakeOver, ASTypeOK
  <2>2. goal' \in Poses
    BY <2>1, Transforms
  <2>3. ASTypeOK'
    BY <1>29, ServerType DEF ExecTakeOver
  <2> QED
    BY <1>29, <2>2, <2>3 DEF ExecTakeOver
<1>30. CASE ExecFrame
  <2>1. goal.id \in Goals \cup {NoGoal}
    BY DEF Poses
  <2>2. goal' = goal \/ goal' \in Transformed(goal.id)
    BY <1>30 DEF ExecFrame
  <2>3. goal' \in Poses
    BY <2>1, <2>2, Transforms
  <2>4. ASTypeOK'
    BY <1>30, ServerType DEF ExecFrame
  <2> QED
    BY <1>30, <2>3, <2>4 DEF ExecFrame
<1>31. CASE ExecKilled
  BY <1>a, <1>31, ServerType DEF ExecKilled, NotifyPlanner, Finished
<1>32. CASE ExecReset
  <2>1. runPlanner' \in BOOLEAN /\ costmapsRunning' \in BOOLEAN
    BY <1>32, Zenon DEF ExecReset, ResetState,
         DisablePlanner, ResetStateMachine
  <2>2. ASTypeOK'
    BY <1>32, ServerType DEF ExecReset, ResetState,
         DisablePlanner, ResetStateMachine
  <2> QED
    BY <1>32, <2>1, <2>2 DEF ExecReset, ResetState,
         DisablePlanner, ResetStateMachine
<1>33. CASE ExecReport
  <2>1. ASTypeOK'
    BY <1>33, ServerType DEF ExecReport, ResultChosen
  <2> QED
    BY <1>a, <1>33, <2>1 DEF ExecReport
<1>34. CASE ExecCycle
  BY <1>34, ServerType DEF ExecCycle
<1>35. CASE ExecNewPlan
  <2>1. newGlobalPlan' \in BOOLEAN
    BY <1>35, Zenon DEF ExecNewPlan
  <2>2. ASTypeOK'
    BY <1>35, ServerType DEF ExecNewPlan
  <2> QED
    BY <1>35, <2>1, <2>2 DEF ExecNewPlan
<1>36. CASE ExecSwap
  <2>1. latestPlan' \in Buffers /\ controllerPlan' \in Buffers
    BY <1>36 DEF ExecSwap, CapturedPlans
  <2>2. ASTypeOK'
    BY <1>36, ServerType DEF ExecSwap
  <2> QED
    BY <1>36, <2>1, <2>2 DEF ExecSwap
<1>37. CASE ExecSetPlan
  BY <1>37, ServerType DEF ExecSetPlan
<1>38. CASE ExecSwitch
  BY <1>38, ServerType DEF ExecSwitch
<1>39. CASE ExecEnablePlanner
  BY <1>39, ServerType DEF ExecEnablePlanner, NotifyPlanner
<1>40. CASE ExecControl
  BY <1>40, ServerType DEF ExecControl
<1>41. CASE ExecCommand
  <2>1. controlLate' \in BOOLEAN
    BY <1>41, Zenon DEF ExecCommand
  <2>2. ASTypeOK'
    BY <1>41, ServerType DEF ExecCommand
  <2> QED
    BY <1>41, <2>1, <2>2 DEF ExecCommand
<1>42. CASE ExecNoCommand
  <2>1. planLate' \in BOOLEAN
    BY <1>42, Zenon DEF ExecNoCommand
  <2>2. planningRetries' \in 0..RetryBound
    BY <1>42 DEF ExecNoCommand, RetryBound
  <2>3. ASTypeOK'
    BY <1>42, ServerType DEF ExecNoCommand
  <2> QED
    BY <1>42, <2>1, <2>2, <2>3 DEF ExecNoCommand
<1>43. CASE ExecClear
  <2>1. runPlanner' \in BOOLEAN
    BY <1>43, Zenon DEF ExecClear
  <2>2. ASTypeOK'
    BY <1>43, ServerType DEF ExecClear
  <2> QED
    BY <1>43, <2>1, <2>2 DEF ExecClear
<1>44. CASE ExecRecovered
  <2>1. planLate' \in BOOLEAN /\ oscillationLate' \in BOOLEAN
    BY <1>44, Zenon DEF ExecRecovered
  <2>2. recoveryIndex' \in Nat /\ planningRetries' \in 0..RetryBound
    BY <1>44 DEF ExecRecovered, RetryBound
  <2>3. velocity' \in {"zero", "move"} /\ state' \in NavStates /\ pcE' \in ExecutorPoints
    BY <1>44 DEF ExecRecovered
  <2>4. /\ UNCHANGED <<asVars, recoveryTrigger, costmapsRunning, planVars, askVars>>
        /\ UNCHANGED <<controlLate, tcPlan, goal, tempPlanE, result, plannerVars, callbackVars>>
    BY <1>44 DEF ExecRecovered
  <2>5. ASTypeOK'
    BY <2>4, ServerType
  <2> QED
    BY <2>1, <2>2, <2>3, <2>4, <2>5
<1>45. CASE ExecGiveUp
  BY <1>45, ServerType DEF ExecGiveUp, Finished
<1>46. CASE ExecGiveUpReset
  <2>1. runPlanner' \in BOOLEAN /\ costmapsRunning' \in BOOLEAN
    BY <1>46, Zenon DEF ExecGiveUpReset, ResetState,
         DisablePlanner, ResetStateMachine
  <2>2. ASTypeOK'
    BY <1>46, ServerType DEF ExecGiveUpReset, ResetState,
         DisablePlanner, ResetStateMachine
  <2> QED
    BY <1>a, <1>46, <2>1, <2>2 DEF ExecGiveUpReset, ResetState,
         DisablePlanner, ResetStateMachine
<1>49. CASE Services
  <2>1. /\ pcR' \in CallbackPoints
        /\ calls' \in 0..MaxCalls
    BY <1>49 DEF Services, RecvPlanRequest, PlanRequestServed,
         RecvClearCostmaps, CostmapsCleared
  <2>2. /\ UNCHANGED <<asVars, navVars, planVars, askVars, lateVars, tcVars>>
        /\ UNCHANGED <<execVars, plannerVars, replacing, nodeOk>>
    BY <1>49, Zenon DEF Services, RecvPlanRequest, PlanRequestServed,
         RecvClearCostmaps, CostmapsCleared
  <2>3. ASTypeOK'
    BY <2>2, ServerType
  <2> QED
    BY <2>1, <2>2, <2>3
<1>47. CASE UNCHANGED vars
  BY <1>47, ServerType
<1> QED
  BY <1>1, <1>2, <1>3, <1>4, <1>5, <1>6, <1>7, <1>8, <1>9, <1>10, <1>11,
     <1>12, <1>13, <1>14, <1>15, <1>16, <1>17, <1>18, <1>19, <1>20, <1>21,
     <1>22, <1>23, <1>24, <1>25, <1>26, <1>27, <1>28, <1>29, <1>30, <1>31,
     <1>32, <1>33, <1>34, <1>35, <1>36, <1>37, <1>38, <1>39, <1>40, <1>41,
     <1>42, <1>43, <1>44, <1>45, <1>46, <1>47, <1>48, <1>49 DEF Next, Executor, Cycle,
     Planner, Reconfigure, Time

\* What type correctness rests on is inductive together with it.
LEMMA TypeInvariant == Spec => [](TypeOK /\ CapturedPlans /\ ResultChosen)
<1>1. Init => TypeOK /\ CapturedPlans /\ ResultChosen
  BY TypeInit DEF Init, CapturedPlans, ResultChosen
<1>2. (TypeOK /\ CapturedPlans /\ ResultChosen) /\ [Next]_vars
        => (TypeOK /\ CapturedPlans /\ ResultChosen)'
  BY TypeStep, CapturedStep, ResultStep
<1> QED
  BY <1>1, <1>2, PTL DEF Spec

(***************************************************************************)
(* Whatever the interleaving of executor, planner and callbacks, every     *)
(* variable keeps its type: in particular latest_plan_ always points to    *)
(* one of the three vectors, and every result reported is one.             *)
(***************************************************************************)
THEOREM TypeCorrect == Spec => []TypeOK
BY TypeInvariant, PTL

-----------------------------------------------------------------------------
(* The triple buffer.                                                        *)

\* The three pointers move in two steps only, each under planner_mutex_.
LEMMA PointersMove ==
  ASSUME [Next]_vars
  PROVE  PlanPublish \/ ExecSwap \/ UNCHANGED <<plannerPlan, latestPlan, controllerPlan>>
<1>1. CASE Planner
  BY <1>1 DEF Planner, PlanWoken, PlanOrSuspend, PlanNextRound, PlanFound,
         PlanNotFound, PlanPublish, PlanRetry, PlanExit
<1>2. CASE Cycle
  BY <1>2 DEF Cycle, ExecCycle, ExecNewPlan, ExecSwap, ExecSetPlan,
         ExecSwitch, ExecEnablePlanner, NotifyPlanner, ExecControl,
         ExecCommand, ExecNoCommand, ExecClear, ExecRecovered, ExecGiveUp,
         ExecGiveUpReset, ResetState,
         DisablePlanner, ResetStateMachine
<1>3. CASE Executor /\ ~Cycle
  BY <1>3 DEF Executor, ExecStart, ExecRejectGoal, ExecValidate, ExecArm,
         NotifyPlanner, ExecResetTimers, ExecHead, ExecPreempted, ExecAccept,
         ExecTakeOver, ExecFrame, ExecKilled, ExecReset, ResetState,
         DisablePlanner, ResetStateMachine,
         ExecReport
<1>4. CASE Reconfigure
  BY <1>4 DEF Reconfigure, ReconfigureLock, ReconfigureGlobal, ResetState,
         DisablePlanner, ResetStateMachine,
         ReconfigureInitialized, ReconfigureLocal, ReconfigureReset
<1>5. CASE Time \/ WakePlanner \/ NodeStops \/ Services \/ Quiescent
  BY <1>5 DEF Time, PlanPatienceRunsOut, ControlPatienceRunsOut,
         OscillationTimeoutRunsOut, WakePlanner, NotifyPlanner, NodeStops,
         Quiescent, Services,
         RecvPlanRequest, PlanRequestServed, RecvClearCostmaps, CostmapsCleared
<1>6. CASE \/ \E g \in Goals : RecvGoal(g) \/ RecvCancel(g)
           \/ \E kinds \in SUBSET {"global", "local"} : RecvReconfigure(kinds)
           \/ UNCHANGED vars
  BY <1>6 DEF RecvGoal, RecvCancel, RecvReconfigure
<1> QED
  BY MoveBaseAssumption, <1>1, <1>2, <1>3, <1>4, <1>5, <1>6 DEF Next

LEMMA DistinctStep ==
  ASSUME CapturedPlans, PlanBuffersDistinct, [Next]_vars
  PROVE  PlanBuffersDistinct'
<1> USE DEF PlanBuffersDistinct, CapturedPlans
<1>1. CASE PlanPublish
  BY <1>1 DEF PlanPublish
<1>2. CASE ExecSwap
  BY <1>2 DEF ExecSwap
<1>3. CASE UNCHANGED <<plannerPlan, latestPlan, controllerPlan>>
  BY <1>3
<1> QED
  BY <1>1, <1>2, <1>3, PointersMove

(***************************************************************************)
(* planner_plan_, latest_plan_ and controller_plan_ never point to the     *)
(* same vector, although each thread notes its temp_plan before it takes   *)
(* planner_mutex_ (move_base.cpp:597-604, 843-848).                        *)
(***************************************************************************)
THEOREM BuffersDistinct == Spec => []PlanBuffersDistinct
<1>1. Init => PlanBuffersDistinct
  BY DEF Init, PlanBuffersDistinct
<1>2. CapturedPlans /\ PlanBuffersDistinct /\ [Next]_vars => PlanBuffersDistinct'
  BY DistinctStep
<1> QED
  BY <1>1, <1>2, TypeInvariant, PTL DEF Spec

-----------------------------------------------------------------------------
(* The recoveries.                                                           *)

\* recovery_index_ grows only where ExecClear found a behavior at it.
LEMMA RecoveryStep ==
  ASSUME TypeOK, RecoveryExists, [Next]_vars
  PROVE  RecoveryExists'
<1> USE MoveBaseAssumption DEF TypeOK, RecoveryExists
<1>1. CASE Planner
  BY <1>1 DEF Planner, PlanWoken, PlanOrSuspend, PlanNextRound, PlanFound,
         PlanNotFound, PlanPublish, PlanRetry, PlanExit
<1>2. CASE Cycle
  BY <1>2 DEF Cycle, ExecCycle, ExecNewPlan, ExecSwap, ExecSetPlan,
         ExecSwitch, ExecEnablePlanner, NotifyPlanner, ExecControl,
         ExecCommand, ExecNoCommand, ExecClear, ExecRecovered, ExecGiveUp,
         ExecGiveUpReset, ResetState,
         DisablePlanner, ResetStateMachine
<1>3. CASE Executor /\ ~Cycle
  BY <1>3 DEF Executor, ExecStart, ExecRejectGoal, ExecValidate, ExecArm,
         NotifyPlanner, ExecResetTimers, ExecHead, ExecPreempted, ExecAccept,
         ExecTakeOver, ExecFrame, ExecKilled, ExecReset, ResetState,
         DisablePlanner, ResetStateMachine,
         ExecReport
<1>4. CASE Reconfigure
  BY <1>4 DEF Reconfigure, ReconfigureLock, ReconfigureGlobal, ResetState,
         DisablePlanner, ResetStateMachine,
         ReconfigureInitialized, ReconfigureLocal, ReconfigureReset
<1>5. CASE Time \/ WakePlanner \/ NodeStops \/ Services \/ Quiescent
  BY <1>5 DEF Time, PlanPatienceRunsOut, ControlPatienceRunsOut,
         OscillationTimeoutRunsOut, WakePlanner, NotifyPlanner, NodeStops,
         Quiescent, Services,
         RecvPlanRequest, PlanRequestServed, RecvClearCostmaps, CostmapsCleared
<1>6. CASE \/ \E g \in Goals : RecvGoal(g) \/ RecvCancel(g)
           \/ \E kinds \in SUBSET {"global", "local"} : RecvReconfigure(kinds)
           \/ UNCHANGED vars
  BY <1>6 DEF RecvGoal, RecvCancel, RecvReconfigure
<1> QED
  BY MoveBaseAssumption, <1>1, <1>2, <1>3, <1>4, <1>5, <1>6 DEF Next

(***************************************************************************)
(* recovery_behaviors_ is never indexed past its end (954-977), whoever    *)
(* resets recovery_index_ meanwhile.                                       *)
(***************************************************************************)
THEOREM RecoveriesExist == Spec => []RecoveryExists
<1>1. Init => RecoveryExists
  BY MoveBaseAssumption DEF Init, RecoveryExists
<1>2. TypeOK /\ RecoveryExists /\ [Next]_vars => RecoveryExists'
  BY RecoveryStep
<1> QED
  BY <1>1, <1>2, TypeCorrect, PTL DEF Spec

-----------------------------------------------------------------------------
(***************************************************************************)
(* The goals: their results, the state the node is in between them, and    *)
(* the promise of NavService.tla.                                          *)
(***************************************************************************)

-----------------------------------------------------------------------------
(* The calls of the action server.                                           *)

LEMMA ServerGoals ==
  ASSUME ASTypeOK, OneGoalEach,
         \/ \E g \in Goals : GoalCallback(g) \/ PreemptCallback(g)
         \/ newGoal /\ AcceptNewGoal
         \/ \E r \in Finished : SetResult(r)
         \/ UNCHANGED asVars
  PROVE  OneGoalEach'
<1> USE DEF ASTypeOK, OneGoalEach, Waiting, Running, Finished, NoGoal, Goals, IsActive
<1>1. ASSUME NEW g \in Goals, GoalCallback(g)
      PROVE  OneGoalEach'
  <2>1. CASE g < currentGoal \/ g < nextGoal
    <3>1. /\ status' = [status EXCEPT ![g] = "recalled"] /\ status[g] = "unsent"
          /\ UNCHANGED <<currentGoal, nextGoal, newGoal>>
      BY <1>1, <2>1 DEF GoalCallback
    <3>2. \A h \in Goals : status'[h] = IF h = g THEN "recalled" ELSE status[h]
      BY <3>1
    <3> QED
      BY <3>1, <3>2
  <2>2. CASE g >= currentGoal /\ g >= nextGoal
    <3>1. /\ nextGoal' = g /\ newGoal' = TRUE /\ currentGoal' = currentGoal
          /\ status[g] = "unsent"
          /\ status' = [h \in Goals |->
                IF h = g THEN "pending"
                ELSE IF h = nextGoal /\ h # currentGoal THEN Canceled(status[h])
                ELSE status[h]]
      BY <1>1, <2>2 DEF GoalCallback
    <3>2. g # currentGoal
      BY <1>1, <3>1 
    <3> QED
      BY <3>1, <3>2 DEF Canceled
  <2> QED
    BY <1>1, <2>1, <2>2 DEF GoalCallback
<1>2. ASSUME NEW g \in Goals, PreemptCallback(g)
      PROVE  OneGoalEach'
  BY <1>2 DEF PreemptCallback
<1>3. CASE newGoal /\ AcceptNewGoal
  BY <1>3 DEF AcceptNewGoal, Canceled
<1>4. CASE \E r \in Finished : SetResult(r)
  BY <1>4 DEF SetResult
<1>5. CASE UNCHANGED asVars
  BY <1>5
<1> QED
  BY <1>1, <1>2, <1>3, <1>4, <1>5

\* What the calls do to whether, and which, goal is active.
LEMMA ServerActive ==
  ASSUME ASTypeOK, OneGoalEach
  PROVE  /\ (\E g \in Goals : GoalCallback(g) \/ PreemptCallback(g))
              => (IsActive' <=> IsActive) /\ UNCHANGED currentGoal /\ (newGoal => newGoal')
         /\ newGoal /\ AcceptNewGoal => IsActive'
         /\ (\E r \in Finished : SetResult(r))
              => ~IsActive' /\ UNCHANGED <<currentGoal, newGoal>>
<1> USE DEF ASTypeOK, OneGoalEach, GoalStatus, Waiting, Running, Finished, NoGoal,
            Goals, IsActive
<1>1. ASSUME NEW g \in Goals, GoalCallback(g)
      PROVE  (IsActive' <=> IsActive) /\ UNCHANGED currentGoal /\ (newGoal => newGoal')
  BY <1>1 DEF GoalCallback, Canceled
<1>2. ASSUME NEW g \in Goals, PreemptCallback(g)
      PROVE  (IsActive' <=> IsActive) /\ UNCHANGED currentGoal /\ (newGoal => newGoal')
  BY <1>2 DEF PreemptCallback
<1>3. ASSUME newGoal, AcceptNewGoal
      PROVE  IsActive'
  BY <1>3 DEF AcceptNewGoal
<1>4. ASSUME NEW r \in Finished, SetResult(r)
      PROVE  ~IsActive' /\ UNCHANGED <<currentGoal, newGoal>>
  BY <1>4 DEF SetResult
<1> QED
  BY <1>1, <1>2, <1>3, <1>4

\* A step makes at most one call of the server, and accepts a goal only when one
\* is available.
LEMMA ServerStep ==
  ASSUME AcceptsAGoal, ResultChosen, [Next]_vars
  PROVE  \/ \E g \in Goals : GoalCallback(g) \/ PreemptCallback(g)
         \/ newGoal /\ AcceptNewGoal
         \/ \E r \in Finished : SetResult(r)
         \/ UNCHANGED asVars
<1> USE DEF AcceptsAGoal, ResultChosen, Finished
<1>1. CASE Planner
  BY <1>1 DEF Planner, PlanWoken, PlanOrSuspend, PlanNextRound, PlanFound,
         PlanNotFound, PlanPublish, PlanRetry, PlanExit
<1>2. CASE Cycle
  BY <1>2 DEF Cycle, ExecCycle, ExecNewPlan, ExecSwap, ExecSetPlan,
         ExecSwitch, ExecEnablePlanner, NotifyPlanner, ExecControl,
         ExecCommand, ExecNoCommand, ExecClear, ExecRecovered, ExecGiveUp,
         ExecGiveUpReset, ResetState,
         DisablePlanner, ResetStateMachine
<1>3. CASE Executor /\ ~Cycle
  BY <1>3 DEF Executor, ExecStart, ExecRejectGoal, ExecValidate, ExecArm,
         NotifyPlanner, ExecResetTimers, ExecHead, ExecPreempted, ExecAccept,
         ExecTakeOver, ExecFrame, ExecKilled, ExecReset, ResetState,
         DisablePlanner, ResetStateMachine,
         ExecReport
<1>4. CASE Reconfigure
  BY <1>4 DEF Reconfigure, ReconfigureLock, ReconfigureGlobal, ResetState,
         DisablePlanner, ResetStateMachine,
         ReconfigureInitialized, ReconfigureLocal, ReconfigureReset
<1>5. CASE Time \/ WakePlanner \/ NodeStops \/ Services \/ Quiescent
  BY <1>5 DEF Time, PlanPatienceRunsOut, ControlPatienceRunsOut,
         OscillationTimeoutRunsOut, WakePlanner, NotifyPlanner, NodeStops,
         Quiescent, Services,
         RecvPlanRequest, PlanRequestServed, RecvClearCostmaps, CostmapsCleared
<1>6. CASE \/ \E g \in Goals : RecvGoal(g) \/ RecvCancel(g)
           \/ \E kinds \in SUBSET {"global", "local"} : RecvReconfigure(kinds)
           \/ UNCHANGED vars
  BY <1>6 DEF RecvGoal, RecvCancel, RecvReconfigure
<1> QED
  BY MoveBaseAssumption, <1>1, <1>2, <1>3, <1>4, <1>5, <1>6 DEF Next

-----------------------------------------------------------------------------
(* One result for every goal.                                                *)

GoalsInv == OneGoalEach /\ AcceptsAGoal /\ ActiveWhileExecuting

\* Only the executor moves pcE and goal, and only these steps call the server.
LEMMA QuietStep ==
  ASSUME [Next]_vars
  PROVE  \/ \E g \in Goals : RecvGoal(g) \/ RecvCancel(g)
         \/ Executor
         \/ UNCHANGED <<asVars, pcE, goal>>
<1>1. CASE Planner
  BY <1>1 DEF Planner, PlanWoken, PlanOrSuspend, PlanNextRound, PlanFound,
         PlanNotFound, PlanPublish, PlanRetry, PlanExit
<1>2. CASE Reconfigure
  BY <1>2 DEF Reconfigure, ReconfigureLock, ReconfigureGlobal, ResetState,
         DisablePlanner, ResetStateMachine,
         ReconfigureInitialized, ReconfigureLocal, ReconfigureReset
<1>3. CASE Time \/ WakePlanner \/ NodeStops \/ Services \/ Quiescent \/ UNCHANGED vars
  BY <1>3 DEF Time, PlanPatienceRunsOut, ControlPatienceRunsOut,
         OscillationTimeoutRunsOut, WakePlanner, NodeStops, Quiescent, Services,
         RecvPlanRequest, PlanRequestServed, RecvClearCostmaps, CostmapsCleared
<1>4. CASE \E kinds \in SUBSET {"global", "local"} : RecvReconfigure(kinds)
  BY <1>4 DEF RecvReconfigure
<1> QED
  BY MoveBaseAssumption, <1>1, <1>2, <1>3, <1>4 DEF Next

LEMMA GoalsStep ==
  ASSUME TypeOK, ResultChosen, GoalsInv, [Next]_vars
  PROVE  GoalsInv'
<1> USE DEF GoalsInv
<1>1. OneGoalEach'
  BY ServerStep, ServerGoals DEF TypeOK
<1>2. ASTypeOK
  BY DEF TypeOK
<1>3. ASSUME UNCHANGED asVars
      PROVE  (IsActive' <=> IsActive) /\ UNCHANGED <<currentGoal, newGoal>>
  BY <1>3 DEF IsActive
<1> USE DEF AcceptsAGoal, ActiveWhileExecuting
<1>4. CASE \E g \in Goals : RecvGoal(g) \/ RecvCancel(g)
  <2>1. /\ \E g \in Goals : GoalCallback(g) \/ PreemptCallback(g)
        /\ UNCHANGED <<pcE, goal>>
    BY <1>4 DEF RecvGoal, RecvCancel
  <2> QED
    BY <1>1, <1>2, <2>1, ServerActive
<1>5. CASE ExecStart \/ ExecAccept
  <2>1. /\ newGoal /\ AcceptNewGoal
        /\ pcE' \in {"validate", "acceptValidate"}
    BY <1>5 DEF ExecStart, ExecAccept
  <2> QED
    BY <1>1, <1>2, <2>1, ServerActive
<1>6. CASE ExecRejectGoal \/ ExecReport \/ ExecKilled \/ ExecGiveUp
  <2>1. /\ \E r \in Finished : SetResult(r)
        /\ pcE' \in {"idle", "giveUpReset"}
    BY <1>6 DEF ExecRejectGoal, ExecReport, ExecKilled, ExecGiveUp, ResultChosen, Finished
  <2> QED
    BY <1>1, <1>2, <2>1, ServerActive
<1>7. CASE ExecValidate \/ ExecTakeOver
  <2>1. /\ currentGoal \in Goals \cup {NoGoal} /\ goal' \in Transformed(currentGoal)
        /\ UNCHANGED asVars
        /\ pcE \in {"validate", "acceptValidate"} /\ pcE' \in {"arm", "acceptArm"}
    BY <1>2, <1>7 DEF ExecValidate, ExecTakeOver, ASTypeOK
  <2>2. goal'.id = currentGoal
    BY <2>1, Transforms
  <2> QED
    BY <1>1, <1>3, <2>1, <2>2
<1>8. CASE ExecFrame
  <2>1. /\ goal.id \in Goals \cup {NoGoal}
        /\ goal' = goal \/ goal' \in Transformed(goal.id)
        /\ UNCHANGED asVars
        /\ pcE = "frame" /\ pcE' \in {"cycle", "frameArm"}
    BY <1>8 DEF ExecFrame, TypeOK, Poses
  <2>2. goal'.id = goal.id
    BY <2>1, Transforms
  <2> QED
    BY <1>1, <1>3, <2>1, <2>2
<1>9. CASE ExecArm \/ ExecResetTimers \/ ExecHead \/ ExecPreempted \/ ExecReset
  <2>1. UNCHANGED <<asVars, goal>>
    BY <1>9 DEF ExecArm, ExecResetTimers, ExecHead, ExecPreempted, ExecReset
  <2> QED
    BY <1>1, <1>3, <1>9, <2>1 DEF ExecArm, ExecResetTimers, ExecHead, ExecPreempted, ExecReset
<1>10. CASE Cycle /\ ~ExecGiveUp
  BY <1>1, <1>3, <1>10 DEF Cycle, ExecCycle, ExecNewPlan, ExecSwap,
         ExecSetPlan, ExecSwitch, ExecEnablePlanner, NotifyPlanner,
         ExecControl, ExecCommand, ExecNoCommand, ExecClear, ExecRecovered,
         ExecGiveUpReset, ResetState,
         DisablePlanner, ResetStateMachine
<1>11. CASE UNCHANGED <<asVars, pcE, goal>>
  BY <1>1, <1>3, <1>11
<1> QED
  BY <1>4, <1>5, <1>6, <1>7, <1>8, <1>9, <1>10, <1>11, QuietStep DEF Executor

LEMMA GoalsInvariant == Spec => []GoalsInv
<1>1. Init => GoalsInv
  BY DEF Init, ASInit, GoalsInv, OneGoalEach, AcceptsAGoal, ActiveWhileExecuting,
         IsActive, Waiting, Running, NoGoal, Goals
<1>2. TypeOK /\ ResultChosen /\ GoalsInv /\ [Next]_vars => GoalsInv'
  BY GoalsStep
<1> QED
  BY <1>1, <1>2, TypeInvariant, PTL DEF Spec

(***************************************************************************)
(* A goal is active exactly while executeCb works on it, and it is the one *)
(* results are reported for, however goals and cancels arrive: executeCb   *)
(* leaves no goal without its result and reports none twice.               *)
(***************************************************************************)
THEOREM GoalsGetTheirResult == Spec => []ActiveWhileExecuting
BY GoalsInvariant, PTL DEF GoalsInv

-----------------------------------------------------------------------------
(* At rest between goals.                                                    *)

RestInv == AtRestBetweenGoals /\ AtRestWhenReporting

LEMMA ResetRests == ResetState => AtRest'
BY Zenon DEF ResetState, DisablePlanner, ResetStateMachine, AtRest

\* A step that leaves the executor where it is only has to keep AtRest.
LEMMA RestKept ==
  ASSUME RestInv, UNCHANGED <<pcE, currentGoal>>, nodeOk' => nodeOk, AtRest => AtRest'
  PROVE  RestInv'
BY DEF RestInv, AtRestBetweenGoals, AtRestWhenReporting

LEMMA RestStep ==
  ASSUME RestInv, [Next]_vars
  PROVE  RestInv'
<1>1. CASE ExecReset \/ ExecGiveUpReset \/ ReconfigureGlobal
  <2>1. ResetState
    BY <1>1 DEF ExecReset, ExecGiveUpReset, ReconfigureGlobal
  <2> QED
    BY <2>1, ResetRests DEF RestInv, AtRestBetweenGoals, AtRestWhenReporting
<1>2. CASE ExecReport
  <2>1. AtRest /\ UNCHANGED <<navVars, askVars>> /\ pcE' = "idle"
    BY <1>2 DEF ExecReport, RestInv, AtRestWhenReporting
  <2>2. AtRest'
    BY <2>1 DEF AtRest
  <2> QED
    BY <2>1, <2>2 DEF RestInv, AtRestBetweenGoals, AtRestWhenReporting
<1>3. CASE ExecRejectGoal
  <2>1. currentGoal' \in InvalidGoals /\ pcE' = "idle"
    BY <1>3 DEF ExecRejectGoal, SetResult
  <2> QED
    BY <2>1 DEF RestInv, AtRestBetweenGoals, AtRestWhenReporting
<1>4. CASE ExecKilled
  <2>1. ~nodeOk' /\ pcE' = "idle"
    BY <1>4 DEF ExecKilled
  <2> QED
    BY <2>1 DEF RestInv, AtRestBetweenGoals, AtRestWhenReporting
<1>5. CASE Executor /\ ~(ExecReset \/ ExecGiveUpReset \/ ExecReport \/ ExecRejectGoal
                         \/ ExecKilled)
  <2>1. pcE' \notin {"idle", "report"}
    BY <1>5 DEF Executor, Cycle, ExecStart, ExecValidate, ExecArm,
           NotifyPlanner, ExecResetTimers, ExecHead, ExecPreempted,
           ExecAccept, ExecTakeOver, ExecFrame, ExecCycle, ExecNewPlan,
           ExecSwap, ExecSetPlan, ExecSwitch, ExecEnablePlanner, ExecControl,
           ExecCommand, ExecNoCommand, ExecClear, ExecRecovered, ExecGiveUp
  <2> QED
    BY <2>1 DEF RestInv, AtRestBetweenGoals, AtRestWhenReporting
<1>6. CASE PlanPublish \/ PlanRetry
  <2>1. UNCHANGED <<pcE, currentGoal, nodeOk>>
    BY <1>6 DEF PlanPublish, PlanRetry
  <2>2. AtRest => AtRest'
    BY <1>6 DEF PlanPublish, PlanRetry, AtRest
  <2> QED
    BY <2>1, <2>2, RestKept
<1>6a. CASE ReconfigureLocal \/ ReconfigureReset
  <2>1. UNCHANGED <<pcE, currentGoal, nodeOk>>
    BY <1>6a DEF ReconfigureLocal, ReconfigureReset
  <2>2. AtRest => AtRest'
    BY <1>6a DEF ReconfigureLocal, ReconfigureReset, DisablePlanner,
           ResetStateMachine, AtRest
  <2> QED
    BY <2>1, <2>2, RestKept
<1>7. ASSUME UNCHANGED <<pcE, currentGoal, navVars, askVars>>, nodeOk' => nodeOk
      PROVE  RestInv'
  <2>1. AtRest => AtRest'
    BY <1>7 DEF AtRest
  <2> QED
    BY <1>7, <2>1, RestKept
<1>8. CASE NodeStops
  BY <1>7, <1>8 DEF NodeStops
<1>9. CASE Planner /\ ~(PlanPublish \/ PlanRetry)
  BY <1>7, <1>9 DEF Planner, PlanWoken, PlanOrSuspend, PlanNextRound,
         PlanFound, PlanNotFound, PlanExit
<1>10. CASE \/ ReconfigureLock \/ ReconfigureInitialized \/ Time \/ WakePlanner
            \/ Services \/ Quiescent \/ UNCHANGED vars
  <2>1. UNCHANGED <<pcE, currentGoal, navVars, askVars, nodeOk>>
    BY <1>10 DEF ReconfigureLock, ReconfigureInitialized, Time,
           PlanPatienceRunsOut, ControlPatienceRunsOut,
           OscillationTimeoutRunsOut, WakePlanner, Quiescent, Services,
         RecvPlanRequest, PlanRequestServed, RecvClearCostmaps, CostmapsCleared
  <2> QED
    BY <1>7, <2>1
<1>11. CASE \/ \E g \in Goals : RecvGoal(g) \/ RecvCancel(g)
            \/ \E kinds \in SUBSET {"global", "local"} : RecvReconfigure(kinds)
  BY <1>7, <1>11 DEF RecvGoal, RecvCancel, RecvReconfigure, GoalCallback, PreemptCallback
<1> QED
  BY MoveBaseAssumption, <1>1, <1>2, <1>3, <1>4, <1>5, <1>6, <1>8, <1>9, <1>10, <1>11,
     <1>6a DEF Next, Reconfigure

(***************************************************************************)
(* When executeCb has returned, for another reason than an invalid         *)
(* quaternion or the end of the node, the planner is not to run, the state *)
(* machine is at its start and the base was told to stop - also if the     *)
(* planner or reconfigureCB was at work when it returned.                  *)
(***************************************************************************)
THEOREM RestsBetweenGoals == Spec => []AtRestBetweenGoals
<1>1. Init => RestInv
  <2>1. Init => AtRest
    BY Zenon DEF Init, AtRest
  <2>2. Init => pcE = "idle"
    BY DEF Init
  <2> QED
    BY <2>1, <2>2 DEF RestInv, AtRestBetweenGoals, AtRestWhenReporting
<1>2. RestInv /\ [Next]_vars => RestInv'
  BY RestStep
<1>3. RestInv => AtRestBetweenGoals
  BY DEF RestInv
<1> QED
  BY <1>1, <1>2, <1>3, PTL DEF Spec

-----------------------------------------------------------------------------
(* NavService is implemented.                                                *)

LEMMA Phases ==
  ASSUME NEW s \in GoalStatus
  PROVE  /\ PhaseOf(s) = "new" <=> s = "unsent"
         /\ PhaseOf(s) = "queued" <=> s \in Waiting
         /\ PhaseOf(s) = "pursued" <=> s \in Running
         /\ s \in {"preempted", "recalled"} => PhaseOf(s) = "canceled"
         /\ s \in {"succeeded", "aborted"} => PhaseOf(s) = s
BY DEF GoalStatus, PhaseOf, Waiting, Running, Finished

LEMMA PromiseInit == Init => Promise!Init
<1>1. PhaseOf("unsent") = "new"
  BY Phases DEF GoalStatus
<1> QED
  BY <1>1 DEF Init, ASInit, Promise!Init, Promise!Goals, Goals

Phase == [g \in Goals |-> PhaseOf(status[g])]

\* What each call of the server is to the clients.
LEMMA PromiseStep ==
  ASSUME ASTypeOK, OneGoalEach,
         \/ \E g \in Goals : GoalCallback(g) \/ PreemptCallback(g)
         \/ newGoal /\ AcceptNewGoal
         \/ \E r \in Finished : SetResult(r)
         \/ UNCHANGED asVars
  PROVE  Promise!Next \/ UNCHANGED Phase
<1> USE DEF ASTypeOK
<1>1. ASTypeOK'
  BY ServerType
<1>2. Promise!Goals = Goals
  BY DEF Promise!Goals, Goals
<1>3. /\ \A g \in Goals : status[g] \in GoalStatus
      /\ \A g \in Goals : status'[g] \in GoalStatus
  BY <1>1
<1>4. ASSUME NEW g \in Goals, GoalCallback(g), g < currentGoal \/ g < nextGoal
      PROVE  Promise!Refuse(g)
  <2>1. status[g] = "unsent" /\ status' = [status EXCEPT ![g] = "recalled"]
    BY <1>4 DEF GoalCallback, Goals, NoGoal
  <2>2. PICK h \in Goals : h > g /\ (h = currentGoal \/ h = nextGoal)
    BY <1>4 DEF Goals, NoGoal
  <2>3. Phase[g] = "new" /\ Phase[h] # "new" /\ PhaseOf("recalled") = "canceled"
    BY <2>1, <2>2, <1>3, Phases DEF Phase, OneGoalEach, GoalStatus, Finished
  <2>4. Phase' = [Phase EXCEPT ![g] = "canceled"]
    BY <2>1, <2>3 DEF Phase
  <2> QED
    BY <1>2, <2>2, <2>3, <2>4 DEF Promise!Refuse, Phase
<1>5. ASSUME NEW g \in Goals, GoalCallback(g), g >= currentGoal /\ g >= nextGoal
      PROVE  Promise!Submit(g)
  <2>1. /\ status[g] = "unsent"
        /\ status' = [h \in Goals |->
              IF h = g THEN "pending"
              ELSE IF h = nextGoal /\ h # currentGoal THEN Canceled(status[h])
              ELSE status[h]]
    BY <1>5 DEF GoalCallback, Goals, NoGoal
  <2>2. Phase[g] = "new" /\ PhaseOf(status'[g]) = "queued"
    BY <2>1, Phases, <1>3 DEF Phase, Waiting
  <2>3. ASSUME NEW h \in Goals, h # g
        PROVE  PhaseOf(status'[h]) = IF Phase[h] = "queued" THEN "canceled" ELSE Phase[h]
    <3>1. CASE status[h] \in Waiting
      <4>1. status'[h] = "recalled"
        BY <2>1, <2>3, <3>1 DEF OneGoalEach, Canceled
      <4> QED
        BY <4>1, <3>1, <1>3, Phases DEF Phase
    <3>2. CASE status[h] \notin Waiting
      <4>1. status'[h] = status[h]
        BY <2>1, <2>3, <3>2 DEF OneGoalEach, Canceled
      <4> QED
        BY <4>1, <3>2, <1>3, Phases DEF Phase
    <3> QED
      BY <3>1, <3>2
  <2> QED
    BY <1>2, <2>2, <2>3 DEF Promise!Submit, Phase
<1>6. ASSUME NEW g \in Goals, PreemptCallback(g)
      PROVE  UNCHANGED Phase
  <2>1. /\ status[g] \in {"pending", "active"}
        /\ status' = [status EXCEPT ![g] =
                        IF @ = "pending" THEN "recalling" ELSE "preempting"]
    BY <1>6 DEF PreemptCallback
  <2>2. PhaseOf(status'[g]) = PhaseOf(status[g])
    BY <2>1, <1>3, Phases DEF Waiting, Running
  <2> QED
    BY <2>1, <2>2 DEF Phase
<1>7. ASSUME newGoal, AcceptNewGoal
      PROVE  Promise!TakeUp(nextGoal)
  <2>1. /\ nextGoal \in Goals /\ status[nextGoal] \in Waiting /\ nextGoal # currentGoal
        /\ status' = [h \in Goals |->
              IF h = nextGoal
                THEN (IF status[h] = "recalling" THEN "preempting" ELSE "active")
              ELSE IF h = currentGoal THEN Canceled(status[h])
              ELSE status[h]]
    BY <1>7 DEF AcceptNewGoal, OneGoalEach
  <2>2. Phase[nextGoal] = "queued" /\ PhaseOf(status'[nextGoal]) = "pursued"
    BY <2>1, Phases, <1>3 DEF Phase, Running
  <2>3. ASSUME NEW h \in Goals, h # nextGoal
        PROVE  PhaseOf(status'[h]) = IF Phase[h] = "pursued" THEN "canceled" ELSE Phase[h]
    <3>1. CASE status[h] \in Running
      <4>1. status'[h] = "preempted"
        BY <2>1, <2>3, <3>1 DEF OneGoalEach, Canceled, Waiting, Running
      <4> QED
        BY <4>1, <3>1, <1>3, Phases DEF Phase
    <3>2. CASE status[h] \notin Running
      <4>1. status'[h] = status[h]
        BY <2>1, <2>3, <3>2 DEF OneGoalEach, Canceled
      <4> QED
        BY <4>1, <3>2, <1>3, Phases DEF Phase
    <3> QED
      BY <3>1, <3>2
  <2> QED
    BY <1>2, <2>1, <2>2, <2>3 DEF Promise!TakeUp, Phase
<1>8. ASSUME NEW r \in Finished, SetResult(r), IsActive
      PROVE  Promise!Conclude(currentGoal)
  <2>1. /\ currentGoal \in Goals /\ status[currentGoal] \in Running
        /\ status' = [status EXCEPT ![currentGoal] = r]
    BY <1>8 DEF SetResult, IsActive
  <2>2. PICK p \in {"succeeded", "aborted", "canceled"} : PhaseOf(r) = p
    BY <1>8, Phases DEF Finished, GoalStatus
  <2>3. Phase[currentGoal] = "pursued"
    BY <2>1, <1>3, Phases DEF Phase
  <2>4. Phase' = [Phase EXCEPT ![currentGoal] = p]
    BY <2>1, <2>2 DEF Phase
  <2> QED
    BY <1>2, <2>1, <2>2, <2>3, <2>4 DEF Promise!Conclude, Phase
<1>9. ASSUME NEW r \in Finished, SetResult(r), ~IsActive
      PROVE  UNCHANGED Phase
  BY <1>9 DEF SetResult, Phase
<1>10. CASE UNCHANGED asVars
  BY <1>10 DEF Phase
<1> QED
  BY <1>2, <1>4, <1>5, <1>6, <1>7, <1>8, <1>9, <1>10 DEF Promise!Next, OneGoalEach, GoalCallback, IsActive

(***************************************************************************)
(* The node with its three threads implements the promise made to its      *)
(* clients: one goal is pursued at a time, one waits, each gets at most    *)
(* one result and only a pursued goal succeeds or is aborted.              *)
(***************************************************************************)
THEOREM Implements == Spec => ImplementsNavService
<1>1. Init => Promise!Init
  BY PromiseInit
<1>2. TypeOK /\ ResultChosen /\ GoalsInv /\ [Next]_vars => Promise!Next \/ UNCHANGED Phase
  BY ServerStep, PromiseStep DEF TypeOK, GoalsInv
<1>3. Promise!Next \/ UNCHANGED Phase => [Promise!Next]_(Phase)
  OBVIOUS
<1> QED
  BY <1>1, <1>2, <1>3, TypeInvariant, GoalsInvariant, PTL
     DEF Spec, ImplementsNavService, Promise!Spec, Phase

-----------------------------------------------------------------------------
(***************************************************************************)
(* The recovery behaviors: a goal is given up only after all of them.      *)
(***************************************************************************)

(* The strengthening.                                                        *)

\* configuration_mutex_ has one holder.
OneHolder == ~(CycleHoldsConfig /\ ReconfigureHoldsConfig)

\* A goal that is to be accepted is newer than the one it follows.
GoalsAscend == newGoal => nextGoal > currentGoal

\* At these points the recoveries run so far are not those of the current goal,
\* or the goal has its result.
BeforeOrAfterGoal == {"idle", "validate", "acceptValidate"}

\* The behaviors below recovery_index_ have been run for the goal.
RunBelowIndex ==
  (NoGoalWasRefused /\ pcE \notin BeforeOrAfterGoal)
      => \A i \in 0..(recoveryIndex - 1) : i \in recoveriesRun

RecoveriesInv ==
  /\ RunBelowIndex
  /\ recoveriesRun \subseteq 0..(NumRecoveries - 1)
  /\ NoGoalWasRefused /\ pcE = "validate" => recoveryIndex = 0
  /\ pcE = "giveUp" /\ RecoveryEnabled => recoveryIndex >= NumRecoveries

-----------------------------------------------------------------------------

LEMMA OneHolderStep ==
  ASSUME OneHolder, [Next]_vars
  PROVE  OneHolder'
<1> USE DEF OneHolder, CycleHoldsConfig, ReconfigureHoldsConfig
<1>1. CASE Planner
  BY <1>1 DEF Planner, PlanWoken, PlanOrSuspend, PlanNextRound, PlanFound,
         PlanNotFound, PlanPublish, PlanRetry, PlanExit
<1>2. CASE Cycle
  BY <1>2 DEF Cycle, ExecCycle, ExecNewPlan, ExecSwap, ExecSetPlan,
         ExecSwitch, ExecEnablePlanner, ExecControl, ExecCommand,
         ExecNoCommand, ExecClear, ExecRecovered, ExecGiveUp, ExecGiveUpReset
<1>3. CASE Executor /\ ~Cycle
  BY <1>3 DEF Executor, ExecStart, ExecRejectGoal, ExecValidate, ExecArm,
         ExecResetTimers, ExecHead, ExecPreempted, ExecAccept, ExecTakeOver,
         ExecFrame, ExecKilled, ExecReset, ExecReport
<1>4. CASE Reconfigure
  BY <1>4 DEF Reconfigure, ReconfigureLock, ReconfigureGlobal,
         ReconfigureInitialized, ReconfigureLocal, ReconfigureReset
<1>5. CASE Time \/ WakePlanner \/ NodeStops \/ Services \/ Quiescent
  BY <1>5 DEF Time, PlanPatienceRunsOut, ControlPatienceRunsOut,
         OscillationTimeoutRunsOut, WakePlanner, NodeStops, Quiescent, Services,
         RecvPlanRequest, PlanRequestServed, RecvClearCostmaps, CostmapsCleared
<1>6. CASE \/ \E g \in Goals : RecvGoal(g) \/ RecvCancel(g)
           \/ \E kinds \in SUBSET {"global", "local"} : RecvReconfigure(kinds)
           \/ UNCHANGED vars
  BY <1>6 DEF RecvGoal, RecvCancel, RecvReconfigure
<1> QED
  BY MoveBaseAssumption, <1>1, <1>2, <1>3, <1>4, <1>5, <1>6 DEF Next

LEMMA AscendStep ==
  ASSUME TypeOK, ResultChosen, GoalsInv, GoalsAscend, [Next]_vars
  PROVE  GoalsAscend'
<1> USE DEF GoalsAscend
<1>0. /\ currentGoal \in Nat /\ nextGoal \in Nat /\ Goals \subseteq Nat
      /\ currentGoal = 0 \/ status[currentGoal] # "unsent"
  BY DEF TypeOK, ASTypeOK, Goals, NoGoal, GoalsInv, OneGoalEach
<1>1. ASSUME NEW g \in Goals, GoalCallback(g)
      PROVE  GoalsAscend'
  <2>1. status[g] = "unsent" /\ UNCHANGED currentGoal /\ g # 0
    BY <1>1 DEF GoalCallback, Goals
  <2>2. g \in Nat /\ g # currentGoal
    BY <1>0, <2>1
  <2>3. CASE UNCHANGED <<nextGoal, newGoal>>
    BY <2>1, <2>3
  <2>4. CASE nextGoal' = g /\ g >= currentGoal
    BY <1>0, <2>1, <2>2, <2>4
  <2> QED
    BY <1>1, <2>3, <2>4 DEF GoalCallback
<1>2. ASSUME NEW g \in Goals, PreemptCallback(g)
      PROVE  GoalsAscend'
  BY <1>2 DEF PreemptCallback
<1>3. CASE newGoal /\ AcceptNewGoal
  BY <1>3 DEF AcceptNewGoal
<1>4. CASE \E r \in Finished : SetResult(r)
  BY <1>4 DEF SetResult
<1> QED
  BY <1>1, <1>2, <1>3, <1>4, ServerStep DEF GoalsInv

LEMMA NewestIsCurrent ==
  ASSUME TypeOK, GoalsAscend, newGoal, AcceptNewGoal, NoGoalWasRefused'
  PROVE  NoGoalWasRefused /\ currentGoal \notin InvalidGoals
BY MoveBaseAssumption
   DEF TypeOK, ASTypeOK, Goals, NoGoal, GoalsAscend, AcceptNewGoal, NoGoalWasRefused

\* A step that leaves the recoveries and the executor where they are.
LEMMA RecoveriesKept ==
  ASSUME RecoveriesInv, UNCHANGED <<pcE, currentGoal, recoveriesRun, recoveryIndex>>
  PROVE  RecoveriesInv'
BY DEF RecoveriesInv, RunBelowIndex, NoGoalWasRefused

\* A step that takes recovery_index_ back to 0 away from the end of the list.
LEMMA RecoveriesAfresh ==
  ASSUME RecoveriesInv, recoveryIndex' = 0, recoveriesRun' \in {recoveriesRun, {}},
         pcE' # "giveUp"
  PROVE  RecoveriesInv'
BY DEF RecoveriesInv, RunBelowIndex

\* A step of the executor within a goal.
LEMMA RecoveriesWithin ==
  ASSUME RecoveriesInv, pcE \notin BeforeOrAfterGoal, pcE' \notin {"validate", "giveUp"},
         UNCHANGED <<currentGoal, recoveriesRun, recoveryIndex>>
  PROVE  RecoveriesInv'
BY DEF RecoveriesInv, RunBelowIndex, NoGoalWasRefused

LEMMA RecoveriesStep ==
  ASSUME TypeOK, ResultChosen, GoalsInv, GoalsAscend, AtRestBetweenGoals,
         RecoveryExists, OneHolder, RecoveriesInv, [Next]_vars
  PROVE  RecoveriesInv'
<1>1. CASE ExecStart
  <2>1. newGoal /\ AcceptNewGoal /\ pcE' = "validate" /\ pcE = "idle" /\ nodeOk
        /\ UNCHANGED <<recoveriesRun, recoveryIndex>>
    BY <1>1 DEF ExecStart
  <2>2. NoGoalWasRefused' => recoveryIndex = 0
    BY <2>1, NewestIsCurrent DEF AtRestBetweenGoals, AtRest
  <2> QED
    BY <2>1, <2>2 DEF RecoveriesInv, RunBelowIndex, BeforeOrAfterGoal
<1>2. CASE ExecAccept \/ ExecKilled \/ ExecReport \/ ExecRejectGoal
  <2>1. /\ pcE' \in {"idle", "acceptValidate"}
        /\ recoveriesRun' \in {recoveriesRun, {}}
    BY <1>2 DEF ExecAccept, ExecKilled, ExecReport, ExecRejectGoal
  <2> QED
    BY <2>1 DEF RecoveriesInv, RunBelowIndex, BeforeOrAfterGoal
<1>3. CASE ExecValidate
  <2>1. /\ pcE = "validate" /\ pcE' = "arm" /\ recoveriesRun' = {}
        /\ UNCHANGED <<currentGoal, recoveryIndex>>
    BY <1>3 DEF ExecValidate
  <2> QED
    BY <2>1 DEF RecoveriesInv, RunBelowIndex, NoGoalWasRefused
<1>4. CASE ExecTakeOver
  BY <1>4, RecoveriesAfresh DEF ExecTakeOver
<1>5. CASE ExecArm \/ ExecResetTimers \/ ExecHead \/ ExecPreempted
  BY <1>5, RecoveriesWithin DEF ExecArm, ExecResetTimers, ExecHead, ExecPreempted,
         BeforeOrAfterGoal
<1>6. CASE ExecFrame \/ ExecCycle \/ ExecSetPlan \/ ExecCommand
  <2>1. /\ pcE \notin BeforeOrAfterGoal /\ pcE' \notin {"validate", "giveUp"}
        /\ UNCHANGED <<currentGoal, recoveriesRun>>
        /\ recoveryIndex' \in {recoveryIndex, 0}
    BY <1>6 DEF ExecFrame, ExecCycle, ExecSetPlan, ExecCommand, BeforeOrAfterGoal
  <2> QED
    BY <2>1, RecoveriesAfresh, RecoveriesWithin
<1>7. CASE ExecNewPlan \/ ExecSwap \/ ExecSwitch \/ ExecEnablePlanner \/ ExecControl
           \/ ExecNoCommand
  BY <1>7, RecoveriesWithin DEF ExecNewPlan, ExecSwap, ExecSwitch,
         ExecEnablePlanner, ExecControl, ExecNoCommand, BeforeOrAfterGoal
<1>8. CASE ExecClear
  <2>1. /\ pcE = "clear" /\ UNCHANGED <<currentGoal, recoveriesRun, recoveryIndex>>
        /\ \/ pcE' = "recover"
           \/ pcE' = "giveUp" /\ ~(RecoveryEnabled /\ recoveryIndex < NumRecoveries)
    BY <1>8 DEF ExecClear
  <2>2. recoveryIndex \in Nat /\ NumRecoveries \in Nat
    BY MoveBaseAssumption DEF TypeOK
  <2> QED
    BY <2>1, <2>2 DEF RecoveriesInv, RunBelowIndex, BeforeOrAfterGoal, NoGoalWasRefused
<1>9. CASE ExecRecovered
  <2>1. /\ pcE = "recover" /\ pcE' = "head" /\ UNCHANGED currentGoal
        /\ recoveryIndex' = recoveryIndex + 1
        /\ recoveriesRun' = recoveriesRun \cup {recoveryIndex}
    BY <1>9 DEF ExecRecovered
  <2>2. recoveryIndex \in Nat /\ NumRecoveries \in Nat /\ recoveryIndex < NumRecoveries
    BY <2>1, MoveBaseAssumption DEF TypeOK, RecoveryExists
  <2>3. recoveriesRun' \subseteq 0..(NumRecoveries - 1)
    BY <2>1, <2>2 DEF RecoveriesInv
  <2>4. RunBelowIndex'
    BY <2>1, <2>2 DEF RecoveriesInv, RunBelowIndex, BeforeOrAfterGoal, NoGoalWasRefused
  <2> QED
    BY <2>1, <2>3, <2>4 DEF RecoveriesInv
<1>10. CASE ExecGiveUp
  <2>1. /\ pcE = "giveUp" /\ pcE' = "giveUpReset"
        /\ UNCHANGED <<currentGoal, recoveriesRun, recoveryIndex>>
    BY <1>10 DEF ExecGiveUp, SetResult
  <2> QED
    BY <2>1, RecoveriesWithin DEF BeforeOrAfterGoal
<1>11. CASE ExecReset \/ ExecGiveUpReset
  <2>1. recoveryIndex' = 0 /\ UNCHANGED recoveriesRun /\ pcE' \in {"idle", "report"}
    BY <1>11 DEF ExecReset, ExecGiveUpReset, ResetState, ResetStateMachine
  <2> QED
    BY <2>1, RecoveriesAfresh
<1>12. CASE ReconfigureGlobal \/ ReconfigureReset
  <2>1. /\ recoveryIndex' = 0 /\ UNCHANGED <<recoveriesRun, pcE>>
        /\ ReconfigureHoldsConfig
    BY <1>12 DEF ReconfigureGlobal, ReconfigureReset, ResetState, ResetStateMachine,
           ReconfigureHoldsConfig
  <2>2. pcE # "giveUp"
    BY <2>1 DEF OneHolder, CycleHoldsConfig
  <2> QED
    BY <2>1, <2>2, RecoveriesAfresh
<1>13. CASE Planner
  BY <1>13, RecoveriesKept DEF Planner, PlanWoken, PlanOrSuspend, PlanNextRound,
         PlanFound, PlanNotFound, PlanPublish, PlanRetry, PlanExit
<1>14. CASE ReconfigureLock \/ ReconfigureInitialized \/ ReconfigureLocal \/ Time
            \/ WakePlanner \/ NodeStops \/ Services \/ Quiescent \/ UNCHANGED vars
  BY <1>14, RecoveriesKept DEF ReconfigureLock, ReconfigureInitialized,
         ReconfigureLocal, Time, PlanPatienceRunsOut, ControlPatienceRunsOut,
         OscillationTimeoutRunsOut, WakePlanner, NodeStops, Quiescent, Services,
         RecvPlanRequest, PlanRequestServed, RecvClearCostmaps, CostmapsCleared
<1>15. CASE \/ \E g \in Goals : RecvGoal(g) \/ RecvCancel(g)
            \/ \E kinds \in SUBSET {"global", "local"} : RecvReconfigure(kinds)
  BY <1>15, RecoveriesKept DEF RecvGoal, RecvCancel, RecvReconfigure, GoalCallback,
         PreemptCallback
<1> QED
  BY MoveBaseAssumption, <1>1, <1>2, <1>3, <1>4, <1>5, <1>6, <1>7, <1>8, <1>9, <1>10,
     <1>11, <1>12, <1>13, <1>14, <1>15 DEF Next, Executor, Cycle, Reconfigure

(***************************************************************************)
(* A goal is given up only after every recovery behavior was run for it    *)
(* (954-1001), although planner and reconfigureCB take recovery_index_     *)
(* back at other points - unless a goal was refused while it took over.    *)
(***************************************************************************)
THEOREM RecoveriesComeFirst == Spec => []AllRecoveriesBeforeGiveUp
<1>1. Init => OneHolder /\ GoalsAscend /\ RecoveriesInv
  BY MoveBaseAssumption DEF Init, ASInit, OneHolder, CycleHoldsConfig, GoalsAscend,
     RecoveriesInv, RunBelowIndex, BeforeOrAfterGoal
<1>2. OneHolder /\ [Next]_vars => OneHolder'
  BY OneHolderStep
<1>3. TypeOK /\ ResultChosen /\ GoalsInv /\ GoalsAscend /\ [Next]_vars => GoalsAscend'
  BY AscendStep
<1>4. /\ TypeOK /\ ResultChosen /\ GoalsInv /\ GoalsAscend /\ AtRestBetweenGoals
      /\ RecoveryExists /\ OneHolder /\ RecoveriesInv /\ [Next]_vars
      => RecoveriesInv'
  BY RecoveriesStep
<1>5. RecoveriesInv /\ RecoveryExists /\ TypeOK => AllRecoveriesBeforeGiveUp
  <2> SUFFICES ASSUME RecoveriesInv, RecoveryExists, TypeOK,
                      pcE = "giveUp", RecoveryEnabled, NoGoalWasRefused
               PROVE  recoveriesRun = 0..(NumRecoveries - 1)
    BY DEF AllRecoveriesBeforeGiveUp
  <2>1. recoveryIndex = NumRecoveries
    BY MoveBaseAssumption DEF RecoveriesInv, RecoveryExists, TypeOK
  <2>2. \A i \in 0..(NumRecoveries - 1) : i \in recoveriesRun
    BY <2>1 DEF RecoveriesInv, RunBelowIndex, BeforeOrAfterGoal
  <2> QED
    BY <2>2 DEF RecoveriesInv
<1> QED
  BY <1>1, <1>2, <1>3, <1>4, <1>5, TypeInvariant, GoalsInvariant, RestsBetweenGoals,
     RecoveriesExist, PTL DEF Spec
=============================================================================

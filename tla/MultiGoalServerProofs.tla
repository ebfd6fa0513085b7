----------------------- MODULE MultiGoalServerProofs ------------------------
(***************************************************************************)
(* Theorems about the servers of MultiGoalServer.tla, for any set of goals *)
(* and both implementations: the queues, the statuses and the threads of   *)
(* the goals agree, and each goal is run once and has one result.          *)
(***************************************************************************)
EXTENDS MultiGoalServer, TLAPS

USE DEF serverVars, taskVars, loopVars, callVars, mailVars, vars, Answer,
        RequestPreemption

\* A goal that the server has not received is nowhere in it, and has not ended.
Unreceived(g) ==
  /\ g \notin newGoals \cup activeGoals /\ thread[g] = "none"
  /\ status[g] \in {"unknown", "recalling"}

OnTheWay(g) ==
  /\ g \in goalMail => Unreceived(g)
  /\ call[g] = "seek" => g \notin goalMail /\ Unreceived(g)

\* A task that writes or reports its result has returned one.
Returned(g) == thread[g] \in {"finish", "report"} => outcome[g] \in Outcomes \cup {"preempted"}

\* QueuesAgree holds although goals, cancels and the loop race, because each goal is
\* sent once, and gets into the queues only when it is received.
Inv == QueuesAgree /\ \A g \in Goals : OnTheWay(g) /\ Returned(g)

Places == <<newGoals, activeGoals, preemptReq, status, thread, outcome, goalMail, call>>

-----------------------------------------------------------------------------
LEMMA InitInv == Init => Inv
BY DEF Init, Inv, QueuesAgree, TypeOK, Statuses, Ended, Waiting, Running, Gone, OnTheWay,
       Unreceived, Returned

\* The steps that leave every goal where it is.
LEMMA StillStep ==
  ASSUME Inv, TypeOK', UNCHANGED Places, toJoin = toJoin' \/ Joined
  PROVE  Inv'
BY DEF Inv, QueuesAgree, TypeOK, Places, Joined, Waiting, Running, Gone, OnTheWay, Unreceived,
       Returned

\* A step keeps the types; a task that reports has returned something EndOf knows.
LEMMA TypeStep ==
  ASSUME Inv, [Next]_vars
  PROVE  TypeOK'
<1> USE DEF Inv, QueuesAgree, TypeOK, Statuses, Ended
<1> USE GoalsAssumption
<1>1. ASSUME NEW g \in Goals, GoalCallback(g)
      PROVE  TypeOK'
  BY <1>1 DEF GoalCallback
<1>2. ASSUME NEW g \in Goals, CancelArrives(g)
      PROVE  TypeOK'
  BY <1>2 DEF CancelArrives
<1>3. ASSUME NEW g \in Goals, PreemptCallback(g)
      PROVE  TypeOK'
  BY <1>3 DEF PreemptCallback
<1>4. CASE LoopHead \/ LoopTerminates \/ LoopDrain \/ LoopDrainPy \/ LoopEnds
  BY <1>4 DEF LoopHead, LoopTerminates, LoopDrain, LoopDrainPy, LoopEnds
<1>5. CASE LoopUpdate
  BY <1>5 DEF LoopUpdate
<1>6. CASE Shutdown
  BY <1>6 DEF Shutdown
<1>7. ASSUME NEW g \in Goals, NEW r \in Outcomes \cup {"preempted"}, TaskReturns(g, r)
      PROVE  TypeOK'
  BY <1>7 DEF TaskReturns
<1>8. ASSUME NEW g \in Goals, WriteResult(g)
      PROVE  TypeOK'
  BY <1>8 DEF WriteResult
<1>9. ASSUME NEW g \in Goals, SetResult(g)
      PROVE  TypeOK'
  <2>1. outcome[g] \in {"success", "fail", "preempted"}
    BY <1>9 DEF SetResult, Returned
  <2>2. /\ EndOf["success"] = "succeeded" /\ EndOf["fail"] = "aborted"
        /\ EndOf["preempted"] = "preempted"
    BY DEF EndOf
  <2>3. EndOf[outcome[g]] \in Statuses
    BY <2>1, <2>2
  <2> QED
    BY <1>9, <2>3 DEF SetResult
<1>10. ASSUME NEW g \in Goals, Epilogue(g)
       PROVE  TypeOK'
  BY <1>10 DEF Epilogue
<1>11. ASSUME NEW g \in Goals, Call(g) \/ CloseQueue(g)
       PROVE  TypeOK'
  BY <1>11 DEF Call, CallSends, CallReturns, CallCancels, CloseQueue, Answers
<1>12. CASE UNCHANGED vars
  BY <1>12
<1> QED
  BY <1>1, <1>2, <1>3, <1>4, <1>5, <1>6, <1>7, <1>8, <1>9, <1>10, <1>11, <1>12
     DEF Next, Loop, Mail, Task

-----------------------------------------------------------------------------
LEMMA MailStep ==
  ASSUME Inv, TypeOK', NEW g \in Goals, Mail(g)
  PROVE  Inv'
<1> USE DEF Inv, QueuesAgree, TypeOK, Waiting, Running, Gone, OnTheWay, Unreceived, Returned,
            Statuses, Ended
<1>1. CASE GoalCallback(g)
  BY <1>1 DEF GoalCallback
<1>2. CASE CancelArrives(g)
  BY <1>2 DEF CancelArrives
<1>3. CASE PreemptCallback(g)
  BY <1>3 DEF PreemptCallback
<1> QED
  BY <1>1, <1>2, <1>3 DEF Mail

LEMMA LoopStep ==
  ASSUME Inv, TypeOK', Loop
  PROVE  Inv'
<1>1. CASE LoopHead \/ LoopTerminates \/ LoopEnds \/ LoopDrainPy
  BY <1>1, StillStep DEF LoopHead, LoopTerminates, LoopEnds, LoopDrainPy, Places
<1> USE DEF Inv, QueuesAgree, TypeOK, Waiting, Running, Gone, OnTheWay, Unreceived, Returned,
            Statuses, Ended
<1>2. CASE LoopUpdate
  BY <1>2 DEF LoopUpdate, Joined
<1>3. CASE LoopDrain
  BY <1>3 DEF LoopDrain
<1> QED
  BY <1>1, <1>2, <1>3 DEF Loop

LEMMA TaskStep ==
  ASSUME Inv, TypeOK', NEW g \in Goals,
         Task(g) \/ \E r \in Outcomes : TaskReturns(g, r)
  PROVE  Inv'
<1> USE DEF Inv, QueuesAgree, TypeOK, Waiting, Running, Gone, OnTheWay, Unreceived, Returned,
            Statuses, Ended
<1>1. ASSUME NEW r \in Outcomes \cup {"preempted"}, TaskReturns(g, r)
      PROVE  Inv'
  BY <1>1 DEF TaskReturns
<1>2. CASE WriteResult(g)
  BY <1>2 DEF WriteResult
<1>3. CASE SetResult(g)
  BY <1>3 DEF SetResult
<1>4. CASE Epilogue(g)
  BY <1>4 DEF Epilogue
<1> QED
  BY <1>1, <1>2, <1>3, <1>4 DEF Task

LEMMA CallStep ==
  ASSUME Inv, TypeOK', NEW g \in Goals, Call(g) \/ CloseQueue(g)
  PROVE  Inv'
<1> USE DEF Inv, QueuesAgree, TypeOK, Waiting, Running, Gone, OnTheWay, Unreceived, Returned
<1>1. CASE CallSends(g)
  BY <1>1 DEF CallSends
<1>2. CASE CallReturns(g) \/ CallCancels(g) 
  BY <1>2 DEF CallReturns, CallCancels
<1>3. CASE CloseQueue(g)
  BY <1>3 DEF CloseQueue
<1> QED
  BY <1>1, <1>2, <1>3 DEF Call

LEMMA NextInv == Inv /\ [Next]_vars => Inv'
<1> SUFFICES ASSUME Inv, [Next]_vars
             PROVE  Inv'
  OBVIOUS
<1>1. TypeOK'
  BY TypeStep
<1>2. CASE Shutdown \/ UNCHANGED vars
  BY <1>1, <1>2, StillStep DEF Shutdown, Places
<1> QED
  BY <1>1, <1>2, MailStep, LoopStep, TaskStep, CallStep DEF Next

\* The queues of the server, the statuses and the threads agree at every point,
\* whatever goals there are and however callbacks, loop and tasks interleave.
THEOREM QueuesAlwaysAgree == Spec => []QueuesAgree
<1>1. Inv => QueuesAgree
  BY DEF Inv
<1> QED
  BY <1>1, InitInv, NextInv, PTL DEF Spec

-----------------------------------------------------------------------------
(***************************************************************************)
(* A goal is run at most once, and not after it was recalled; once it has  *)
(* ended, neither its status nor the result sent for it is replaced, be it *)
(* cancelled late, aborted by the epilogue of its thread or not.           *)
(***************************************************************************)
OneRunOneResult ==
  \A g \in Goals :
    /\ status[g] \in Ended => status'[g] = status[g] /\ reported'[g] = reported[g]
    /\ thread[g] = "none" /\ thread'[g] # "none" => status[g] \in {"pending", "recalling"}
    /\ thread[g] # "none" => thread'[g] \notin {"none", "work"} \/ thread'[g] = thread[g]

LEMMA OneRunOneResultStep == Inv /\ [Next]_vars => OneRunOneResult
<1> SUFFICES ASSUME Inv, [Next]_vars
             PROVE  OneRunOneResult
  OBVIOUS
<1> USE DEF Inv, QueuesAgree, TypeOK, Waiting, Running, Gone, OnTheWay, Unreceived,
            OneRunOneResult, Ended
<1>1. ASSUME NEW g \in Goals, Mail(g)
      PROVE  OneRunOneResult
  BY <1>1 DEF Mail, GoalCallback, CancelArrives, PreemptCallback
<1>2. CASE Loop
  BY <1>2 DEF Loop, LoopHead, LoopTerminates, LoopUpdate, LoopDrain, LoopDrainPy, LoopEnds
<1>3. ASSUME NEW g \in Goals, NEW r \in Outcomes \cup {"preempted"}, TaskReturns(g, r)
      PROVE  OneRunOneResult
  BY <1>3 DEF TaskReturns
<1>4. ASSUME NEW g \in Goals, WriteResult(g) \/ SetResult(g) \/ Epilogue(g)
      PROVE  OneRunOneResult
  BY <1>4 DEF WriteResult, SetResult, Epilogue
<1>5. ASSUME NEW g \in Goals, Call(g) \/ CloseQueue(g)
      PROVE  OneRunOneResult
  BY <1>5 DEF Call, CallSends, CallReturns, CallCancels, CloseQueue
<1>6. CASE Shutdown \/ UNCHANGED vars
  BY <1>6 DEF Shutdown
<1> QED
  BY <1>1, <1>2, <1>3, <1>4, <1>5, <1>6 DEF Next, Task

\* Whatever the order in which goals, cancels and the ends of tasks come, no goal is
\* run twice or gets a second result.
THEOREM GoalsRunAndEndOnce == Spec => [][OneRunOneResult]_vars
<1>1. Inv /\ [Next]_vars => [OneRunOneResult]_vars
  BY OneRunOneResultStep
<1> QED
  BY <1>1, InitInv, NextInv, PTL DEF Spec
=============================================================================

-------------------------- MODULE MultiGoalServer ---------------------------
(***************************************************************************)
(* Remote tasks: callers (callTask in ROSTask.cpp) that each send one goal *)
(* to a robot task, and the server that runs the goals, one thread each    *)
(* (MultiGoalActionServer.h with RobotTask.h, and their twins in Python,   *)
(* multi_goal_action_server.py with RobilTaskPy.py).                       *)
(*                                                                         *)
(* Goals, cancels and results travel on topics of their own, so that a     *)
(* cancel may arrive before its goal.  A step is a critical section of the *)
(* server's lock, or a stretch of a thread that touches nothing shared.    *)
(***************************************************************************)
EXTENDS Integers, FiniteSets

CONSTANTS
  Goals,       \* one for each caller
  Outcomes,    \* what a task may return, besides being preempted
  Impls,       \* the servers to consider: "cpp", "py"
  NodeMayStop, \* ROS may stop at the server, or its object be destroyed
  None

ASSUME GoalsAssumption ==
  /\ Outcomes \subseteq {"success", "fail"}
  /\ Impls \subseteq {"cpp", "py"}
  /\ NodeMayStop \in BOOLEAN
  /\ None \notin Goals

VARIABLES
  impl,        \* the server that runs
  status,      \* the status of each goal, held by the action server
  newGoals,    \* new_goals
  activeGoals, \* active_goals
  preemptReq,  \* the goals whose item has isPreemptReq
  thread,      \* where the thread of each goal is
  outcome,     \* what its task returned
  written,     \* _result, the member all threads fill in: whose result it holds
  loop,        \* where executeLoop is
  toJoin,      \* thread_for_delete
  terminate,   \* need_to_terminate_
  ok,          \* n_.ok()
  cancelling,  \* the goals whose preemptCallback has yet to take the lock
  call,        \* where each caller is
  closed,      \* the callers whose event queue is terminated
  goalMail, cancelMail, resultMail,
  reported     \* whose result was sent for each goal; None for a default one

serverVars == <<status, newGoals, activeGoals, preemptReq, cancelling>>
taskVars == <<thread, outcome, written>>
loopVars == <<loop, toJoin, terminate, ok>>
callVars == <<call, closed>>
mailVars == <<goalMail, cancelMail, resultMail, reported>>
vars == <<impl, serverVars, taskVars, loopVars, callVars, mailVars>>

Ended == {"recalled", "preempted", "succeeded", "aborted"}
Statuses == {"unknown", "pending", "recalling", "active", "preempting"} \cup Ended
Answers == {"SUCCESS", "FAIL", "TERMINATED"}

TypeOK ==
  /\ impl \in Impls
  /\ status \in [Goals -> Statuses]
  /\ newGoals \subseteq Goals /\ activeGoals \subseteq Goals
  /\ preemptReq \subseteq activeGoals /\ cancelling \subseteq Goals
  /\ thread \in [Goals -> {"none", "work", "finish", "report", "epilogue", "ended"}]
  /\ outcome \in [Goals -> Outcomes \cup {None, "preempted"}]
  /\ written \in Goals \cup {None}
  /\ loop \in {"wait", "join", "drain", "joinAll", "ended", "died"}
  /\ toJoin \subseteq Goals
  /\ terminate \in BOOLEAN /\ ok \in BOOLEAN
  /\ call \in [Goals -> {"seek", "wait"} \cup Answers]
  /\ closed \subseteq Goals
  /\ goalMail \subseteq Goals /\ cancelMail \subseteq Goals /\ resultMail \subseteq Goals
  /\ reported \in [Goals -> Goals \cup {None}]

Init ==
  /\ impl \in Impls
  /\ status = [g \in Goals |-> "unknown"]
  /\ newGoals = {} /\ activeGoals = {} /\ preemptReq = {} /\ cancelling = {}
  /\ thread = [g \in Goals |-> "none"]
  /\ outcome = [g \in Goals |-> None]
  /\ written = None
  /\ loop = "wait" /\ toJoin = {} /\ terminate = FALSE /\ ok = TRUE
  /\ call = [g \in Goals |-> "seek"] /\ closed = {}
  /\ goalMail = {} /\ cancelMail = {} /\ resultMail = {}
  /\ reported = [g \in Goals |-> None]

-----------------------------------------------------------------------------
\* Mutant: The end of a task is not announced to the loop.
RequestPreemptionNever(g) == UNCHANGED preemptReq

\* requestPreemption: the goals of the loop's queue, if g is among them.
RequestPreemption(g) == preemptReq' = preemptReq \cup ({g} \cap activeGoals)

\* isPreemptRequested: a goal that has left the queue counts as preempted.
IsPreempt(g) == g \notin activeGoals \/ g \in preemptReq \/ ~ok

\* The action server publishes a result with the end of a goal.
Answer(g, end, whose) ==
  /\ status' = [status EXCEPT ![g] = end]
  /\ resultMail' = resultMail \cup {g}
  /\ reported' = [reported EXCEPT ![g] = whose]

\* A goal arrives.  If its cancel came first the action server recalls it at once.
GoalCallback(g) ==
  /\ g \in goalMail
  /\ goalMail' = goalMail \ {g}
  /\ IF status[g] = "recalling"
     THEN Answer(g, "recalled", None) /\ UNCHANGED newGoals
     ELSE /\ status' = [status EXCEPT ![g] = "pending"]
          /\ newGoals' = newGoals \cup {g}
          /\ UNCHANGED <<resultMail, reported>>
  /\ UNCHANGED <<impl, activeGoals, preemptReq, cancelling, taskVars, loopVars,
                 callVars, cancelMail>>

\* A cancel arrives: the action server changes the status before it calls
\* preemptCallback, which waits for the server's lock.
CancelArrives(g) ==
  /\ g \in cancelMail
  /\ cancelMail' = cancelMail \ {g}
  /\ status' = [status EXCEPT ![g] = IF @ \in {"unknown", "pending"} THEN "recalling"
                                     ELSE IF @ = "active" THEN "preempting" ELSE @]
  /\ cancelling' = cancelling \cup {h \in {g} : status[h] \in {"pending", "active"}}
  /\ UNCHANGED <<impl, newGoals, activeGoals, preemptReq, taskVars, loopVars, callVars,
                 goalMail, resultMail, reported>>

\* The server in Python forgets a goal that has not started; it has no status.
PreemptCallback(g) ==
  /\ g \in cancelling
  /\ cancelling' = cancelling \ {g}
  /\ newGoals' = newGoals \ {g}
  /\ IF g \in newGoals
     THEN /\ IF impl = "cpp" THEN Answer(g, "recalled", None)
             ELSE UNCHANGED <<status, resultMail, reported>>
          /\ UNCHANGED preemptReq
     ELSE RequestPreemption(g) /\ UNCHANGED <<status, resultMail, reported>>
  /\ UNCHANGED <<impl, activeGoals, taskVars, loopVars, callVars, goalMail, cancelMail>>

-----------------------------------------------------------------------------
\* executeLoop: the condition was notified, or its tenth of a second is over.
LoopHead ==
  /\ loop = "wait"
  /\ loop' = IF ok THEN "join" ELSE "drain"
  /\ UNCHANGED <<impl, serverVars, taskVars, toJoin, terminate, ok, callVars, mailVars>>

\* Mutant: The loop joins the threads of all active goals.
JoinedAll == \A g \in toJoin \cup activeGoals : thread[g] = "ended"

\* Without the server's lock, the threads of the goals removed are waited for.
Joined == \A g \in toJoin : thread[g] = "ended"

LoopTerminates ==
  /\ loop = "join" /\ Joined /\ terminate
  /\ toJoin' = {}
  /\ loop' = "drain"
  /\ UNCHANGED <<impl, serverVars, taskVars, terminate, ok, callVars, mailVars>>

\* removePreemptedGoals, then every new goal is accepted and gets a thread.
LoopUpdate ==
  /\ loop = "join" /\ Joined /\ ~terminate
  /\ toJoin' = activeGoals \cap preemptReq
  /\ activeGoals' = (activeGoals \ preemptReq) \cup newGoals
  /\ preemptReq' = {}
  /\ newGoals' = {}
  /\ status' = [g \in Goals |->
       IF g \in newGoals
       THEN IF status[g] = "recalling" THEN "preempting" ELSE "active"
       ELSE status[g]]
  /\ thread' = [g \in Goals |-> IF g \in newGoals THEN "work" ELSE thread[g]]
  /\ loop' = "wait"
  /\ UNCHANGED <<impl, cancelling, outcome, written, terminate, ok, callVars, mailVars>>

\* Mutant: After the loop the active goals are joined, but stay in their queue.
LoopDrainKeeps ==
  /\ loop = "drain" /\ impl = "cpp"
  /\ newGoals' = {}
  /\ toJoin' = toJoin \cup activeGoals
  /\ loop' = "joinAll"
  /\ UNCHANGED <<impl, status, activeGoals, preemptReq, cancelling, taskVars, terminate,
                 ok, callVars, mailVars>>

\* After the loop: new goals are dropped, the threads of the others joined.
LoopDrain ==
  /\ loop = "drain" /\ impl = "cpp"
  /\ newGoals' = {}
  /\ toJoin' = toJoin \cup activeGoals
  /\ activeGoals' = {} /\ preemptReq' = {}
  /\ loop' = "joinAll"
  /\ UNCHANGED <<impl, status, cancelling, taskVars, terminate, ok, callVars, mailVars>>

\* The queue in Python has neither del nor the attribute that is asked for: the
\* thread dies of an exception, unless both queues are empty.
LoopDrainPy ==
  /\ loop = "drain" /\ impl = "py" /\ Joined
  /\ toJoin' = {}
  /\ loop' = IF newGoals \cup activeGoals = {} THEN "ended" ELSE "died"
  /\ UNCHANGED <<impl, serverVars, taskVars, terminate, ok, callVars, mailVars>>

LoopEnds ==
  /\ loop = "joinAll" /\ Joined
  /\ toJoin' = {}
  /\ loop' = "ended"
  /\ UNCHANGED <<impl, serverVars, taskVars, terminate, ok, callVars, mailVars>>

Shutdown ==
  /\ NodeMayStop /\ ok /\ ~terminate
  /\ \/ ok' = FALSE /\ UNCHANGED terminate
     \/ terminate' = TRUE /\ UNCHANGED ok
  /\ UNCHANGED <<impl, serverVars, taskVars, loop, toJoin, callVars, mailVars>>

-----------------------------------------------------------------------------
\* abstract_task on the goal's thread.  The task itself returns when it has a
\* result, or finds that it is preempted.
TaskReturns(g, r) ==
  /\ thread[g] = "work"
  /\ r \in Outcomes \/ (r = "preempted" /\ IsPreempt(g))
  /\ outcome' = [outcome EXCEPT ![g] = r]
  /\ thread' = [thread EXCEPT ![g] = IF impl = "py" /\ ~ok THEN "epilogue" ELSE "finish"]
  /\ UNCHANGED <<impl, serverVars, written, loopVars, callVars, mailVars>>

\* finish fills in _result, without a lock; in Python not for a preempted task.
WriteResult(g) ==
  /\ thread[g] = "finish"
  /\ written' = IF impl = "py" /\ outcome[g] = "preempted" THEN written ELSE g
  /\ thread' = [thread EXCEPT ![g] = "report"]
  /\ UNCHANGED <<impl, serverVars, outcome, loopVars, callVars, mailVars>>

EndOf == [success |-> "succeeded", fail |-> "aborted", preempted |-> "preempted"]

\* setSucceeded, setAborted or setPreempted, under the lock; a preempted goal gets a
\* default result.
SetResult(g) ==
  /\ thread[g] = "report"
  /\ Answer(g, EndOf[outcome[g]], IF outcome[g] = "preempted" THEN None ELSE written)
  /\ RequestPreemption(g)
  /\ thread' = [thread EXCEPT ![g] = IF impl = "py" THEN "epilogue" ELSE "ended"]
  /\ UNCHANGED <<impl, newGoals, activeGoals, cancelling, outcome, written, loopVars,
                 callVars, goalMail, cancelMail>>

\* RunExecuteCallback.run: is_active raises a NameError for a goal that is still
\* in the queue, and the handler aborts the goal if it has not ended.
Epilogue(g) ==
  /\ thread[g] = "epilogue"
  /\ IF g \in activeGoals /\ status[g] \notin Ended
     THEN Answer(g, "aborted", None)
     ELSE UNCHANGED <<status, resultMail, reported>>
  /\ RequestPreemption(g)
  /\ thread' = [thread EXCEPT ![g] = "ended"]
  /\ UNCHANGED <<impl, newGoals, activeGoals, cancelling, outcome, written, loopVars,
                 callVars, goalMail, cancelMail>>

-----------------------------------------------------------------------------
\* callTask of a task that is not local.
CallSends(g) ==
  /\ call[g] = "seek"
  /\ IF g \in closed
     THEN call' = [call EXCEPT ![g] = "TERMINATED"] /\ UNCHANGED goalMail
     ELSE call' = [call EXCEPT ![g] = "wait"] /\ goalMail' = goalMail \cup {g}
  /\ UNCHANGED <<impl, serverVars, taskVars, loopVars, closed, cancelMail, resultMail,
                 reported>>

\* success == 0, which a default result has too.
SuccessOf(whose) == whose = None \/ outcome[whose] = "success"

CallReturns(g) ==
  /\ call[g] = "wait" /\ g \in resultMail
  /\ call' = [call EXCEPT ![g] = IF g \in closed THEN "TERMINATED"
                                 ELSE IF SuccessOf(reported[g]) THEN "SUCCESS" ELSE "FAIL"]
  /\ UNCHANGED <<impl, serverVars, taskVars, loopVars, closed, mailVars>>

\* Mutant: callTask returns without cancelGoal.
CallCancelsNot(g) ==
  /\ call[g] = "wait" /\ g \in closed
  /\ call' = [call EXCEPT ![g] = "TERMINATED"]
  /\ UNCHANGED <<impl, serverVars, taskVars, loopVars, closed, mailVars>>

\* The queue is terminated and waitForResult has timed out.
CallCancels(g) ==
  /\ call[g] = "wait" /\ g \in closed
  /\ cancelMail' = cancelMail \cup {g}
  /\ call' = [call EXCEPT ![g] = "TERMINATED"]
  /\ UNCHANGED <<impl, serverVars, taskVars, loopVars, closed, goalMail, resultMail,
                 reported>>

\* Whoever called callTask may terminate its queue meanwhile.
CloseQueue(g) ==
  /\ call[g] \notin Answers
  /\ closed' = closed \cup {g}
  /\ UNCHANGED <<impl, serverVars, taskVars, loopVars, call, mailVars>>

-----------------------------------------------------------------------------
Mail(g) == GoalCallback(g) \/ CancelArrives(g) \/ PreemptCallback(g)
Loop == LoopHead \/ LoopTerminates \/ LoopUpdate \/ LoopDrain \/ LoopDrainPy \/ LoopEnds
Task(g) == WriteResult(g) \/ SetResult(g) \/ Epilogue(g) \/ TaskReturns(g, "preempted")
Call(g) == CallSends(g) \/ CallReturns(g) \/ CallCancels(g)

Next ==
  \/ Loop \/ Shutdown
  \/ \E g \in Goals : Mail(g) \/ Task(g) \/ Call(g) \/ CloseQueue(g)
  \/ \E g \in Goals, r \in Outcomes : TaskReturns(g, r)

\* Threads run, messages arrive, and a task looks at isPreempt; it need not end
\* by itself.
Fairness ==
  /\ WF_vars(Loop)
  /\ \A g \in Goals :
       /\ WF_vars(GoalCallback(g)) /\ WF_vars(CancelArrives(g)) /\ WF_vars(PreemptCallback(g))
       /\ WF_vars(Task(g)) /\ WF_vars(Call(g))

Spec == Init /\ [][Next]_vars /\ Fairness

-----------------------------------------------------------------------------
\* Where a goal can be, as its status and its thread have it.
Waiting(g) == g \in newGoals => status[g] \in {"pending", "recalling"} /\ thread[g] = "none"

Running(g) ==
  g \in activeGoals =>
    /\ thread[g] # "none"
    /\ status[g] \in Ended => thread[g] \in {"epilogue", "ended"}
    /\ thread[g] = "ended" => g \in preemptReq

Gone(g) ==
  /\ thread[g] \in {"work", "finish", "report"} => status[g] \in {"active", "preempting"}
  /\ thread[g] \notin {"none", "ended"} => g \in activeGoals \cup toJoin

(***************************************************************************)
(* The two queues, the goals' statuses and their threads agree at every    *)
(* point of the callbacks, the loop and the tasks: no goal is in both      *)
(* queues or is run twice, a thread that runs is in the queue or will be   *)
(* joined, and an item whose thread is over is marked for removal; every   *)
(* variable has its type.                                                  *)
(***************************************************************************)
QueuesAgree ==
  /\ TypeOK
  /\ newGoals \cap activeGoals = {}
  /\ \A g \in Goals : Waiting(g) /\ Running(g) /\ Gone(g)

(***************************************************************************)
(* A caller whose queue is terminated returns, and its task does not       *)
(* outlive it for ever: the cancel reaches the goal wherever it is.        *)
(***************************************************************************)
TerminatedCallEnds ==
  \A g \in Goals :
    g \in closed ~> call[g] \in Answers /\ thread[g] \in {"none", "ended"}

(***************************************************************************)
(* While the server is up every goal that is sent is run or recalled - by  *)
(* the server in Python, unless it is cancelled before it starts: then it  *)
(* is forgotten.                                                           *)
(***************************************************************************)
GoalIsTakenUp ==
  \A g \in Goals :
    g \in goalMail ~> \/ thread[g] # "none" \/ status[g] \in Ended
                      \/ ~ok \/ terminate
                      \/ impl = "py" /\ status[g] = "recalling" /\ g \notin newGoals

(***************************************************************************)
(* A server that is shut down ends, with all its threads: tasks see it as  *)
(* a preemption.  (The loop in Python may die of an exception instead; then *)
(* its threads are not joined, and if ROS still runs they may go on.)      *)
(***************************************************************************)
ShutdownEnds ==
  ~ok \/ terminate ~>
    \/ loop = "ended" /\ \A g \in Goals : thread[g] \in {"none", "ended"}
    \/ loop = "died"
=============================================================================

------------------------------ MODULE Cleaning -------------------------------
(***************************************************************************)
(* The mission node (cleaning.cpp, cleaning_node.cpp) on the machinery of  *)
(* decision_making: the FSM loop of FSM.h, the tasks it calls on threads   *)
(* of their own (callTask in ROSTask.cpp), the event queues of             *)
(* EventQueue.tla with a RosEventQueue as root, whose events make a detour *)
(* over a topic, and move_base as NavService.tla promises it to clients.   *)
(***************************************************************************)
EXTENDS EventQueue

CONSTANTS
  PointNum,     \* POINT_NUM
  MaxGoals      \* bound: goals sent to move_base; after the last one no attempt
                \* fails any more, except at the last point, which is not retried

ASSUME CleaningAssumption ==
  /\ PointNum \in Nat \ {0} /\ MaxGoals \in Nat
  /\ Queues = {Root, "task"} /\ Root # "task" /\ RosRoot
  /\ {"/start", "/arrived", "/timeOut", "/more_goal", "/no_goal", "result"} \subseteq Events
  /\ "fsm" \in Threads

VARIABLES
  phase,      \* move_base's goals (NavService)
  sent,       \* how many goals were sent; the last is the one mbc tracks
  target,     \* history: the point each goal was sent for
  fsm,        \* where the FSM loop is
  state,      \* its state
  task,       \* where the thread of the task is
  called,     \* the state that called it
  point,      \* i
  bucket,     \* the point for which bucket_msgs was published last
  topic       \* events published and not yet received by onNewEvent

missionVars == <<phase, sent, target, fsm, state, task, called, point, bucket, topic>>
vars == <<eqVars, missionVars>>

Nav == INSTANCE NavService

Points == 0..(PointNum - 1)
NoPoint == -1
Goals == 1..MaxGoals

States == {"Stop", "Moving", "Reached"}

\* FSM_TRANSITIONS: where an event leads from each state.
Transitions ==
  [Stop    |-> [e \in {"/start"} |-> "Moving"],
   Moving  |-> [e \in {"/arrived", "/timeOut"} |-> IF e = "/arrived" THEN "Reached" ELSE "Stop"],
   Reached |-> [e \in {"/more_goal", "/no_goal"} |-> IF e = "/more_goal" THEN "Moving" ELSE "Stop"]]

TransitionEvents == UNION {DOMAIN Transitions[s] : s \in States}

TypeOK ==
  /\ EQTypeOK
  /\ phase \in [Goals -> Nav!Phases]
  /\ sent \in 0..MaxGoals
  /\ target \in [Goals -> Points \cup {NoPoint}]
  /\ fsm \in {"enter", "transitions", "leave", "join", "done"}
  /\ state \in States
  /\ called \in States
  /\ task \in {"none", "called", "waiting", "waited", "returned", "ended"}
  /\ point \in Points
  /\ bucket \in Points \cup {NoPoint}
  /\ topic \in Seq(Events)

Init ==
  /\ EQInit /\ Nav!Init
  /\ sent = 0
  /\ target = [g \in Goals |-> NoPoint]
  /\ fsm = "enter" /\ state = "Stop"
  /\ task = "none" /\ called = "Stop"
  /\ point = 0
  /\ bucket = NoPoint
  /\ topic = <<>>

-----------------------------------------------------------------------------
\* RosEventQueue::raiseEvent, where a raise from the task's queue arrives:
\* the event is published on the node's own topic.
Publish(e) == topic' = Append(topic, e)

\* onNewEvent, called by the one spinner thread in the order of publication.
OnNewEvent ==
  /\ ok
  /\ topic # <<>>
  /\ RaiseEvent(Head(topic))
  /\ topic' = Tail(topic)
  /\ UNCHANGED <<phase, sent, target, fsm, state, task, called, point, bucket>>

-----------------------------------------------------------------------------
\* FSM_STATE with FSM_CALL_TASK: the task's queue and thread, unless ROS has
\* stopped or the node's queue is stopped.
FsmEnterState ==
  /\ fsm = "enter"
  /\ IF ok /\ Root \notin stopped
     THEN /\ Construct("task")
          /\ task' = "called" /\ called' = state
          /\ fsm' = "transitions"
     ELSE /\ fsm' = "done"
          /\ UNCHANGED <<eqVars, task, called>>
  /\ UNCHANGED <<phase, sent, target, state, point, bucket, topic>>

\* waitEvent in the loop of FSM_TRANSITIONS: an event that no FSM_ON_EVENT of
\* the state names is read and forgotten.
FsmWait ==
  /\ fsm = "transitions"
  /\ \/ WaitSleep("fsm", Root) /\ UNCHANGED <<fsm, state>>
     \/ WaitTimeout("fsm") /\ UNCHANGED <<fsm, state>>
     \/ WaitUndefined("fsm", Root) /\ fsm' = "leave" /\ UNCHANGED state
     \/ /\ WaitTake("fsm", Root)
        /\ LET e == Head(events[Root]) IN
           IF e \in DOMAIN Transitions[state]
           THEN fsm' = "leave" /\ state' = Transitions[state][e]
           ELSE UNCHANGED <<fsm, state>>
  /\ UNCHANGED <<phase, sent, target, task, called, point, bucket, topic>>

\* ~Cleaner: stopEvents closes the task's queue, then its thread is joined ...
FsmStopEvents ==
  /\ fsm = "leave"
  /\ Close("task")
  /\ fsm' = "join"
  /\ UNCHANGED <<phase, sent, target, state, task, called, point, bucket, topic>>

\* ... and only then the state's scope ends, and with it the task's queue.
FsmJoin ==
  /\ fsm = "join"
  /\ task = "ended"
  /\ Destroy("task")
  /\ task' = "none"
  /\ fsm' = "enter"
  /\ UNCHANGED <<phase, sent, target, state, called, point, bucket, topic>>

-----------------------------------------------------------------------------
\* What the task's thread leaves alone.
TaskUnchanged == UNCHANGED <<eqVars, fsm, state, called>>

CleaningBegin ==
  /\ task = "called" /\ called = "Stop"
  /\ IF point < PointNum - 1 THEN Publish("/start") ELSE UNCHANGED topic
  /\ task' = "returned"
  /\ TaskUnchanged /\ UNCHANGED <<phase, sent, target, point, bucket>>

PointLeft == point < PointNum - 1

\* Mutant: the bucket follows only after the goal it was for.
BucketOfLast == point

BucketOfNext == point + 1

NextGoal ==
  /\ task = "called" /\ called = "Reached"
  /\ IF PointLeft
     THEN point' = point + 1 /\ bucket' = BucketOfNext /\ Publish("/more_goal")
     ELSE Publish("/no_goal") /\ UNCHANGED <<point, bucket>>
  /\ task' = "returned"
  /\ TaskUnchanged /\ UNCHANGED <<phase, sent, target>>

\* The bound on failures: there are goals left for another attempt and for the
\* points that follow, or there will be no other attempt.
MayFail(n) == n + (PointNum - 1 - point) < MaxGoals \/ point = PointNum - 1

\* sendGoal; without a connection to move_base the goal is lost.
SendGoal ==
  /\ task = "called" /\ called = "Moving"
  /\ sent < MaxGoals
  /\ sent' = sent + 1
  /\ target' = [target EXCEPT ![sent'] = point]
  /\ Nav!Submit(sent') \/ (MayFail(sent') /\ UNCHANGED phase)
  /\ task' = "waiting"
  /\ TaskUnchanged /\ UNCHANGED <<point, bucket, topic>>

\* Mutant: waitForResult without a time-out.
ResultOrEnd == phase[sent] \in {"succeeded", "aborted", "canceled"} \/ ~ok

ResultOrTimeout ==
  phase[sent] \in {"succeeded", "aborted", "canceled"} \/ MayFail(sent) \/ ~ok

\* waitForResult returns: with the result, after 100 s, or because ROS stops.
WaitForResult ==
  /\ task = "waiting"
  /\ ResultOrTimeout
  /\ task' = "waited"
  /\ TaskUnchanged /\ UNCHANGED <<phase, sent, target, point, bucket, topic>>

\* Mutants: any result counts as an arrival; a time-out is raised after an arrival too.
RaiseArrived ==
  /\ task = "waited"
  /\ Publish("/arrived")
  /\ task' = "returned"
  /\ TaskUnchanged /\ UNCHANGED <<phase, sent, target, point, bucket>>

RaiseBoth ==
  /\ task = "waited"
  /\ topic' = topic \o (IF phase[sent] = "succeeded" THEN <<"/arrived", "/timeOut">>
                        ELSE <<"/timeOut">>)
  /\ task' = "returned"
  /\ TaskUnchanged /\ UNCHANGED <<phase, sent, target, point, bucket>>

\* getState decides, which may have changed after a time-out; the result of a
\* goal that has one may also still be on its way.
RaiseOutcome ==
  /\ task = "waited"
  /\ \/ phase[sent] = "succeeded" /\ Publish("/arrived")
     \/ (phase[sent] # "succeeded" \/ ~ok \/ MayFail(sent)) /\ Publish("/timeOut")
  /\ task' = "returned"
  /\ TaskUnchanged /\ UNCHANGED <<phase, sent, target, point, bucket>>

\* The end of callTask: the result of the task is an event of its own, which
\* no state of this machine waits for.
TaskEnds ==
  /\ task = "returned"
  /\ Publish("result")
  /\ task' = "ended"
  /\ TaskUnchanged /\ UNCHANGED <<phase, sent, target, point, bucket>>

-----------------------------------------------------------------------------
MoveBaseStep ==
  /\ \E g \in Goals : Nav!TakeUp(g) \/ Nav!Conclude(g)
  /\ sent > 0 /\ phase'[sent] \in {"aborted", "canceled"} => MayFail(sent)
  /\ UNCHANGED <<eqVars, sent, target, fsm, state, task, called, point, bucket, topic>>

NodeStops == RosStops /\ UNCHANGED missionVars

Fsm == FsmEnterState \/ FsmWait \/ FsmStopEvents \/ FsmJoin
Task == CleaningBegin \/ NextGoal \/ SendGoal \/ WaitForResult \/ RaiseOutcome \/ TaskEnds

\* FsmCleaning has returned, main returns and the process is gone.
Exited == fsm = "done" /\ UNCHANGED vars

Next == Fsm \/ Task \/ OnNewEvent \/ MoveBaseStep \/ NodeStops \/ Exited

\* Threads run, the spinner delivers, and move_base gets on with its goals.
Fairness ==
  /\ WF_vars(Fsm) /\ WF_vars(Task)
  /\ WF_vars(OnNewEvent) /\ WF_vars(MoveBaseStep)

Spec == Init /\ [][Next]_vars /\ Fairness

-----------------------------------------------------------------------------
(***************************************************************************)
(* The tour: a goal is sent for a point only after move_base has succeeded *)
(* on an earlier goal sent for the point before.  It rests on no event     *)
(* being lost, doubled or read in a state it was not raised for, and on    *)
(* the result being that of the goal sent last.                            *)
(***************************************************************************)
TourInOrder ==
  \A g \in 1..sent : target[g] > 0 =>
    \E h \in 1..(g - 1) : target[h] = target[g] - 1 /\ phase[h] = "succeeded"

(***************************************************************************)
(* While move_base may pursue a goal, the bucket was commanded last for    *)
(* the point of the goal sent last - but for the first point, for which it *)
(* never is.                                                               *)
(***************************************************************************)
BucketForTheGoal ==
  \A g \in Goals : phase[g] \in {"queued", "pursued"} /\ g = sent =>
    \/ bucket = target[g]
    \/ target[g] = 0 /\ bucket = NoPoint

\* The events that are on their way to the FSM, or are in its queue.
InFlight == events[Root] \o topic

(***************************************************************************)
(* At most one transition event is on its way at a time, and the FSM is    *)
(* still in the state whose task raised it: none is left over for a later  *)
(* visit of the state, when it would stand for an outcome of another task. *)
(* (And every variable has its type.)                                      *)
(***************************************************************************)
NoStaleEvent ==
  LET live == {i \in DOMAIN InFlight : InFlight[i] \in TransitionEvents} IN
  /\ TypeOK
  /\ Cardinality(live) <= 1
  /\ \A i \in live : /\ fsm = "transitions" \/ Root \in stopped \/ ~ok
                     /\ InFlight[i] \in DOMAIN Transitions[called]
                     /\ called = state

\* The mission has come to its end: the FSM waits in Stop at the last point.
AtRest ==
  /\ state = "Stop" /\ called = "Stop" /\ point = PointNum - 1
  /\ task = "ended" /\ fsm = "transitions"
  /\ InFlight = <<>>

(***************************************************************************)
(* The mission never hangs on the way: it gets to Stop at the last point,  *)
(* whatever goals are lost, time out or are aborted on the way; and when   *)
(* ROS stops, then or on the way, the FSM returns, whatever its task waits *)
(* for.                                                                    *)
(***************************************************************************)
MissionEnds == <>[](fsm = "done" \/ (ok /\ AtRest))
=============================================================================

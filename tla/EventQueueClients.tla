-------------------------- MODULE EventQueueClients -------------------------
(***************************************************************************)
(* EventQueue with clients that may do anything at any time.  Events are   *)
(* numbered as they are raised, so that what a queue holds can be compared *)
(* with what was raised.                                                   *)
(***************************************************************************)
EXTENDS EventQueue

CONSTANT MaxRaises   \* bound: how many events the clients raise

ASSUME NumberedAssumption ==
  MaxRaises \in Nat /\ Events = 1..MaxRaises /\ SpinEvent = 0

VARIABLE raised      \* history: how many events have been raised

vars == <<eqVars, raised>>

TypeOK == EQTypeOK /\ raised \in 0..MaxRaises

Init == EQInit /\ raised = 0

RaiseNext ==
  /\ raised < MaxRaises
  /\ raised' = raised + 1
  /\ RaiseEvent(raised + 1)

OtherCall ==
  \/ SpinOne \/ SpinEnd \/ RosStops
  \/ \E q \in Queues \ {Root} : Construct(q) \/ Destroy(q)
  \/ \E q \in Queues : Close(q) \/ TryGetEvent(q) \/ DropAll(q)
  \/ \E t \in Threads, q \in Queues :
        WaitSleep(t, q) \/ WaitTake(t, q) \/ WaitUndefined(t, q)
  \/ \E t \in Threads : WaitTimeout(t)

Next == RaiseNext \/ (OtherCall /\ UNCHANGED raised)

\* A thread that has been woken runs on, and a timed wait times out.
WokenThreadRuns(t) ==
  \E q \in Queues : /\ t \in woken[q]
                    /\ WaitSleep(t, q) \/ WaitTake(t, q) \/ WaitUndefined(t, q)
                    /\ UNCHANGED raised

Fairness == \A t \in Threads :
  WF_vars(WokenThreadRuns(t)) /\ WF_vars(WaitTimeout(t) /\ UNCHANGED raised)

Spec == Init /\ [][Next]_vars /\ Fairness

-----------------------------------------------------------------------------
(***************************************************************************)
(* No lost wake-up: while a thread sleeps at a queue, the queue is not     *)
(* stopped, and each event in it is matched by a thread that was woken and *)
(* has not looked yet - although notify_one is sent even for events that   *)
(* are not kept, and callers who never slept take events meant for those   *)
(* that were woken.  (Once ROS has stopped, the waiters of a RosEventQueue *)
(* get out by their time-out.)  And every variable has its type.           *)
(***************************************************************************)
NoLostWakeup == TypeOK /\ EventsAwaited

(***************************************************************************)
(* Every queue that is connected to the root holds the latest events, in   *)
(* the order they were raised and without a gap, behind at most one spin   *)
(* event; what is missing was read, dropped, or lost to the bound, which   *)
(* lets every queue hold one event more than its maximum.                  *)
(***************************************************************************)
LatestInOrder ==
  /\ \A q \in Queues : Len(events[q]) <= MaxUnread + 1
  /\ \A q \in Below(Root) \ Transit : \A i \in DOMAIN events[q] :
       \/ events[q][i] = raised - Len(events[q]) + i
       \/ i = 1 /\ events[q][1] = SpinEvent

(***************************************************************************)
(* Every waiter of a queue that is stopped gets out of waitEvent, and so   *)
(* do the waiters of a RosEventQueue when ROS stops.                       *)
(***************************************************************************)
StoppedQueueLetsGo ==
  \A t \in Threads, q \in Queues :
    t \in asleep[q] \cup woken[q] /\ (q \in stopped \/ SeesEnd(q)) ~> t \notin Busy
=============================================================================

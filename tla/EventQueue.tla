----------------------------- MODULE EventQueue -----------------------------
(***************************************************************************)
(* The event queues of decision_making (EventSystem.h): a tree of bounded  *)
(* queues.  An event raised anywhere goes up to the root and from there    *)
(* down into every subscribed queue; threads wait for the events of a      *)
(* queue; closing a queue closes what is below it and lets its waiters go. *)
(*                                                                         *)
(* addEvent and close hold a queue's mutex while they take those of its    *)
(* subscribers, always downwards, and every other operation takes one      *)
(* mutex: an operation on the tree is one step.  The root may be a         *)
(* RosEventQueue, whose waiters wake by themselves to look at ros::ok().   *)
(***************************************************************************)
EXTENDS Integers, Sequences, FiniteSets

CONSTANTS
  Queues,        \* every queue that is ever constructed
  Root,          \* the queue without a parent
  ParentOf,      \* the parent of the others
  Above,         \* the ancestors of each queue, and itself
  Transit,       \* the queues with isTransit: they pass events on and keep none
  Threads,       \* the threads that wait
  Events,        \* what is raised, apart from spin events
  SpinEvent,     \* SPIN_EVENT()
  MaxUnread,     \* max_unreaded_events_number
  RosRoot        \* the root is a RosEventQueue

ASSUME QueuesAssumption ==
  /\ Root \in Queues
  /\ ParentOf \in [Queues \ {Root} -> Queues]
  /\ Above \in [Queues -> SUBSET Queues]
  /\ Above[Root] = {Root}
  /\ \A q \in Queues \ {Root} :
       /\ Above[q] = {q} \cup Above[ParentOf[q]] /\ q \notin Above[ParentOf[q]]
       /\ \A r \in Above[q] \ {q} : \E s \in Above[q] \ {Root} : ParentOf[s] = r
  /\ Transit \subseteq Queues
  /\ SpinEvent \notin Events
  /\ MaxUnread \in Nat
  /\ RosRoot \in BOOLEAN

VARIABLES
  events,        \* events: of every queue
  stopped,       \* events_system_stop: the queues where it is set
  alive,         \* the queues that are constructed
  subscribed,    \* the queues that are among the subs of their parent
  asleep,        \* the threads in on_new_event.wait, of every queue
  woken,         \* the threads notified, before they look at the queue again
  ok             \* ros::ok()

eqVars == <<events, stopped, alive, subscribed, asleep, woken, ok>>

EQTypeOK ==
  /\ events \in [Queues -> Seq(Events \cup {SpinEvent})]
  /\ stopped \subseteq Queues
  /\ alive \subseteq Queues
  /\ subscribed \subseteq alive \ {Root}
  /\ asleep \in [Queues -> SUBSET Threads]
  /\ woken \in [Queues -> SUBSET Threads]
  /\ ok \in BOOLEAN

EQInit ==
  /\ events = [q \in Queues |-> <<>>]
  /\ stopped = {}
  /\ alive = {Root}
  /\ subscribed = {}
  /\ asleep = [q \in Queues |-> {}]
  /\ woken = [q \in Queues |-> {}]
  /\ ok = TRUE

-----------------------------------------------------------------------------
\* q, its subscribers, theirs, and so on: what addEvent and close go through.
Below(q) == {s \in subscribed \cup {q} :
               q \in Above[s] /\ Above[s] \ Above[q] \subseteq subscribed}

Busy == UNION {asleep[q] \cup woken[q] : q \in Queues}

\* Mutant: a full queue drops the new event.
AddedOrDropped(q, e) ==
  IF q \in Transit \/ Len(events[q]) > MaxUnread THEN events[q] ELSE Append(events[q], e)

(***************************************************************************)
(* addEvent at one queue: a transit queue keeps nothing, a spin event is   *)
(* kept by an empty queue only, and a queue over its bound loses its       *)
(* oldest event.                                                           *)
(***************************************************************************)
Added(q, e) ==
  IF q \in Transit \/ (e = SpinEvent /\ events[q] # <<>>) THEN events[q]
  ELSE IF Len(events[q]) > MaxUnread THEN Append(Tail(events[q]), e)
  ELSE Append(events[q], e)

\* Mutant: only a queue that was empty notifies.
NotifyIfEmpty(S) ==
  LET T == {q \in S : events[q] = <<>>} IN
  \E lucky \in SUBSET UNION {asleep[q] : q \in T} :
    /\ \A q \in T : asleep[q] # {} => \E t \in asleep[q] : lucky \cap asleep[q] = {t}
    /\ asleep' = [q \in Queues |-> asleep[q] \ lucky]
    /\ woken' = [q \in Queues |-> woken[q] \cup (asleep[q] \cap lucky)]

\* notify_one at each queue of S: one of its sleepers, if it has any, wakes.
NotifyOne(S) ==
  \E lucky \in SUBSET UNION {asleep[q] : q \in S} :
    /\ \A q \in S : asleep[q] # {} => \E t \in asleep[q] : lucky \cap asleep[q] = {t}
    /\ asleep' = [q \in Queues |-> asleep[q] \ lucky]
    /\ woken' = [q \in Queues |-> woken[q] \cup (asleep[q] \cap lucky)]

\* addEvent at the root: into the whole tree.
Deliver(e) ==
  LET tree == Below(Root) IN
  /\ events' = [q \in Queues |-> IF q \in tree THEN Added(q, e) ELSE events[q]]
  /\ NotifyOne(tree)

\* raiseEvent at any queue goes up to the root.
RaiseEvent(e) ==
  /\ Deliver(e)
  /\ UNCHANGED <<stopped, alive, subscribed, ok>>

\* One turn of Spinner::spin.
SpinOne ==
  /\ ok
  /\ Root \notin stopped
  /\ Deliver(SpinEvent)
  /\ UNCHANGED <<stopped, alive, subscribed, ok>>

\* Mutant: the waiters are not notified.
StopSilently(S) == stopped' = stopped \cup S /\ UNCHANGED <<asleep, woken>>

\* The stop flag and notify_all, in every queue of S.
StopAll(S) ==
  /\ stopped' = stopped \cup S
  /\ asleep' = [q \in Queues |-> IF q \in S THEN {} ELSE asleep[q]]
  /\ woken' = [q \in Queues |-> IF q \in S THEN woken[q] \cup asleep[q] ELSE woken[q]]

\* Mutant: close does not go down to the subscribers.
CloseAlone(q) ==
  /\ q \in alive
  /\ StopAll({q})
  /\ UNCHANGED <<events, alive, subscribed, ok>>

Close(q) ==
  /\ q \in alive
  /\ StopAll(Below(q))
  /\ UNCHANGED <<events, alive, subscribed, ok>>

\* The end of Spinner::spin after ROS has stopped.
SpinEnd ==
  /\ RosRoot /\ ~ok
  /\ Root \notin stopped
  /\ Close(Root)

-----------------------------------------------------------------------------
\* Mutant: subscribe does not look whether the parent is stopped.
Subscribed(q) == subscribed \cup {q}

Subscribe(q) == IF ParentOf[q] \in stopped THEN subscribed ELSE subscribed \cup {q}

\* The constructor; subscribe does nothing at a parent that is stopped.
Construct(q) ==
  /\ q \notin alive
  /\ ParentOf[q] \in alive
  /\ alive' = alive \cup {q}
  /\ events' = [events EXCEPT ![q] = <<>>]
  /\ stopped' = stopped \ {q}
  /\ subscribed' = Subscribe(q)
  /\ UNCHANGED <<asleep, woken, ok>>

Unsubscribe(q) == subscribed \ {q}

\* The destructor, for an owner who has joined the threads that used the queue
\* and destroyed the queues below it.
Destroy(q) ==
  /\ q \in alive \ {Root}
  /\ asleep[q] = {} /\ woken[q] = {}
  /\ \A s \in alive \ {Root} : ParentOf[s] # q
  /\ alive' = alive \ {q}
  /\ subscribed' = Unsubscribe(q)
  /\ stopped' = stopped \cup {q}
  /\ UNCHANGED <<events, asleep, woken, ok>>

-----------------------------------------------------------------------------
\* Thread t is about to test the loop condition of waitEvent on q: it calls, or
\* has been woken.
Looks(t, q) == q \in alive /\ (t \notin Busy \/ t \in woken[q])

\* ~ok ends the loop of a RosEventQueue only.
SeesEnd(q) == RosRoot /\ q = Root /\ ~ok

WaitSleep(t, q) ==
  /\ Looks(t, q)
  /\ q \notin stopped /\ events[q] = <<>> /\ ~SeesEnd(q)
  /\ asleep' = [asleep EXCEPT ![q] = @ \cup {t}]
  /\ woken' = [woken EXCEPT ![q] = @ \ {t}]
  /\ UNCHANGED <<events, stopped, alive, subscribed, ok>>

\* waitEvent returns the oldest event.
WaitTake(t, q) ==
  /\ Looks(t, q)
  /\ q \notin stopped /\ events[q] # <<>> /\ ~SeesEnd(q)
  /\ events' = [events EXCEPT ![q] = Tail(@)]
  /\ woken' = [woken EXCEPT ![q] = @ \ {t}]
  /\ UNCHANGED <<stopped, alive, subscribed, asleep, ok>>

\* waitEvent returns the undefined event; a RosEventQueue stops itself first.
WaitUndefined(t, q) ==
  /\ Looks(t, q)
  /\ q \in stopped \/ SeesEnd(q)
  /\ stopped' = stopped \cup {q}
  /\ woken' = [woken EXCEPT ![q] = @ \ {t}]
  /\ UNCHANGED <<events, alive, subscribed, asleep, ok>>

\* timed_wait of RosEventQueue::waitEvent.
WaitTimeout(t) ==
  /\ RosRoot
  /\ t \in asleep[Root]
  /\ asleep' = [asleep EXCEPT ![Root] = @ \ {t}]
  /\ woken' = [woken EXCEPT ![Root] = @ \cup {t}]
  /\ UNCHANGED <<events, stopped, alive, subscribed, ok>>

TryGetEvent(q) ==
  /\ q \in alive \ stopped
  /\ events[q] # <<>>
  /\ events' = [events EXCEPT ![q] = Tail(@)]
  /\ UNCHANGED <<stopped, alive, subscribed, asleep, woken, ok>>

DropAll(q) ==
  /\ q \in alive
  /\ events[q] # <<>>
  /\ events' = [events EXCEPT ![q] = <<>>]
  /\ UNCHANGED <<stopped, alive, subscribed, asleep, woken, ok>>

RosStops ==
  /\ RosRoot
  /\ ok
  /\ ok' = FALSE
  /\ UNCHANGED <<events, stopped, alive, subscribed, asleep, woken>>

-----------------------------------------------------------------------------
\* What holds whatever calls the owners of the queues make.

\* While a thread sleeps at a queue, the queue is not stopped, and each event in it is
\* matched by a thread that was woken and has not looked yet.
EventsAwaited ==
  \A q \in Queues : asleep[q] # {} /\ ~SeesEnd(q) =>
    /\ q \notin stopped
    /\ Len(events[q]) <= Cardinality(woken[q])

(***************************************************************************)
(* Closing reaches the whole subtree: while ROS runs, a queue subscribed   *)
(* to a stopped queue is stopped too.  (A RosEventQueue that finds ROS     *)
(* stopped stops itself alone.)                                            *)
(***************************************************************************)
ClosedBelow ==
  ok => \A s \in subscribed : ParentOf[s] \in stopped => s \in stopped
=============================================================================

--------------------------- MODULE CleaningProofs ---------------------------
(***************************************************************************)
(* Theorems about the mission of Cleaning.tla, for any number of points    *)
(* and goals and any bound on the queues: no event is read in a state it   *)
(* was not raised for, the tour visits the points in order, and the bucket *)
(* is where the goal wants it.                                             *)
(***************************************************************************)
EXTENDS Cleaning, EventQueueProofs, SequenceTheorems

USE DEF vars, missionVars, eqVars

\* The machine is on its way out: it will call no other task.
Down == Root \in stopped \/ ~ok

\* The places of the transition events in a sequence; there is one at most.
Live(s) == {i \in DOMAIN s : s[i] \in TransitionEvents}
OneLive(s) == \A i, j \in Live(s) : i = j

\* The goal sent last was for the point the mission is at, and has succeeded.
PointReached == sent \in Goals /\ target[sent] = point /\ phase[sent] = "succeeded"

\* How the FSM, its state and the task that was called for it hang together.
Control ==
  /\ fsm = "enter" => task = "none"
  /\ task \in {"called", "waiting", "waited"} =>
       called = state /\ (fsm = "transitions" \/ (Down /\ fsm \notin {"enter", "done"}))
  /\ task \in {"waiting", "waited"} =>
       called = "Moving" /\ sent \in Goals /\ target[sent] = point
  /\ fsm = "transitions" => called = state
  /\ fsm \in {"enter", "leave", "join"} /\ ~Down => called # state \/ state = "Stop"

\* What a transition event that is on its way says of the rest.
Announces(e) ==
  /\ e \in DOMAIN Transitions[called] /\ called = state
  /\ task \notin {"called", "waiting", "waited"}
  /\ fsm = "transitions" \/ Down
  /\ e = "/arrived" => PointReached

OnTheWay(s) == OneLive(s) /\ \A i \in Live(s) : Announces(s[i])

\* Reached is entered, and its task begins, at the point that was reached.
AtPoint ==
  /\ state = "Reached" /\ called # "Reached" => PointReached
  /\ called = "Reached" /\ task = "called" => PointReached

\* The point before was reached, and the bucket follows the point.
Progress ==
  /\ point > 0 => \E h \in 1..sent : target[h] = point - 1 /\ phase[h] = "succeeded"
  /\ bucket = point \/ (point = 0 /\ bucket = NoPoint)

Inv ==
  /\ TypeOK /\ EQInv
  /\ Control /\ OnTheWay(InFlight) /\ AtPoint /\ Progress
  /\ TourInOrder /\ BucketForTheGoal

-----------------------------------------------------------------------------
(* The transition events.                                                    *)

LEMMA Machine ==
  /\ DOMAIN Transitions["Stop"] = {"/start"} /\ Transitions["Stop"]["/start"] = "Moving"
  /\ DOMAIN Transitions["Moving"] = {"/arrived", "/timeOut"}
  /\ Transitions["Moving"]["/arrived"] = "Reached" /\ Transitions["Moving"]["/timeOut"] = "Stop"
  /\ DOMAIN Transitions["Reached"] = {"/more_goal", "/no_goal"}
  /\ Transitions["Reached"]["/more_goal"] = "Moving"
  /\ Transitions["Reached"]["/no_goal"] = "Stop"
BY DEF Transitions

LEMMA TransitionEventsAre ==
  TransitionEvents = {"/start", "/arrived", "/timeOut", "/more_goal", "/no_goal"}
BY Machine DEF TransitionEvents, States

\* Where an event leads: elsewhere, and to Reached only from Moving with an arrival.
LEMMA Leads ==
  ASSUME NEW s \in States, NEW e \in DOMAIN Transitions[s]
  PROVE  /\ e \in TransitionEvents
         /\ Transitions[s][e] \in States /\ Transitions[s][e] # s
         /\ Transitions[s][e] = "Reached" => e = "/arrived"
<1>1. CASE s = "Stop"
  BY <1>1, Machine, TransitionEventsAre DEF States
<1>2. CASE s = "Moving"
  BY <1>2, Machine, TransitionEventsAre DEF States
<1>3. CASE s = "Reached"
  BY <1>3, Machine, TransitionEventsAre DEF States
<1> QED
  BY <1>1, <1>2, <1>3 DEF States

-----------------------------------------------------------------------------
(* Sequences of events.                                                      *)

LEMMA Joined ==
  ASSUME NEW S, NEW s \in Seq(S), NEW t \in Seq(S)
  PROVE  /\ s \o t \in Seq(S) /\ Len(s \o t) = Len(s) + Len(t)
         /\ \A i \in 1..Len(s) : (s \o t)[i] = s[i]
         /\ \A i \in 1..Len(t) : (s \o t)[Len(s) + i] = t[i]
OBVIOUS

\* The transition events of r are among those of s, but for the one at k.
Without(s, r, k) ==
  /\ OneLive(r)
  /\ \A i \in Live(r) : \E j \in Live(s) : j # k /\ s[j] = r[i]

LEMMA Removed ==
  ASSUME NEW S, NEW s \in Seq(S), NEW r \in Seq(S), NEW k \in 1..Len(s),
         Len(r) = Len(s) - 1,
         \A i \in 1..Len(r) : r[i] = IF i < k THEN s[i] ELSE s[i + 1],
         OneLive(s)
  PROVE  Without(s, r, k)
<1> DEFINE f(i) == IF i < k THEN i ELSE i + 1
<1>1. \A i \in 1..Len(r) : f(i) \in 1..Len(s) /\ f(i) # k /\ r[i] = s[f(i)]
  OBVIOUS
<1>2. \A i, j \in 1..Len(r) : f(i) = f(j) => i = j
  OBVIOUS
<1>3. \A i \in Live(r) : i \in 1..Len(r) /\ f(i) \in Live(s)
  BY <1>1 DEF Live
<1> HIDE DEF f
<1>4. OneLive(r)
  BY <1>2, <1>3 DEF OneLive
<1> QED
  BY <1>1, <1>3, <1>4 DEF Without

\* An event that joins is the only transition event, or is none.
LEMMA Extended ==
  ASSUME NEW S, NEW s \in Seq(S), NEW r \in Seq(S), NEW e \in S,
         Len(r) = Len(s) + 1, r[Len(s) + 1] = e, \A i \in 1..Len(s) : r[i] = s[i],
         OneLive(s), Live(s) = {} \/ e \notin TransitionEvents
  PROVE  /\ OneLive(r)
         /\ \A i \in Live(r) :
              \/ i \in Live(s) /\ r[i] = s[i]
              \/ r[i] = e /\ e \in TransitionEvents
<1>1. DOMAIN r = 1..(Len(s) + 1) /\ DOMAIN s = 1..Len(s) /\ Len(s) \in Nat
  OBVIOUS
<1>2. ASSUME NEW i \in Live(r)
      PROVE  \/ i \in Live(s) /\ r[i] = s[i]
             \/ i = Len(s) + 1 /\ r[i] = e /\ e \in TransitionEvents
  BY <1>1 DEF Live
<1> QED
  BY <1>1, <1>2 DEF OneLive

\* The first event is taken from the queue.
LEMMA Taken ==
  ASSUME NEW S, NEW s \in Seq(S), NEW t \in Seq(S), s # <<>>, OneLive(s \o t)
  PROVE  /\ Without(s \o t, Tail(s) \o t, 1)
         /\ 1 \in DOMAIN (s \o t) /\ (s \o t)[1] = Head(s)
<1>1. /\ Tail(s) \in Seq(S) /\ Len(Tail(s)) = Len(s) - 1 /\ Len(s) \in Nat \ {0}
      /\ \A i \in 1..(Len(s) - 1) : Tail(s)[i] = s[i + 1]
      /\ Head(s) = s[1] /\ Len(t) \in Nat
  OBVIOUS
<1>2. /\ s \o t \in Seq(S) /\ Len(s \o t) = Len(s) + Len(t)
      /\ \A i \in 1..Len(s) : (s \o t)[i] = s[i]
      /\ \A i \in 1..Len(t) : (s \o t)[Len(s) + i] = t[i]
  BY Joined
<1>3. /\ Tail(s) \o t \in Seq(S) /\ Len(Tail(s) \o t) = Len(s) - 1 + Len(t)
      /\ \A i \in 1..(Len(s) - 1) : (Tail(s) \o t)[i] = s[i + 1]
      /\ \A i \in 1..Len(t) : (Tail(s) \o t)[Len(s) - 1 + i] = t[i]
  BY <1>1, Joined
<1>4. ASSUME NEW i \in 1..(Len(s) + Len(t) - 1)
      PROVE  (Tail(s) \o t)[i] = (s \o t)[i + 1]
  <2>1. CASE i \in 1..(Len(s) - 1)
    BY <1>1, <1>2, <1>3, <2>1
  <2>2. CASE i >= Len(s)
    <3>1. i - (Len(s) - 1) \in 1..Len(t)
      BY <1>1, <2>2
    <3>2. (s \o t)[Len(s) + (i - (Len(s) - 1))] = t[i - (Len(s) - 1)]
      BY <1>2, <3>1
    <3>3. (Tail(s) \o t)[Len(s) - 1 + (i - (Len(s) - 1))] = t[i - (Len(s) - 1)]
      BY <1>3, <3>1
    <3> QED
      BY <1>1, <3>2, <3>3
  <2> QED
    BY <1>1, <2>1, <2>2
<1>5. Without(s \o t, Tail(s) \o t, 1)
  <2>1. 1 \in 1..Len(s \o t) /\ Len(Tail(s) \o t) = Len(s \o t) - 1
    BY <1>1, <1>2, <1>3
  <2>2. \A i \in 1..Len(Tail(s) \o t) :
          (Tail(s) \o t)[i] = IF i < 1 THEN (s \o t)[i] ELSE (s \o t)[i + 1]
    BY <1>1, <1>3, <1>4
  <2> QED
    BY <1>2, <1>3, <2>1, <2>2, Removed
<1> QED
  BY <1>1, <1>2, <1>5

\* The first event of the topic passes a queue that keeps nothing.
LEMMA Passed ==
  ASSUME NEW S, NEW s \in Seq(S), NEW t \in Seq(S), t # <<>>, OneLive(s \o t)
  PROVE  Without(s \o t, s \o Tail(t), Len(s) + 1)
<1>1. /\ Tail(t) \in Seq(S) /\ Len(Tail(t)) = Len(t) - 1 /\ Len(t) \in Nat \ {0}
      /\ \A i \in 1..(Len(t) - 1) : Tail(t)[i] = t[i + 1]
      /\ Len(s) \in Nat
  OBVIOUS
<1>2. /\ s \o t \in Seq(S) /\ Len(s \o t) = Len(s) + Len(t)
      /\ \A i \in 1..Len(s) : (s \o t)[i] = s[i]
      /\ \A i \in 1..Len(t) : (s \o t)[Len(s) + i] = t[i]
  BY Joined
<1>3. /\ s \o Tail(t) \in Seq(S) /\ Len(s \o Tail(t)) = Len(s) + Len(t) - 1
      /\ \A i \in 1..Len(s) : (s \o Tail(t))[i] = s[i]
      /\ \A i \in 1..(Len(t) - 1) : (s \o Tail(t))[Len(s) + i] = t[i + 1]
  BY <1>1, Joined
<1>4. ASSUME NEW i \in 1..(Len(s) + Len(t) - 1)
      PROVE  (s \o Tail(t))[i] = IF i < Len(s) + 1 THEN (s \o t)[i] ELSE (s \o t)[i + 1]
  <2>1. CASE i \in 1..Len(s)
    BY <1>1, <1>2, <1>3, <2>1
  <2>2. CASE i > Len(s)
    <3>1. i - Len(s) \in 1..(Len(t) - 1)
      BY <1>1, <2>2
    <3>2. (s \o t)[Len(s) + (i - Len(s) + 1)] = t[i - Len(s) + 1]
      BY <1>1, <1>2, <3>1
    <3>3. (s \o Tail(t))[Len(s) + (i - Len(s))] = t[i - Len(s) + 1]
      BY <1>3, <3>1
    <3> QED
      BY <1>1, <2>2, <3>2, <3>3
  <2> QED
    BY <1>1, <2>1, <2>2
<1>5. /\ Len(s) + 1 \in 1..Len(s \o t) /\ Len(s \o Tail(t)) = Len(s \o t) - 1
      /\ \A i \in 1..Len(s \o Tail(t)) :
           (s \o Tail(t))[i] = IF i < Len(s) + 1 THEN (s \o t)[i] ELSE (s \o t)[i + 1]
  BY <1>1, <1>2, <1>3, <1>4
<1> QED
  BY <1>2, <1>3, <1>5, Removed

\* The first event of the topic goes into the queue: nothing is gone.
LEMMA HandedOver ==
  ASSUME NEW S, NEW s \in Seq(S), NEW t \in Seq(S), t # <<>>
  PROVE  Append(s, Head(t)) \o Tail(t) = s \o t
<1>1. Head(t) \in S /\ Tail(t) \in Seq(S) /\ <<Head(t)>> \in Seq(S)
  BY HeadTailProperties
<1>2. <<Head(t)>> \o Tail(t) = t
  <2>1. Len(t) \in Nat \ {0} /\ Head(t) = t[1] /\ Tail(t) = SubSeq(t, 2, Len(t))
    BY EmptySeq, TailIsSubSeq
  <2>2. SubSeq(t, 1, Len(t)) = <<t[1]>> \o SubSeq(t, 1 + 1, Len(t))
    BY <2>1, SubSeqRecursiveFirst
  <2> QED
    BY <2>1, <2>2, SubSeqFull
<1>3. Append(s, Head(t)) = s \o <<Head(t)>>
  BY <1>1, AppendIsConcat
<1>4. (s \o <<Head(t)>>) \o Tail(t) = s \o (<<Head(t)>> \o Tail(t))
  BY <1>1, ConcatAssociative
<1> QED
  BY <1>2, <1>3, <1>4

-----------------------------------------------------------------------------
LEMMA InitInv == Init => Inv
<1> SUFFICES ASSUME Init
             PROVE  Inv
  OBVIOUS
<1>1. EQInv
  BY EQInitInv DEF Init
<1>2. TypeOK
  <2>1. phase \in [Goals -> Nav!Phases]
    BY DEF Init, Nav!Init, Nav!Goals, Goals, Nav!Phases
  <2>2. 0 \in Points /\ 0 \in 0..MaxGoals
    BY CleaningAssumption DEF Points
  <2> QED
    BY <1>1, <2>1, <2>2 DEF Init, TypeOK, EQInv, States, Goals
<1>3. InFlight = <<>>
  <2>1. events[Root] = <<>> /\ topic = <<>>
    BY QueuesAssumption DEF Init, EQInit
  <2> QED
    BY <2>1 DEF InFlight
<1>4. OnTheWay(InFlight)
  BY <1>3 DEF OnTheWay, OneLive, Live
<1>5. Control /\ AtPoint
  BY DEF Init, Control, AtPoint
<1>6. Progress /\ TourInOrder
  BY DEF Init, Progress, TourInOrder
<1>7. BucketForTheGoal
  BY DEF Init, BucketForTheGoal, Goals
<1> QED
  BY <1>1, <1>2, <1>4, <1>5, <1>6, <1>7 DEF Inv

\* Every step is at most one call of the event queues, which keep what they promise.
LEMMA EQStep ==
  ASSUME Inv, [Next]_vars
  PROVE  EQInv' /\ (Down => Down')
<1> USE DEF Inv, TypeOK
<1>1. Root \in Queues /\ "task" \in Queues \ {Root} /\ "fsm" \in Threads
  BY CleaningAssumption
<1>2. CASE FsmEnterState
  BY <1>1, <1>2, AnyCallInv DEF FsmEnterState, AnyCall, Down, Construct
<1>3. CASE FsmWait
  <2>1. WaiterCall("fsm", Root) \/ WaitTimeout("fsm")
    BY <1>3 DEF FsmWait, WaiterCall
  <2>2. stopped \subseteq stopped' /\ ok' = ok
    BY <2>1 DEF WaiterCall, WaitSleep, WaitTake, WaitUndefined, WaitTimeout
  <2> QED
    BY <1>1, <2>1, <2>2, AnyCallInv DEF AnyCall, Down
<1>4. CASE FsmStopEvents \/ FsmJoin
  <2>1. Close("task") \/ Destroy("task")
    BY <1>4 DEF FsmStopEvents, FsmJoin
  <2>2. stopped \subseteq stopped' /\ ok' = ok
    BY <2>1 DEF Close, StopAll, Destroy
  <2> QED
    BY <1>1, <2>1, <2>2, AnyCallInv DEF AnyCall, Down
<1>5. CASE OnNewEvent
  <2>1. Head(topic) \in Events /\ RaiseEvent(Head(topic))
    BY <1>5 DEF OnNewEvent
  <2> QED
    BY <2>1, AnyCallInv DEF AnyCall, RaiseEvent, Down
<1>6. CASE NodeStops
  BY <1>6, AnyCallInv DEF NodeStops, AnyCall, RosStops, Down
<1>7. CASE Task \/ MoveBaseStep \/ Exited \/ UNCHANGED vars
  <2>1. UNCHANGED eqVars
    BY <1>7 DEF Task, CleaningBegin, NextGoal, SendGoal, WaitForResult, RaiseOutcome, TaskEnds,
       TaskUnchanged, MoveBaseStep, Exited
  <2> QED
    BY <2>1, AnyCallInv DEF Down
<1> QED
  BY <1>2, <1>3, <1>4, <1>5, <1>6, <1>7 DEF Next, Fsm

\* What a step of move_base does to the goals.
LEMMA NavStep ==
  ASSUME Inv, NEW g \in Goals, Nav!TakeUp(g) \/ Nav!Conclude(g)
  PROVE  /\ phase' \in [Goals -> Nav!Phases]
         /\ \A h \in Goals :
              /\ phase[h] = "succeeded" => phase'[h] = "succeeded"
              /\ phase'[h] \in {"queued", "pursued"} => phase[h] \in {"queued", "pursued"}
BY DEF Inv, TypeOK, Nav!TakeUp, Nav!Conclude, Nav!Phases, Nav!Goals, Goals

\* A goal that is sent may be canceled, queued or lost, and cancels no success.
LEMMA SubmitStep ==
  ASSUME Inv, NEW g \in Goals, Nav!Submit(g) \/ UNCHANGED phase
  PROVE  /\ phase' \in [Goals -> Nav!Phases]
         /\ \A h \in Goals : phase[h] = "succeeded" => phase'[h] = "succeeded"
BY DEF Inv, TypeOK, Nav!Submit, Nav!Phases, Nav!Goals, Goals

LEMMA TypeStep ==
  ASSUME Inv, [Next]_vars
  PROVE  TypeOK'
<1> USE DEF TypeOK, Inv
<1>1. EQTypeOK'
  BY EQStep DEF EQInv
<1>2. CASE FsmEnterState
  BY <1>1, <1>2 DEF FsmEnterState
<1>3. CASE FsmWait
  <2>1. ASSUME Head(events[Root]) \in DOMAIN Transitions[state]
        PROVE  Transitions[state][Head(events[Root])] \in States
    BY <2>1, Leads
  <2> QED
    BY <1>1, <1>3, <2>1 DEF FsmWait
<1>4. CASE FsmStopEvents \/ FsmJoin \/ NodeStops \/ Exited \/ UNCHANGED vars
  BY <1>1, <1>4 DEF FsmStopEvents, FsmJoin, NodeStops, Exited
<1>5. CASE OnNewEvent
  <2>1. topic' \in Seq(Events)
    BY <1>5 DEF OnNewEvent
  <2> QED
    BY <1>1, <1>5, <2>1 DEF OnNewEvent
<1>6. CASE CleaningBegin \/ WaitForResult \/ RaiseOutcome \/ TaskEnds
  <2>1. {"/start", "/arrived", "/timeOut", "result"} \subseteq Events
    BY CleaningAssumption
  <2>2. topic' = topic \/ \E e \in Events : topic' = Append(topic, e)
    <3>1. CASE CleaningBegin \/ WaitForResult
      BY <2>1, <3>1 DEF CleaningBegin, WaitForResult, Publish
    <3>2. CASE RaiseOutcome \/ TaskEnds
      BY <2>1, <3>2 DEF RaiseOutcome, TaskEnds, Publish
    <3> QED
      BY <1>6, <3>1, <3>2
  <2>3. topic' \in Seq(Events)
    BY <2>2
  <2> QED
    BY <1>1, <1>6, <2>3 DEF CleaningBegin, WaitForResult, RaiseOutcome, TaskEnds, TaskUnchanged
<1>7. CASE NextGoal
  <2>1. topic' \in Seq(Events)
    BY <1>7, CleaningAssumption DEF NextGoal, Publish
  <2>2. point' \in Points /\ bucket' \in Points \cup {NoPoint}
    BY <1>7, CleaningAssumption DEF NextGoal, PointLeft, BucketOfNext, Points
  <2> QED
    BY <1>1, <1>7, <2>1, <2>2 DEF NextGoal, TaskUnchanged
<1>8. CASE SendGoal
  <2>1. sent' \in 0..MaxGoals /\ sent' \in Goals
    BY <1>8, CleaningAssumption DEF SendGoal, Goals
  <2>2. phase' \in [Goals -> Nav!Phases]
    BY <1>8, <2>1, SubmitStep DEF SendGoal
  <2> QED
    BY <1>1, <1>8, <2>1, <2>2 DEF SendGoal, TaskUnchanged
<1>9. CASE MoveBaseStep
  BY <1>1, <1>9, NavStep DEF MoveBaseStep
<1> QED
  BY <1>2, <1>3, <1>4, <1>5, <1>6, <1>7, <1>8, <1>9 DEF Next, Fsm, Task

-----------------------------------------------------------------------------
(* The invariant, step by step.  Joint is what concerns the threads and the  *)
(* events that are on their way, Rest what concerns goals and points.        *)

LEMMA InFlightType ==
  ASSUME Inv
  PROVE  /\ events[Root] \in Seq(Events \cup {SpinEvent}) /\ topic \in Seq(Events \cup {SpinEvent})
         /\ InFlight \in Seq(Events \cup {SpinEvent})
<1>1. topic \in Seq(Events) /\ events[Root] \in Seq(Events \cup {SpinEvent})
  BY QueuesAssumption DEF Inv, TypeOK, EQTypeOK
<1>2. topic \in Seq(Events \cup {SpinEvent})
  BY <1>1, SeqMonotonic
<1> QED
  BY <1>1, <1>2, Joined DEF InFlight

\* Steps on which no event is raised, taken or lost, and no goal is sent.
LEMMA SameInFlight ==
  ASSUME Inv, UNCHANGED <<phase, sent, target, point, state>>, InFlight' = InFlight, Down => Down',
         Live(InFlight) = {} \/ UNCHANGED <<called, fsm>> \/ (called' = called /\ Down'),
         task' \in {"called", "waiting", "waited"} =>
            task \in {"called", "waiting", "waited"} \/ Live(InFlight) = {}
  PROVE  OnTheWay(InFlight)'
BY DEF Inv, OnTheWay, OneLive, Announces, PointReached, Live

\* Joint, the part of the invariant that is about threads and events.
Joint == Control /\ OnTheWay(InFlight) /\ AtPoint

LEMMA FsmEnterStep ==
  ASSUME Inv, FsmEnterState
  PROVE  Joint'
<1> USE DEF Inv, FsmEnterState, Joint
<1>1. /\ UNCHANGED <<phase, sent, target, state, point, bucket, topic>>
      /\ fsm = "enter" /\ task = "none"
  BY DEF Control
<1>2. CASE ok /\ Root \notin stopped
  <2>1. Construct("task") /\ task' = "called" /\ called' = state /\ fsm' = "transitions"
    BY <1>2
  <2>2. events'[Root] = events[Root]
    BY <2>1, CleaningAssumption DEF Construct, TypeOK, EQTypeOK
  <2>3. ~Down /\ ~Down'
    BY <1>2, <2>1, CleaningAssumption DEF Construct, Down
  <2>4. Live(InFlight) = {}
    BY <1>1, <2>3 DEF OnTheWay, Announces
  <2>5. InFlight' = InFlight
    BY <1>1, <2>2 DEF InFlight
  <2>6. OnTheWay(InFlight)'
    BY <1>1, <2>1, <2>3, <2>4, <2>5, SameInFlight
  <2>7. Control' /\ AtPoint'
    BY <1>1, <2>1, <2>3 DEF Control, AtPoint, PointReached
  <2> QED
    BY <2>6, <2>7
<1>3. CASE ~(ok /\ Root \notin stopped)
  <2>1. UNCHANGED <<eqVars, task, called>> /\ fsm' = "done"
    BY <1>3
  <2>2. InFlight' = InFlight /\ Down /\ Down'
    BY <1>1, <1>3, <2>1 DEF InFlight, Down
  <2>3. OnTheWay(InFlight)'
    BY <1>1, <2>1, <2>2, SameInFlight
  <2>4. Control' /\ AtPoint'
    BY <1>1, <2>1, <2>2 DEF Control, AtPoint, PointReached
  <2> QED
    BY <2>3, <2>4
<1> QED
  BY <1>2, <1>3

\* waitEvent takes the first event of the queue: a transition leads on, and there is
\* no other on its way.
LEMMA FsmTakeStep ==
  ASSUME Inv, FsmWait, WaitTake("fsm", Root)
  PROVE  Joint'
<1> DEFINE e == Head(events[Root])
<1> USE DEF Inv, Joint
<1>1. /\ UNCHANGED <<phase, sent, target, task, called, point, bucket, topic, stopped, ok>>
      /\ fsm = "transitions" /\ called = state /\ state \in States /\ Down' = Down
      /\ \/ e \in DOMAIN Transitions[state] /\ fsm' = "leave" /\ state' = Transitions[state][e]
         \/ e \notin DOMAIN Transitions[state] /\ UNCHANGED <<fsm, state>>
  <2>1. ~WaitSleep("fsm", Root) /\ ~WaitUndefined("fsm", Root)
    BY DEF WaitTake, WaitSleep, WaitUndefined
  <2>2. ~WaitTimeout("fsm")
    BY QueuesAssumption DEF WaitTake, WaitTimeout, TypeOK, EQTypeOK
  <2>3. UNCHANGED <<stopped, ok>>
    BY DEF WaitTake
  <2>4. fsm = "transitions" /\ called = state /\ state \in States /\ Down' = Down
    BY <2>3 DEF FsmWait, Control, TypeOK, Down
  <2> QED
    BY <2>1, <2>2, <2>3, <2>4 DEF FsmWait
<1>2. events[Root] # <<>> /\ events'[Root] = Tail(events[Root])
  BY CleaningAssumption DEF WaitTake, TypeOK, EQTypeOK
<1>3. /\ Without(InFlight, InFlight', 1)
      /\ 1 \in DOMAIN InFlight /\ InFlight[1] = e
  BY <1>1, <1>2, InFlightType, Taken DEF InFlight, OnTheWay
<1>4. CASE e \in DOMAIN Transitions[state]
  <2>1. /\ e \in TransitionEvents /\ state' # state /\ state' \in States
        /\ state' = "Reached" => e = "/arrived"
    BY <1>1, <1>4, Leads
  <2>2. 1 \in Live(InFlight) /\ Announces(e)
    BY <1>3, <2>1 DEF Live, OnTheWay
  <2>3. Live(InFlight') = {}
    BY <1>3, <2>2 DEF Without, OnTheWay, OneLive
  <2>4. OnTheWay(InFlight)'
    BY <2>3 DEF OnTheWay, OneLive, Live
  <2>5. Control' /\ AtPoint'
    BY <1>1, <1>4, <2>1, <2>2 DEF Control, AtPoint, Announces, PointReached, Down
  <2> QED
    BY <2>4, <2>5
<1>5. CASE e \notin DOMAIN Transitions[state]
  <2>1. UNCHANGED <<phase, sent, target, task, called, point, bucket, fsm, state>>
    BY <1>1, <1>5
  <2>2. OnTheWay(InFlight)'
    BY <1>1, <1>3, <2>1 DEF Without, OnTheWay, OneLive, Announces, PointReached, Live
  <2>3. Control' /\ AtPoint'
    BY <1>1, <2>1 DEF Control, AtPoint, PointReached
  <2> QED
    BY <2>2, <2>3
<1> QED
  BY <1>4, <1>5

LEMMA FsmOtherStep ==
  ASSUME Inv, Down => Down', FsmStopEvents \/ FsmJoin \/ (FsmWait /\ ~WaitTake("fsm", Root))
  PROVE  Joint'
<1> USE DEF Inv, Joint
<1>1. CASE FsmWait /\ ~WaitTake("fsm", Root)
  <2>1. /\ UNCHANGED <<phase, sent, target, task, called, point, bucket, topic, state, events>>
        /\ fsm = "transitions" /\ (fsm' = fsm \/ (fsm' = "leave" /\ Down'))
    BY <1>1 DEF FsmWait, WaitSleep, WaitTimeout, WaitUndefined, Down
  <2>2. InFlight' = InFlight
    BY <2>1 DEF InFlight
  <2>3. OnTheWay(InFlight)'
    BY <2>1, <2>2, SameInFlight
  <2>4. Control' /\ AtPoint'
    BY <2>1 DEF Control, AtPoint, PointReached
  <2> QED
    BY <2>3, <2>4
<1>2. CASE FsmStopEvents \/ FsmJoin
  <2>1. /\ UNCHANGED <<phase, sent, target, called, point, bucket, topic, state, events>>
        /\ \/ fsm = "leave" /\ fsm' = "join" /\ task' = task
           \/ fsm = "join" /\ fsm' = "enter" /\ task = "ended" /\ task' = "none"
    BY <1>2 DEF FsmStopEvents, FsmJoin, Close, Destroy
  <2>2. InFlight' = InFlight
    BY <2>1 DEF InFlight
  <2>3. Live(InFlight) = {} \/ Down
    BY <2>1 DEF OnTheWay, Announces
  <2>4. OnTheWay(InFlight)'
    BY <2>1, <2>2, <2>3, SameInFlight
  <2>5. Control' /\ AtPoint'
    BY <2>1 DEF Control, AtPoint, PointReached
  <2> QED
    BY <2>4, <2>5
<1> QED
  BY <1>1, <1>2

\* An event that comes over the topic goes to the end of the queue, which may lose its
\* first one, or passes a queue that keeps none.
LEMMA OnNewEventStep ==
  ASSUME Inv, OnNewEvent
  PROVE  Joint'
<1> DEFINE E == Events \cup {SpinEvent}
           s == events[Root]
           e == Head(topic)
<1> USE DEF Inv, Joint
<1>1. /\ UNCHANGED <<phase, sent, target, fsm, state, task, called, point, bucket, stopped, ok>>
      /\ topic # <<>> /\ topic' = Tail(topic) /\ Deliver(e)
  BY DEF OnNewEvent, RaiseEvent
<1>2. s \in Seq(E) /\ topic \in Seq(E) /\ e \in E /\ e # SpinEvent /\ MaxUnread \in Nat
  <2>1. e \in Events
    BY <1>1 DEF TypeOK
  <2> QED
    BY <2>1, InFlightType, QueuesAssumption
<1>3. events'[Root] = Added(Root, e)
  BY <1>1, CleaningAssumption, QueuesAssumption DEF Deliver, Below
<1>4. \/ events'[Root] = s \/ events'[Root] = Append(s, e)
      \/ s # <<>> /\ events'[Root] = Append(Tail(s), e)
  BY <1>2, <1>3 DEF Added
<1>5. OneLive(InFlight)
  BY DEF OnTheWay
<1>6. \/ InFlight' = InFlight
      \/ \E k \in Int : Without(InFlight, InFlight', k)
  <2>1. CASE events'[Root] = s
    <3>1. Without(InFlight, InFlight', Len(s) + 1)
      BY <1>1, <1>2, <1>5, <2>1, Passed DEF InFlight
    <3> QED
      BY <1>2, <3>1
  <2>2. CASE events'[Root] = Append(s, e)
    BY <1>1, <1>2, <2>2, HandedOver DEF InFlight
  <2>3. CASE s # <<>> /\ events'[Root] = Append(Tail(s), e)
    <3>1. Tail(s) \in Seq(E)
      BY <1>2, <2>3
    <3>2. InFlight' = Tail(s) \o topic
      BY <1>1, <1>2, <2>3, <3>1, HandedOver DEF InFlight
    <3>3. Without(InFlight, Tail(s) \o topic, 1)
      BY <1>2, <1>5, <2>3, Taken DEF InFlight
    <3> QED
      BY <3>2, <3>3
  <2> QED
    BY <1>4, <2>1, <2>2, <2>3
<1>7. OnTheWay(InFlight)'
  BY <1>1, <1>6 DEF Without, OnTheWay, OneLive, Live, Announces, PointReached, Down
<1>8. Control' /\ AtPoint'
  BY <1>1 DEF Control, AtPoint, PointReached, Down
<1> QED
  BY <1>7, <1>8

\* What becomes of the events on their way when e is published.
Joins(s, r, e) ==
  /\ OneLive(r)
  /\ \A i \in Live(r) :
       \/ i \in Live(s) /\ r[i] = s[i]
       \/ r[i] = e /\ e \in TransitionEvents

\* The task publishes an event, when no other transition event is on its way.
LEMMA Published ==
  ASSUME Inv, NEW e \in Events, UNCHANGED events, topic' = Append(topic, e),
         Live(InFlight) = {} \/ e \notin TransitionEvents
  PROVE  Joins(InFlight, InFlight', e)
<1> DEFINE E == Events \cup {SpinEvent}
           s == events[Root]
           r == Append(InFlight, e)
<1>1. /\ s \in Seq(E) /\ topic \in Seq(E) /\ <<e>> \in Seq(E)
      /\ InFlight \in Seq(E) /\ e \in E /\ OneLive(InFlight)
  BY InFlightType DEF Inv, OnTheWay
<1>2. InFlight' = r
  <2>1. InFlight' = s \o (topic \o <<e>>)
    BY <1>1, AppendIsConcat DEF InFlight
  <2>2. s \o (topic \o <<e>>) = (s \o topic) \o <<e>>
    <3> HIDE DEF s, E
    <3> QED
      BY <1>1, ConcatAssociative
  <2>3. r = InFlight \o <<e>>
    BY <1>1, AppendIsConcat
  <2> QED
    BY <2>1, <2>2, <2>3 DEF InFlight
<1>3. /\ r \in Seq(E) /\ Len(r) = Len(InFlight) + 1 /\ r[Len(InFlight) + 1] = e
      /\ \A i \in 1..Len(InFlight) : r[i] = InFlight[i]
  BY <1>1, AppendProperties
<1> HIDE DEF r
<1>4. Joins(InFlight, r, e)
  BY <1>1, <1>3, Extended DEF Joins
<1> QED
  BY <1>2, <1>4

\* While the task has not returned, no transition event is on its way, and the FSM waits
\* in its state or is on its way out.
LEMMA NothingOnTheWay ==
  ASSUME Inv, task \in {"called", "waiting", "waited"}
  PROVE  /\ Live(InFlight) = {} /\ called = state
         /\ fsm = "transitions" \/ Down
BY DEF Inv, OnTheWay, Announces, Control

LEMMA RaiseStep ==
  ASSUME Inv, CleaningBegin \/ NextGoal \/ RaiseOutcome
  PROVE  Joint'
<1> USE DEF Inv, Joint
<1>1. /\ task \in {"called", "waited"} /\ task' = "returned"
      /\ UNCHANGED <<eqVars, fsm, state, called, phase, sent, target>>
  BY DEF CleaningBegin, NextGoal, RaiseOutcome, TaskUnchanged
<1>2. /\ Live(InFlight) = {} /\ called = state /\ (fsm = "transitions" \/ Down)
      /\ (Down <=> Down')
  BY <1>1, NothingOnTheWay DEF Down
<1>3. Control' /\ AtPoint'
  <2>1. state = "Reached" => called = "Reached"
    BY <1>2
  <2> QED
    BY <1>1, <1>2, <2>1 DEF Control, AtPoint
<1>4. CASE topic' = topic
  <2>1. InFlight' = InFlight
    BY <1>1, <1>4 DEF InFlight
  <2> QED
    BY <1>2, <1>3, <2>1 DEF OnTheWay, OneLive, Live
<1>5. ASSUME NEW e \in DOMAIN Transitions[called], e \in Events, topic' = Append(topic, e),
             e = "/arrived" => PointReached'
      PROVE  Joint'
  <2>1. /\ OneLive(InFlight')
        /\ \A i \in Live(InFlight') : InFlight'[i] = e
    BY <1>1, <1>2, <1>5, Published DEF Joins
  <2>2. Announces(e)'
    BY <1>1, <1>2, <1>5 DEF Announces
  <2>3. OnTheWay(InFlight)'
    BY <2>1, <2>2 DEF OnTheWay, OneLive, Live
  <2> QED
    BY <1>3, <2>3
<1>6. {"/start", "/arrived", "/timeOut", "/more_goal", "/no_goal"} \subseteq Events
  BY CleaningAssumption
<1>7. CASE CleaningBegin
  <2>1. "/start" \in DOMAIN Transitions[called] /\ (topic' = topic \/ topic' = Append(topic, "/start"))
    BY <1>7, Machine DEF CleaningBegin, Publish
  <2> QED
    BY <1>4, <1>5, <1>6, <2>1
<1>8. CASE NextGoal
  <2>1. /\ "/more_goal" \in DOMAIN Transitions[called] /\ "/no_goal" \in DOMAIN Transitions[called]
        /\ topic' = Append(topic, "/more_goal") \/ topic' = Append(topic, "/no_goal")
    BY <1>8, Machine DEF NextGoal, Publish
  <2> QED
    BY <1>5, <1>6, <2>1
<1>9. CASE RaiseOutcome
  <2>1. task = "waited" /\ called = "Moving" /\ sent \in Goals /\ target[sent] = point /\ point' = point
    BY <1>9 DEF RaiseOutcome, Control
  <2>2. /\ "/arrived" \in DOMAIN Transitions[called] /\ "/timeOut" \in DOMAIN Transitions[called]
        /\ \/ phase[sent] = "succeeded" /\ topic' = Append(topic, "/arrived")
           \/ topic' = Append(topic, "/timeOut")
    BY <1>9, <2>1, Machine DEF RaiseOutcome, Publish
  <2>3. phase[sent] = "succeeded" => PointReached'
    BY <1>1, <2>1 DEF PointReached
  <2> QED
    BY <1>5, <1>6, <2>2, <2>3
<1> QED
  BY <1>7, <1>8, <1>9

LEMMA TaskOtherStep ==
  ASSUME Inv, SendGoal \/ WaitForResult \/ TaskEnds
  PROVE  Joint'
<1> USE DEF Inv, Joint
<1>1. UNCHANGED <<eqVars, fsm, state, called, point>> /\ (Down <=> Down')
  BY DEF SendGoal, WaitForResult, TaskEnds, TaskUnchanged, Down
<1>2. CASE SendGoal \/ WaitForResult
  <2>1. /\ Live(InFlight) = {} /\ called = state /\ (fsm = "transitions" \/ Down)
        /\ called = "Moving" /\ task \in {"called", "waiting"} /\ task' \in {"waiting", "waited"}
        /\ topic' = topic
    BY <1>2, NothingOnTheWay DEF SendGoal, WaitForResult, Control
  <2>2. InFlight' = InFlight
    BY <1>1, <2>1 DEF InFlight
  <2>3. OnTheWay(InFlight)'
    BY <2>1, <2>2 DEF OnTheWay, OneLive, Live
  <2>4. sent' \in Goals /\ target'[sent'] = point
    <3>1. CASE SendGoal
      BY <3>1, CleaningAssumption DEF SendGoal, Goals, TypeOK
    <3>2. CASE WaitForResult
      BY <3>2 DEF WaitForResult, Control
    <3> QED
      BY <1>2, <3>1, <3>2
  <2>5. Control' /\ AtPoint'
    BY <1>1, <2>1, <2>4 DEF Control, AtPoint
  <2> QED
    BY <2>3, <2>5
<1>3. CASE TaskEnds
  <2>1. /\ UNCHANGED <<phase, sent, target>> /\ task = "returned" /\ task' = "ended"
        /\ topic' = Append(topic, "result")
    BY <1>3 DEF TaskEnds, Publish
  <2>2. "result" \in Events /\ "result" \notin TransitionEvents
    BY CleaningAssumption, TransitionEventsAre
  <2>3. /\ OneLive(InFlight')
        /\ \A i \in Live(InFlight') : i \in Live(InFlight) /\ InFlight'[i] = InFlight[i]
    BY <1>1, <2>1, <2>2, Published DEF Joins
  <2>4. ASSUME NEW i \in Live(InFlight')
        PROVE  Announces(InFlight[i])
    BY <2>3 DEF OnTheWay
  <2>5. OnTheWay(InFlight)'
    BY <1>1, <2>1, <2>3, <2>4 DEF OnTheWay, Announces, PointReached, OneLive, Live
  <2>6. Control' /\ AtPoint'
    BY <1>1, <2>1 DEF Control, AtPoint, PointReached
  <2> QED
    BY <2>5, <2>6
<1> QED
  BY <1>2, <1>3

\* move_base and the end of ROS touch neither the threads nor the events.
LEMMA ElsewhereStep ==
  ASSUME Inv, Down => Down', MoveBaseStep \/ NodeStops \/ Exited \/ UNCHANGED vars
  PROVE  Joint'
<1> USE DEF Inv, Joint
<1>1. UNCHANGED <<events, sent, target, fsm, state, task, called, point, bucket, topic>>
  BY DEF MoveBaseStep, NodeStops, RosStops, Exited
<1>2. \A g \in Goals : phase[g] = "succeeded" => phase'[g] = "succeeded"
  <2>1. CASE MoveBaseStep
    BY <2>1, NavStep DEF MoveBaseStep
  <2>2. CASE NodeStops \/ Exited \/ UNCHANGED vars
    BY <2>2 DEF NodeStops, Exited
  <2> QED
    BY <2>1, <2>2
<1>3. PointReached => PointReached'
  BY <1>1, <1>2 DEF PointReached
<1>4. InFlight' = InFlight
  BY <1>1 DEF InFlight
<1>5. \A e : Announces(e) => Announces(e)'
  BY <1>1, <1>3 DEF Announces
<1>6. OnTheWay(InFlight)'
  BY <1>4, <1>5 DEF OnTheWay, OneLive, Live
<1>7. Control' /\ AtPoint'
  BY <1>1, <1>3 DEF Control, AtPoint
<1> QED
  BY <1>6, <1>7

-----------------------------------------------------------------------------
(* The rest of the invariant, about goals and points.                        *)

Rest == Progress /\ TourInOrder /\ BucketForTheGoal

\* Most steps change none of it.
LEMMA RestKept ==
  ASSUME Inv, UNCHANGED <<phase, sent, target, point, bucket>>
  PROVE  Rest'
BY DEF Inv, Rest, Progress, TourInOrder, BucketForTheGoal

LEMMA NavRest ==
  ASSUME Inv, MoveBaseStep
  PROVE  Rest'
<1>1. UNCHANGED <<sent, target, point, bucket>>
  BY DEF MoveBaseStep
<1>2. \A h \in Goals :
        /\ phase[h] = "succeeded" => phase'[h] = "succeeded"
        /\ phase'[h] \in {"queued", "pursued"} => phase[h] \in {"queued", "pursued"}
  BY NavStep DEF MoveBaseStep
<1>3. sent \in Nat /\ MaxGoals \in Nat /\ 1..sent \subseteq Goals
  BY CleaningAssumption DEF Inv, TypeOK, Goals
<1>4. Progress'
  BY <1>1, <1>2, <1>3 DEF Inv, Progress
<1>5. TourInOrder'
  <2> SUFFICES ASSUME NEW g \in 1..sent, target[g] > 0
               PROVE  \E h \in 1..(g - 1) : target[h] = target[g] - 1 /\ phase'[h] = "succeeded"
    BY <1>1 DEF TourInOrder
  <2>1. PICK h \in 1..(g - 1) : target[h] = target[g] - 1 /\ phase[h] = "succeeded"
    BY DEF Inv, TourInOrder
  <2>2. h \in Goals
    BY <1>3
  <2> QED
    BY <1>2, <2>1, <2>2
<1>6. BucketForTheGoal'
  BY <1>1, <1>2 DEF Inv, BucketForTheGoal
<1> QED
  BY <1>4, <1>5, <1>6 DEF Rest

\* The point before the next one was reached, by the goal that was sent last.
LEMMA NextGoalRest ==
  ASSUME Inv, NextGoal, PointLeft
  PROVE  Rest'
<1>1. /\ UNCHANGED <<phase, sent, target>> /\ point' = point + 1 /\ bucket' = point + 1
      /\ point \in Nat /\ MaxGoals \in Nat /\ sent \in 0..MaxGoals
  BY CleaningAssumption DEF NextGoal, BucketOfNext, Inv, TypeOK, Points
<1>2. PointReached
  BY DEF NextGoal, Inv, AtPoint
<1>3. Progress'
  <2>1. sent \in 1..sent /\ point' - 1 = point
    BY <1>1, <1>2 DEF PointReached, Goals
  <2> QED
    BY <1>1, <1>2, <2>1 DEF Progress, PointReached
<1>4. TourInOrder'
  BY <1>1 DEF Inv, TourInOrder
<1>5. BucketForTheGoal'
  BY <1>1, <1>2 DEF BucketForTheGoal, PointReached
<1> QED
  BY <1>3, <1>4, <1>5 DEF Rest

\* A goal is sent for the point the mission is at: the one before was reached earlier.
LEMMA SendRest ==
  ASSUME Inv, SendGoal
  PROVE  Rest'
<1>1. /\ UNCHANGED <<point, bucket>> /\ sent' = sent + 1 /\ sent' \in Goals
      /\ sent \in Nat /\ MaxGoals \in Nat /\ point \in Nat
      /\ target'[sent'] = point /\ \A h \in Goals : h # sent' => target'[h] = target[h]
  BY CleaningAssumption DEF SendGoal, Inv, TypeOK, Goals, Points
<1>2. \A h \in Goals : phase[h] = "succeeded" => phase'[h] = "succeeded"
  BY <1>1, SubmitStep DEF SendGoal
<1>3. \A h \in 1..sent : h \in Goals /\ target'[h] = target[h] /\ h \in 1..sent' /\ h \in 1..(sent' - 1)
  BY <1>1 DEF Goals
<1>4. point > 0 => \E h \in 1..sent : target'[h] = point - 1 /\ phase'[h] = "succeeded"
  BY <1>2, <1>3 DEF Inv, Progress
<1>5. Progress'
  BY <1>1, <1>3, <1>4 DEF Inv, Progress
<1>6. TourInOrder'
  <2> SUFFICES ASSUME NEW g \in 1..sent', target'[g] > 0
               PROVE  \E h \in 1..(g - 1) : target'[h] = target'[g] - 1 /\ phase'[h] = "succeeded"
    BY DEF TourInOrder
  <2>1. CASE g = sent'
    BY <1>1, <1>3, <1>4, <2>1
  <2>2. CASE g # sent'
    <3>1. g \in 1..sent /\ target'[g] = target[g]
      BY <1>1, <1>3, <2>2
    <3>2. PICK h \in 1..(g - 1) : target[h] = target[g] - 1 /\ phase[h] = "succeeded"
      BY <3>1 DEF Inv, TourInOrder
    <3>3. h \in 1..sent
      BY <1>1, <3>1
    <3> QED
      BY <1>2, <1>3, <3>1, <3>2, <3>3
  <2> QED
    BY <2>1, <2>2
<1>7. BucketForTheGoal'
  BY <1>1 DEF Inv, Progress, BucketForTheGoal
<1> QED
  BY <1>5, <1>6, <1>7 DEF Rest

LEMMA NextInv ==
  ASSUME Inv, [Next]_vars
  PROVE  Inv'
<1>1. EQInv' /\ (Down => Down') /\ TypeOK'
  BY EQStep, TypeStep
<1>2. Joint'
  <2>1. CASE FsmEnterState
    BY <2>1, FsmEnterStep
  <2>2. CASE FsmWait \/ FsmStopEvents \/ FsmJoin
    BY <1>1, <2>2, FsmTakeStep, FsmOtherStep
  <2>3. CASE OnNewEvent
    BY <2>3, OnNewEventStep
  <2>4. CASE Task
    BY <2>4, RaiseStep, TaskOtherStep DEF Task
  <2>5. CASE MoveBaseStep \/ NodeStops \/ Exited \/ UNCHANGED vars
    BY <1>1, <2>5, ElsewhereStep
  <2> QED
    BY <2>1, <2>2, <2>3, <2>4, <2>5 DEF Next, Fsm
<1>3. Rest'
  <2>1. CASE Fsm \/ OnNewEvent \/ NodeStops \/ Exited \/ UNCHANGED vars
    <3>1. UNCHANGED <<phase, sent, target, point, bucket>>
      BY <2>1 DEF Fsm, FsmEnterState, FsmWait, FsmStopEvents, FsmJoin, OnNewEvent, NodeStops, Exited
    <3> QED
      BY <3>1, RestKept
  <2>2. CASE CleaningBegin \/ WaitForResult \/ RaiseOutcome \/ TaskEnds \/ (NextGoal /\ ~PointLeft)
    <3>1. UNCHANGED <<phase, sent, target, point, bucket>>
      BY <2>2 DEF CleaningBegin, WaitForResult, RaiseOutcome, TaskEnds, NextGoal
    <3> QED
      BY <3>1, RestKept
  <2>3. CASE NextGoal /\ PointLeft
    BY <2>3, NextGoalRest
  <2>4. CASE SendGoal
    BY <2>4, SendRest
  <2>5. CASE MoveBaseStep
    BY <2>5, NavRest
  <2> QED
    BY <2>1, <2>2, <2>3, <2>4, <2>5 DEF Next, Task
<1> QED
  BY <1>1, <1>2, <1>3 DEF Inv, Joint, Rest

LEMMA InvHolds == Spec => []Inv
<1>1. Inv /\ [Next]_vars => Inv'
  BY NextInv
<1> QED
  BY <1>1, InitInv, PTL DEF Spec

-----------------------------------------------------------------------------
\* cleaning.cpp's tour: a goal goes to move_base only after move_base has succeeded on an
\* earlier goal for the point before, whatever is lost, late, timed out or aborted.
THEOREM GoalsFollowTheTour == Spec => []TourInOrder
BY InvHolds, PTL DEF Inv

\* bucket_msgs: while move_base may pursue the last goal, the bucket was commanded last for
\* that goal's point (never for the first one).
THEOREM BucketIsWhereTheGoalIs == Spec => []BucketForTheGoal
BY InvHolds, PTL DEF Inv

\* The FSM of FSM.h never reads a transition event in a state it was not raised for: one
\* such event at most is on its way, and the FSM is still in the state whose task raised it.
THEOREM NoEventIsStale == Spec => []NoStaleEvent
<1>1. Inv => NoStaleEvent
  <2> SUFFICES ASSUME Inv
               PROVE  NoStaleEvent
    OBVIOUS
  <2>1. Live(InFlight) = {i \in DOMAIN InFlight : InFlight[i] \in TransitionEvents}
    BY DEF Live
  <2>2. Cardinality(Live(InFlight)) <= 1
    <3>1. CASE Live(InFlight) = {}
      BY <3>1, FS_EmptySet
    <3>2. CASE Live(InFlight) # {}
      <4>1. PICK i : Live(InFlight) = {i}
        BY <3>2 DEF Inv, OnTheWay, OneLive
      <4> QED
        BY <4>1, FS_Singleton
    <3> QED
      BY <3>1, <3>2
  <2>3. \A i \in Live(InFlight) :
          /\ fsm = "transitions" \/ Root \in stopped \/ ~ok
          /\ InFlight[i] \in DOMAIN Transitions[called]
          /\ called = state
    BY DEF Inv, OnTheWay, Announces, Down
  <2>4. TypeOK
    BY DEF Inv
  <2> QED
    BY <2>1, <2>2, <2>3, <2>4 DEF NoStaleEvent
<1> QED
  BY <1>1, InvHolds, PTL
=============================================================================

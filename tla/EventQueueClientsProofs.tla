----------------------- MODULE EventQueueClientsProofs -----------------------
(***************************************************************************)
(* Theorems about EventQueueClients.tla, for any tree of queues, any bound *)
(* on their length and any threads: no wake-up is lost, closing reaches    *)
(* the whole subtree, and every queue holds the latest events in order.    *)
(***************************************************************************)
EXTENDS EventQueueClients, EventQueueProofs

USE DEF vars, eqVars

\* What LatestInOrder says of one queue: its last event is number n, the one before it
\* n - 1, and so on, but for a spin event in front.
UpTo(s, n) ==
  \A i \in 1..Len(s) : s[i] = n - Len(s) + i \/ (i = 1 /\ s[1] = SpinEvent)

Numbered(q) == UpTo(events[q], raised)

Inv ==
  /\ EQInv /\ raised \in 0..MaxRaises
  /\ \A q \in Below(Root) \ Transit : Numbered(q)

LEMMA InitInv == Init => Inv
<1> SUFFICES ASSUME Init
             PROVE  Inv
  OBVIOUS
<1>1. EQInv /\ raised \in 0..MaxRaises
  BY EQInitInv, NumberedAssumption DEF Init
<1>2. \A q \in Below(Root) : q \in Queues
  BY <1>1, BelowType, QueuesAssumption DEF EQInv
<1>3. \A q \in Queues : events[q] = <<>>
  BY DEF Init, EQInit
<1>4. \A q \in Below(Root) \ Transit : Numbered(q)
  BY <1>2, <1>3 DEF Numbered, UpTo
<1> QED
  BY <1>1, <1>4 DEF Inv

\* Every step is a call, and counts the events raised.
LEMMA CallsOnly ==
  ASSUME Inv, [Next]_vars
  PROVE  /\ AnyCall \/ UNCHANGED eqVars
         /\ raised' \in 0..MaxRaises
<1>1. CASE RaiseNext
  <2>1. raised + 1 \in Events /\ raised' = raised + 1 /\ raised' \in 0..MaxRaises
    BY <1>1, NumberedAssumption DEF RaiseNext, Inv
  <2> QED
    BY <1>1, <2>1 DEF RaiseNext, AnyCall
<1>2. CASE OtherCall /\ UNCHANGED raised
  BY <1>2 DEF OtherCall, AnyCall, WaiterCall, Inv
<1>3. CASE UNCHANGED vars
  BY <1>3 DEF Inv
<1> QED
  BY <1>1, <1>2, <1>3 DEF Next

LEMMA UpToAppend ==
  ASSUME NEW S \in SUBSET Int, NEW s \in Seq(S), NEW n \in Int, n + 1 \in S, UpTo(s, n)
  PROVE  UpTo(Append(s, n + 1), n + 1)
<1>1. /\ Len(Append(s, n + 1)) = Len(s) + 1
      /\ \A i \in 1..Len(s) : Append(s, n + 1)[i] = s[i]
      /\ Append(s, n + 1)[Len(s) + 1] = n + 1
      /\ Len(s) \in Nat
  OBVIOUS
<1>2. ASSUME NEW i \in 1..(Len(s) + 1)
      PROVE  Append(s, n + 1)[i] = n + 1 - (Len(s) + 1) + i
               \/ (i = 1 /\ Append(s, n + 1)[1] = SpinEvent)
  <2>1. CASE i = Len(s) + 1
    BY <1>1, <2>1
  <2>2. CASE i \in 1..Len(s)
    <3>1. s[i] = n - Len(s) + i \/ (i = 1 /\ s[1] = SpinEvent)
      BY <2>2 DEF UpTo
    <3> QED
      BY <1>1, <2>2, <3>1
  <2> QED
    BY <1>1, <2>1, <2>2
<1> QED
  BY <1>1, <1>2 DEF UpTo

LEMMA UpToTail ==
  ASSUME NEW S \in SUBSET Int, NEW s \in Seq(S), NEW n \in Int, s # <<>>, UpTo(s, n)
  PROVE  UpTo(Tail(s), n)
<1>1. /\ Len(Tail(s)) = Len(s) - 1 /\ Len(s) \in Nat
      /\ \A i \in 1..(Len(s) - 1) : Tail(s)[i] = s[i + 1]
  OBVIOUS
<1>2. ASSUME NEW i \in 1..(Len(s) - 1)
      PROVE  Tail(s)[i] = n - (Len(s) - 1) + i
  <2>1. i + 1 \in 1..Len(s) /\ i + 1 # 1
    BY <1>1
  <2>2. s[i + 1] = n - Len(s) + (i + 1)
    BY <2>1 DEF UpTo
  <2> QED
    BY <1>1, <2>2
<1> QED
  BY <1>1, <1>2 DEF UpTo

\* An event added to a queue keeps it numbered, if it is a spin event or the next.
LEMMA NumberedAdded ==
  ASSUME Inv, NEW q \in Queues \ Transit, NEW e \in Events \cup {SpinEvent}, Numbered(q),
         events'[q] = Added(q, e),
         \/ e = SpinEvent /\ raised' = raised
         \/ e = raised + 1 /\ raised' = raised + 1
  PROVE  Numbered(q)'
<1> DEFINE old == events[q]
           E == Events \cup {SpinEvent}
<1>1. old \in Seq(E) /\ raised \in Int /\ UpTo(old, raised)
  BY NumberedAssumption DEF Inv, EQInv, EQTypeOK, Numbered
<1>2. E \in SUBSET Int /\ MaxUnread \in Nat
  BY NumberedAssumption, QueuesAssumption
<1>3. CASE e = SpinEvent
  <2>1. raised' = raised
    BY <1>2, <1>3, NumberedAssumption DEF Inv
  <2>2. CASE old # <<>>
    BY <1>1, <1>3, <2>1, <2>2 DEF Added, Numbered
  <2>3. CASE old = <<>>
    <3>1. events'[q] = Append(<<>>, e)
      BY <1>2, <2>3 DEF Added
    <3>2. Len(Append(<<>>, e)) = 1 /\ Append(<<>>, e)[1] = SpinEvent
      BY <1>3
    <3> QED
      BY <3>1, <3>2 DEF Numbered, UpTo
  <2> QED
    BY <2>2, <2>3
<1>4. CASE e # SpinEvent
  <2>1. e = raised + 1 /\ raised' = raised + 1 /\ raised + 1 \in E
    BY <1>4
  <2>2. CASE Len(old) > MaxUnread
    <3>1. old # <<>> /\ Tail(old) \in Seq(E)
      BY <1>1, <1>2, <2>2
    <3>2. UpTo(Append(Tail(old), raised + 1), raised + 1)
      BY <1>1, <1>2, <2>1, <3>1, UpToTail, UpToAppend
    <3>3. events'[q] = Append(Tail(old), raised + 1)
      BY <1>4, <2>1, <2>2 DEF Added
    <3> QED
      BY <2>1, <3>2, <3>3 DEF Numbered
  <2>3. CASE ~(Len(old) > MaxUnread)
    <3>1. UpTo(Append(old, raised + 1), raised + 1)
      BY <1>1, <1>2, <2>1, UpToAppend
    <3>2. events'[q] = Append(old, raised + 1)
      BY <1>4, <2>1, <2>3 DEF Added
    <3> QED
      BY <2>1, <3>1, <3>2 DEF Numbered
  <2> QED
    BY <2>2, <2>3
<1> QED
  BY <1>3, <1>4

\* So does one taken from it, and an empty queue is numbered.
LEMMA NumberedTaken ==
  ASSUME Inv, NEW q \in Queues, Numbered(q), raised' = raised,
         \/ events'[q] = events[q]
         \/ events[q] # <<>> /\ events'[q] = Tail(events[q])
         \/ events'[q] = <<>>
  PROVE  Numbered(q)'
<1>1. /\ events[q] \in Seq(Events \cup {SpinEvent}) /\ raised \in Int
      /\ Events \cup {SpinEvent} \in SUBSET Int /\ UpTo(events[q], raised)
  BY NumberedAssumption DEF Inv, EQInv, EQTypeOK, Numbered
<1>2. CASE events[q] # <<>> /\ events'[q] = Tail(events[q])
  <2>1. UpTo(Tail(events[q]), raised)
    BY <1>1, <1>2, UpToTail
  <2> QED
    BY <1>2, <2>1 DEF Numbered
<1>3. CASE events'[q] = <<>>
  BY <1>3 DEF Numbered, UpTo
<1>4. CASE events'[q] = events[q]
  BY <1>1, <1>4 DEF Numbered
<1> QED
  BY <1>2, <1>3, <1>4

\* A queue that is connected to the root now was so before, or is new.
LEMMA Connected ==
  ASSUME EQInv, AnyCall \/ UNCHANGED eqVars, NEW q \in Below(Root)'
  PROVE  q \in Below(Root) \/ (q \in Queues \ {Root} /\ Construct(q))
<1> USE DEF EQInv
<1>1. CASE subscribed' \subseteq subscribed
  BY <1>1 DEF Below
<1>2. ASSUME NEW r \in Queues \ {Root}, Construct(r)
      PROVE  q \in Below(Root) \/ (q \in Queues \ {Root} /\ Construct(q))
  <2>1. CASE q = r
    BY <1>2, <2>1
  <2>2. CASE q # r
    <3>1. r \notin alive /\ subscribed' \subseteq subscribed \cup {r}
      BY <1>2 DEF Construct, Subscribe
    <3>2. q \in subscribed \cup {Root} /\ Root \in Above[q] /\ Above[q] \ Above[Root] \subseteq subscribed'
      BY <2>2, <3>1 DEF Below
    <3>3. q \in alive
      BY <3>2 DEF EQTypeOK, AncestorsAlive
    <3>4. r \notin Above[q]
      BY <3>1, <3>3 DEF AncestorsAlive
    <3> QED
      BY <3>1, <3>2, <3>4 DEF Below
  <2> QED
    BY <2>1, <2>2
<1>3. CASE ~(\E r \in Queues \ {Root} : Construct(r))
  <2>1. ASSUME NEW r \in Queues \ {Root}, Destroy(r)
        PROVE  subscribed' \subseteq subscribed
    BY <2>1 DEF Destroy, Unsubscribe
  <2>2. /\ \A e \in Events : RaiseEvent(e) => subscribed' = subscribed
        /\ SpinOne => subscribed' = subscribed
        /\ SpinEnd => subscribed' = subscribed
        /\ RosStops => subscribed' = subscribed
        /\ UNCHANGED eqVars => subscribed' = subscribed
    BY DEF RaiseEvent, SpinOne, SpinEnd, RosStops, Close
  <2>3. ASSUME NEW r \in Queues, Close(r) \/ TryGetEvent(r) \/ DropAll(r)
        PROVE  subscribed' = subscribed
    BY <2>3 DEF Close, TryGetEvent, DropAll
  <2>4. ASSUME NEW t \in Threads, NEW r \in Queues, WaiterCall(t, r) \/ WaitTimeout(t)
        PROVE  subscribed' = subscribed
    BY <2>4 DEF WaiterCall, WaitSleep, WaitTake, WaitUndefined, WaitTimeout
  <2>5. subscribed' \subseteq subscribed
    BY <1>3, <2>1, <2>2, <2>3, <2>4, QueuesAssumption DEF AnyCall
  <2> QED
    BY <1>1, <2>5
<1> QED
  BY <1>2, <1>3

LEMMA NextInv == Inv /\ [Next]_vars => Inv'
<1> SUFFICES ASSUME Inv, [Next]_vars
             PROVE  Inv'
  OBVIOUS
<1>1. (AnyCall \/ UNCHANGED eqVars) /\ raised' \in 0..MaxRaises
  BY CallsOnly
<1>2. EQInv'
  BY <1>1, AnyCallInv DEF Inv
<1>3. ASSUME NEW q \in Below(Root)' \ Transit
      PROVE  Numbered(q)'
  <2>1. q \in Queues
    BY <1>2, <1>3, QueuesAssumption DEF Below, EQInv, EQTypeOK
  <2>2. CASE q \notin Below(Root)
    <3>1. events'[q] = <<>>
      BY <1>1, <1>3, <2>1, <2>2, Connected DEF Construct, Inv, EQInv, EQTypeOK
    <3> QED
      BY <3>1 DEF Numbered, UpTo
  <2>3. CASE q \in Below(Root)
    <3>1. Numbered(q)
      BY <1>3, <2>3 DEF Inv
    <3>2. CASE RaiseNext
      <4>1. raised + 1 \in Events /\ raised' = raised + 1 /\ events'[q] = Added(q, raised + 1)
        BY <2>1, <2>3, <3>2, NumberedAssumption DEF RaiseNext, RaiseEvent, Deliver, Inv
      <4> QED
        BY <1>3, <2>1, <3>1, <4>1, NumberedAdded
    <3>3. CASE SpinOne /\ UNCHANGED raised
      <4>1. events'[q] = Added(q, SpinEvent)
        BY <2>1, <2>3, <3>3 DEF SpinOne, Deliver
      <4> QED
        BY <1>3, <2>1, <3>1, <3>3, <4>1, NumberedAdded
    <3>4. CASE ~RaiseNext /\ ~SpinOne
      <4>1. raised' = raised
        BY <3>4 DEF Next
      <4>2. \/ events'[q] = events[q]
            \/ events[q] # <<>> /\ events'[q] = Tail(events[q])
            \/ events'[q] = <<>>
        <5>1. events \in [Queues -> Seq(Events \cup {SpinEvent})]
          BY DEF Inv, EQInv, EQTypeOK
        <5>2. CASE \/ \E t \in Threads, r \in Queues : WaitTake(t, r)
                   \/ \E r \in Queues : TryGetEvent(r) \/ DropAll(r)
                   \/ \E r \in Queues \ {Root} : Construct(r)
          BY <2>1, <5>1, <5>2 DEF WaitTake, TryGetEvent, DropAll, Construct
        <5>3. /\ SpinEnd => events' = events
              /\ RosStops => events' = events
              /\ UNCHANGED vars => events' = events
          BY DEF SpinEnd, RosStops, Close
        <5>4. ASSUME NEW r \in Queues, Close(r) \/ Destroy(r)
              PROVE  events' = events
          BY <5>4 DEF Close, Destroy
        <5>5. ASSUME NEW t \in Threads, NEW r \in Queues,
                     WaitSleep(t, r) \/ WaitUndefined(t, r) \/ WaitTimeout(t)
              PROVE  events' = events
          BY <5>5 DEF WaitSleep, WaitUndefined, WaitTimeout
        <5> QED
          BY <2>1, <3>4, <5>2, <5>3, <5>4, <5>5 DEF Next, OtherCall
      <4> QED
        BY <2>1, <3>1, <4>1, <4>2, NumberedTaken
    <3> QED
      BY <3>2, <3>3, <3>4 DEF Next, RaiseNext
  <2> QED
    BY <2>2, <2>3
<1> QED
  BY <1>1, <1>2, <1>3 DEF Inv

-----------------------------------------------------------------------------
\* No thread sleeps at a queue that is stopped, or has more events than threads that
\* are awake for them, whatever the clients call.
THEOREM WakeupsKept == Spec => []NoLostWakeup
<1>1. Inv => NoLostWakeup
  BY DEF Inv, EQInv, NoLostWakeup, TypeOK
<1> QED
  BY <1>1, InitInv, NextInv, PTL DEF Spec

\* While ROS runs, a queue is stopped when the queue it is subscribed to is.
THEOREM CloseReachesAll == Spec => []ClosedBelow
<1>1. Inv => ClosedBelow
  BY DEF Inv, EQInv
<1> QED
  BY <1>1, InitInv, NextInv, PTL DEF Spec

\* Every queue that is connected holds the latest events, in order and without a gap.
THEOREM EventsLatestInOrder == Spec => []LatestInOrder
<1>1. Inv => LatestInOrder
  <2>1. ASSUME Inv, NEW q \in Below(Root) \ Transit, NEW i \in DOMAIN events[q]
        PROVE  \/ events[q][i] = raised - Len(events[q]) + i
               \/ i = 1 /\ events[q][1] = SpinEvent
    <3>1. q \in Queues /\ events[q] \in Seq(Events \cup {SpinEvent})
      BY <2>1, BelowType, QueuesAssumption DEF Inv, EQInv, EQTypeOK
    <3>2. i \in 1..Len(events[q])
      BY <3>1
    <3> QED
      BY <2>1, <3>2 DEF Inv, Numbered, UpTo
  <2> QED
    BY <2>1 DEF Inv, EQInv, Bounded, LatestInOrder
<1> QED
  BY <1>1, InitInv, NextInv, PTL DEF Spec
=============================================================================

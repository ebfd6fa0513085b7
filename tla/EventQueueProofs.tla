-------------------------- MODULE EventQueueProofs --------------------------
(***************************************************************************)
(* Lemmas about the operations of EventQueue.tla, for any tree of queues:  *)
(* what holds at each point whichever of them are called, in any order and *)
(* by any threads.  The theorems about its clients and about the mission   *)
(* rest on them.                                                           *)
(***************************************************************************)
EXTENDS EventQueue, TLAPS, FiniteSetTheorems

USE DEF eqVars, SeesEnd, Busy

\* Every operation there is.
WaiterCall(t, q) == WaitSleep(t, q) \/ WaitTake(t, q) \/ WaitUndefined(t, q)

AnyCall ==
  \/ \E e \in Events : RaiseEvent(e)
  \/ SpinOne \/ SpinEnd \/ RosStops
  \/ \E q \in Queues \ {Root} : Construct(q) \/ Destroy(q)
  \/ \E q \in Queues : Close(q) \/ TryGetEvent(q) \/ DropAll(q)
  \/ \E t \in Threads, q \in Queues : WaiterCall(t, q)
  \/ \E t \in Threads : WaitTimeout(t)

\* A queue outlives those below it.
AncestorsAlive == Root \in alive /\ \A q \in alive : Above[q] \subseteq alive

\* A thread waits at one queue, and is asleep there or awake.
OnePlace ==
  \A q, r \in Queues :
    /\ asleep[q] \cap woken[r] = {}
    /\ q # r => asleep[q] \cap asleep[r] = {} /\ woken[q] \cap woken[r] = {}

FiniteWaiters == \A q \in Queues : IsFiniteSet(asleep[q]) /\ IsFiniteSet(woken[q])

\* addEvent tests the bound before it adds.
Bounded == \A q \in Queues : Len(events[q]) <= MaxUnread + 1

EQInv ==
  /\ EQTypeOK /\ AncestorsAlive
  /\ OnePlace /\ FiniteWaiters /\ EventsAwaited
  /\ ClosedBelow /\ Bounded

-----------------------------------------------------------------------------
LEMMA EQInitInv == EQInit => EQInv
<1> SUFFICES ASSUME EQInit
             PROVE  EQInv
  OBVIOUS
<1>1. EQTypeOK /\ AncestorsAlive
  BY QueuesAssumption DEF EQInit, EQTypeOK, AncestorsAlive
<1>2. OnePlace /\ FiniteWaiters
  BY FS_EmptySet DEF EQInit, OnePlace, FiniteWaiters
<1>3. EventsAwaited /\ ClosedBelow /\ Bounded
  BY QueuesAssumption DEF EQInit, EventsAwaited, ClosedBelow, Bounded
<1> QED
  BY <1>1, <1>2, <1>3 DEF EQInv

\* addEvent makes a queue longer by at most one event, and not longer than its bound.
LEMMA AddedType ==
  ASSUME EQTypeOK, NEW q \in Queues, NEW e \in Events \cup {SpinEvent}
  PROVE  /\ Added(q, e) \in Seq(Events \cup {SpinEvent})
         /\ Len(Added(q, e)) <= Len(events[q]) + 1
         /\ Len(events[q]) <= MaxUnread + 1 => Len(Added(q, e)) <= MaxUnread + 1
<1> DEFINE E == Events \cup {SpinEvent}
<1>1. events[q] \in Seq(E) /\ MaxUnread \in Nat
  BY QueuesAssumption DEF EQTypeOK
<1>2. CASE Len(events[q]) > MaxUnread
  <2>1. events[q] # <<>>
    BY <1>1, <1>2
  <2>2. /\ Tail(events[q]) \in Seq(E) /\ Len(Tail(events[q])) = Len(events[q]) - 1
    BY <1>1, <2>1
  <2> QED
    BY <1>1, <1>2, <2>2 DEF Added
<1>3. CASE Len(events[q]) <= MaxUnread
  BY <1>1, <1>3 DEF Added
<1> QED
  BY <1>1, <1>2, <1>3

\* notify_one at several queues: each wakes one of its own sleepers, if it has any.
LEMMA Notified ==
  ASSUME EQInv, NEW S \in SUBSET Queues, NotifyOne(S)
  PROVE  /\ asleep' \in [Queues -> SUBSET Threads] /\ woken' \in [Queues -> SUBSET Threads]
         /\ \A q \in Queues :
              /\ asleep'[q] \subseteq asleep[q] /\ woken[q] \subseteq woken'[q]
              /\ asleep'[q] \cup woken'[q] = asleep[q] \cup woken[q]
              /\ asleep'[q] \cap woken'[q] = {}
              /\ q \in S /\ asleep[q] # {} =>
                   \E t \in asleep[q] : woken'[q] = woken[q] \cup {t}
              /\ q \notin S \/ asleep[q] = {} => woken'[q] = woken[q]
<1> USE DEF EQInv, EQTypeOK, OnePlace
<1>1. PICK lucky \in SUBSET UNION {asleep[q] : q \in S} :
        /\ \A q \in S : asleep[q] # {} => \E t \in asleep[q] : lucky \cap asleep[q] = {t}
        /\ asleep' = [q \in Queues |-> asleep[q] \ lucky]
        /\ woken' = [q \in Queues |-> woken[q] \cup (asleep[q] \cap lucky)]
  BY DEF NotifyOne
<1>2. ASSUME NEW q \in Queues \ S
      PROVE  lucky \cap asleep[q] = {}
  BY <1>1
<1>3. \A q \in Queues : asleep'[q] = asleep[q] \ lucky /\ woken'[q] = woken[q] \cup (asleep[q] \cap lucky)
  BY <1>1
<1>4. asleep' \in [Queues -> SUBSET Threads] /\ woken' \in [Queues -> SUBSET Threads]
  BY <1>1
<1>5. ASSUME NEW q \in S, asleep[q] # {}
      PROVE  \E t \in asleep[q] : woken'[q] = woken[q] \cup {t}
  <2>1. PICK t \in asleep[q] : lucky \cap asleep[q] = {t}
    BY <1>1, <1>5
  <2>2. woken'[q] = woken[q] \cup (asleep[q] \cap lucky)
    BY <1>3
  <2>3. woken'[q] = woken[q] \cup {t}
    BY <2>1, <2>2
  <2> QED
    BY <2>3
<1>6. ASSUME NEW q \in Queues
      PROVE  /\ asleep'[q] \subseteq asleep[q] /\ woken[q] \subseteq woken'[q]
             /\ asleep'[q] \cup woken'[q] = asleep[q] \cup woken[q]
             /\ asleep'[q] \cap woken'[q] = {}
             /\ q \notin S \/ asleep[q] = {} => woken'[q] = woken[q]
  <2>1. asleep[q] \cap woken[q] = {}
    BY <1>6
  <2> QED
    BY <1>2, <1>3, <2>1
<1> QED
  BY <1>4, <1>5, <1>6

\* Operations that move threads between asleep and woken at their queues.
LEMMA Moved ==
  ASSUME OnePlace, FiniteWaiters,
         \A q \in Queues : /\ asleep'[q] \cup woken'[q] \subseteq asleep[q] \cup woken[q]
                           /\ asleep'[q] \cap woken'[q] = {}
  PROVE  OnePlace' /\ FiniteWaiters'
<1>1. OnePlace'
  BY DEF OnePlace
<1>2. ASSUME NEW q \in Queues
      PROVE  IsFiniteSet(asleep'[q]) /\ IsFiniteSet(woken'[q])
  <2>1. IsFiniteSet(asleep[q] \cup woken[q])
    BY FS_Union DEF FiniteWaiters
  <2> QED
    BY <2>1, FS_Subset
<1> QED
  BY <1>1, <1>2 DEF FiniteWaiters

LEMMA BelowType ==
  ASSUME EQTypeOK, NEW q \in Queues
  PROVE  Below(q) \in SUBSET Queues
BY DEF EQTypeOK, Below

\* The queues that stay as they are keep what concerns only the tree.
LEMMA TreeKept ==
  ASSUME EQInv, UNCHANGED <<alive, subscribed, stopped>>, ok' \in BOOLEAN, ok' => ok
  PROVE  AncestorsAlive' /\ ClosedBelow'
BY DEF EQInv, AncestorsAlive, ClosedBelow

LEMMA DeliverStep ==
  ASSUME EQInv, NEW e \in Events \cup {SpinEvent}, Deliver(e),
         UNCHANGED <<stopped, alive, subscribed, ok>>
  PROVE  EQInv'
<1> DEFINE tree == Below(Root)
<1>1. tree \in SUBSET Queues
  BY BelowType, QueuesAssumption DEF EQInv
<1>2. /\ events' = [q \in Queues |-> IF q \in tree THEN Added(q, e) ELSE events[q]]
      /\ NotifyOne(tree)
  BY DEF Deliver
<1> HIDE DEF tree
<1>3. EQTypeOK'
  <2>1. events' \in [Queues -> Seq(Events \cup {SpinEvent})]
    BY <1>2, AddedType DEF EQInv, EQTypeOK
  <2> QED
    BY <1>1, <1>2, <2>1, Notified DEF EQInv, EQTypeOK
<1>4. AncestorsAlive' /\ ClosedBelow'
  BY TreeKept DEF EQInv, EQTypeOK
<1>5. OnePlace' /\ FiniteWaiters'
  BY <1>1, <1>2, Notified, Moved DEF EQInv
<1>6. Bounded'
  BY <1>2, AddedType DEF EQInv, Bounded
<1>7. EventsAwaited'
  <2> SUFFICES ASSUME NEW q \in Queues, asleep'[q] # {}, ~SeesEnd(q)
               PROVE  q \notin stopped /\ Len(events'[q]) <= Cardinality(woken'[q])
    BY DEF EventsAwaited
  <2>1. asleep[q] # {}
    BY <1>1, <1>2, Notified
  <2>2. q \notin stopped /\ Len(events[q]) <= Cardinality(woken[q])
    BY <2>1 DEF EQInv, EventsAwaited
  <2>3. IsFiniteSet(woken[q]) /\ Cardinality(woken[q]) \in Nat
    BY FS_CardinalityType DEF EQInv, FiniteWaiters
  <2>4. CASE q \in tree
    <3>1. PICK t \in asleep[q] : woken'[q] = woken[q] \cup {t}
      BY <1>1, <1>2, <2>1, <2>4, Notified
    <3>2. t \notin woken[q]
      BY DEF EQInv, OnePlace
    <3>3. Cardinality(woken'[q]) = Cardinality(woken[q]) + 1
      BY <2>3, <3>1, <3>2, FS_AddElement
    <3>4. Len(events'[q]) <= Len(events[q]) + 1
      BY <1>2, <2>4, AddedType DEF EQInv
    <3>5. Len(events[q]) \in Nat /\ Len(events'[q]) \in Nat
      BY <1>3 DEF EQInv, EQTypeOK
    <3> QED
      BY <2>2, <2>3, <3>3, <3>4, <3>5
  <2>5. CASE q \notin tree
    BY <1>1, <1>2, <2>2, <2>5, Notified
  <2> QED
    BY <2>4, <2>5
<1> QED
  BY <1>3, <1>4, <1>5, <1>6, <1>7 DEF EQInv

LEMMA CloseStep ==
  ASSUME EQInv, NEW q \in Queues, Close(q)
  PROVE  EQInv'
<1> DEFINE S == Below(q)
<1>1. /\ S \in SUBSET Queues
      /\ stopped' = stopped \cup S
      /\ asleep' = [r \in Queues |-> IF r \in S THEN {} ELSE asleep[r]]
      /\ woken' = [r \in Queues |-> IF r \in S THEN woken[r] \cup asleep[r] ELSE woken[r]]
      /\ UNCHANGED <<events, alive, subscribed, ok>>
  BY BelowType DEF EQInv, Close, StopAll
<1>2. ASSUME NEW s \in subscribed, ParentOf[s] \in S
      PROVE  s \in S
  <2>1. s \in Queues \ {Root} /\ Above[s] = {s} \cup Above[ParentOf[s]]
    BY QueuesAssumption DEF EQInv, EQTypeOK
  <2> QED
    BY <1>2, <2>1 DEF Below
<1> HIDE DEF S
<1>3. EQTypeOK'
  BY <1>1 DEF EQInv, EQTypeOK
<1>4. AncestorsAlive' /\ Bounded'
  BY <1>1 DEF EQInv, AncestorsAlive, Bounded
<1>5. ClosedBelow'
  BY <1>1, <1>2 DEF EQInv, ClosedBelow
<1>6. OnePlace' /\ FiniteWaiters'
  <2>1. \A r \in Queues : /\ asleep'[r] \cup woken'[r] \subseteq asleep[r] \cup woken[r]
                          /\ asleep'[r] \cap woken'[r] = {}
    BY <1>1 DEF EQInv, OnePlace
  <2> QED
    BY <2>1, Moved DEF EQInv
<1>7. EventsAwaited'
  BY <1>1 DEF EQInv, EventsAwaited
<1> QED
  BY <1>3, <1>4, <1>5, <1>6, <1>7 DEF EQInv

LEMMA ConstructStep ==
  ASSUME EQInv, NEW q \in Queues \ {Root}, Construct(q)
  PROVE  EQInv'
<1> USE DEF EQInv
<1>1. EQTypeOK'
  BY DEF Construct, Subscribe, EQTypeOK
<1>2. AncestorsAlive'
  <2>1. Above[q] = {q} \cup Above[ParentOf[q]]
    BY QueuesAssumption
  <2>2. alive' = alive \cup {q} /\ Above[ParentOf[q]] \subseteq alive
    BY DEF Construct, AncestorsAlive
  <2> QED
    BY <2>1, <2>2 DEF AncestorsAlive
<1>3. OnePlace' /\ FiniteWaiters'
  BY DEF Construct, OnePlace, FiniteWaiters
<1>4. ClosedBelow'
  BY DEF Construct, Subscribe, ClosedBelow, EQTypeOK
<1>5. Bounded'
  BY QueuesAssumption DEF Construct, Bounded, EQTypeOK
<1>6. EventsAwaited'
  <2>1. Cardinality(woken[q]) \in Nat /\ Len(<<>>) = 0
    BY FS_CardinalityType DEF FiniteWaiters
  <2> QED
    BY <2>1 DEF Construct, EventsAwaited, EQTypeOK
<1> QED
  BY <1>1, <1>2, <1>3, <1>4, <1>5, <1>6

LEMMA DestroyStep ==
  ASSUME EQInv, NEW q \in Queues \ {Root}, Destroy(q)
  PROVE  EQInv'
<1> USE DEF EQInv
<1>1. EQTypeOK'
  BY DEF Destroy, Unsubscribe, EQTypeOK
<1>2. AncestorsAlive'
  <2>1. ASSUME NEW r \in alive \ {q}, q \in Above[r]
        PROVE  FALSE
    <3>1. r \in Queues /\ Above[r] \subseteq alive
      BY DEF EQTypeOK, AncestorsAlive
    <3>2. r # Root
      BY <2>1, QueuesAssumption
    <3>3. PICK s \in Above[r] \ {Root} : ParentOf[s] = q
      BY <2>1, <3>1, <3>2, QueuesAssumption
    <3> QED
      BY <3>1, <3>3 DEF Destroy
  <2> QED
    BY <2>1 DEF Destroy, AncestorsAlive
<1>3. OnePlace' /\ FiniteWaiters'
  BY DEF Destroy, OnePlace, FiniteWaiters
<1>4. ClosedBelow'
  BY DEF Destroy, Unsubscribe, ClosedBelow, EQTypeOK
<1>5. Bounded' /\ EventsAwaited'
  BY DEF Destroy, Bounded, EventsAwaited
<1> QED
  BY <1>1, <1>2, <1>3, <1>4, <1>5

\* A waiter that looks at queue q waits nowhere else.
LEMMA LooksThere ==
  ASSUME EQInv, NEW t \in Threads, NEW q \in Queues, Looks(t, q)
  PROVE  /\ \A r \in Queues : t \notin asleep[r]
         /\ \A r \in Queues \ {q} : t \notin woken[r]
BY DEF EQInv, OnePlace, Looks

LEMMA WaiterStep ==
  ASSUME EQInv, NEW t \in Threads, NEW q \in Queues, WaiterCall(t, q)
  PROVE  EQInv'
<1> USE DEF EQInv
<1>1. /\ q \in alive /\ woken' = [woken EXCEPT ![q] = @ \ {t}]
      /\ UNCHANGED <<alive, subscribed, ok>>
      /\ \A r \in Queues : t \notin asleep[r]
      /\ \A r \in Queues \ {q} : t \notin woken[r]
  BY LooksThere DEF WaiterCall, WaitSleep, WaitTake, WaitUndefined, Looks
<1>2. IsFiniteSet(woken'[q]) /\ IsFiniteSet(woken[q])
  BY <1>1, FS_RemoveElement DEF EQTypeOK, FiniteWaiters
<1>3. /\ Cardinality(woken'[q]) \in Nat /\ Cardinality(woken[q]) \in Nat
      /\ Cardinality(woken'[q]) >= Cardinality(woken[q]) - 1
  <2>1. woken'[q] = woken[q] \ {t}
    BY <1>1 DEF EQTypeOK
  <2>2. Cardinality(woken'[q]) = IF t \in woken[q] THEN Cardinality(woken[q]) - 1
                                ELSE Cardinality(woken[q])
    BY <1>2, <2>1, FS_RemoveElement
  <2>3. Cardinality(woken[q]) \in Nat /\ Cardinality(woken'[q]) \in Nat
    BY <1>2, FS_CardinalityType
  <2> QED
    BY <2>2, <2>3
<1>4. AncestorsAlive'
  BY <1>1 DEF AncestorsAlive
<1>5. CASE WaitSleep(t, q)
  <2>1. EQTypeOK'
    BY <1>5 DEF WaitSleep, EQTypeOK
  <2>2. ClosedBelow' /\ Bounded'
    BY <1>5 DEF WaitSleep, ClosedBelow, Bounded
  <2>3. OnePlace'
    BY <1>1, <1>5 DEF WaitSleep, OnePlace, EQTypeOK
  <2>4. IsFiniteSet(asleep'[q])
    BY <1>5, FS_AddElement DEF WaitSleep, FiniteWaiters, EQTypeOK
  <2>5. FiniteWaiters'
    BY <1>1, <1>2, <1>5, <2>4 DEF WaitSleep, FiniteWaiters, EQTypeOK
  <2>6. EventsAwaited'
    <3>1. Len(events[q]) = 0
      BY <1>5 DEF WaitSleep
    <3> QED
      BY <1>1, <1>3, <1>5, <3>1 DEF WaitSleep, EventsAwaited, EQTypeOK
  <2> QED
    BY <1>4, <2>1, <2>2, <2>3, <2>5, <2>6
<1>6. CASE WaitTake(t, q) \/ WaitUndefined(t, q)
  <2>1. asleep' = asleep
    BY <1>6 DEF WaitTake, WaitUndefined
  <2>2. OnePlace'
    BY <1>1, <2>1 DEF OnePlace, EQTypeOK
  <2>3. FiniteWaiters'
    BY <1>1, <1>2, <2>1 DEF FiniteWaiters, EQTypeOK
  <2>4. CASE WaitTake(t, q)
    <3>1. /\ events[q] \in Seq(Events \cup {SpinEvent}) /\ events[q] # <<>>
          /\ events' = [events EXCEPT ![q] = Tail(@)] /\ stopped' = stopped
      BY <2>4 DEF WaitTake, EQTypeOK
    <3>2. /\ Tail(events[q]) \in Seq(Events \cup {SpinEvent})
          /\ Len(Tail(events[q])) = Len(events[q]) - 1
      BY <3>1
    <3>3. EQTypeOK'
      BY <1>1, <2>1, <3>1, <3>2 DEF EQTypeOK
    <3>4. ClosedBelow'
      BY <1>1, <3>1 DEF ClosedBelow
    <3>5. Bounded'
      BY <3>1, <3>2, QueuesAssumption DEF Bounded, EQTypeOK
    <3>6. EventsAwaited'
      BY <1>1, <1>3, <2>1, <3>1, <3>2 DEF EventsAwaited, EQTypeOK
    <3> QED
      BY <1>4, <2>2, <2>3, <3>3, <3>4, <3>5, <3>6
  <2>5. CASE WaitUndefined(t, q)
    <3>1. /\ (q \in stopped \/ SeesEnd(q)) /\ stopped' = stopped \cup {q} /\ events' = events
      BY <2>5 DEF WaitUndefined
    <3>2. EQTypeOK' /\ Bounded'
      BY <1>1, <2>1, <3>1 DEF EQTypeOK, Bounded
    <3>3. ClosedBelow'
      BY <1>1, <3>1 DEF ClosedBelow
    <3>4. EventsAwaited'
      BY <1>1, <2>1, <3>1 DEF EventsAwaited, EQTypeOK
    <3> QED
      BY <1>4, <2>2, <2>3, <3>2, <3>3, <3>4
  <2> QED
    BY <1>6, <2>4, <2>5
<1> QED
  BY <1>5, <1>6 DEF WaiterCall

LEMMA TimeoutStep ==
  ASSUME EQInv, NEW t \in Threads, WaitTimeout(t)
  PROVE  EQInv'
<1> USE DEF EQInv
<1>1. /\ Root \in Queues /\ t \in asleep[Root] /\ t \notin woken[Root]
      /\ asleep' = [asleep EXCEPT ![Root] = @ \ {t}]
      /\ woken' = [woken EXCEPT ![Root] = @ \cup {t}]
      /\ UNCHANGED <<events, stopped, alive, subscribed, ok>>
  BY QueuesAssumption DEF WaitTimeout, OnePlace
<1>2. EQTypeOK' /\ AncestorsAlive' /\ ClosedBelow' /\ Bounded'
  BY <1>1 DEF EQTypeOK, AncestorsAlive, ClosedBelow, Bounded
<1>3. OnePlace' /\ FiniteWaiters'
  <2>1. \A r \in Queues : /\ asleep'[r] \cup woken'[r] \subseteq asleep[r] \cup woken[r]
                          /\ asleep'[r] \cap woken'[r] = {}
    BY <1>1 DEF OnePlace, EQTypeOK
  <2> QED
    BY <2>1, Moved
<1>4. EventsAwaited'
  <2>1. IsFiniteSet(woken[Root]) /\ woken'[Root] = woken[Root] \cup {t}
    BY <1>1 DEF FiniteWaiters, EQTypeOK
  <2>2. /\ Cardinality(woken'[Root]) = Cardinality(woken[Root]) + 1
        /\ Cardinality(woken[Root]) \in Nat
    BY <1>1, <2>1, FS_AddElement, FS_CardinalityType
  <2> QED
    BY <1>1, <2>2 DEF EventsAwaited, EQTypeOK
<1> QED
  BY <1>2, <1>3, <1>4

\* Events are read or dropped without waiting.
LEMMA ReaderStep ==
  ASSUME EQInv, NEW q \in Queues, TryGetEvent(q) \/ DropAll(q)
  PROVE  EQInv'
<1> USE DEF EQInv
<1>1. PICK rest \in Seq(Events \cup {SpinEvent}) :
        /\ Len(rest) <= Len(events[q])
        /\ events' = [events EXCEPT ![q] = rest]
        /\ UNCHANGED <<stopped, alive, subscribed, asleep, woken, ok>>
  <2>1. events[q] \in Seq(Events \cup {SpinEvent}) /\ events[q] # <<>>
    BY DEF TryGetEvent, DropAll, EQTypeOK
  <2>2. /\ Tail(events[q]) \in Seq(Events \cup {SpinEvent}) /\ <<>> \in Seq(Events \cup {SpinEvent})
        /\ Len(Tail(events[q])) <= Len(events[q]) /\ Len(<<>>) <= Len(events[q])
    BY <2>1
  <2> QED
    BY <2>2 DEF TryGetEvent, DropAll
<1>2. EQTypeOK' /\ AncestorsAlive' /\ ClosedBelow'
  BY <1>1 DEF EQTypeOK, AncestorsAlive, ClosedBelow
<1>3. OnePlace' /\ FiniteWaiters'
  BY <1>1 DEF OnePlace, FiniteWaiters
<1>4. Bounded'
  BY <1>1, QueuesAssumption DEF Bounded, EQTypeOK
<1>5. EventsAwaited'
  <2>1. \A r \in Queues : Cardinality(woken[r]) \in Nat
    BY FS_CardinalityType DEF FiniteWaiters
  <2> QED
    BY <1>1, <2>1 DEF EventsAwaited, EQTypeOK
<1> QED
  BY <1>2, <1>3, <1>4, <1>5

\* The operations keep what each of them relies on, whatever is called next.
LEMMA AnyCallInv ==
  ASSUME EQInv, AnyCall \/ UNCHANGED eqVars
  PROVE  EQInv'
<1>1. ASSUME NEW e \in Events, RaiseEvent(e)
      PROVE  EQInv'
  BY <1>1, DeliverStep DEF RaiseEvent
<1>2. CASE SpinOne
  BY <1>2, DeliverStep DEF SpinOne
<1>3. CASE SpinEnd
  BY <1>3, CloseStep, QueuesAssumption DEF SpinEnd
<1>4. CASE RosStops \/ UNCHANGED eqVars
  <2>1. /\ UNCHANGED <<events, stopped, alive, subscribed, asleep, woken>>
        /\ ok' = FALSE \/ ok' = ok
    BY <1>4 DEF RosStops
  <2>2. ok' \in BOOLEAN /\ (ok' => ok)
    <3>1. ok \in BOOLEAN
      BY DEF EQInv, EQTypeOK
    <3>2. CASE ok' = FALSE
      BY <3>2
    <3>3. CASE ok' = ok
      BY <3>1, <3>3
    <3> QED
      BY <2>1, <3>2, <3>3
  <2>3. EQTypeOK' /\ AncestorsAlive' /\ ClosedBelow'
    BY <2>1, <2>2 DEF EQInv, EQTypeOK, AncestorsAlive, ClosedBelow
  <2>4. OnePlace' /\ FiniteWaiters' /\ Bounded'
    BY <2>1 DEF EQInv, OnePlace, FiniteWaiters, Bounded
  <2>5. \A q \in Queues : SeesEnd(q) => SeesEnd(q)'
    BY <2>2
  <2>6. EventsAwaited'
    <3> HIDE DEF SeesEnd
    <3> QED
      BY <2>1, <2>5 DEF EQInv, EventsAwaited
  <2> QED
    BY <2>3, <2>4, <2>6 DEF EQInv
<1> QED
  BY <1>1, <1>2, <1>3, <1>4, ConstructStep, DestroyStep, CloseStep, ReaderStep, WaiterStep,
     TimeoutStep DEF AnyCall
=============================================================================

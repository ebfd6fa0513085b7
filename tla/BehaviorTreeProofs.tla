------------------------- MODULE BehaviorTreeProofs --------------------------
(***************************************************************************)
(* Theorems about the behavior trees of BehaviorTree.tla, for any tree:    *)
(* nothing runs below a node that has returned, and what a node returns is *)
(* what its children did.                                                  *)
(***************************************************************************)
EXTENDS BehaviorTree, EventQueueProofs

USE DEF vars, btVars, eqVars

Started(n) == pc[n] \notin {"none", "built"}
Done(n) == pc[n] \in {"returned", "ended"}
Active == {n \in Nodes : Running(n)}

\* The result on which a SEQ or a SEL stops.
Deciding(n) == IF Kind[n] = "SEQ" THEN "FAIL" ELSE "SUCCESS"

\* Each kind of node has its own places.
InPlace(n) ==
  /\ pc[n] = "run" => n \in Composite
  /\ pc[n] = "called" => Kind[n] \in {"SEQ", "SEL"} /\ next[n] > 1
  /\ pc[n] \in {"wait", "notified", "join"} => Kind[n] = "PAR" /\ ~ChildLeft(n)
  /\ pc[n] = "work" => n \notin Composite
  /\ pc[n] = "close" => n \in Tasks
  /\ n \in finished <=> Done(n)

\* The children are constructed and called in order.
KidsInPlace(n) ==
  LET kids == Children[n] IN
  /\ next[n] \in 1..(Len(kids) + 1) /\ built[n] \in 0..Len(kids)
  /\ ~Started(n) => built[n] = 0
  /\ pc[n] \in {"none", "built", "build"} => next[n] = 1
  /\ Started(n) /\ pc[n] # "build" => built[n] = Len(kids)
  /\ \A i \in DOMAIN kids : /\ pc[kids[i]] = "none" <=> i > built[n]
                            /\ Started(kids[i]) <=> i < next[n]

\* The child whose result a SEQ or a SEL has yet to take.
Awaited(n, i) == pc[n] = "called" /\ i = next[n] - 1

\* A SEQ or SEL has the result of the child it called last, and stops on a result that
\* decides it.
InOrder(n) ==
  LET kids == Children[n] IN
  /\ \A i \in DOMAIN kids : i < next[n] /\ ~Awaited(n, i) => pc[kids[i]] = "ended"
  /\ \A i \in DOMAIN kids : i < next[n] - 1 => result[kids[i]] # Deciding(n)
  /\ Started(n) /\ next[n] = 1 => result[n] = inherited[n]
  /\ next[n] > 1 /\ pc[n] # "called" => result[n] = result[kids[next[n] - 1]]
  /\ Done(n) /\ n \notin terminated => ~ChildLeft(n) \/ result[n] = Deciding(n)

\* A PAR has the reports of the children that have ended, and returns when all have.
Reports(n) ==
  LET kids == Children[n] IN
  /\ Done(n) => ~ChildLeft(n) /\ AllJoined(n)
  /\ \A i \in DOMAIN reported[n] : ChildOf(n, reported[n][i]) /\ pc[reported[n][i]] = "ended"
  /\ Len(reported[n]) = Cardinality({i \in DOMAIN kids : pc[kids[i]] = "ended"})
  /\ Started(n) => IF inherited[n] = "UNDEF" THEN SaidFirst(n) ELSE result[n] = inherited[n]

Family(n) ==
  /\ KidsInPlace(n)
  /\ Kind[n] \in {"SEQ", "SEL"} => InOrder(n)
  /\ Kind[n] = "PAR" => Reports(n)

\* What runs, runs below nodes that run.
ActiveAbove ==
  \A n \in Nodes : \A c \in Subtree(n) : c \in Active /\ c # n => n \in Active

Inv ==
  /\ TypeOK
  /\ \A n \in Nodes : InPlace(n)
  /\ \A n \in Composite : Family(n)
  /\ ActiveAbove

\* What the steps of other threads may do to a child: nothing, or it runs on and returns.
RunsOn(c) ==
  \/ pc'[c] = pc[c] /\ result'[c] = result[c]
  \/ Started(c) /\ pc[c] # "ended" /\ Started(c)' /\ pc'[c] # "ended"

-----------------------------------------------------------------------------
(* The tree.                                                                 *)

LEMMA Kids ==
  ASSUME NEW n \in Nodes
  PROVE  LET kids == Children[n] IN
         /\ Len(kids) \in Nat /\ DOMAIN kids = 1..Len(kids)
         /\ \A i \in DOMAIN kids : /\ kids[i] \in Nodes /\ kids[i] # n /\ ChildOf(n, kids[i])
                                   /\ ParentOf[kids[i]] = n
         /\ \A i, j \in DOMAIN kids : kids[i] = kids[j] => i = j
         /\ kids # <<>> => n \in Composite
<1> DEFINE kids == Children[n]
<1>1. kids \in Seq(Nodes)
  BY TreeAssumption
<1>2. Len(kids) \in Nat /\ DOMAIN kids = 1..Len(kids) /\ \A i \in DOMAIN kids : kids[i] \in Nodes
  BY <1>1
<1>3. \A i \in DOMAIN kids : ChildOf(n, kids[i]) /\ ParentOf[kids[i]] = n
  BY <1>2, TreeAssumption DEF ChildOf
<1>4. \A i \in DOMAIN kids : kids[i] # n
  <2> SUFFICES ASSUME NEW i \in DOMAIN kids, kids[i] = n
               PROVE  FALSE
    OBVIOUS
  <2>1. n # Root /\ n \in Queues \ {Root} /\ ParentOf[n] = n
    BY <1>3, TreeAssumption
  <2>2. n \in Above[n] /\ n \notin Above[ParentOf[n]]
    BY <2>1, QueuesAssumption
  <2> QED
    BY <2>1, <2>2
<1> QED
  BY <1>2, <1>3, <1>4, TreeAssumption

\* A node has one parent, and is one of its children.
LEMMA OneParent ==
  ASSUME NEW m \in Nodes, NEW n \in Nodes, NEW c \in Nodes, ChildOf(m, c), ChildOf(n, c)
  PROVE  m = n
BY TreeAssumption

\* What is above a node: itself, or what is at or above its parent; and whoever is above it
\* is so through a child.
LEMMA AboveNode ==
  ASSUME NEW n \in Nodes, NEW c \in Nodes, c \in Subtree(n), c # n
  PROVE  /\ c # Top /\ ParentOf[c] \in Nodes /\ ParentOf[c] \in Subtree(n)
         /\ \E d \in Nodes : ChildOf(n, d) /\ c \in Subtree(d)
<1>1. c \in Queues \ {Root} /\ n \in Queues \ {Root} /\ n \in Above[c]
  BY TreeAssumption DEF Subtree
<1>2. n \in Above[ParentOf[c]] /\ \E s \in Above[c] \ {Root} : ParentOf[s] = n
  BY <1>1, QueuesAssumption
<1>3. c # Top
  BY <1>1, <1>2, QueuesAssumption, TreeAssumption
<1>4. ParentOf[c] \in Nodes /\ ParentOf[c] \in Subtree(n)
  BY <1>2, <1>3, TreeAssumption DEF Subtree
<1>5. PICK s \in Above[c] \ {Root} : ParentOf[s] = n
  BY <1>2
<1>6. s \in Nodes
  <2>1. s \in Queues /\ Above[c] \subseteq Queues
    BY <1>1, QueuesAssumption
  <2>2. \A q \in Queues \ {Root} : ParentOf[q] \in Nodes \cup {Root}
    BY TreeAssumption
  <2>3. ASSUME s \notin Nodes
        PROVE  FALSE
    <3>1. s \in Above[c] \ {c} /\ s \notin Nodes \cup {Root}
      BY <2>3
    <3>2. PICK r \in Above[c] \ {Root} : ParentOf[r] = s
      BY <1>1, <3>1, QueuesAssumption
    <3> QED
      BY <2>1, <2>2, <3>1, <3>2
  <2> QED
    BY <2>3
<1> QED
  BY <1>3, <1>4, <1>5, <1>6, TreeAssumption DEF Subtree

-----------------------------------------------------------------------------
(* What a step leaves alone.                                                 *)

LEMMA Earlier ==
  ASSUME Inv, NEW m \in Nodes
  PROVE  /\ reported[m] \in Seq(Nodes)
         /\ DOMAIN reported[m] = 1..Len(reported[m]) /\ Len(reported[m]) \in Nat
         /\ \A i \in DOMAIN reported[m] : 1..(i - 1) \subseteq DOMAIN reported[m]
<1>1. reported[m] \in Seq(Nodes)
  BY DEF Inv, TypeOK
<1> QED
  BY <1>1

\* What the first child said stays, while none that has reported says otherwise.
LEMMA SaidKept ==
  ASSUME Inv, NEW m \in Nodes, reported'[m] = reported[m], result'[m] = result[m],
         \A i \in DOMAIN reported[m] : result'[reported[m][i]] = result[reported[m][i]],
         SaidFirst(m)
  PROVE  SaidFirst(m)'
<1>1. \A i \in DOMAIN reported[m] : \A j \in 1..(i - 1) : j \in DOMAIN reported[m]
  BY Earlier
<1>2. CASE result[m] = "UNDEF" /\ \A i \in DOMAIN reported[m] : result[reported[m][i]] = "UNDEF"
  BY <1>2 DEF SaidFirst
<1>3. ASSUME NEW i \in DOMAIN reported[m], result[m] = result[reported[m][i]], result[m] # "UNDEF",
             \A j \in 1..(i - 1) : result[reported[m][j]] = "UNDEF"
      PROVE  SaidFirst(m)'
  <2>1. \A j \in 1..(i - 1) : result'[reported[m][j]] = "UNDEF"
    BY <1>1, <1>3
  <2> QED
    BY <1>3, <2>1 DEF SaidFirst
<1> QED
  BY <1>2, <1>3 DEF SaidFirst

\* A node whose own part does not change, while its children run on.
LEMMA Elsewhere ==
  ASSUME Inv, NEW m \in Composite,
         UNCHANGED <<pc[m], built[m], next[m], result[m], inherited[m], reported[m]>>,
         terminated \subseteq terminated',
         \A i \in DOMAIN Children[m] : RunsOn(Children[m][i])
  PROVE  Family(m)'
<1> DEFINE kids == Children[m]
<1>1. /\ m \in Nodes /\ Family(m) /\ Len(kids) \in Nat /\ DOMAIN kids = 1..Len(kids)
      /\ (Started(m)' <=> Started(m)) /\ (Done(m)' <=> Done(m)) /\ (ChildLeft(m)' <=> ChildLeft(m))
  BY Kids DEF Composite, Inv, Started, Done, ChildLeft
<1>2. \A i \in DOMAIN kids :
        /\ (pc'[kids[i]] = "none" <=> pc[kids[i]] = "none")
        /\ (pc'[kids[i]] = "ended" <=> pc[kids[i]] = "ended")
        /\ Started(kids[i])' <=> Started(kids[i])
        /\ pc[kids[i]] = "ended" => result'[kids[i]] = result[kids[i]]
  BY DEF RunsOn, Started
<1>3. KidsInPlace(m)'
  BY <1>1, <1>2 DEF Family, KidsInPlace
<1>4. ASSUME Kind[m] \in {"SEQ", "SEL"}
      PROVE  InOrder(m)'
  <2> USE DEF InOrder
  <2>1. InOrder(m)
    BY <1>1, <1>4 DEF Family
  <2>2. \A i \in DOMAIN kids : Awaited(m, i)' <=> Awaited(m, i)
    BY DEF Awaited
  <2>3. \A i \in DOMAIN kids : i < next[m] /\ ~Awaited(m, i) => result'[kids[i]] = result[kids[i]]
    BY <1>2, <2>1
  <2>4. next[m] \in 1..(Len(kids) + 1)
    BY <1>1 DEF Family, KidsInPlace
  <2>5. \A i \in DOMAIN kids : i < next[m] - 1 => result'[kids[i]] = result[kids[i]]
    BY <1>1, <2>3, <2>4 DEF Awaited
  <2>6. next[m] > 1 /\ pc[m] # "called" =>
          next[m] - 1 \in DOMAIN kids /\ result'[kids[next[m] - 1]] = result[kids[next[m] - 1]]
    BY <1>1, <2>3, <2>4 DEF Awaited
  <2>7. Deciding(m)' = Deciding(m)
    BY DEF Deciding
  <2> QED
    BY <1>1, <1>2, <2>1, <2>2, <2>5, <2>6, <2>7
<1>5. ASSUME Kind[m] = "PAR"
      PROVE  Reports(m)'
  <2>1. Reports(m)
    BY <1>1, <1>5 DEF Family
  <2>2. \A c \in Nodes : ChildOf(m, c) =>
          /\ (pc'[c] = "ended" <=> pc[c] = "ended")
          /\ pc[c] = "ended" => result'[c] = result[c]
    BY <1>2 DEF ChildOf
  <2>3. \A i \in DOMAIN reported[m] : /\ pc'[reported[m][i]] = "ended"
                                      /\ result'[reported[m][i]] = result[reported[m][i]]
    BY <1>2, <2>1 DEF Reports, ChildOf
  <2>4. SaidFirst(m) => SaidFirst(m)'
    BY <1>1, <2>3, SaidKept
  <2>5. {i \in DOMAIN kids : pc'[kids[i]] = "ended"} = {i \in DOMAIN kids : pc[kids[i]] = "ended"}
    BY <1>2
  <2>6. AllJoined(m) => AllJoined(m)'
    BY <2>2 DEF AllJoined
  <2> QED
    BY <1>1, <2>1, <2>3, <2>4, <2>5, <2>6 DEF Reports
<1> QED
  BY <1>3, <1>4, <1>5 DEF Family

\* The nodes that run change as the tree allows: one starts below one that runs, or one
\* stops that has none running below it.
ActiveStep ==
  \/ Active' = Active
  \/ \E n, c \in Nodes : n \in Active /\ ChildOf(n, c) /\ Active' = Active \cup {c}
  \/ \E n \in Nodes : /\ Active' = Active \ {n}
                      /\ \A c \in Nodes : ChildOf(n, c) => c \notin Active

LEMMA ActiveStepKeeps ==
  ASSUME Inv, ActiveStep
  PROVE  ActiveAbove'
<1> SUFFICES ASSUME NEW n \in Nodes, NEW c \in Nodes, c \in Subtree(n), c \in Active', c # n
             PROVE  n \in Active'
  BY DEF ActiveAbove, Active, Subtree
<1> USE DEF Inv, ActiveAbove
<1>1. \A m \in Nodes : m \in Subtree(m)
  <2>1. \A m \in Nodes : m \in Queues \ {Root}
    BY TreeAssumption
  <2>2. \A m \in Nodes : m \in Above[m]
    BY <2>1, QueuesAssumption
  <2> QED
    BY <2>2 DEF Subtree
<1>2. CASE Active' = Active
  BY <1>2
<1>3. ASSUME NEW p \in Nodes, NEW d \in Nodes, p \in Active, ChildOf(p, d),
             Active' = Active \cup {d}
      PROVE  n \in Active'
  <2>1. CASE c \in Active
    BY <1>3, <2>1
  <2>2. CASE c = d
    <3>1. p = ParentOf[c] /\ p \in Subtree(n)
      <4>1. d = c /\ ParentOf[d] = p
        BY <1>3, <2>2, TreeAssumption
      <4>2. ParentOf[c] \in Subtree(n)
        BY AboveNode
      <4> QED
        BY <4>1, <4>2
    <3>2. p \in Active /\ (p # n => n \in Active)
      BY <1>3, <3>1
    <3> QED
      BY <1>3, <3>2
  <2> QED
    BY <1>3, <2>1, <2>2
<1>4. ASSUME NEW m \in Nodes, Active' = Active \ {m},
             \A d \in Nodes : ChildOf(m, d) => d \notin Active
      PROVE  n \in Active'
  <2>1. n \in Active /\ c \in Active
    BY <1>4
  <2>2. CASE n = m
    <3>1. PICK d \in Nodes : ChildOf(n, d) /\ c \in Subtree(d)
      BY AboveNode
    <3>2. d \in Active
      BY <2>1, <3>1
    <3> QED
      BY <1>4, <2>2, <3>1, <3>2
  <2> QED
    BY <1>4, <2>1, <2>2
<1> QED
  BY <1>2, <1>3, <1>4 DEF ActiveStep

\* What Inv says of the nodes.
Shape ==
  /\ \A n \in Nodes : InPlace(n)
  /\ \A n \in Composite : Family(n)
  /\ ActiveAbove

-----------------------------------------------------------------------------
(* The steps.                                                                *)

\* A node moves on to place p of its own run(), or returns.
Advances(n, p) ==
  /\ pc' = [pc EXCEPT ![n] = p]
  /\ Started(n) /\ pc[n] \notin {"called", "returned", "ended"}
  /\ p \in {"run", "wait", "notified", "join", "work", "close", "returned"}
  /\ UNCHANGED <<built, next, inherited, reported>> /\ terminated \subseteq terminated'
  /\ finished' = IF p = "returned" THEN finished \cup {n} ELSE finished
  /\ \A m \in Nodes \ {n} : result'[m] = result[m]
  /\ n \in Composite => result'[n] = result[n] /\ built[n] = Len(Children[n])

LEMMA AdvanceStep ==
  ASSUME Inv, NEW n \in Nodes, NEW p, Advances(n, p), InPlace(n)',
         p = "returned" /\ Kind[n] \in {"SEQ", "SEL"} => ~ChildLeft(n) \/ Decided(n),
         p = "returned" /\ Kind[n] = "PAR" => ~ChildLeft(n) /\ AllJoined(n)
  PROVE  Shape'
<1> USE DEF Advances
<1>1. /\ pc'[n] = p /\ \A m \in Nodes \ {n} : pc'[m] = pc[m]
      /\ \A m \in Nodes \ {n} : m \in finished' <=> m \in finished
  BY DEF Inv, TypeOK
<1>2. \A m \in Nodes : InPlace(m)'
  <2> SUFFICES ASSUME NEW m \in Nodes \ {n}
               PROVE  InPlace(m)'
    OBVIOUS
  <2>1. InPlace(m)
    BY DEF Inv
  <2> QED
    BY <1>1, <2>1 DEF InPlace, Done, ChildLeft
<1>3. \A m \in Nodes : RunsOn(m)
  BY <1>1 DEF RunsOn, Started
<1>4. ASSUME NEW m \in Composite, m # n
      PROVE  Family(m)'
  <2>1. m \in Nodes /\ \A i \in DOMAIN Children[m] : RunsOn(Children[m][i])
    BY <1>3, Kids DEF Composite
  <2> QED
    BY <1>1, <1>4, <2>1, Elsewhere
<1>5. ASSUME n \in Composite
      PROVE  Family(n)'
  <2> DEFINE kids == Children[n]
  <2>1. /\ Family(n) /\ Len(kids) \in Nat /\ DOMAIN kids = 1..Len(kids)
        /\ \A i \in DOMAIN kids : pc'[kids[i]] = pc[kids[i]] /\ result'[kids[i]] = result[kids[i]]
        /\ result'[n] = result[n] /\ built[n] = Len(kids)
    BY <1>1, <1>5, Kids DEF Inv
  <2>2. Started(n) /\ Started(n)' /\ pc[n] # "called" /\ pc'[n] # "called" /\ ~Done(n)
    BY <1>1 DEF Started, Done
  <2>3. KidsInPlace(n)'
    BY <1>1, <2>1, <2>2 DEF Family, KidsInPlace, Started
  <2>4. ASSUME Kind[n] \in {"SEQ", "SEL"}
        PROVE  InOrder(n)'
    <3>1. Done(n)' /\ n \notin terminated' => ~ChildLeft(n) \/ result[n] = Deciding(n)
      BY <1>1, <2>4 DEF Done, Decided, Deciding
    <3>2. next[n] > 1 => next[n] - 1 \in DOMAIN kids
      BY <2>1 DEF Family, KidsInPlace
    <3> QED
      BY <1>1, <2>1, <2>2, <2>4, <3>1, <3>2 DEF Family, InOrder, Awaited, Deciding, ChildLeft
  <2>5. ASSUME Kind[n] = "PAR"
        PROVE  Reports(n)'
    <3>1. Reports(n)
      BY <2>1, <2>5 DEF Family
    <3>2. \A i \in DOMAIN reported[n] : /\ pc'[reported[n][i]] = "ended"
                                        /\ result'[reported[n][i]] = result[reported[n][i]]
      BY <2>1, <3>1 DEF Reports, ChildOf
    <3>3. SaidFirst(n) => SaidFirst(n)'
      BY <2>1, <3>2, SaidKept
    <3>4. {i \in DOMAIN kids : pc'[kids[i]] = "ended"} = {i \in DOMAIN kids : pc[kids[i]] = "ended"}
      BY <2>1
    <3>5. Done(n)' => ~ChildLeft(n)' /\ AllJoined(n)'
      <4>1. Done(n)' => ~ChildLeft(n) /\ AllJoined(n)
        BY <1>1, <2>5 DEF Done
      <4>2. AllJoined(n) => AllJoined(n)'
        BY <2>1 DEF AllJoined, ChildOf
      <4> QED
        BY <4>1, <4>2 DEF ChildLeft
    <3> QED
      BY <2>1, <2>2, <3>1, <3>2, <3>3, <3>4, <3>5 DEF Reports
  <2> QED
    BY <2>3, <2>4, <2>5 DEF Family
<1>6. ActiveStep
  <2>1. n \in Active /\ \A m \in Nodes \ {n} : Running(m)' <=> Running(m)
    BY <1>1 DEF Active, Running, Started
  <2>2. CASE p # "returned"
    <3>1. Running(n)'
      BY <1>1, <2>2 DEF Running
    <3> QED
      BY <2>1, <3>1 DEF ActiveStep, Active
  <2>3. CASE p = "returned"
    <3>1. Active' = Active \ {n}
      BY <1>1, <2>1, <2>3 DEF Active, Running
    <3>2. \A c \in Nodes : ChildOf(n, c) => c \notin Active
      <4> SUFFICES ASSUME NEW c \in Nodes, ChildOf(n, c)
                   PROVE  ~Running(c)
        BY DEF Active
      <4>1. PICK i \in DOMAIN Children[n] : Children[n][i] = c
        BY DEF ChildOf
      <4>2. n \in Composite
        BY <4>1, Kids
      <4>3. CASE Kind[n] = "PAR"
        BY <2>3, <4>3 DEF AllJoined, Running
      <4>4. CASE Kind[n] \in {"SEQ", "SEL"}
        <5>1. i < next[n] => pc[c] = "ended"
          BY <4>1, <4>2, <4>4 DEF Inv, Family, InOrder, Awaited
        <5>2. ~(i < next[n]) => ~Started(c)
          BY <4>1, <4>2 DEF Inv, Family, KidsInPlace
        <5> QED
          BY <5>1, <5>2 DEF Running, Started
      <4> QED
        BY <4>2, <4>3, <4>4 DEF Composite
    <3> QED
      BY <3>1, <3>2 DEF ActiveStep
  <2> QED
    BY <2>2, <2>3
<1>7. ActiveAbove'
  BY <1>6, ActiveStepKeeps
<1> QED
  BY <1>2, <1>4, <1>5, <1>7 DEF Shape

LEMMA NoCycle ==
  ASSUME NEW n \in Nodes, NEW c \in Nodes, ChildOf(n, c)
  PROVE  ~ChildOf(c, n)
<1> SUFFICES ASSUME ChildOf(c, n)
             PROVE  FALSE
  OBVIOUS
<1>1. /\ n \in Queues \ {Root} /\ ParentOf[n] = c
      /\ c \in Queues \ {Root} /\ ParentOf[c] = n
  BY TreeAssumption
<1> QED
  BY <1>1, QueuesAssumption

\* A step of node n and its child c.
Between(n, c) ==
  /\ ChildOf(n, c)
  /\ \A m \in Nodes \ {n, c} :
       UNCHANGED <<pc[m], built[m], next[m], result[m], inherited[m], reported[m]>>
  /\ UNCHANGED <<terminated, finished>>
  /\ RunsOn(n)

LEMMA Others ==
  ASSUME Inv, NEW n \in Nodes, NEW c \in Nodes, Between(n, c)
  PROVE  /\ \A m \in Nodes \ {n, c} : InPlace(m)'
         /\ \A m \in Composite \ {n, c} : Family(m)'
<1>1. ASSUME NEW m \in Nodes \ {n, c}
      PROVE  InPlace(m)'
  <2>1. InPlace(m)
    BY DEF Inv
  <2> QED
    BY <2>1 DEF Between, InPlace, Done, ChildLeft
<1>2. ASSUME NEW m \in Composite \ {n, c}
      PROVE  Family(m)'
  <2>1. m \in Nodes
    BY DEF Composite
  <2>2. ASSUME NEW i \in DOMAIN Children[m]
        PROVE  RunsOn(Children[m][i])
    <3>1. Children[m][i] \in Nodes /\ ChildOf(m, Children[m][i])
      BY <2>1, Kids
    <3>2. Children[m][i] # c
      BY <2>1, <3>1, OneParent DEF Between
    <3> QED
      BY <3>1, <3>2 DEF Between, RunsOn
  <2> QED
    BY <2>1, <2>2, Elsewhere DEF Between
<1> QED
  BY <1>1, <1>2

\* A child that was constructed, or has reported, keeps its family as it is.
LEMMA ChildKeeps ==
  ASSUME Inv, NEW c \in Composite,
         (pc[c] = "none" /\ pc'[c] = "built") \/ (pc[c] = "returned" /\ pc'[c] = "ended"),
         UNCHANGED <<built[c], next[c], result[c], inherited[c], reported[c], terminated>>,
         \A i \in DOMAIN Children[c] : UNCHANGED <<pc[Children[c][i]], result[Children[c][i]]>>
  PROVE  Family(c)'
<1> DEFINE kids == Children[c]
<1>1. /\ c \in Nodes /\ Family(c) /\ Len(kids) \in Nat /\ DOMAIN kids = 1..Len(kids)
  BY Kids DEF Composite, Inv
<1>2. /\ (Started(c)' <=> Started(c)) /\ (Done(c)' <=> Done(c)) /\ (Started(c) <=> Done(c))
      /\ (ChildLeft(c)' <=> ChildLeft(c)) /\ pc[c] # "called" /\ pc'[c] # "called"
      /\ pc[c] # "build" /\ pc'[c] # "build"
      /\ Deciding(c)' = Deciding(c)
      /\ \A i \in DOMAIN kids : Started(kids[i])' <=> Started(kids[i])
  BY DEF Started, Done, ChildLeft, Deciding
<1>3. KidsInPlace(c)'
  BY <1>1, <1>2 DEF Family, KidsInPlace
<1>4. ASSUME Kind[c] \in {"SEQ", "SEL"}
      PROVE  InOrder(c)'
  <2>1. next[c] > 1 => next[c] - 1 \in DOMAIN kids
    BY <1>1 DEF Family, KidsInPlace
  <2> QED
    BY <1>1, <1>2, <1>4, <2>1 DEF Family, InOrder, Awaited
<1>5. ASSUME Kind[c] = "PAR"
      PROVE  Reports(c)'
  <2>1. Reports(c)
    BY <1>1, <1>5 DEF Family
  <2>2. \A i \in DOMAIN reported[c] : /\ pc'[reported[c][i]] = "ended"
                                      /\ result'[reported[c][i]] = result[reported[c][i]]
    BY <2>1 DEF Reports, ChildOf
  <2>3. SaidFirst(c) => SaidFirst(c)'
    BY <1>1, <2>2, SaidKept
  <2>4. {i \in DOMAIN kids : pc'[kids[i]] = "ended"} = {i \in DOMAIN kids : pc[kids[i]] = "ended"}
    OBVIOUS
  <2>5. AllJoined(c) => AllJoined(c)'
    BY DEF AllJoined, ChildOf
  <2> QED
    BY <1>1, <1>2, <2>1, <2>2, <2>3, <2>4, <2>5 DEF Reports
<1> QED
  BY <1>3, <1>4, <1>5 DEF Family

\* A child that is called has done nothing yet.
LEMMA ChildBegins ==
  ASSUME Inv, NEW c \in Composite, pc[c] = "built", pc'[c] = "build", result'[c] = inherited'[c],
         UNCHANGED <<built[c], next[c], reported[c]>>,
         \A i \in DOMAIN Children[c] : pc'[Children[c][i]] = pc[Children[c][i]]
  PROVE  Family(c)'
<1> DEFINE kids == Children[c]
<1>1. /\ c \in Nodes /\ Family(c) /\ Len(kids) \in Nat /\ DOMAIN kids = 1..Len(kids)
      /\ ~Started(c) /\ Started(c)' /\ ~Done(c)' /\ pc'[c] # "called"
  BY Kids DEF Composite, Inv, Started, Done
<1>2. next'[c] = 1 /\ built'[c] = 0 /\ next[c] = 1 /\ built[c] = 0
  BY <1>1 DEF Family, KidsInPlace
<1>3. \A i \in DOMAIN kids : pc[kids[i]] = "none" /\ ~Started(kids[i]) /\ ~(i < 1) /\ i > 0
  <2>1. \A i \in DOMAIN kids : ~(i < 1) /\ i > 0
    BY <1>1
  <2>2. \A i \in DOMAIN kids : i > built[c] => pc[kids[i]] = "none"
    BY <1>1 DEF Family, KidsInPlace
  <2> QED
    BY <1>2, <2>1, <2>2 DEF Started
<1>4. \A i \in DOMAIN kids : pc'[kids[i]] = "none" /\ ~Started(kids[i])'
  BY <1>3 DEF Started
<1>5. KidsInPlace(c)'
  <2>1. 1 \in 1..(Len(kids) + 1) /\ 0 \in 0..Len(kids)
    BY <1>1
  <2> QED
    BY <1>1, <1>2, <1>3, <1>4, <2>1 DEF KidsInPlace
<1>6. InOrder(c)'
  BY <1>1, <1>2, <1>3 DEF InOrder
<1>7. ASSUME Kind[c] = "PAR"
      PROVE  Reports(c)'
  <2>1. /\ {i \in DOMAIN kids : pc[kids[i]] = "ended"} = {}
        /\ {i \in DOMAIN kids : pc'[kids[i]] = "ended"} = {}
    BY <1>3, <1>4
  <2>2. Len(reported[c]) = 0
    BY <1>1, <1>7, <2>1, FS_EmptySet DEF Family, Reports
  <2>3. DOMAIN reported[c] = {}
    BY <1>1, <2>2, Earlier
  <2>4. SaidFirst(c)' \/ inherited'[c] # "UNDEF"
    BY <2>3 DEF SaidFirst
  <2> QED
    BY <1>1, <2>1, <2>2, <2>3, <2>4, FS_EmptySet DEF Reports
<1> QED
  BY <1>5, <1>6, <1>7 DEF Family

\* A node calls its next child, or starts the child's thread.
LEMMA CallStep ==
  ASSUME Inv, NEW n \in Composite, NEW where \in {"called", "run"}, CallChild(n, where),
         NEW k, k = next[n], NEW c, c = Children[n][k], pc[n] = "run", ChildLeft(n),
         where = "called" <=> Kind[n] \in {"SEQ", "SEL"},
         Kind[n] \in {"SEQ", "SEL"} => result[n] # Deciding(n)
  PROVE  Shape'
<1> DEFINE kids == Children[n]
<1>1. /\ n \in Nodes /\ Family(n) /\ InPlace(n) /\ Len(kids) \in Nat /\ DOMAIN kids = 1..Len(kids)
      /\ k \in DOMAIN kids /\ c \in Nodes /\ c # n /\ ChildOf(n, c)
      /\ \A i \in DOMAIN kids : i # k => kids[i] # c
      /\ \A i \in DOMAIN kids : kids[i] \in Nodes \ {n}
  <2>1. n \in Nodes /\ Family(n) /\ InPlace(n)
    BY DEF Composite, Inv
  <2>2. k \in 1..Len(kids)
    BY <2>1, Kids DEF ChildLeft, Family, KidsInPlace
  <2> QED
    BY <2>1, <2>2, Kids
<1>2. /\ pc[c] = "built" /\ ~Started(c) /\ c \notin finished /\ InPlace(c)
  <2>1. built[n] = Len(kids) /\ ~(k > built[n]) /\ ~(k < next[n])
    BY <1>1 DEF Family, KidsInPlace, Started
  <2>2. pc[c] # "none" /\ ~Started(c)
    BY <1>1, <2>1 DEF Family, KidsInPlace
  <2> QED
    BY <1>1, <2>2 DEF Started, Inv, InPlace, Done
<1>3. /\ pc'[n] = where /\ pc'[c] = "build" /\ result'[c] = result[n] /\ inherited'[c] = result[n]
      /\ next'[n] = k + 1 /\ result'[n] = result[n] /\ inherited'[n] = inherited[n]
      /\ next'[c] = next[c] /\ UNCHANGED <<built, terminated, finished, reported>>
      /\ \A m \in Nodes \ {n, c} : UNCHANGED <<pc[m], built[m], next[m], result[m], inherited[m],
                                               reported[m]>>
  BY <1>1 DEF CallChild, Inv, TypeOK
<1>4. Between(n, c)
  BY <1>1, <1>3 DEF Between, RunsOn, Started
<1>5. InPlace(n)' /\ InPlace(c)'
  <2>1. InPlace(n)'
    BY <1>1, <1>3 DEF InPlace, Done
  <2> QED
    BY <1>2, <1>3, <2>1 DEF InPlace, Done
<1>6. Family(n)'
  <2>1. \A i \in DOMAIN kids : i # k => UNCHANGED <<pc[kids[i]], result[kids[i]]>>
    BY <1>1, <1>3
  <2>2. Started(n) /\ Started(n)' /\ ~Done(n)' /\ Started(c)' /\ pc'[c] # "none" /\ pc'[n] # "build"
    BY <1>3 DEF Started, Done
  <2>3. KidsInPlace(n)'
    BY <1>1, <1>2, <1>3, <2>1, <2>2 DEF Family, KidsInPlace, Started
  <2>4. ASSUME Kind[n] \in {"SEQ", "SEL"}
        PROVE  InOrder(n)'
    <3>1. InOrder(n) /\ pc'[n] = "called"
      BY <1>1, <1>3, <2>4 DEF Family
    <3>2. \A i \in DOMAIN kids : i < k => pc[kids[i]] = "ended" /\ result[kids[i]] # Deciding(n)
      BY <1>1, <2>4, <3>1 DEF InOrder, Awaited
    <3>3. \A i \in DOMAIN kids : i < next'[n] /\ ~Awaited(n, i)' => i < k
      BY <1>1, <1>3, <3>1 DEF Awaited
    <3> QED
      BY <1>1, <1>3, <2>1, <2>2, <3>1, <3>2, <3>3 DEF InOrder, Deciding
  <2>5. ASSUME Kind[n] = "PAR"
        PROVE  Reports(n)'
    <3>1. Reports(n)
      BY <1>1, <2>5 DEF Family
    <3>2. \A i \in DOMAIN reported[n] : /\ pc'[reported[n][i]] = "ended"
                                        /\ result'[reported[n][i]] = result[reported[n][i]]
      BY <1>2, <2>1, <3>1 DEF Reports, ChildOf
    <3>3. reported' = reported /\ result'[n] = result[n] /\ inherited'[n] = inherited[n]
      BY <1>3
    <3>4. SaidFirst(n) => SaidFirst(n)'
      BY <1>1, <3>2, <3>3, SaidKept
    <3>5. {i \in DOMAIN kids : pc'[kids[i]] = "ended"} = {i \in DOMAIN kids : pc[kids[i]] = "ended"}
      BY <1>2, <1>3, <2>1
    <3> QED
      BY <2>2, <3>1, <3>2, <3>3, <3>4, <3>5 DEF Reports
  <2> QED
    BY <2>3, <2>4, <2>5 DEF Family
<1>7. ASSUME c \in Composite
      PROVE  Family(c)'
  <2>1. \A i \in DOMAIN Children[c] : Children[c][i] \in Nodes \ {n, c}
    BY <1>1, Kids, NoCycle
  <2> QED
    BY <1>1, <1>2, <1>3, <1>7, <2>1, ChildBegins
<1>8. ActiveStep
  <2>1. n \in Active /\ Active' = Active \cup {c}
    BY <1>1, <1>2, <1>3 DEF Active, Running
  <2> QED
    BY <1>1, <2>1 DEF ActiveStep
<1> QED
  BY <1>1, <1>4, <1>5, <1>6, <1>7, <1>8, Others, ActiveStepKeeps DEF Shape

\* A SEQ or a SEL takes the result of the child that it called.
LEMMA TakeStep ==
  ASSUME Inv, NEW n \in Nodes, NEW c \in Nodes, TakeResult(n, c), NEW k, k = next[n] - 1
  PROVE  Shape'
<1> DEFINE kids == Children[n]
<1>1. /\ n \in Composite /\ Kind[n] \in {"SEQ", "SEL"} /\ next[n] > 1 /\ InPlace(c)
      /\ pc[n] = "called" /\ pc[c] = "returned" /\ c = kids[k]
  BY DEF TakeResult, Inv, InPlace, Composite
<1>2. /\ Family(n) /\ InOrder(n) /\ Len(kids) \in Nat /\ DOMAIN kids = 1..Len(kids)
      /\ k \in DOMAIN kids /\ next[n] = k + 1 /\ c # n /\ ChildOf(n, c)
      /\ \A i \in DOMAIN kids : i # k => kids[i] # c
      /\ \A i \in DOMAIN kids : kids[i] \in Nodes \ {n}
  <2>1. Family(n) /\ InOrder(n)
    BY <1>1 DEF Inv, Family
  <2>2. k \in 1..Len(kids) /\ next[n] = k + 1
    BY <1>1, <2>1, Kids DEF Family, KidsInPlace
  <2> QED
    BY <1>1, <2>1, <2>2, Kids
<1>3. /\ pc'[n] = "run" /\ pc'[c] = "ended" /\ result'[n] = result[c] /\ result'[c] = result[c]
      /\ UNCHANGED <<built, next, inherited, terminated, finished, reported>>
      /\ \A m \in Nodes \ {n, c} : pc'[m] = pc[m] /\ result'[m] = result[m]
  BY <1>1, <1>2 DEF TakeResult, Inv, TypeOK
<1>4. Between(n, c)
  BY <1>1, <1>2, <1>3 DEF Between, RunsOn, Started
<1>5. InPlace(n)' /\ InPlace(c)'
  <2>1. InPlace(n)' /\ Done(c) /\ Done(c)' /\ ~Done(n) /\ ~Done(n)'
    <3>1. Done(c) /\ Done(c)' /\ ~Done(n) /\ ~Done(n)' /\ InPlace(n)
      BY <1>1, <1>3 DEF Done, Inv
    <3> QED
      BY <1>1, <1>3, <3>1 DEF InPlace
  <2> QED
    BY <1>1, <1>3, <2>1 DEF InPlace
<1>6. Family(n)'
  <2>1. \A i \in DOMAIN kids : i # k => UNCHANGED <<pc[kids[i]], result[kids[i]]>>
    BY <1>2, <1>3
  <2>2. Started(n) /\ Started(n)' /\ Started(c) /\ Started(c)' /\ ~Done(n)' /\ pc'[n] # "build"
    BY <1>1, <1>3 DEF Started, Done
  <2>3. KidsInPlace(n)'
    <3>1. \A i \in DOMAIN kids : /\ Started(kids[i])' <=> Started(kids[i])
                                 /\ pc'[kids[i]] = "none" <=> pc[kids[i]] = "none"
      BY <1>1, <1>2, <1>3, <2>1, <2>2 DEF Started
    <3> QED
      BY <1>1, <1>2, <1>3, <2>2, <3>1 DEF Family, KidsInPlace
  <2>4. InOrder(n)'
    <3>1. \A i \in DOMAIN kids : i < k => pc[kids[i]] = "ended" /\ result[kids[i]] # Deciding(n)
      BY <1>2 DEF InOrder, Awaited
    <3>2. next'[n] = k + 1 /\ k \in 1..Len(kids) /\ Len(kids) \in Nat /\ DOMAIN kids = 1..Len(kids)
      BY <1>2, <1>3
    <3>3. \A i \in DOMAIN kids : i < next'[n] => pc'[kids[i]] = "ended"
      <4> SUFFICES ASSUME NEW i \in 1..Len(kids), i < next'[n]
                   PROVE  pc'[kids[i]] = "ended"
        BY <3>2
      <4>1. CASE i = k
        BY <1>1, <1>3, <4>1
      <4>2. CASE i # k
        BY <2>1, <3>1, <3>2, <4>2
      <4> QED
        BY <4>1, <4>2
    <3>4. \A i \in DOMAIN kids : i < next'[n] - 1 => result'[kids[i]] # Deciding(n)
      BY <2>1, <3>1, <3>2
    <3>5. next'[n] # 1 /\ result'[n] = result'[kids[next'[n] - 1]] /\ Deciding(n)' = Deciding(n)
      BY <1>1, <1>3, <3>2 DEF Deciding
    <3> QED
      BY <2>2, <3>3, <3>4, <3>5 DEF InOrder
  <2> QED
    BY <1>1, <2>3, <2>4 DEF Family
<1>7. ASSUME c \in Composite
      PROVE  Family(c)'
  <2>1. \A i \in DOMAIN Children[c] : Children[c][i] \in Nodes \ {n, c}
    BY <1>2, Kids, NoCycle
  <2> QED
    BY <1>1, <1>2, <1>3, <1>7, <2>1, ChildKeeps
<1>8. Active' = Active
  BY <1>1, <1>2, <1>3 DEF Active, Running
<1> QED
  BY <1>1, <1>4, <1>5, <1>6, <1>7, <1>8, Others, ActiveStepKeeps DEF Shape, ActiveStep

\* A child of a PAR reports to it.
LEMMA ReportStep ==
  ASSUME Inv, NEW n \in Nodes, NEW c \in Nodes, Report(n, c)
  PROVE  Shape'
<1> DEFINE kids == Children[n]
<1>1. /\ n \in Composite /\ Kind[n] = "PAR" /\ ChildOf(n, c) /\ pc[c] = "returned"
      /\ Family(n) /\ Reports(n) /\ InPlace(n) /\ InPlace(c)
      /\ Len(kids) \in Nat /\ DOMAIN kids = 1..Len(kids) /\ c # n
  <2>1. n \in Composite /\ Kind[n] = "PAR" /\ ChildOf(n, c) /\ pc[c] = "returned"
    BY DEF Report, Composite
  <2> QED
    BY <2>1, Kids DEF Inv, Family, ChildOf
<1>2. PICK k \in DOMAIN kids : kids[k] = c
  BY <1>1 DEF ChildOf
<1>3. /\ \A i \in DOMAIN kids : i # k => kids[i] # c
      /\ \A i \in DOMAIN kids : kids[i] \in Nodes \ {n}
  BY <1>2, Kids
<1>4. Started(n) /\ ~Done(n) /\ pc[n] # "called"
  <2>1. ~Done(n)
    BY <1>1 DEF Reports, AllJoined
  <2>2. k < next[n]
    BY <1>1, <1>2 DEF Family, KidsInPlace, Started
  <2>3. next[n] # 1
    BY <1>1, <1>2, <2>2 DEF Family, KidsInPlace
  <2> QED
    BY <1>1, <2>1, <2>3 DEF Family, KidsInPlace, InPlace, Started
<1>5. /\ pc'[n] = IF pc[n] = "wait" THEN "notified" ELSE pc[n]
      /\ pc'[c] = "ended" /\ result'[n] = FirstResult(n, c) /\ result'[c] = result[c]
      /\ reported'[n] = Append(reported[n], c) /\ reported'[c] = reported[c]
      /\ UNCHANGED <<built, next, inherited, terminated, finished>>
      /\ \A m \in Nodes \ {n, c} : UNCHANGED <<pc[m], result[m], reported[m]>>
  BY <1>1 DEF Report, Inv, TypeOK
<1>6. /\ Started(n)' /\ ~Done(n)' /\ pc[n] # "ended" /\ pc'[n] # "ended" /\ Running(n) /\ Running(n)'
      /\ (pc'[n] = "build" <=> pc[n] = "build") /\ pc'[n] \notin {"none", "built"}
      /\ pc[n] \notin {"none", "built"}
  BY <1>4, <1>5 DEF Started, Done, Running
<1>7. Between(n, c)
  BY <1>1, <1>4, <1>5, <1>6 DEF Between, RunsOn
<1>8. InPlace(n)' /\ InPlace(c)'
  <2>1. InPlace(n)'
    BY <1>1, <1>4, <1>5, <1>6 DEF InPlace, ChildLeft
  <2>2. Done(c) /\ Done(c)'
    BY <1>1, <1>5 DEF Done
  <2> QED
    BY <1>1, <1>5, <2>1, <2>2 DEF InPlace
<1>9. Family(n)'
  <2>1. \A i \in DOMAIN kids : i # k => UNCHANGED <<pc[kids[i]], result[kids[i]]>>
    BY <1>3, <1>5
  <2>2. KidsInPlace(n)'
    <3>1. \A i \in DOMAIN kids : /\ Started(kids[i])' <=> Started(kids[i])
                                 /\ pc'[kids[i]] = "none" <=> pc[kids[i]] = "none"
      BY <1>1, <1>2, <1>5, <2>1 DEF Started
    <3> QED
      BY <1>1, <1>4, <1>5, <1>6, <3>1 DEF Family, KidsInPlace
  <2> DEFINE said == reported[n]
             len == Len(said)
             over == {i \in DOMAIN kids : pc[kids[i]] = "ended"}
  <2>3. /\ said \in Seq(Nodes) /\ len \in Nat /\ DOMAIN said = 1..len
        /\ DOMAIN reported'[n] = 1..(len + 1) /\ Len(reported'[n]) = len + 1
        /\ \A i \in 1..len : reported'[n][i] = said[i]
        /\ reported'[n][len + 1] = c
    <3>1. said \in Seq(Nodes)
      BY Earlier
    <3> QED
      BY <1>5, <3>1
  <2>4. \A i \in 1..len : /\ ChildOf(n, said[i]) /\ pc[said[i]] = "ended"
                          /\ pc'[said[i]] = "ended" /\ result'[said[i]] = result[said[i]]
    <3> SUFFICES ASSUME NEW i \in 1..len
                 PROVE  /\ ChildOf(n, said[i]) /\ pc[said[i]] = "ended"
                        /\ pc'[said[i]] = "ended" /\ result'[said[i]] = result[said[i]]
      OBVIOUS
    <3>1. ChildOf(n, said[i]) /\ pc[said[i]] = "ended"
      BY <1>1, <2>3 DEF Reports
    <3>2. PICK j \in DOMAIN kids : kids[j] = said[i]
      BY <3>1 DEF ChildOf
    <3>3. j # k
      BY <1>1, <1>2, <3>1, <3>2
    <3> QED
      BY <2>1, <3>1, <3>2, <3>3
  <2>5. \A i \in DOMAIN reported'[n] : ChildOf(n, reported'[n][i]) /\ pc'[reported'[n][i]] = "ended"
    <3> SUFFICES ASSUME NEW i \in 1..(len + 1)
                 PROVE  ChildOf(n, reported'[n][i]) /\ pc'[reported'[n][i]] = "ended"
      BY <2>3
    <3>1. i \in 1..len \/ i = len + 1
      BY <2>3
    <3> QED
      BY <1>1, <1>5, <2>3, <2>4, <3>1
  <2>6. Len(reported'[n]) = Cardinality({i \in DOMAIN kids : pc'[kids[i]] = "ended"})
    <3>1. {i \in DOMAIN kids : pc'[kids[i]] = "ended"} = over \cup {k} /\ k \notin over
      BY <1>1, <1>2, <1>5, <2>1
    <3>2. IsFiniteSet(over)
      <4>1. IsFiniteSet(1..Len(kids)) /\ over \in SUBSET (1..Len(kids))
        BY <1>1, FS_Interval
      <4> QED
        BY <4>1, FS_Subset
    <3>3. Cardinality(over \cup {k}) = Cardinality(over) + 1
      BY <3>1, <3>2, FS_AddElement
    <3> QED
      BY <1>1, <2>3, <3>1, <3>3 DEF Reports
  <2>7. IF inherited'[n] = "UNDEF" THEN SaidFirst(n)' ELSE result'[n] = inherited'[n]
    <3>1. CASE inherited[n] # "UNDEF"
      BY <1>1, <1>4, <1>5, <3>1 DEF Reports, FirstResult
    <3>2. ASSUME inherited[n] = "UNDEF"
          PROVE  SaidFirst(n)'
      <4>1. SaidFirst(n)
        BY <1>1, <1>4, <3>2 DEF Reports
      <4>2. CASE /\ result[n] = "UNDEF" /\ result[c] = "UNDEF"
                 /\ \A i \in DOMAIN said : result[said[i]] = "UNDEF"
        <5>1. result'[n] = "UNDEF"
          BY <1>5, <4>2 DEF FirstResult
        <5>2. \A i \in DOMAIN reported'[n] : result'[reported'[n][i]] = "UNDEF"
          <6> SUFFICES ASSUME NEW i \in 1..(len + 1)
                       PROVE  result'[reported'[n][i]] = "UNDEF"
            BY <2>3
          <6>1. i \in 1..len \/ i = len + 1
            BY <2>3
          <6> QED
            BY <1>5, <2>3, <2>4, <4>2, <6>1
        <5> QED
          BY <5>1, <5>2 DEF SaidFirst
      <4>3. CASE /\ result[n] = "UNDEF" /\ result[c] # "UNDEF"
                 /\ \A i \in DOMAIN said : result[said[i]] = "UNDEF"
        <5>1. result'[n] = result[c] /\ result'[c] = result[c] /\ len + 1 \in DOMAIN reported'[n]
          BY <1>5, <2>3, <4>3 DEF FirstResult
        <5>2. \A j \in 1..((len + 1) - 1) : result'[reported'[n][j]] = "UNDEF"
          BY <2>3, <2>4, <4>3
        <5>3. /\ result'[n] = result'[reported'[n][len + 1]] /\ result'[n] # "UNDEF"
          BY <2>3, <4>3, <5>1
        <5> QED
          BY <5>1, <5>2, <5>3 DEF SaidFirst
      <4>4. ASSUME NEW i \in DOMAIN said, result[n] = result[said[i]], result[n] # "UNDEF",
                   \A j \in 1..(i - 1) : result[said[j]] = "UNDEF"
            PROVE  SaidFirst(n)'
        <5>1. result'[n] = result[n] /\ i \in 1..len /\ i \in DOMAIN reported'[n]
          BY <1>5, <2>3, <4>4 DEF FirstResult
        <5>2. \A j \in 1..(i - 1) : j \in 1..len
          BY <2>3, <5>1
        <5>3. \A j \in 1..(i - 1) : result'[reported'[n][j]] = "UNDEF"
          BY <2>3, <2>4, <4>4, <5>2
        <5>4. result'[n] = result'[reported'[n][i]] /\ result'[n] # "UNDEF"
          BY <2>3, <2>4, <4>4, <5>1
        <5> QED
          BY <5>1, <5>3, <5>4 DEF SaidFirst
      <4> QED
        BY <4>1, <4>2, <4>3, <4>4 DEF SaidFirst
    <3> QED
      BY <1>5, <3>1, <3>2
  <2>8. Reports(n)'
    BY <1>6, <2>5, <2>6, <2>7 DEF Reports
  <2> QED
    BY <1>1, <2>2, <2>8 DEF Family
<1>10. ASSUME c \in Composite
       PROVE  Family(c)'
  <2>1. \A i \in DOMAIN Children[c] : Children[c][i] \in Nodes \ {n, c}
    BY <1>1, Kids, NoCycle
  <2> QED
    BY <1>1, <1>5, <1>10, <2>1, ChildKeeps
<1>11. Active' = Active
  BY <1>1, <1>5, <1>6 DEF Active, Running
<1> QED
  BY <1>1, <1>7, <1>8, <1>9, <1>10, <1>11, Others, ActiveStepKeeps DEF Shape, ActiveStep

\* A node constructs its next child.
LEMMA BuildStep ==
  ASSUME Inv, NEW n \in Nodes, BuildChild(n), NEW k, k = built[n] + 1, NEW c, c = Children[n][k]
  PROVE  Shape'
<1> DEFINE kids == Children[n]
<1>1. /\ n \in Composite /\ Family(n) /\ InPlace(n) /\ pc[n] = "build"
      /\ Len(kids) \in Nat /\ DOMAIN kids = 1..Len(kids)
      /\ k \in 1..Len(kids) /\ built[n] = k - 1 /\ next[n] = 1
      /\ c \in Nodes /\ c # n /\ ChildOf(n, c)
      /\ \A i \in DOMAIN kids : i # k => kids[i] # c
      /\ \A i \in DOMAIN kids : kids[i] \in Nodes \ {n}
  <2>1. n \in Composite /\ Family(n) /\ InPlace(n) /\ pc[n] = "build" /\ built[n] < Len(kids)
    BY DEF BuildChild, Inv
  <2>2. Len(kids) \in Nat /\ DOMAIN kids = 1..Len(kids) /\ built[n] \in 0..Len(kids) /\ next[n] = 1
    BY <2>1, Kids DEF Family, KidsInPlace
  <2>3. k \in 1..Len(kids) /\ built[n] = k - 1
    BY <2>1, <2>2
  <2> QED
    BY <2>1, <2>2, <2>3, Kids
<1>2. pc[c] = "none" /\ ~Started(c) /\ InPlace(c)
  <2>1. k \in DOMAIN kids /\ k > built[n]
    BY <1>1
  <2>2. pc[c] = "none"
    BY <1>1, <2>1 DEF Family, KidsInPlace
  <2> QED
    BY <1>1, <2>2 DEF Started, Inv
<1>3. /\ pc'[c] = "built" /\ built'[n] = k /\ built'[c] = built[c]
      /\ UNCHANGED <<next, result, inherited, terminated, finished, reported>>
      /\ \A m \in Nodes \ {c} : pc'[m] = pc[m]
      /\ \A m \in Nodes \ {n, c} : built'[m] = built[m]
  BY <1>1 DEF BuildChild, Inv, TypeOK
<1>4. Between(n, c)
  BY <1>1, <1>3 DEF Between, RunsOn
<1>5. InPlace(n)' /\ InPlace(c)'
  BY <1>1, <1>2, <1>3 DEF InPlace, Done, ChildLeft
<1>6. Family(n)'
  <2>1. /\ \A i \in DOMAIN kids : i # k => pc'[kids[i]] = pc[kids[i]]
        /\ \A i \in DOMAIN kids : Started(kids[i])' <=> Started(kids[i])
        /\ \A i \in DOMAIN kids : pc'[kids[i]] = "ended" <=> pc[kids[i]] = "ended"
        /\ Started(n) /\ Started(n)' /\ pc'[n] = "build" /\ ~Done(n)'
        /\ next'[n] = 1 /\ built'[n] = k
    BY <1>1, <1>2, <1>3 DEF Started, Done
  <2>2. KidsInPlace(n)'
    <3>1. \A i \in DOMAIN kids : pc'[kids[i]] = "none" <=> i > k
      <4> SUFFICES ASSUME NEW i \in 1..Len(kids)
                   PROVE  pc'[kids[i]] = "none" <=> i > k
        BY <1>1
      <4>1. CASE i = k
        BY <1>1, <1>3, <4>1
      <4>2. CASE i # k
        <5>1. pc[kids[i]] = "none" <=> i > k - 1
          BY <1>1 DEF Family, KidsInPlace
        <5> QED
          BY <1>1, <2>1, <4>2, <5>1
      <4> QED
        BY <4>1, <4>2
    <3>2. \A i \in DOMAIN kids : Started(kids[i])' <=> i < 1
      BY <1>1, <2>1 DEF Family, KidsInPlace
    <3>3. k \in 0..Len(kids) /\ 1 \in 1..(Len(kids) + 1)
      BY <1>1
    <3> QED
      BY <2>1, <3>1, <3>2, <3>3 DEF KidsInPlace
  <2>3. ASSUME Kind[n] \in {"SEQ", "SEL"}
        PROVE  InOrder(n)'
    <3>1. result'[n] = inherited'[n]
      BY <1>1, <1>3, <2>1, <2>3 DEF Family, InOrder
    <3> QED
      BY <1>1, <2>1, <3>1 DEF InOrder
  <2>4. ASSUME Kind[n] = "PAR"
        PROVE  Reports(n)'
    <3>1. Reports(n) /\ UNCHANGED <<result, inherited, reported>>
      BY <1>1, <1>3, <2>4 DEF Family
    <3>2. \A i \in DOMAIN reported[n] : /\ pc'[reported[n][i]] = "ended"
                                        /\ result'[reported[n][i]] = result[reported[n][i]]
      BY <2>1, <3>1 DEF Reports, ChildOf
    <3>3. SaidFirst(n) => SaidFirst(n)'
      BY <3>1, <3>2, SaidKept
    <3>4. {i \in DOMAIN kids : pc'[kids[i]] = "ended"} = {i \in DOMAIN kids : pc[kids[i]] = "ended"}
      BY <2>1
    <3> QED
      BY <2>1, <3>1, <3>2, <3>3, <3>4 DEF Reports
  <2> QED
    BY <2>2, <2>3, <2>4 DEF Family
<1>7. ASSUME c \in Composite
      PROVE  Family(c)'
  <2>1. \A i \in DOMAIN Children[c] : Children[c][i] \in Nodes \ {n, c}
    BY <1>1, Kids, NoCycle
  <2> QED
    BY <1>1, <1>2, <1>3, <1>7, <2>1, ChildKeeps
<1>8. Active' = Active
  BY <1>1, <1>2, <1>3 DEF Active, Running
<1> QED
  BY <1>1, <1>4, <1>5, <1>6, <1>7, <1>8, Others, ActiveStepKeeps DEF Shape, ActiveStep

-----------------------------------------------------------------------------
(* Types.                                                                    *)

LEMMA NotifiedType ==
  ASSUME EQTypeOK, NEW S \in SUBSET Queues, NotifyOne(S)
  PROVE  asleep' \in [Queues -> SUBSET Threads] /\ woken' \in [Queues -> SUBSET Threads]
<1>1. PICK lucky \in SUBSET UNION {asleep[q] : q \in S} :
        /\ asleep' = [q \in Queues |-> asleep[q] \ lucky]
        /\ woken' = [q \in Queues |-> woken[q] \cup (asleep[q] \cap lucky)]
  BY DEF NotifyOne
<1> QED
  BY <1>1 DEF EQTypeOK

LEMMA RaiseType ==
  ASSUME EQTypeOK, NEW e \in Events, RaiseEvent(e)
  PROVE  EQTypeOK'
<1>1. Below(Root) \in SUBSET Queues
  BY BelowType, QueuesAssumption
<1>2. asleep' \in [Queues -> SUBSET Threads] /\ woken' \in [Queues -> SUBSET Threads]
  BY <1>1, NotifiedType DEF RaiseEvent, Deliver
<1>3. \A q \in Queues : Added(q, e) \in Seq(Events \cup {SpinEvent})
  BY AddedType
<1>4. events' \in [Queues -> Seq(Events \cup {SpinEvent})]
  BY <1>3 DEF RaiseEvent, Deliver, EQTypeOK
<1> QED
  BY <1>2, <1>4 DEF EQTypeOK, RaiseEvent

LEMMA StopType ==
  ASSUME EQTypeOK, NEW S \in SUBSET Queues, StopAll(S), UNCHANGED <<events, alive, subscribed, ok>>
  PROVE  EQTypeOK'
<1>1. stopped' \subseteq Queues
  BY DEF StopAll, EQTypeOK
<1>2. asleep' \in [Queues -> SUBSET Threads] /\ woken' \in [Queues -> SUBSET Threads]
  BY DEF StopAll, EQTypeOK
<1> QED
  BY <1>1, <1>2 DEF EQTypeOK

LEMMA TerminateType ==
  ASSUME TypeOK, NEW n \in Nodes, Terminate(n)
  PROVE  EQTypeOK' /\ terminated' \subseteq Nodes /\ terminated \subseteq terminated'
<1> DEFINE hit == {c \in Subtree(n) : pc[c] # "none" /\ Way(n, c) \cap finished = {}}
<1>1. hit \subseteq Nodes /\ hit \subseteq Queues /\ EQTypeOK
  BY TreeAssumption DEF Subtree, TypeOK
<1>2. UNION {Below(m) : m \in hit} \in SUBSET Queues
  BY <1>1, BelowType
<1>3. terminated' = terminated \cup hit /\ StopAll(UNION {Below(m) : m \in hit})
      /\ UNCHANGED <<events, alive, subscribed, ok>>
  BY DEF Terminate
<1>4. EQTypeOK'
  BY <1>1, <1>2, <1>3, StopType
<1> QED
  BY <1>1, <1>3, <1>4 DEF TypeOK

LEMMA OwnerType ==
  ASSUME EQTypeOK, NEW q \in Queues \ {Root}, Construct(q) \/ Destroy(q)
  PROVE  EQTypeOK'
<1>1. CASE Construct(q)
  <2>1. /\ alive' \subseteq Queues /\ stopped' \subseteq Queues /\ subscribed' \subseteq alive' \ {Root}
    BY <1>1 DEF Construct, Subscribe, EQTypeOK
  <2>2. events' \in [Queues -> Seq(Events \cup {SpinEvent})]
    BY <1>1 DEF Construct, EQTypeOK
  <2> QED
    BY <1>1, <2>1, <2>2 DEF Construct, EQTypeOK
<1>2. CASE Destroy(q)
  BY <1>2 DEF Destroy, Unsubscribe, EQTypeOK
<1> QED
  BY <1>1, <1>2

LEMMA WaitType ==
  ASSUME EQTypeOK, NEW t \in Threads, NEW q \in Queues, WaitSleep(t, q) \/ WaitUndefined(t, q)
  PROVE  EQTypeOK'
<1>1. CASE WaitSleep(t, q)
  BY <1>1 DEF WaitSleep, EQTypeOK
<1>2. CASE WaitUndefined(t, q)
  BY <1>2 DEF WaitUndefined, EQTypeOK
<1> QED
  BY <1>1, <1>2

\* What a step of node n leaves of the types, when its queue operation keeps theirs.
LEMMA OwnType ==
  ASSUME TypeOK, EQTypeOK', NEW n \in Nodes, NEW p \in Places, NEW r \in Results,
         pc' = [pc EXCEPT ![n] = p], result' = [result EXCEPT ![n] = r] \/ result' = result,
         finished' = finished \cup {n} \/ finished' = finished, terminated' \subseteq Nodes,
         UNCHANGED <<built, next, inherited, reported>>
  PROVE  TypeOK'
BY DEF TypeOK

-----------------------------------------------------------------------------
(* The invariant.                                                            *)

LEMMA TreeInitInv == Init => Inv
<1> SUFFICES ASSUME Init
             PROVE  Inv
  OBVIOUS
<1> USE DEF Init
<1>1. EQTypeOK
  <2>1. Root \in Queues /\ Top \in Queues /\ Top # Root
    BY TreeAssumption
  <2> QED
    BY <2>1 DEF EQTypeOK
<1>2. TypeOK
  <2>1. pc \in [Nodes -> Places] /\ \A n \in Nodes : <<>> \in Seq(Nodes)
    BY DEF Places
  <2>2. result \in [Nodes -> Results] /\ inherited \in [Nodes -> Results]
    BY DEF Results
  <2>3. /\ built \in [Nodes -> Nat] /\ next \in [Nodes -> Nat] /\ reported \in [Nodes -> Seq(Nodes)]
        /\ terminated \subseteq Nodes /\ finished \subseteq Nodes
    BY <2>1
  <2> QED
    BY <1>1, <2>1, <2>2, <2>3 DEF TypeOK
<1>3. \A n \in Nodes : /\ pc[n] = IF n = Top THEN "build" ELSE "none"
                       /\ built[n] = 0 /\ next[n] = 1 /\ result[n] = "UNDEF" /\ inherited[n] = "UNDEF"
                       /\ n \notin finished /\ reported[n] = <<>>
  OBVIOUS
<1>4. \A n \in Nodes : InPlace(n)
  BY <1>3 DEF InPlace, Done
<1>5. \A n \in Composite : Family(n)
  <2> SUFFICES ASSUME NEW n \in Composite
               PROVE  Family(n)
    OBVIOUS
  <2> DEFINE kids == Children[n]
  <2>1. /\ n \in Nodes /\ Len(kids) \in Nat /\ DOMAIN kids = 1..Len(kids) /\ ~Done(n) /\ pc[n] # "called"
        /\ Started(n) => pc[n] = "build"
    BY <1>3, Kids DEF Composite, Done, Started
  <2>2. \A i \in DOMAIN kids : pc[kids[i]] = "none" /\ ~Started(kids[i])
    <3> SUFFICES ASSUME NEW i \in DOMAIN kids
                 PROVE  pc[kids[i]] = "none"
      BY DEF Started
    <3>1. kids[i] \in Nodes /\ ParentOf[kids[i]] = n
      BY <2>1, Kids
    <3>2. kids[i] # Top
      BY <2>1, <3>1, TreeAssumption
    <3> QED
      BY <1>3, <3>1, <3>2
  <2>3. KidsInPlace(n)
    BY <1>3, <2>1, <2>2 DEF KidsInPlace
  <2>4. InOrder(n)
    BY <1>3, <2>1, <2>2 DEF InOrder
  <2>5. Reports(n)
    <3>1. {i \in DOMAIN kids : pc[kids[i]] = "ended"} = {}
      BY <2>2
    <3>2. Len(reported[n]) = 0 /\ DOMAIN reported[n] = {}
      BY <1>3, <2>1
    <3>3. SaidFirst(n)
      BY <1>3, <2>1, <3>2 DEF SaidFirst
    <3> QED
      BY <2>1, <3>1, <3>2, <3>3, FS_EmptySet DEF Reports
  <2> QED
    BY <2>3, <2>4, <2>5 DEF Family
<1>6. ActiveAbove
  <2>1. Active \subseteq {Top}
    BY <1>3 DEF Active, Running
  <2> QED
    BY <2>1, AboveNode DEF ActiveAbove, Subtree
<1> QED
  BY <1>2, <1>4, <1>5, <1>6 DEF Inv

\* A step that leaves the tree alone.
LEMMA Same ==
  ASSUME Inv, UNCHANGED btVars, EQTypeOK'
  PROVE  Inv'
<1>1. TypeOK'
  BY DEF Inv, TypeOK
<1>2. \A n \in Nodes : InPlace(n)'
  BY DEF Inv, InPlace, Done, ChildLeft
<1>3. \A n \in Composite : Family(n)'
  <2> SUFFICES ASSUME NEW n \in Composite
               PROVE  Family(n)'
    OBVIOUS
  <2>1. \A i \in DOMAIN Children[n] : RunsOn(Children[n][i])
    BY DEF RunsOn
  <2> QED
    BY <2>1, Elsewhere
<1>4. ActiveAbove'
  <2>1. Active' = Active
    BY DEF Active, Running
  <2> QED
    BY <2>1, ActiveStepKeeps DEF ActiveStep
<1> QED
  BY <1>1, <1>2, <1>3, <1>4 DEF Inv

LEMMA NodeStepInv ==
  ASSUME Inv, NEW n \in Nodes, NodeStep(n)
  PROVE  Inv'
<1>1. /\ TypeOK /\ EQTypeOK /\ InPlace(n) /\ (n \in Composite => Family(n))
      /\ n \in Queues \ {Root} /\ n \in Threads
  BY TreeAssumption DEF Inv, TypeOK
<1>2. Shape' /\ TypeOK' => Inv'
  BY DEF Shape, Inv
<1>3. CASE BuildChild(n)
  <2> DEFINE c == Children[n][built[n] + 1]
  <2>1. c \in Nodes
    <3>1. built[n] + 1 \in 1..Len(Children[n])
      BY <1>1, <1>3, Kids DEF BuildChild, Family, KidsInPlace
    <3> QED
      BY <3>1, Kids
  <2>2. EQTypeOK'
    <3>1. c \in Queues \ {Root} /\ Construct(c)
      BY <1>3, <2>1, TreeAssumption DEF BuildChild
    <3> QED
      BY <1>1, <3>1, OwnerType
  <2>3. TypeOK'
    <3>1. pc' \in [Nodes -> Places] /\ built' \in [Nodes -> Nat]
      BY <1>1, <1>3, <2>1 DEF BuildChild, TypeOK, Places
    <3> QED
      BY <1>1, <1>3, <2>2, <3>1 DEF BuildChild, TypeOK
  <2>4. Shape'
    BY <1>3, BuildStep
  <2> QED
    BY <1>2, <2>3, <2>4
<1>4. CASE RunAll(n)
  <2>1. Advances(n, "run") /\ InPlace(n)'
    BY <1>1, <1>4 DEF RunAll, Advances, Started, InPlace, Done, TypeOK
  <2>2. TypeOK'
    BY <1>1, <1>4, OwnType DEF RunAll, Places, TypeOK, EQTypeOK
  <2> QED
    BY <1>2, <2>1, <2>2, AdvanceStep
<1>5. ASSUME NEW where \in {"called", "run"}, CallChild(n, where), pc[n] = "run", ChildLeft(n),
             where = "called" <=> Kind[n] \in {"SEQ", "SEL"},
             Kind[n] \in {"SEQ", "SEL"} => ~Decided(n)
      PROVE  Inv'
  <2> DEFINE c == Children[n][next[n]]
  <2>1. n \in Composite /\ c \in Nodes
    <3>1. n \in Composite
      BY <1>1, <1>5 DEF InPlace
    <3>2. next[n] \in 1..Len(Children[n])
      BY <1>1, <1>5, <3>1, Kids DEF ChildLeft, Family, KidsInPlace
    <3> QED
      BY <3>1, <3>2, Kids
  <2>2. Kind[n] \in {"SEQ", "SEL"} => result[n] # Deciding(n)
    BY <1>5 DEF Decided, Deciding
  <2>3. Shape'
    BY <1>5, <2>1, <2>2, CallStep
  <2>4. TypeOK'
    <3>1. EQTypeOK'
      BY <1>1, <1>5 DEF CallChild, EQTypeOK
    <3>2. pc' \in [Nodes -> Places] /\ next' \in [Nodes -> Nat]
      <4>1. pc' = [pc EXCEPT ![c] = "build", ![n] = where] /\ next' = [next EXCEPT ![n] = @ + 1]
        BY <1>5 DEF CallChild
      <4>2. where \in Places /\ "build" \in Places
        BY DEF Places
      <4>3. pc' \in [Nodes -> Places]
        BY <1>1, <4>1, <4>2 DEF TypeOK
      <4>4. next \in [Nodes -> Nat] /\ next[n] + 1 \in Nat
        BY <1>1 DEF TypeOK
      <4> QED
        BY <4>1, <4>3, <4>4
    <3>3. result' \in [Nodes -> Results] /\ inherited' \in [Nodes -> Results]
      BY <1>1, <1>5 DEF CallChild, TypeOK
    <3> QED
      BY <1>1, <1>5, <3>1, <3>2, <3>3 DEF CallChild, TypeOK
  <2> QED
    BY <1>2, <2>3, <2>4
<1>6. CASE RunNextInOrder(n)
  <2>1. CASE ChildLeft(n) /\ ~Decided(n)
    BY <1>5, <1>6, <2>1 DEF RunNextInOrder
  <2>2. CASE ~(ChildLeft(n) /\ ~Decided(n))
    <3>1. /\ Finish(n) /\ pc[n] = "run" /\ Kind[n] \in {"SEQ", "SEL"} /\ n \in Composite
          /\ UNCHANGED <<eqVars, built, next, result, terminated, reported, inherited>>
      BY <1>6, <2>2 DEF RunNextInOrder, Composite
    <3>2. built[n] = Len(Children[n])
      BY <1>1, <3>1 DEF Family, KidsInPlace, Started
    <3>3. Advances(n, "returned") /\ InPlace(n)'
      BY <1>1, <3>1, <3>2 DEF Advances, Finish, Started, InPlace, Done, TypeOK
    <3>4. TypeOK'
      BY <1>1, <3>1, OwnType DEF Finish, Places, TypeOK, EQTypeOK
    <3> QED
      BY <1>2, <2>2, <3>1, <3>3, <3>4, AdvanceStep
  <2> QED
    BY <2>1, <2>2
<1>7. ASSUME NEW c \in Nodes, TakeResult(n, c)
      PROVE  Inv'
  <2>1. Shape'
    BY <1>7, TakeStep
  <2>2. TypeOK'
    <3>1. pc' \in [Nodes -> Places] /\ result' \in [Nodes -> Results]
      BY <1>1, <1>7 DEF TakeResult, TypeOK, Places
    <3> QED
      BY <1>1, <1>7, <3>1 DEF TakeResult, TypeOK, EQTypeOK
  <2> QED
    BY <1>2, <2>1, <2>2
<1>8. CASE StartChild(n)
  BY <1>5, <1>8 DEF StartChild
<1>9. CASE ParWait(n)
  <2>1. n \in Composite /\ built[n] = Len(Children[n])
    BY <1>1, <1>9 DEF ParWait, Composite, Family, KidsInPlace, Started
  <2>2. Advances(n, "wait") /\ InPlace(n)'
    BY <1>1, <1>9, <2>1 DEF ParWait, Advances, Started, InPlace, Done, TypeOK, ChildLeft
  <2>3. TypeOK'
    BY <1>1, <1>9, OwnType DEF ParWait, Places, TypeOK, EQTypeOK
  <2> QED
    BY <1>2, <2>2, <2>3, AdvanceStep
<1>10. ASSUME NEW c \in Nodes, Report(n, c)
       PROVE  Inv'
  <2>1. Shape'
    BY <1>10, ReportStep
  <2>2. TypeOK'
    <3>1. pc' \in [Nodes -> Places]
      BY <1>1, <1>10 DEF Report, TypeOK, Places
    <3>2. FirstResult(n, c) \in Results
      BY <1>1 DEF FirstResult, TypeOK
    <3>3. result' \in [Nodes -> Results]
      BY <1>1, <1>10, <3>2 DEF Report, TypeOK
    <3>4. Append(reported[n], c) \in Seq(Nodes)
      BY <1>1 DEF TypeOK
    <3>5. reported' \in [Nodes -> Seq(Nodes)]
      BY <1>1, <1>10, <3>4 DEF Report, TypeOK
    <3> QED
      BY <1>1, <1>10, <3>1, <3>3, <3>5 DEF Report, TypeOK, EQTypeOK
  <2> QED
    BY <1>2, <2>1, <2>2
<1>11. CASE ParTerminate(n)
  <2>1. /\ Kind[n] = "PAR" /\ n \in Composite /\ built[n] = Len(Children[n]) /\ ~ChildLeft(n)
    BY <1>1, <1>11 DEF ParTerminate, Composite, InPlace, Family, KidsInPlace, Started
  <2>2. EQTypeOK' /\ terminated' \subseteq Nodes /\ terminated \subseteq terminated'
    BY <1>1, <1>11, TerminateType DEF ParTerminate
  <2>3. Advances(n, "join") /\ InPlace(n)'
    BY <1>1, <1>11, <2>1, <2>2
       DEF ParTerminate, Advances, Started, InPlace, Done, TypeOK, ChildLeft
  <2>4. TypeOK'
    BY <1>1, <1>11, <2>2, OwnType DEF ParTerminate, Places, TypeOK
  <2> QED
    BY <1>2, <2>3, <2>4, AdvanceStep
<1>12. CASE ParJoin(n)
  <2>1. /\ Kind[n] = "PAR" /\ n \in Composite /\ built[n] = Len(Children[n]) /\ ~ChildLeft(n)
    BY <1>1, <1>12 DEF ParJoin, Composite, InPlace, Family, KidsInPlace, Started
  <2>2. Advances(n, "returned") /\ InPlace(n)'
    BY <1>1, <1>12, <2>1 DEF ParJoin, Finish, Advances, Started, InPlace, Done, TypeOK
  <2>3. TypeOK'
    BY <1>1, <1>12, OwnType DEF ParJoin, Finish, Places, TypeOK, EQTypeOK
  <2> QED
    BY <1>2, <1>12, <2>1, <2>2, <2>3, AdvanceStep DEF ParJoin
<1>13. n \in Tasks \cup Stops =>
         n \notin Composite /\ Kind[n] \notin {"SEQ", "SEL", "PAR"}
  BY DEF Tasks, Stops, Composite
<1>14. n \in Tasks => TaskQueue[n] \in Queues \ {Root}
  BY TreeAssumption
<1>15. CASE TaskStart(n)
  <2>1. Advances(n, "work") /\ InPlace(n)'
    BY <1>1, <1>13, <1>15 DEF TaskStart, Advances, Started, InPlace, Done, TypeOK
  <2>2. EQTypeOK'
    BY <1>1, <1>14, <1>15, OwnerType DEF TaskStart
  <2>3. TypeOK'
    BY <1>1, <1>15, <2>2, OwnType DEF TaskStart, Places, TypeOK
  <2> QED
    BY <1>2, <2>1, <2>3, AdvanceStep
<1>16. ASSUME NEW r \in Results, TaskReturns(n, r)
       PROVE  Inv'
  <2>1. Advances(n, "close") /\ InPlace(n)'
    BY <1>1, <1>13, <1>16 DEF TaskReturns, Advances, Started, InPlace, Done, TypeOK
  <2>2. EQTypeOK'
    BY <1>1, <1>16, RaiseType, TreeAssumption DEF TaskReturns
  <2>3. TypeOK'
    BY <1>1, <1>16, <2>2, OwnType DEF TaskReturns, Places, TypeOK
  <2> QED
    BY <1>2, <2>1, <2>3, AdvanceStep
<1>17. CASE TaskFinish(n)
  <2>1. n \in Tasks
    BY <1>1, <1>17 DEF TaskFinish, InPlace
  <2>2. Advances(n, "returned") /\ InPlace(n)'
    BY <1>1, <1>13, <1>17, <2>1 DEF TaskFinish, Finish, Advances, Started, InPlace, Done, TypeOK
  <2>3. EQTypeOK'
    BY <1>1, <1>14, <1>17, <2>1, OwnerType DEF TaskFinish
  <2>4. TypeOK'
    BY <1>1, <1>17, <2>3, OwnType DEF TaskFinish, Finish, Places, TypeOK
  <2> QED
    BY <1>2, <1>13, <2>1, <2>2, <2>4, AdvanceStep
<1>18. CASE StopBegin(n)
  <2>1. Advances(n, "work") /\ InPlace(n)'
    BY <1>1, <1>13, <1>18 DEF StopBegin, Advances, Started, InPlace, Done, TypeOK
  <2>2. TypeOK'
    BY <1>1, <1>18, OwnType DEF StopBegin, Places, TypeOK, EQTypeOK
  <2> QED
    BY <1>2, <2>1, <2>2, AdvanceStep
<1>19. CASE StopWait(n)
  <2>1. CASE WaitSleep(n, n) /\ UNCHANGED <<pc, result, finished, built, next, terminated, reported, inherited>>
    <3>1. EQTypeOK'
      BY <1>1, <2>1, WaitType
    <3> QED
      BY <2>1, <3>1, Same
  <2>2. ASSUME Finish(n), UNCHANGED eqVars \/ WaitUndefined(n, n),
               \E r \in {"UNDEF", "TERMINATED"} : result' = [result EXCEPT ![n] = r],
               UNCHANGED <<built, next, terminated, reported, inherited>>
        PROVE  Inv'
    <3>1. pc[n] = "work" /\ n \in Stops
      BY <1>19 DEF StopWait
    <3>2. Advances(n, "returned") /\ InPlace(n)'
      BY <1>1, <1>13, <2>2, <3>1 DEF Finish, Advances, Started, InPlace, Done, TypeOK
    <3>3. EQTypeOK'
      <4>1. CASE UNCHANGED eqVars
        BY <1>1, <4>1 DEF EQTypeOK
      <4>2. CASE WaitUndefined(n, n)
        BY <1>1, <4>2, WaitType
      <4> QED
        BY <2>2, <4>1, <4>2
    <3>4. TypeOK'
      BY <1>1, <2>2, <3>3, OwnType DEF Finish, Places, TypeOK, Results
    <3> QED
      BY <1>2, <1>13, <3>1, <3>2, <3>4, AdvanceStep
  <2> QED
    BY <1>19, <2>1, <2>2 DEF StopWait
<1> QED
  BY <1>3, <1>4, <1>6, <1>7, <1>8, <1>9, <1>10, <1>11, <1>12, <1>15, <1>16, <1>17, <1>18, <1>19
     DEF NodeStep

LEMMA TreeStepInv == Inv /\ [Next]_vars => Inv'
<1> SUFFICES ASSUME Inv, [Next]_vars
             PROVE  Inv'
  OBVIOUS
<1>1. EQTypeOK
  BY DEF Inv, TypeOK
<1>2. CASE \E n \in Nodes : NodeStep(n)
  BY <1>2, NodeStepInv
<1>3. CASE FsmLeaves
  <2>1. Close(Root) /\ UNCHANGED btVars
    BY <1>3 DEF FsmLeaves
  <2>2. EQTypeOK'
    <3>1. Below(Root) \in SUBSET Queues
      BY <1>1, BelowType, QueuesAssumption
    <3> QED
      BY <1>1, <2>1, <3>1, StopType DEF Close
  <2> QED
    BY <2>1, <2>2, Same
<1>4. CASE UNCHANGED vars
  <2>1. EQTypeOK'
    BY <1>1, <1>4 DEF EQTypeOK
  <2> QED
    BY <1>4, <2>1, Same
<1> QED
  BY <1>2, <1>3, <1>4 DEF Next, Over

LEMMA TreeInv == Spec => []Inv
BY TreeInitInv, TreeStepInv, PTL DEF Spec

-----------------------------------------------------------------------------
(* The theorems.                                                             *)

(***************************************************************************)
(* When the run() of a node has returned, no thread is left in the run()   *)
(* of any node below it: run_all of a PAR joins its threads (BT.h:68-81)   *)
(* and a SEQ or SEL waits for each child (BT.h:82-92).                     *)
(***************************************************************************)
THEOREM NothingIsLeftRunning == Spec => []NothingRunsBelowReturned
<1>1. Inv => NothingRunsBelowReturned
  <2> SUFFICES ASSUME Inv, NEW n \in Nodes, pc[n] \in {"returned", "ended"}, NEW c \in Subtree(n)
               PROVE  ~Running(c)
    BY DEF NothingRunsBelowReturned, Inv
  <2>1. c \in Nodes /\ ~Running(n)
    BY DEF Subtree, Running
  <2> QED
    BY <2>1 DEF Inv, ActiveAbove, Active
<1> QED
  BY <1>1, TreeInv, PTL

(***************************************************************************)
(* What a composite node returns is what its children did: a SEQ that      *)
(* succeeds ran them all and none failed, dually for a SEL that fails, and *)
(* a PAR returns after all have reported, what it inherited or what the    *)
(* first with a result said (run_task and run_all, BT.h:55-93).            *)
(***************************************************************************)
THEOREM ResultsAreTheChildrens == Spec => []OrderedResult
<1>1. Inv => OrderedResult
  <2> SUFFICES ASSUME Inv, NEW n \in finished
               PROVE  LET kids == Children[n] IN
                      /\ Kind[n] = "SEQ" /\ n \notin terminated /\ result[n] = "SUCCESS" /\ kids # <<>> =>
                           \A i \in DOMAIN kids : pc[kids[i]] = "ended" /\ result[kids[i]] # "FAIL"
                                                  /\ (i = Len(kids) => result[kids[i]] = "SUCCESS")
                      /\ Kind[n] = "SEL" /\ n \notin terminated /\ result[n] = "FAIL" /\ kids # <<>> =>
                           \A i \in DOMAIN kids : pc[kids[i]] = "ended" /\ result[kids[i]] # "SUCCESS"
                      /\ Kind[n] = "PAR" =>
                           /\ Len(reported[n]) = Len(kids)
                           /\ IF inherited[n] = "UNDEF" THEN SaidFirst(n) ELSE result[n] = inherited[n]
    BY DEF OrderedResult
  <2> DEFINE kids == Children[n]
  <2>1. /\ n \in Nodes /\ Done(n) /\ Started(n) /\ pc[n] # "called"
        /\ Len(kids) \in Nat /\ DOMAIN kids = 1..Len(kids)
    BY Kids DEF Inv, TypeOK, InPlace, Done, Started
  <2>2. n \in Composite => Family(n) /\ next[n] \in 1..(Len(kids) + 1)
    BY DEF Inv, Family, KidsInPlace
  <2>3. ASSUME Kind[n] \in {"SEQ", "SEL"}, n \notin terminated, result[n] # Deciding(n),
               NEW i \in DOMAIN kids
        PROVE  /\ pc[kids[i]] = "ended" /\ result[kids[i]] # Deciding(n)
               /\ i = Len(kids) => result[kids[i]] = result[n]
    <3>1. n \in Composite /\ InOrder(n)
      BY <2>1, <2>2, <2>3 DEF Composite, Family
    <3>2. next[n] = Len(kids) + 1
      BY <2>1, <2>2, <2>3, <3>1 DEF InOrder, ChildLeft
    <3>3. pc[kids[i]] = "ended"
      BY <2>1, <3>1, <3>2 DEF InOrder, Awaited
    <3>4. CASE i = Len(kids)
      <4>1. next[n] > 1 /\ next[n] - 1 = i
        BY <2>1, <3>2, <3>4
      <4> QED
        BY <2>1, <2>3, <3>1, <3>3, <4>1 DEF InOrder
    <3>5. CASE i # Len(kids)
      <4>1. i < next[n] - 1
        BY <2>1, <3>2, <3>5
      <4> QED
        BY <3>1, <3>3, <3>5, <4>1 DEF InOrder
    <3> QED
      BY <3>4, <3>5
  <2>4. ASSUME Kind[n] = "PAR"
        PROVE  /\ Len(reported[n]) = Len(kids)
               /\ IF inherited[n] = "UNDEF" THEN SaidFirst(n) ELSE result[n] = inherited[n]
    <3>1. Reports(n)
      BY <2>1, <2>2, <2>4 DEF Composite, Family
    <3>2. \A i \in DOMAIN kids : pc[kids[i]] = "ended"
      BY <2>1, <3>1, Kids DEF Reports, AllJoined
    <3>3. {i \in DOMAIN kids : pc[kids[i]] = "ended"} = 1..Len(kids)
      BY <2>1, <3>2
    <3>4. Cardinality(1..Len(kids)) = Len(kids)
      BY <2>1, FS_Interval
    <3> QED
      BY <2>1, <3>1, <3>3, <3>4 DEF Reports
  <2> QED
    BY <2>3, <2>4 DEF Deciding
<1> QED
  BY <1>1, TreeInv, PTL

(***************************************************************************)
(* A SEQ or a SEL that was not terminated and passed all its children over *)
(* had inherited the result that decides it, and returns it (BT.h:82-92,   *)
(* where a child starts from its parent's result).                         *)
(***************************************************************************)
THEOREM OnlyTheInheritedResultPassesOver == Spec => []PassedOver
<1>1. Inv => PassedOver
  <2> SUFFICES ASSUME Inv, NEW n \in finished \ terminated,
                      Kind[n] \in {"SEQ", "SEL"}, Children[n] # <<>>,
                      \A i \in DOMAIN Children[n] : pc[Children[n][i]] = "built"
               PROVE  /\ result[n] = inherited[n]
                      /\ inherited[n] = IF Kind[n] = "SEQ" THEN "FAIL" ELSE "SUCCESS"
    BY DEF PassedOver
  <2> DEFINE kids == Children[n]
  <2>1. /\ n \in Composite /\ Done(n) /\ Started(n) /\ Family(n) /\ InOrder(n) /\ KidsInPlace(n)
        /\ Len(kids) \in Nat /\ DOMAIN kids = 1..Len(kids) /\ kids \in Seq(Nodes)
    <3>1. n \in Nodes
      BY DEF Inv, TypeOK
    <3> QED
      BY <3>1, Kids, TreeAssumption DEF Inv, InPlace, Composite, Family, Done, Started
  <2>2. 1 \in DOMAIN kids /\ ~Started(kids[1])
    BY <2>1 DEF Started
  <2>3. next[n] = 1
    BY <2>1, <2>2 DEF KidsInPlace
  <2> QED
    BY <2>1, <2>2, <2>3 DEF InOrder, ChildLeft, Deciding
<1> QED
  BY <1>1, TreeInv, PTL
=============================================================================

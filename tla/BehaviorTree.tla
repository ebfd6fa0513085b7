---------------------------- MODULE BehaviorTree ----------------------------
(***************************************************************************)
(* Behavior trees (BT.h) on the event queues of EventQueue.tla: nodes that *)
(* construct and run their children, in order (SEQ, SEL) or on a thread    *)
(* each (PAR), tasks with an event queue of their own, and the node        *)
(* STOP_CONDITION by which FSM_CALL_BT ends a tree when the FSM leaves the *)
(* state.  The queue of every node is a transit queue below its parent's;  *)
(* the root queue is the one the FSM gave the tree.                        *)
(*                                                                         *)
(* pc[n] says where the run() of node n is; a node runs on its parent's    *)
(* thread, or on its own below a PAR.  terminate() goes through a subtree  *)
(* in one step: what a node does between the visit of its parent and its   *)
(* own it could also have done before both.                                *)
(***************************************************************************)
EXTENDS EventQueue

CONSTANTS
  Nodes,       \* the nodes of the tree
  Top,         \* the node the FSM runs
  Kind,        \* SEQ, SEL, PAR, TASK, or STOP for STOP_CONDITION
  Children,    \* the children of each node, in order
  TaskQueue,   \* the queue that BT_CALL_TASK gives each TASK
  SelfEnding   \* the tasks that end by themselves; the others wait for the end of
               \* their queue

Composite == {n \in Nodes : Kind[n] \in {"SEQ", "SEL", "PAR"}}
Tasks == {n \in Nodes : Kind[n] = "TASK"}
Stops == {n \in Nodes : Kind[n] = "STOP"}
ChildOf(n, c) == \E i \in DOMAIN Children[n] : Children[n][i] = c

ASSUME TreeAssumption ==
  /\ Top \in Nodes /\ Nodes = Composite \cup Tasks \cup Stops
  /\ Children \in [Nodes -> Seq(Nodes)]
  /\ \A n \in Nodes \ Composite : Children[n] = <<>>
  /\ \A n \in Nodes : \A i, j \in DOMAIN Children[n] : Children[n][i] = Children[n][j] => i = j
  /\ SelfEnding \subseteq Tasks
  /\ TaskQueue \in [Tasks -> Queues]
  /\ Queues = {Root} \cup Nodes \cup {TaskQueue[n] : n \in Tasks}
  /\ Transit = Nodes /\ Nodes \subseteq Threads /\ "result" \in Events /\ ~RosRoot
  /\ Root \notin Nodes /\ ParentOf[Top] = Root
  /\ \A n, c \in Nodes : ChildOf(n, c) => ParentOf[c] = n
  /\ \A c \in Nodes \ {Top} : ParentOf[c] \in Nodes /\ ChildOf(ParentOf[c], c)
  /\ \A n \in Tasks : TaskQueue[n] \notin Nodes \cup {Root} /\ ParentOf[TaskQueue[n]] = n

VARIABLES
  pc,          \* where run() of each node is
  built,       \* how many children its run() has constructed
  next,        \* the child run_all is at
  result,      \* bt_node_return_value
  terminated,  \* the nodes with that flag
  finished,    \* the nodes with that flag
  inherited,   \* history: the result that it started from
  reported     \* history: the children whose threads reported to a PAR, in order

btVars == <<pc, built, next, result, inherited, terminated, finished, reported>>
vars == <<eqVars, btVars>>

Results == {"UNDEF", "SUCCESS", "FAIL", "TERMINATED"}

Places == {"none", "built", "build", "run", "called", "wait", "notified", "join",
           "work", "close", "returned", "ended"}

TypeOK ==
  /\ EQTypeOK
  /\ pc \in [Nodes -> Places]
  /\ built \in [Nodes -> Nat]
  /\ next \in [Nodes -> Nat]
  /\ result \in [Nodes -> Results] /\ inherited \in [Nodes -> Results]
  /\ terminated \subseteq Nodes /\ finished \subseteq Nodes
  /\ reported \in [Nodes -> Seq(Nodes)]

\* The FSM has constructed the top node and a thread calls its run().
Init ==
  /\ events = [q \in Queues |-> <<>>] /\ stopped = {}
  /\ alive = {Root, Top} /\ subscribed = {Top}
  /\ asleep = [q \in Queues |-> {}] /\ woken = [q \in Queues |-> {}]
  /\ ok = TRUE
  /\ pc = [n \in Nodes |-> IF n = Top THEN "build" ELSE "none"]
  /\ built = [n \in Nodes |-> 0]
  /\ next = [n \in Nodes |-> 1]
  /\ result = [n \in Nodes |-> "UNDEF"] /\ inherited = result
  /\ terminated = {} /\ finished = {}
  /\ reported = [n \in Nodes |-> <<>>]

-----------------------------------------------------------------------------
\* The nodes below n, and itself.
Subtree(n) == {c \in Nodes : n \in Above[c]}

\* The nodes on the way from n to c.
Way(n, c) == Above[c] \cap Subtree(n)

\* _us_terminate: the flag, the node's queue and those below it, then the
\* children it has constructed so far; a node that has finished is passed over,
\* with its children.
Terminate(n) ==
  LET hit == {c \in Subtree(n) : pc[c] # "none" /\ Way(n, c) \cap finished = {}} IN
  /\ terminated' = terminated \cup hit
  /\ StopAll(UNION {Below(m) : m \in hit})
  /\ UNCHANGED <<events, alive, subscribed, ok>>

-----------------------------------------------------------------------------
\* The body of run(): the next child is constructed, with its queue.
BuildChild(n) ==
  /\ pc[n] = "build" /\ n \in Composite
  /\ built[n] < Len(Children[n])
  /\ LET c == Children[n][built[n] + 1] IN
     /\ Construct(c)
     /\ pc' = [pc EXCEPT ![c] = "built"]
  /\ built' = [built EXCEPT ![n] = @ + 1]
  /\ UNCHANGED <<next, result, terminated, finished, reported, inherited>>

RunAll(n) ==
  /\ pc[n] = "build" /\ n \in Composite
  /\ built[n] = Len(Children[n])
  /\ pc' = [pc EXCEPT ![n] = "run"]
  /\ UNCHANGED <<eqVars, built, next, result, terminated, finished, reported, inherited>>

\* The child starts from the result its parent has at this moment.
CallChild(n, where) ==
  LET c == Children[n][next[n]] IN
  /\ result' = [result EXCEPT ![c] = result[n]]
  /\ inherited' = [inherited EXCEPT ![c] = result[n]]
  /\ pc' = [pc EXCEPT ![c] = "build", ![n] = where]
  /\ next' = [next EXCEPT ![n] = @ + 1]
  /\ UNCHANGED <<eqVars, built, terminated, finished, reported>>

\* run() of n is over.
Finish(n) ==
  /\ finished' = finished \cup {n}
  /\ pc' = [pc EXCEPT ![n] = "returned"]

\* Mutant: a SEQ and a SEL run all their children.
DecidedByEnd(n) == n \in terminated

\* What ends the loop of a SEQ or a SEL before its last child.
Decided(n) ==
  \/ n \in terminated
  \/ Kind[n] = "SEQ" /\ result[n] = "FAIL"
  \/ Kind[n] = "SEL" /\ result[n] = "SUCCESS"

\* Mutant: off by one.
ChildBeforeLast(n) == next[n] < Len(Children[n])

ChildLeft(n) == next[n] <= Len(Children[n])

RunNextInOrder(n) ==
  /\ pc[n] = "run" /\ Kind[n] \in {"SEQ", "SEL"}
  /\ IF ChildLeft(n) /\ ~Decided(n)
     THEN CallChild(n, "called")
     ELSE Finish(n) /\ UNCHANGED <<eqVars, built, next, result, terminated, reported, inherited>>

TakeResult(n, c) ==
  /\ pc[n] = "called" /\ c = Children[n][next[n] - 1]
  /\ pc[c] = "returned"
  /\ result' = [result EXCEPT ![n] = result[c]]
  /\ pc' = [pc EXCEPT ![c] = "ended", ![n] = "run"]
  /\ UNCHANGED <<eqVars, built, next, terminated, finished, reported, inherited>>

-----------------------------------------------------------------------------
\* run_thread for the next child of a PAR.
StartChild(n) ==
  /\ pc[n] = "run" /\ Kind[n] = "PAR" /\ ChildLeft(n)
  /\ CallChild(n, "run")

\* on_child_terminated.wait, without a test whether a child has ended already.
ParWait(n) ==
  /\ pc[n] = "run" /\ Kind[n] = "PAR" /\ ~ChildLeft(n)
  /\ pc' = [pc EXCEPT ![n] = "wait"]
  /\ UNCHANGED <<eqVars, built, next, result, terminated, finished, reported, inherited>>

FirstResult(n, c) == IF result[n] = "UNDEF" THEN result[c] ELSE result[n]

\* The end of run_task on the thread of child c: the first result counts, and
\* the PAR is notified if it waits.
Report(n, c) ==
  /\ Kind[n] = "PAR" /\ ChildOf(n, c)
  /\ pc[c] = "returned"
  /\ result' = [result EXCEPT ![n] = FirstResult(n, c)]
  /\ pc' = [pc EXCEPT ![c] = "ended", ![n] = IF @ = "wait" THEN "notified" ELSE @]
  /\ reported' = [reported EXCEPT ![n] = Append(@, c)]
  /\ UNCHANGED <<eqVars, built, next, terminated, finished, inherited>>

ParTerminate(n) ==
  /\ pc[n] = "notified"
  /\ Terminate(n)
  /\ pc' = [pc EXCEPT ![n] = "join"]
  /\ UNCHANGED <<built, next, result, finished, reported, inherited>>

\* Mutant: only the child that ended is joined.
OneJoined(n) == \E c \in Nodes : ChildOf(n, c) /\ pc[c] = "ended"

AllJoined(n) == \A c \in Nodes : ChildOf(n, c) => pc[c] = "ended"

ParJoin(n) ==
  /\ pc[n] = "join" /\ AllJoined(n)
  /\ Finish(n)
  /\ UNCHANGED <<eqVars, built, next, result, terminated, reported, inherited>>

-----------------------------------------------------------------------------
\* BT_CALL_TASK: the task gets a queue below the node's, and is called.
TaskStart(n) ==
  /\ pc[n] = "build" /\ n \in Tasks
  /\ Construct(TaskQueue[n])
  /\ pc' = [pc EXCEPT ![n] = "work"]
  /\ UNCHANGED <<built, next, result, terminated, finished, reported, inherited>>

\* callTask returns: the task is done, or has seen the end of its queue; its
\* result is raised as an event.
TaskReturns(n, r) ==
  /\ pc[n] = "work" /\ n \in Tasks
  /\ \/ n \in SelfEnding /\ r \in {"SUCCESS", "FAIL"}
     \/ TaskQueue[n] \in stopped /\ r = "TERMINATED"
  /\ RaiseEvent("result")
  /\ result' = [result EXCEPT ![n] = r]
  /\ pc' = [pc EXCEPT ![n] = "close"]
  /\ UNCHANGED <<built, next, terminated, finished, reported, inherited>>

TaskFinish(n) ==
  /\ pc[n] = "close"
  /\ Destroy(TaskQueue[n])
  /\ Finish(n)
  /\ UNCHANGED <<built, next, result, terminated, reported, inherited>>

\* STOP_CONDITION calls waitEvent on the node's own queue until the queue ends
\* or the node is terminated; it keeps no event.
StopBegin(n) ==
  /\ pc[n] = "build" /\ n \in Stops
  /\ pc' = [pc EXCEPT ![n] = "work"]
  /\ UNCHANGED <<eqVars, built, next, result, terminated, finished, reported, inherited>>

\* The flag is tested before every wait, and may be set between the two; run() has a result
\* of its own, which is UNDEF at first.
StopWait(n) ==
  /\ pc[n] = "work" /\ n \in Stops
  /\ \/ /\ n \notin Busy /\ n \in terminated
        /\ result' = [result EXCEPT ![n] = "UNDEF"]
        /\ Finish(n) /\ UNCHANGED eqVars
     \/ /\ n \in Busy \/ n \notin terminated
        /\ WaitSleep(n, n) /\ UNCHANGED <<pc, result, finished>>
     \/ /\ WaitUndefined(n, n)
        /\ result' = [result EXCEPT ![n] = "TERMINATED"]
        /\ Finish(n)
  /\ UNCHANGED <<built, next, terminated, reported, inherited>>

-----------------------------------------------------------------------------
\* The FSM leaves the state: it closes the queue it gave the tree.
FsmLeaves ==
  /\ Root \notin stopped
  /\ Close(Root)
  /\ UNCHANGED btVars

Over == pc[Top] = "returned" /\ UNCHANGED vars

NodeStep(n) ==
  \/ BuildChild(n) \/ RunAll(n) \/ RunNextInOrder(n)
  \/ StartChild(n) \/ ParWait(n) \/ ParTerminate(n) \/ ParJoin(n)
  \/ TaskStart(n) \/ TaskFinish(n) \/ StopBegin(n) \/ StopWait(n)
  \/ \E c \in Nodes : TakeResult(n, c) \/ Report(n, c)
  \/ \E r \in Results : TaskReturns(n, r)

Next == (\E n \in Nodes : NodeStep(n)) \/ FsmLeaves \/ Over

\* Threads run on, tasks that end by themselves do, and the others look at their
\* queue.
Fairness == \A n \in Nodes : WF_vars(NodeStep(n))

Spec == Init /\ [][Next]_vars /\ Fairness

-----------------------------------------------------------------------------
\* The threads of a PAR's children, and of all below them.
Running(n) == pc[n] \notin {"none", "built", "returned", "ended"}

(***************************************************************************)
(* A node that has returned left nothing running below it: the objects its *)
(* children's threads use die with its run().  (And every variable has its *)
(* type.)                                                                  *)
(***************************************************************************)
NothingRunsBelowReturned ==
  /\ TypeOK
  /\ \A n \in Nodes : pc[n] \in {"returned", "ended"} =>
       \A c \in Subtree(n) : ~Running(c)

\* What the first child to report that had a result said, if any had one.
SaidFirst(n) ==
  \/ result[n] = "UNDEF" /\ \A i \in DOMAIN reported[n] : result[reported[n][i]] = "UNDEF"
  \/ \E i \in DOMAIN reported[n] :
       /\ result[n] = result[reported[n][i]] /\ result[n] # "UNDEF"
       /\ \A j \in 1..(i - 1) : result[reported[n][j]] = "UNDEF"

(***************************************************************************)
(* What a SEQ reports: unless it was terminated, SUCCESS means that every  *)
(* child was run, none failed and the last succeeded - although it starts  *)
(* from the result its parent happened to have.  Dually for a SEL that     *)
(* fails.  A PAR returns after every child has reported, with what the     *)
(* first of them said that had a result to report - unless its own parent  *)
(* had a result: that it returns, whatever its children did.               *)
(***************************************************************************)
OrderedResult ==
  \A n \in finished :
    LET kids == Children[n] IN
    /\ Kind[n] = "SEQ" /\ n \notin terminated /\ result[n] = "SUCCESS" /\ kids # <<>> =>
         \A i \in DOMAIN kids : pc[kids[i]] = "ended" /\ result[kids[i]] # "FAIL"
                                /\ (i = Len(kids) => result[kids[i]] = "SUCCESS")
    /\ Kind[n] = "SEL" /\ n \notin terminated /\ result[n] = "FAIL" /\ kids # <<>> =>
         \A i \in DOMAIN kids : pc[kids[i]] = "ended" /\ result[kids[i]] # "SUCCESS"
    /\ Kind[n] = "PAR" =>
         /\ Len(reported[n]) = Len(kids)
         /\ IF inherited[n] = "UNDEF" THEN SaidFirst(n) ELSE result[n] = inherited[n]

(***************************************************************************)
(* A SEQ or SEL that returns without having tried any of its children was  *)
(* terminated, or inherited a result that decides it - and then that       *)
(* result is what it returns: a SEQ that is the alternative to a child     *)
(* that failed fails at once, and a SEL behind a child that succeeded      *)
(* succeeds at once.                                                       *)
(***************************************************************************)
PassedOver ==
  \A n \in finished \ terminated :
    /\ Kind[n] \in {"SEQ", "SEL"} /\ Children[n] # <<>>
    /\ \A i \in DOMAIN Children[n] : pc[Children[n][i]] = "built"
    => /\ result[n] = inherited[n]
       /\ inherited[n] = IF Kind[n] = "SEQ" THEN "FAIL" ELSE "SUCCESS"

\* The queue at which a task, or STOP_CONDITION, waits.
WaitsAt(n) == IF n \in Tasks THEN TaskQueue[n] ELSE n

\* It, or a queue above it, was constructed below a queue that was stopped:
\* subscribe left it out, and no close will reach it.
Deaf(n) ==
  /\ pc[n] = "work" /\ n \notin SelfEnding
  /\ WaitsAt(n) \notin stopped \cup Below(Root)

\* A PAR waits though all its children have reported.
MissedAll(n) == pc[n] = "wait" /\ \A c \in Nodes : ChildOf(n, c) => pc[c] = "ended"

(***************************************************************************)
(* When the FSM leaves the state the tree ends, with two exceptions, which *)
(* the code allows: a waiter whose queue was constructed after the queues  *)
(* above it were closed never hears of it, and a PAR whose children all    *)
(* ended before it began to wait is not notified again.                    *)
(***************************************************************************)
LeavingEndsTree ==
  Root \in stopped ~> \/ pc[Top] = "returned"
                      \/ \E n \in Nodes : Deaf(n) \/ MissedAll(n)
=============================================================================

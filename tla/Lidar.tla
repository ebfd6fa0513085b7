------------------------------- MODULE Lidar --------------------------------
(***************************************************************************)
(* rplidar_ros: the node (node.cpp), whose only thread grabs scans and     *)
(* serves stop_motor and start_motor in turn, and the driver               *)
(* (rplidar_driver.cpp) with the thread that reads the stream of the lidar *)
(* and caches whole scans.  They share the cache under a lock, an event    *)
(* that resets itself, and isScanning under neither.                       *)
(*                                                                         *)
(* The lidar numbers what it sends: item n of session s, the first of      *)
(* which bears the S flag in capsule mode; every PerTurn-th item is where  *)
(* a turn begins.  A capsule stands for the nodes it holds, which can be   *)
(* computed only when the capsule after it has come.  What stands in the   *)
(* port from before is skipped while the header of an answer is looked     *)
(* for.  A block of the HQ mode stands for its nodes too, and depends on   *)
(* no other.  The buffer of getScanDataWithInterval, which the node does   *)
(* not call, is left out.                                                  *)
(***************************************************************************)
EXTENDS Integers, Sequences

CONSTANTS
  Modes,        \* the scan modes: "capsule" (express), "ultra", "hq", "standard"
  PerTurn,      \* the items of a turn
  MaxNodes,     \* MAX_SCAN_NODES
  Batch,        \* how many nodes the standard mode reads at a time
  MaxItems,     \* bound: what the lidar sends in a session
  MaxCalls      \* bound: how many calls of start_motor and stop_motor there are

ASSUME LidarAssumption ==
  /\ Modes \subseteq {"capsule", "ultra", "hq", "standard"}
  /\ PerTurn \in Nat \ {0} /\ MaxNodes \in Nat \ {0, 1} /\ Batch \in Nat \ {0}
  /\ MaxItems \in Nat /\ MaxCalls \in Nat

VARIABLES
  mode,         \* the mode that the lidar answered to be its typical one
  ok,           \* ros::ok()
  main,         \* where the node's thread is
  caller,       \* who called startScan: main, or a service in spinOnce
  after,        \* what it goes on with after the join
  isScanning,   \* _isScanning
  cache,        \* where the caching thread is
  todo,         \* the nodes of the last read that it has yet to handle
  localScan,    \* local_scan, as far as scan_count
  localBuf,     \* local_buf of the standard mode
  count,        \* count of the standard mode
  previous,     \* _cached_previous_capsuledata; <<>> if there is none ready
  cached,       \* _cached_scan_node_hq_buf, as far as its count
  signalled,    \* _dataEvt
  calls,        \* how many services were called
  session,      \* the lidar's
  sentItems,    \* how much it has sent in it
  streaming,
  replayed,     \* history: a time-out has made a thread handle nodes again
  completed,    \* history: the number of the scan in the cache
  grabbed       \* history: the number of the scan that was grabbed last

threadVars == <<cache, todo, localScan, localBuf, count, previous, replayed>>
cacheVars == <<cached, completed, signalled>>
lidarVars == <<session, sentItems, streaming>>
mainVars == <<main, caller, after, grabbed, calls>>
lidarNodeVars == <<mode, ok, isScanning, mainVars, threadVars, cacheVars, lidarVars>>

Item(n) == [s |-> session, n |-> n]
Junk == [s : {0}, n : {0, 1}]
Items == [s : 1..(MaxCalls + 1), n : 1..MaxItems]

\* A node, and whether its angle was computed from the capsule right after it.
Node(item, good) == [s |-> item.s, n |-> item.n, good |-> good]

SyncBit(node) == node.n % PerTurn = 0

LidarTypeOK ==
  /\ mode \in Modes /\ ok \in BOOLEAN /\ isScanning \in BOOLEAN
  /\ main \in {"query", "join", "answer", "express", "sendStop", "command",
               "grab", "waiting", "test", "copy", "spin", "done"}
  /\ caller \in {"main", "spin"}
  /\ after \in {"query", "stop", "command", "exit"}
  /\ cache \in {"none", "discard", "loop", "read", "emit"}
  /\ localBuf \in Seq(Items \cup Junk) /\ count \in 1..Batch
  /\ previous \in {<<>>} \cup {<<i>> : i \in Items}
  /\ Len(localScan) < MaxNodes /\ Len(cached) < MaxNodes
  /\ session \in 0..(MaxCalls + 1) /\ calls \in 0..MaxCalls /\ sentItems \in 0..MaxItems
  /\ signalled \in BOOLEAN /\ streaming \in BOOLEAN /\ replayed \in BOOLEAN
  /\ completed \in Nat /\ grabbed \in 0..completed

\* The node is connected, and main calls startScan.
LidarInit ==
  /\ mode \in Modes /\ ok = TRUE
  /\ main = "query" /\ caller = "main" /\ after = "query"
  /\ isScanning = FALSE /\ cache = "none"
  /\ todo = <<>> /\ localScan = <<>> /\ localBuf = <<>> /\ count = Batch
  /\ previous = <<>> /\ cached = <<>> /\ signalled = FALSE
  /\ calls = 0 /\ session = 0 /\ sentItems = 0 /\ streaming = FALSE
  /\ replayed = FALSE /\ completed = 0 /\ grabbed = 0

-----------------------------------------------------------------------------
\* grabScanDataHq.  An event that is set is taken at once, or wakes the waiter.
GrabWait ==
  /\ main \in {"grab", "waiting"}
  /\ IF signalled THEN main' = "test" /\ signalled' = FALSE
     ELSE main = "grab" /\ main' = "waiting" /\ UNCHANGED signalled
  /\ UNCHANGED <<mode, ok, isScanning, caller, after, grabbed, calls, threadVars, cached,
                 completed, lidarVars>>

\* pthread_cond_timedwait may time out in the moment the event is set.
GrabTimeout ==
  /\ main = "waiting"
  /\ main' = "spin"
  /\ UNCHANGED <<mode, ok, isScanning, caller, after, grabbed, calls, threadVars, cacheVars,
                 lidarVars>>

\* The count is tested before the lock is taken.
GrabTest ==
  /\ main = "test"
  /\ main' = IF cached = <<>> THEN "spin" ELSE "copy"
  /\ UNCHANGED <<mode, ok, isScanning, caller, after, grabbed, calls, threadVars, cacheVars,
                 lidarVars>>

\* Mutant: the cache is not marked as empty.
CacheKept == cached
CacheTaken == <<>>

\* The scan is copied, and published by the node.
GrabCopy ==
  /\ main = "copy"
  /\ grabbed' = completed
  /\ cached' = CacheTaken
  /\ main' = "spin"
  /\ UNCHANGED <<mode, ok, isScanning, caller, after, calls, threadVars, completed, signalled,
                 lidarVars>>

\* ros::spinOnce, with one service after the other, and ros::ok.
Spin ==
  /\ main = "spin"
  /\ caller' = "spin"
  /\ \/ ok /\ main' = "grab" /\ UNCHANGED <<after, isScanning>>
     \/ ok /\ calls < MaxCalls /\ main' = "query" /\ UNCHANGED <<after, isScanning>>
     \/ /\ ok => calls < MaxCalls
        /\ after' = IF ok THEN "stop" ELSE "exit"
        /\ isScanning' = FALSE /\ main' = "join"
  /\ calls' = IF ok /\ main' # "grab" THEN calls + 1 ELSE calls
  /\ UNCHANGED <<mode, ok, grabbed, threadVars, cacheVars, lidarVars>>

\* Where startScan and stop return to.
Return == IF caller = "main" THEN "grab" ELSE "spin"

-----------------------------------------------------------------------------
\* startScan asks for the device info; like every query this ends the caching thread.
StartQuery ==
  /\ main = "query"
  /\ isScanning' = FALSE /\ after' = "query" /\ main' = "join"
  /\ UNCHANGED <<mode, ok, caller, grabbed, calls, threadVars, cacheVars, lidarVars>>

\* _disableDataGrabbing.  The handle is kept, and a second join of the same thread
\* returns at once.
Join ==
  /\ main = "join"
  /\ cache = "none"
  /\ main' = IF after = "query" THEN "answer" ELSE "sendStop"
  /\ UNCHANGED <<mode, ok, isScanning, caller, after, grabbed, calls, threadVars, cacheVars,
                 lidarVars>>

\* The queries of startScan are answered, or one is not.
Answered ==
  /\ main = "answer"
  /\ main' \in {"express", Return}
  /\ UNCHANGED <<mode, ok, isScanning, caller, after, grabbed, calls, threadVars, cacheVars,
                 lidarVars>>

\* startScanExpress and startScanNormal begin alike.
StartExpress ==
  /\ main = "express"
  /\ IF isScanning THEN main' = Return /\ UNCHANGED <<isScanning, after>>
     ELSE isScanning' = FALSE /\ after' = "command" /\ main' = "join"
  /\ UNCHANGED <<mode, ok, caller, grabbed, calls, threadVars, cacheVars, lidarVars>>

SendStop ==
  /\ main = "sendStop"
  /\ streaming' = FALSE
  /\ main' = CASE after = "stop" -> Return [] after = "exit" -> "done"
               [] OTHER -> "command"
  /\ UNCHANGED <<mode, ok, isScanning, caller, after, grabbed, calls, threadVars, cacheVars,
                 session, sentItems>>

\* A further query may fail.  If the scan command is not answered as it should be the
\* lidar streams with nobody reading.
StartCommand ==
  /\ main = "command"
  /\ main' = Return
  /\ \/ UNCHANGED <<isScanning, threadVars, lidarVars>>
     \/ /\ session' = session + 1 /\ sentItems' = 0 /\ streaming' = TRUE
        /\ \/ UNCHANGED <<isScanning, threadVars>>
           \/ /\ isScanning' = TRUE /\ cache' = "discard"
              /\ IF mode # "standard" THEN UNCHANGED localBuf
                 ELSE \E j \in Junk : localBuf' = [i \in 1..Batch |-> j]
              /\ UNCHANGED <<todo, localScan, count, previous, replayed>>
  /\ UNCHANGED <<mode, ok, caller, after, grabbed, calls, cacheVars>>

-----------------------------------------------------------------------------
\* Mutant: the S flag is not looked at.
FlagIgnored(item) == FALSE

FirstOfSession(item) == item.n = 1

\* Mutant: data that is not valid leaves the previous capsule as it was.
PreviousKept == previous
PreviousGone == <<>>

\* _waitCapsuledNode: an item that is not valid, or only partly came in time, ends the
\* pairing; so does the first of a session.
CapsuleComes(item) ==
  /\ sentItems' = item.n
  /\ previous' = <<item>>
  /\ todo' = IF previous = <<>> \/ FirstOfSession(item) THEN <<>>
             ELSE LET p == previous[1] IN
                  <<Node(p, p.s = item.s /\ item.n = p.n + 1)>>
  /\ UNCHANGED <<localBuf, count, replayed>>

CapsuleFails ==
  /\ \/ UNCHANGED <<sentItems, previous>>
     \/ /\ streaming /\ sentItems < MaxItems
        /\ sentItems' = sentItems + 1
        /\ previous' = PreviousGone
  /\ UNCHANGED <<todo, localBuf, count, replayed>>

\* The thread reads one capsule and throws it away.
CapsuleDiscarded ==
  /\ cache = "discard"
  /\ \/ /\ streaming /\ sentItems < MaxItems
        /\ sentItems' = sentItems + 1
        /\ previous' = IF FirstOfSession(Item(sentItems')) THEN <<>> ELSE previous
        /\ UNCHANGED <<todo, localBuf, count, replayed>>
     \/ CapsuleFails
  /\ cache' = "loop"
  /\ UNCHANGED <<mode, ok, isScanning, mainVars, localScan, cacheVars, session, streaming>>

CapsuleRead ==
  /\ cache = "read"
  /\ \/ streaming /\ sentItems < MaxItems /\ CapsuleComes(Item(sentItems + 1))
     \/ CapsuleFails
  /\ cache' = IF todo' = <<>> THEN "loop" ELSE "emit"
  /\ UNCHANGED <<mode, ok, isScanning, mainVars, localScan, cacheVars, session, streaming>>

DiscardCapsule == mode = "capsule" /\ CapsuleDiscarded
ReadCapsule == mode = "capsule" /\ CapsuleRead

\* Ultra capsules are read and paired alike, by functions of their own.
DiscardUltraCapsule == mode = "ultra" /\ CapsuleDiscarded
ReadUltraCapsule == mode = "ultra" /\ CapsuleRead

-----------------------------------------------------------------------------
\* _waitHqNode: a block comes whole, or what comes is cut or fails its check sum and
\* is passed over, or nothing comes in time.
HqBlockComes ==
  /\ streaming /\ sentItems < MaxItems
  /\ sentItems' = sentItems + 1

HqBlockFails == sentItems' = sentItems \/ HqBlockComes

DiscardHq ==
  /\ cache = "discard" /\ mode = "hq"
  /\ HqBlockFails
  /\ cache' = "loop"
  /\ UNCHANGED <<mode, ok, isScanning, mainVars, todo, localScan, localBuf, count, previous,
                 replayed, cacheVars, session, streaming>>

ReadHq ==
  /\ cache = "read" /\ mode = "hq"
  /\ \/ HqBlockComes /\ todo' = <<Node(Item(sentItems'), TRUE)>> /\ cache' = "emit"
     \/ HqBlockFails /\ UNCHANGED todo /\ cache' = "loop"
  /\ UNCHANGED <<mode, ok, isScanning, mainVars, localScan, localBuf, count, previous,
                 replayed, cacheVars, session, streaming>>

-----------------------------------------------------------------------------
\* _waitScanData puts k nodes into the buffer; one may have been lost before them.
Filled(k, lost) ==
  [i \in 1..Batch |-> IF i <= k THEN Item(sentItems + lost + i) ELSE localBuf[i]]

Good(s) == [i \in DOMAIN s |-> Node(s[i], TRUE)]

\* All count nodes; or the time is over between two nodes, which lowers count for good;
\* or within one, which is lost: count keeps its value and what is left of the read
\* before is handled again.
NodesCome(k, end) ==
  /\ streaming
  /\ \E lost \in {0, 1} :
       /\ sentItems' = sentItems + lost + k + (IF end = "within" THEN 1 ELSE 0)
       /\ sentItems' <= MaxItems
       /\ localBuf' = Filled(k, lost)
  /\ count' = IF end = "between" THEN k ELSE count
  /\ k <= count /\ (end = "all" <=> k = count) /\ (end = "between" => k > 0)
  /\ todo' = IF cache = "discard" THEN <<>> ELSE Good(SubSeq(localBuf', 1, count'))
  /\ replayed' = (replayed \/ end = "within")
  /\ UNCHANGED previous

DiscardNodes ==
  /\ cache = "discard" /\ mode = "standard"
  /\ \/ \E k \in 0..Batch, end \in {"all", "between", "within"} : NodesCome(k, end)
     \/ UNCHANGED <<sentItems, todo, localBuf, count, replayed, previous>>
  /\ cache' = "loop"
  /\ UNCHANGED <<mode, ok, isScanning, mainVars, localScan, cacheVars, session, streaming>>

ReadNodes ==
  /\ cache = "read" /\ mode = "standard"
  /\ \E k \in 0..Batch, end \in {"all", "between", "within"} : NodesCome(k, end)
  /\ cache' = "emit"
  /\ UNCHANGED <<mode, ok, isScanning, mainVars, localScan, cacheVars, session, streaming>>

ThreadEnds ==
  /\ cache' = "none" /\ localScan' = <<>> /\ localBuf' = <<>> /\ count' = Batch
  /\ UNCHANGED <<todo, previous, replayed>>

\* No data for the time of a node: the thread ends, and nothing starts it again.
ReadFails ==
  /\ cache = "read" /\ mode = "standard"
  /\ isScanning' = FALSE /\ ThreadEnds
  /\ UNCHANGED <<mode, ok, mainVars, cacheVars, lidarVars>>

-----------------------------------------------------------------------------
LoopTest ==
  /\ cache = "loop"
  /\ IF isScanning THEN cache' = "read" /\ UNCHANGED <<localScan, localBuf, count>>
     ELSE ThreadEnds
  /\ UNCHANGED <<mode, ok, isScanning, mainVars, todo, previous, replayed, cacheVars,
                 lidarVars>>

\* Mutant: the event is set only for a thread that waits.
SetForWaiter == signalled \/ main = "waiting"
SetEvent == TRUE

\* A turn is over: if the scan began at a turn it is cached, in place of a scan that
\* nobody has taken.
TurnOver ==
  IF localScan # <<>> /\ SyncBit(localScan[1])
  THEN /\ cached' = localScan /\ completed' = completed + 1
       /\ signalled' = SetEvent
  ELSE UNCHANGED cacheVars

\* The last place of local_scan is written over and over, and not counted.
Added(nodes, node) == IF Len(nodes) < MaxNodes - 1 THEN Append(nodes, node) ELSE nodes

EmitNode ==
  /\ cache = "emit"
  /\ LET node == Head(todo) IN
     IF SyncBit(node)
     THEN TurnOver /\ localScan' = Added(<<>>, node)
     ELSE UNCHANGED cacheVars /\ localScan' = Added(localScan, node)
  /\ todo' = Tail(todo)
  /\ cache' = IF todo' = <<>> THEN "loop" ELSE "emit"
  /\ UNCHANGED <<mode, ok, isScanning, mainVars, localBuf, count, previous, replayed,
                 lidarVars>>

-----------------------------------------------------------------------------
NodeStops ==
  /\ ok
  /\ ok' = FALSE
  /\ UNCHANGED <<mode, isScanning, mainVars, threadVars, cacheVars, lidarVars>>

Finished == main = "done" /\ cache = "none" /\ UNCHANGED lidarNodeVars

NodeThread ==
  \/ GrabWait \/ GrabTimeout \/ GrabTest \/ GrabCopy \/ Spin
  \/ StartQuery \/ Join \/ Answered \/ StartExpress \/ SendStop \/ StartCommand

CacheThread ==
  \/ DiscardCapsule \/ ReadCapsule \/ DiscardUltraCapsule \/ ReadUltraCapsule
  \/ DiscardHq \/ ReadHq \/ DiscardNodes \/ ReadNodes \/ ReadFails
  \/ LoopTest \/ EmitNode

LidarNext == NodeThread \/ CacheThread \/ NodeStops \/ Finished

\* Both threads run; the caching thread's reads are over when their time is.
LidarFairness == WF_lidarNodeVars(NodeThread) /\ WF_lidarNodeVars(CacheThread)

LidarSpec == LidarInit /\ [][LidarNext]_lidarNodeVars /\ LidarFairness

-----------------------------------------------------------------------------
(***************************************************************************)
(* A scan that is published, from the cache, begins at a turn, is of one    *)
(* session, has its nodes in the order the lidar sent them, none twice,    *)
(* and their angles lie between capsules that followed one another - what  *)
(* is in a buffer or a previous capsule from before a loss, a time-out or  *)
(* a restart is never taken for part of it.  (But a time-out within a node *)
(* makes the standard mode handle the rest of the batch before once more.) *)
(* Every variable has its type.                                            *)
(***************************************************************************)
ScansAreWhole ==
  /\ LidarTypeOK
  /\ cached # <<>> /\ ~replayed =>
       /\ SyncBit(cached[1])
       /\ \A i \in DOMAIN cached : cached[i].s = cached[1].s /\ cached[i].good
       /\ \A i, j \in DOMAIN cached : i < j => cached[i].n < cached[j].n

(***************************************************************************)
(* Each scan is published at most once, later ones after earlier ones, and *)
(* an empty one never, although the count is tested without the lock and   *)
(* the event may be set again between its wait and the copy.               *)
(***************************************************************************)
ScansInOrder ==
  [][main = "copy" /\ main' # "copy" => grabbed' > grabbed /\ cached # <<>>]_lidarNodeVars

(***************************************************************************)
(* The scan that was completed last is published, unless the node stops:   *)
(* its event is not lost, and services that end and start the caching      *)
(* thread meanwhile return.                                                *)
(***************************************************************************)
LatestScanPublished == completed > grabbed ~> completed = grabbed \/ ~ok
=============================================================================

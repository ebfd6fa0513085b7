---------------------------- MODULE MCEventQueue ----------------------------
(***************************************************************************)
(* TLC instance of EventQueueClients: a RosEventQueue, a transit queue of a *)
(* behavior tree node below it, and the queue of a task below that.        *)
(***************************************************************************)
EXTENDS EventQueueClients

ChainParents == [q \in {"node", "task"} |-> IF q = "task" THEN "node" ELSE "ros"]
ChainAbove == [ros |-> {"ros"}, node |-> {"node", "ros"}, task |-> {"task", "node", "ros"}]
=============================================================================

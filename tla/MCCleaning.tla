----------------------------- MODULE MCCleaning ------------------------------
\* TLC instance of Cleaning: the node's queue and the queue of a task.
EXTENDS Cleaning

TaskParent == [q \in {"task"} |-> "ros"]
TaskAbove == [q \in {"task", "ros"} |-> {q, "ros"}]
=============================================================================

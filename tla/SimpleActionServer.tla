------------------------- MODULE SimpleActionServer -------------------------
(***************************************************************************)
(* The part of actionlib::SimpleActionServer that move_base is written     *)
(* against: one current goal, one pending goal, and the flags the execute  *)
(* callback polls.  actionlib is not part of the repository; this module   *)
(* says what MoveBase.tla relies on (lines 663-795 of move_base.cpp show   *)
(* every call).  Each operator is one call, made under the server's lock.  *)
(*                                                                         *)
(* A goal is the number of its request: a larger number carries a later    *)
(* stamp.  Requests may arrive in any order (several clients publish).     *)
(***************************************************************************)
EXTENDS Integers

CONSTANT MaxGoals       \* how many goals the clients send

ASSUME MaxGoalsAssumption == MaxGoals \in Nat \ {0}

Goals == 1..MaxGoals

NoGoal == 0             \* an empty goal handle

VARIABLES
  status,                 \* the status the clients see of every goal
  currentGoal,            \* current_goal_
  nextGoal,               \* next_goal_
  newGoal,                \* new_goal_
  preemptRequest,         \* preempt_request_
  newGoalPreemptRequest   \* new_goal_preempt_request_

asVars == <<status, currentGoal, nextGoal, newGoal, preemptRequest,
            newGoalPreemptRequest>>

Waiting == {"pending", "recalling"}
Running == {"active", "preempting"}
Finished == {"succeeded", "aborted", "preempted", "recalled"}

GoalStatus == {"unsent"} \cup Waiting \cup Running \cup Finished

ASTypeOK ==
  /\ status \in [Goals -> GoalStatus]
  /\ currentGoal \in Goals \cup {NoGoal}
  /\ nextGoal \in Goals \cup {NoGoal}
  /\ newGoal \in BOOLEAN
  /\ preemptRequest \in BOOLEAN
  /\ newGoalPreemptRequest \in BOOLEAN

ASInit ==
  /\ status = [g \in Goals |-> "unsent"]
  /\ currentGoal = NoGoal
  /\ nextGoal = NoGoal
  /\ newGoal = FALSE
  /\ preemptRequest = FALSE
  /\ newGoalPreemptRequest = FALSE

\* isActive(): the current goal has been accepted and has no result yet.
IsActive == currentGoal # NoGoal /\ status[currentGoal] \in Running

\* setCanceled(): what canceling does to the status of a goal.
Canceled(s) ==
  IF s \in Waiting THEN "recalled" ELSE IF s \in Running THEN "preempted" ELSE s

\* At most one goal runs, the current one; at most one waits, the next one; the
\* goal that is said to be available does wait; both have arrived.
OneGoalEach ==
  /\ \A g \in Goals : status[g] \in Running => g = currentGoal
  /\ \A g \in Goals : status[g] \in Waiting => newGoal /\ g = nextGoal
  /\ newGoal => /\ nextGoal \in Goals /\ nextGoal # currentGoal
                /\ status[nextGoal] \in Waiting
  /\ \A g \in Goals : g = currentGoal \/ g = nextGoal => status[g] # "unsent"

(***************************************************************************)
(* A goal arrives.  An older goal than the ones the server knows is        *)
(* canceled at once; otherwise it becomes the pending goal, the pending    *)
(* goal it replaces is canceled, and a running execute callback is asked   *)
(* to preempt.                                                             *)
(***************************************************************************)
GoalCallback(g) ==
  /\ status[g] = "unsent"
  /\ UNCHANGED currentGoal
  /\ \/ /\ g < currentGoal \/ g < nextGoal
        /\ status' = [status EXCEPT ![g] = "recalled"]
        /\ UNCHANGED <<nextGoal, newGoal, preemptRequest, newGoalPreemptRequest>>
     \/ /\ g >= currentGoal /\ g >= nextGoal
        /\ status' = [h \in Goals |->
              IF h = g THEN "pending"
              ELSE IF h = nextGoal /\ h # currentGoal THEN Canceled(status[h])
              ELSE status[h]]
        /\ nextGoal' = g
        /\ newGoal' = TRUE
        /\ newGoalPreemptRequest' = FALSE
        /\ preemptRequest' = (preemptRequest \/ IsActive)

\* A client cancels goal g: the flag of the goal it concerns is raised.
PreemptCallback(g) ==
  /\ status[g] \in {"pending", "active"}
  /\ status' = [status EXCEPT ![g] =
                  IF @ = "pending" THEN "recalling" ELSE "preempting"]
  /\ preemptRequest' = (preemptRequest \/ g = currentGoal)
  /\ newGoalPreemptRequest' =
       (newGoalPreemptRequest \/ (g # currentGoal /\ g = nextGoal))
  /\ UNCHANGED <<currentGoal, nextGoal, newGoal>>

\* Mutant: the goal that is replaced is not canceled.
AcceptAnotherGoal ==
  /\ status' = [status EXCEPT ![nextGoal] =
                  IF @ = "recalling" THEN "preempting" ELSE "active"]
  /\ currentGoal' = nextGoal
  /\ newGoal' = FALSE
  /\ preemptRequest' = newGoalPreemptRequest
  /\ newGoalPreemptRequest' = FALSE
  /\ UNCHANGED nextGoal

\* acceptNewGoal(): the pending goal becomes current, the goal it replaces is
\* canceled, and the preempt flag is the one raised for the new goal.
AcceptNewGoal ==
  /\ status' = [h \in Goals |->
        IF h = nextGoal THEN (IF status[h] = "recalling" THEN "preempting" ELSE "active")
        ELSE IF h = currentGoal THEN Canceled(status[h])
        ELSE status[h]]
  /\ currentGoal' = nextGoal
  /\ newGoal' = FALSE
  /\ preemptRequest' = newGoalPreemptRequest
  /\ newGoalPreemptRequest' = FALSE
  /\ UNCHANGED nextGoal

\* setSucceeded(), setAborted(), setPreempted(): the result of the current goal;
\* the call is refused (an error is logged) when the goal already has one.
SetResult(result) ==
  /\ status' = [h \in Goals |->
        IF h = currentGoal /\ IsActive THEN result ELSE status[h]]
  /\ UNCHANGED <<currentGoal, nextGoal, newGoal, preemptRequest,
                 newGoalPreemptRequest>>
=============================================================================

------------------------------ MODULE NavService -----------------------------
(***************************************************************************)
(* What move_base promises the clients of its "move_base" action, without  *)
(* threads, plans or recoveries: goals are queued one deep, one goal at a  *)
(* time is pursued, a newer goal takes over from the one being pursued,    *)
(* every goal gets at most one result and only a pursued goal succeeds or  *)
(* is aborted.  MoveBase.tla implements it.                                *)
(***************************************************************************)
EXTENDS Integers

CONSTANT MaxGoals

Goals == 1..MaxGoals

VARIABLE phase   \* phase[g]: where goal g is in its life

Phases == {"new", "queued", "pursued", "succeeded", "aborted", "canceled"}

Init == phase = [g \in Goals |-> "new"]

\* Goal g is queued; the goal waiting before it, if any, is canceled.
Submit(g) ==
  /\ phase[g] = "new"
  /\ phase' = [h \in Goals |-> IF h = g THEN "queued"
                               ELSE IF phase[h] = "queued" THEN "canceled"
                               ELSE phase[h]]

\* Goal g is older than a goal already known and is refused.
Refuse(g) ==
  /\ phase[g] = "new"
  /\ \E h \in Goals : h > g /\ phase[h] # "new"
  /\ phase' = [phase EXCEPT ![g] = "canceled"]

\* The queued goal is taken up; the goal being pursued, if any, is canceled.
TakeUp(g) ==
  /\ phase[g] = "queued"
  /\ phase' = [h \in Goals |-> IF h = g THEN "pursued"
                               ELSE IF phase[h] = "pursued" THEN "canceled"
                               ELSE phase[h]]

\* The pursued goal gets its result.
Conclude(g) ==
  /\ phase[g] = "pursued"
  /\ \E result \in {"succeeded", "aborted", "canceled"} :
        phase' = [phase EXCEPT ![g] = result]

Next == \E g \in Goals : Submit(g) \/ Refuse(g) \/ TakeUp(g) \/ Conclude(g)

Spec == Init /\ [][Next]_phase
=============================================================================

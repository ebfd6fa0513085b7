---------------------------- MODULE MoveBaseClaims ---------------------------
(***************************************************************************)
(* What a comment in move_base.cpp says of the code, as a property the     *)
(* code does not have.  TLC's counterexample is described in README.md.    *)
(***************************************************************************)
EXTENDS MCMoveBase

(***************************************************************************)
(* "check to see if we've reached our goal" (886): a goal succeeds when    *)
(* the end of its own plan is reached.                                     *)
(***************************************************************************)
SuccessOnOwnPlan ==
  (pcE = "reset" /\ result = "succeeded") => tcPlan = goal.id
=============================================================================

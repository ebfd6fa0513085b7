--------------------------- MODULE MCBehaviorTree ----------------------------
(***************************************************************************)
(* TLC instance of BehaviorTree: the tree that FSM_CALL_BT makes (a SEQ    *)
(* with a PAR of STOP_CONDITION and the called tree) around a sequence of  *)
(* a selection of a task and a sequence of one, which end by themselves,   *)
(* and a PAR of a task that waits for the end of its queue and of one that *)
(* ends by itself.                                                         *)
(***************************************************************************)
EXTENDS BehaviorTree

TreeKind == [bt |-> "SEQ", tmp |-> "PAR", stop |-> "STOP", main |-> "SEQ",
             sel |-> "SEL", alt |-> "SEQ", par |-> "PAR",
             a |-> "TASK", b |-> "TASK", c |-> "TASK", d |-> "TASK"]
TreeChildren == [bt |-> <<"tmp">>, tmp |-> <<"stop", "main">>, stop |-> <<>>,
                 main |-> <<"sel", "par">>, sel |-> <<"a", "alt">>, alt |-> <<"b">>,
                 par |-> <<"c", "d">>, a |-> <<>>, b |-> <<>>, c |-> <<>>, d |-> <<>>]
TreeParents == [bt |-> "fsm", tmp |-> "bt", stop |-> "tmp", main |-> "tmp",
                sel |-> "main", a |-> "sel", alt |-> "sel", b |-> "alt",
                par |-> "main", c |-> "par", d |-> "par",
                qa |-> "a", qb |-> "b", qc |-> "c", qd |-> "d"]
TreeAbove[q \in Queues] == IF q = Root THEN {Root} ELSE {q} \cup TreeAbove[ParentOf[q]]
TreeTaskQueue == [a |-> "qa", b |-> "qb", c |-> "qc", d |-> "qd"]
=============================================================================

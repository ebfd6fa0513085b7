----------------------------- MODULE MCMoveBase -----------------------------
(***************************************************************************)
(* What the runs of MoveBase.tla give TLC besides their .cfg files.        *)
(***************************************************************************)
EXTENDS MoveBase, TLC

\* The three buffers are interchangeable: no action tells one from another.
BufferSymmetry == Permutations(Buffers)

\* The same for the liveness runs, where symmetry may not be used: the
\* constructor's three vectors are three certain ones.
FirstBuffers ==
  CHOOSE b \in Buffers \X Buffers \X Buffers :
    b[1] # b[2] /\ b[1] # b[3] /\ b[2] # b[3]

LiveInit == Init /\ <<plannerPlan, latestPlan, controllerPlan>> = FirstBuffers

LiveSpec == LiveInit /\ [][Next]_vars /\ Fairness

\* The default of max_planning_retries: retries are not limited.
NoRetryLimit == -1
=============================================================================

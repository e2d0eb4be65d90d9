--------------------------- MODULE MCCoordinator ---------------------------
(***************************************************************************)
(* Instances of Coordinator for TLC.                                       *)
(***************************************************************************)
EXTENDS Coordinator, TLC

CONSTANTS w1, w2   \* worker processes

\* Worker processes are interchangeable: no definition tells them apart.
WorkerSymmetry == Permutations(Workers)
=============================================================================

-------------------------- MODULE MCWorkerPipeline --------------------------
(***************************************************************************)
(* Instance of WorkerPipeline for TLC.  Jobs are alike, so safety is also  *)
(* checked up to their permutation.                                        *)
(***************************************************************************)
EXTENDS WorkerPipeline, TLC

CONSTANTS j1, j2

TwoSlots == {j1, j2}
JobSymmetry == Permutations(Slots)
=============================================================================

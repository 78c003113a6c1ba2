------------------------ MODULE MCWorkerMaintenance ------------------------
(***************************************************************************)
(* Instance of WorkerMaintenance for TLC.                                  *)
(***************************************************************************)
EXTENDS WorkerMaintenance

CONSTANTS j1, j2

TwoSlots == {j1, j2}
=============================================================================

---------------------------- MODULE CaseLifecycle ---------------------------
(***************************************************************************)
(* What CaseTransitionService promises about the life of a booking case,   *)
(* however many transition() requests are under way: the status moves only *)
(* along the canonical matrix, and a case that waits for a human goes on   *)
(* where the checkpoint says, unless it is given up.                       *)
(* OrchestrationEngine implements this module.                             *)
(***************************************************************************)
EXTENDS CaseStateMachine

CONSTANT NoCheckpoint      \* no status: the latest history entry names no resume target

VARIABLES status,      \* BookingCase.status
          checkpoint   \* resumeToStatus in the latest BookingCaseStateHistory

vars == <<status, checkpoint>>

CheckpointSet == Status \cup {NoCheckpoint}

Init == /\ status \in Status \ Terminal
        /\ checkpoint = NoCheckpoint

Move(to) ==
  /\ CanTransition(status, to)
  /\ status = HVR /\ to \notin GivenUp => checkpoint \in {NoCheckpoint, to}
  /\ status' = to
  /\ checkpoint' \in IF to = HVR THEN CheckpointSet ELSE {NoCheckpoint}

Next == \E to \in Status : Move(to)

Spec == Init /\ [][Next]_vars
=============================================================================

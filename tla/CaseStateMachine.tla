-------------------------- MODULE CaseStateMachine --------------------------
(***************************************************************************)
(* The canonical state machine of a booking case                           *)
(* (packages/provider-core/src/state-machine).  It has no state of its own:*)
(* the modules that own a case's status EXTEND it.                         *)
(***************************************************************************)

\* enum BookingCaseStatus of the database schema
Status ==
  {"DRAFT", "READY", "AUTHENTICATING", "MONITORING", "WAITING_QUEUE",
   "SLOT_FOUND", "BOOKING", "ADDING_APPLICANTS", "APPOINTMENT_SELECTED",
   "PAYMENT_REQUIRED", "PAYMENT_PROCESSING", "SLOT_LOST",
   "HUMAN_VERIFICATION_REQUIRED", "CONFIRMED", "EXPIRED", "FAILED",
   "CANCELLED"}

\* TERMINAL_STATUSES
Terminal == {"CONFIRMED", "EXPIRED", "FAILED", "CANCELLED"}

\* ALLOWED_HUMAN_RESUME_TARGETS
ResumeTargets ==
  {"AUTHENTICATING", "MONITORING", "WAITING_QUEUE", "BOOKING",
   "ADDING_APPLICANTS", "APPOINTMENT_SELECTED", "PAYMENT_REQUIRED",
   "PAYMENT_PROCESSING"}

\* What every status from which work can be abandoned may also go to.
GivenUp == {"FAILED", "CANCELLED"}
HVR     == "HUMAN_VERIFICATION_REQUIRED"

\* CANONICAL_TRANSITION_MATRIX; a terminal status allows nothing
Allowed(from) ==
  CASE from = "DRAFT"                -> {"READY", "CANCELLED"}
    [] from = "READY"                -> {"AUTHENTICATING", "CANCELLED"}
    [] from = "AUTHENTICATING"       -> {"MONITORING", "WAITING_QUEUE", HVR} \cup GivenUp
    [] from = "MONITORING"           -> {"SLOT_FOUND", HVR} \cup GivenUp
    [] from = "WAITING_QUEUE"        -> {"SLOT_FOUND", HVR, "EXPIRED"} \cup GivenUp
    [] from = "SLOT_FOUND"           -> {"BOOKING", "SLOT_LOST", "EXPIRED"} \cup GivenUp
    [] from = "BOOKING"              -> {"ADDING_APPLICANTS", HVR, "SLOT_LOST"} \cup GivenUp
    [] from = "ADDING_APPLICANTS"    -> {"APPOINTMENT_SELECTED", HVR, "SLOT_LOST"} \cup GivenUp
    [] from = "APPOINTMENT_SELECTED" -> {"PAYMENT_REQUIRED", HVR, "EXPIRED"} \cup GivenUp
    [] from = "PAYMENT_REQUIRED"     -> {"PAYMENT_PROCESSING", HVR, "EXPIRED"} \cup GivenUp
    [] from = "PAYMENT_PROCESSING"   -> {"CONFIRMED", HVR, "EXPIRED"} \cup GivenUp
    [] from = "SLOT_LOST"            -> {"MONITORING", "WAITING_QUEUE"} \cup GivenUp
    [] from = HVR                    -> ResumeTargets \cup GivenUp
    [] OTHER                         -> {}

\* BookingCaseStateMachine.canTransition
CanTransition(from, to) == to \in Allowed(from)
=============================================================================

------------------------ MODULE OrchestrationEngine -------------------------
(***************************************************************************)
(* The executions of OrchestrationEngineService on one booking case        *)
(* (apps/api/.../orchestrator/services/orchestration-engine.service.ts),   *)
(* with the three services they are made of: the case lock (CaseMutex),    *)
(* the idempotency guard and CaseTransitionService.transition, a check and *)
(* a compare-and-set with a read of the history between them.              *)
(*                                                                         *)
(* An execution asks for one transition after the other; what it does once *)
(* a transition is committed depends on the status it asked for.  When a   *)
(* transition is refused or an adapter throws, the execution is over.      *)
(***************************************************************************)
EXTENDS CaseStateMachine, Naturals, FiniteSets

CONSTANTS Execs,         \* executions of the engine; a slot is used again
          NoCheckpoint,  \* a history entry without resumeToStatus
          MaxCalls       \* bound on what the counter of provider calls records

ASSUME NoCheckpointAssumption == NoCheckpoint \notin Status
ASSUME MaxCallsAssumption == MaxCalls \in Nat \ {0}

VARIABLES
  status,      \* BookingCase.status
  checkpoint,  \* resumeToStatus of the latest history entry
  inside,      \* the executions that run inside withCaseLock
  faulty,      \* the lock was lost by an execution that goes on
  pc,          \* what each execution does next
  kind,        \* which execute* method it is
  want,        \* the transition it asks for
  begun        \* calls of adapter.beginBooking so far, up to MaxCalls

case == <<status, checkpoint>>
lock == <<inside, faulty>>
vars == <<status, checkpoint, inside, faulty, pc, kind, want, begun>>

Lock == INSTANCE CaseMutex WITH Calls <- Execs

Kinds == {"auth", "avail", "book", "resume"}
PC == {"idle", "guard", "load", "call", "history", "check", "verify", "commit"}
CheckpointSet == Status \cup {NoCheckpoint}
Request == [from : Status, to : Status, resume : CheckpointSet]

TypeOK ==
  /\ status \in Status
  /\ checkpoint \in CheckpointSet
  /\ inside \in SUBSET Execs
  /\ faulty \in BOOLEAN
  /\ pc \in [Execs -> PC]
  /\ kind \in [Execs -> Kinds]
  /\ want \in [Execs -> Request]
  /\ begun \in 0..MaxCalls

NoRequest == [from |-> "READY", to |-> "READY", resume |-> NoCheckpoint]

Init ==
  /\ status = "READY"
  /\ checkpoint = NoCheckpoint
  /\ Lock!Init
  /\ pc = [e \in Execs |-> "idle"]
  /\ kind = [e \in Execs |-> "auth"]
  /\ want = [e \in Execs |-> NoRequest]
  /\ begun = 0

-----------------------------------------------------------------------------
(* Helpers                                                                 *)

\* transition({ toStatus, expectedFromStatus, metadata: { resumeToStatus } })
Ask(e, from, to, resume) ==
  /\ want' = [want EXCEPT ![e] = [from |-> from, to |-> to, resume |-> resume]]
  /\ pc' = [pc EXCEPT ![e] = "check"]
  /\ UNCHANGED <<case, lock, kind>>

AskMove(e, from, to) == Ask(e, from, to, NoCheckpoint)

Go(e, to) ==
  /\ pc' = [pc EXCEPT ![e] = to]
  /\ UNCHANGED <<case, lock, kind, want>>

\* fn returns or throws: withCaseLock lets the next execution in
Finish(e) ==
  /\ pc' = [pc EXCEPT ![e] = "idle"]
  /\ want' = [want EXCEPT ![e] = NoRequest]
  /\ Lock!Leave({e})
  /\ UNCHANGED <<case, kind>>

-----------------------------------------------------------------------------
(* Entering: lock, idempotency guard, load                                 *)

\* withCaseLock; executeAuthentication has no guard and asks at once
Start(e, k) ==
  /\ pc[e] = "idle"
  /\ Lock!Enter(e)
  /\ kind' = [kind EXCEPT ![e] = k]
  /\ IF k = "auth"
       THEN /\ pc' = [pc EXCEPT ![e] = "check"]
            /\ want' = [want EXCEPT ![e] = [from |-> "READY", to |-> "AUTHENTICATING",
                                            resume |-> NoCheckpoint]]
       ELSE /\ pc' = [pc EXCEPT ![e] = "guard"]
            /\ UNCHANGED want
  /\ UNCHANGED <<case, begun>>

\* evaluateAvailabilityCheck, evaluateBookingExecution, evaluateSessionResume:
\* the statuses that answer EXECUTE
Executable(k) == CASE k = "avail"  -> {"MONITORING", "WAITING_QUEUE"}
                   [] k = "book"   -> {"SLOT_FOUND"}
                   [] k = "resume" -> {HVR}
                   [] OTHER        -> {}

\* Mutant: the guard's answer is not looked at.
GuardIgnored(e) ==
  /\ pc[e] = "guard"
  /\ Go(e, "load")
  /\ UNCHANGED begun

Guard(e) ==
  /\ pc[e] = "guard"
  /\ \/ status \in Executable(kind[e]) /\ Go(e, "load")
     \/ status \notin Executable(kind[e]) /\ Finish(e)
  /\ UNCHANGED begun

\* findCaseById: a second read.  The availability check will expect the status
\* read here; a booking asks for SLOT_FOUND -> BOOKING.
Load(e) ==
  /\ pc[e] = "load"
  /\ \/ /\ kind[e] = "avail"
        /\ pc' = [pc EXCEPT ![e] = "call"]
        /\ want' = [want EXCEPT ![e].from = status]
        /\ UNCHANGED <<case, lock, kind>>
     \/ kind[e] = "book" /\ AskMove(e, "SLOT_FOUND", "BOOKING")
     \/ kind[e] = "resume" /\ Go(e, "call")
  /\ UNCHANGED begun

-----------------------------------------------------------------------------
(* CaseTransitionService.transition                                        *)

\* Mutant: neither the expected status nor the matrix is checked.
CheckNothing(e) ==
  /\ pc[e] = "check"
  /\ want' = [want EXCEPT ![e].from = status]
  /\ pc' = [pc EXCEPT ![e] = "commit"]
  /\ UNCHANGED <<case, lock, kind, begun>>

\* Load the case; throw if it is not where the caller expects it or the
\* matrix does not allow the move.
Check(e) ==
  /\ pc[e] = "check"
  /\ \/ /\ status = want[e].from
        /\ CanTransition(want[e].from, want[e].to)
        /\ Go(e, IF want[e].from = HVR /\ want[e].to \notin GivenUp THEN "verify" ELSE "commit")
     \/ /\ status # want[e].from \/ ~CanTransition(want[e].from, want[e].to)
        /\ Finish(e)
  /\ UNCHANGED begun

\* The resume target must be the one of the latest history entry, if it has one
Verify(e) ==
  /\ pc[e] = "verify"
  /\ \/ checkpoint \in {NoCheckpoint, want[e].to} /\ Go(e, "commit")
     \/ checkpoint \notin {NoCheckpoint, want[e].to} /\ Finish(e)
  /\ UNCHANGED begun

\* Where an execution goes on after the transition it asked for
After(e) ==
  CASE kind[e] = "auth" /\ want[e].to = "AUTHENTICATING" -> "call"
    [] kind[e] = "book" /\ want[e].to \in
         {"BOOKING", "ADDING_APPLICANTS", "APPOINTMENT_SELECTED",
          "PAYMENT_REQUIRED", "PAYMENT_PROCESSING"}      -> "call"
    [] OTHER                                             -> "idle"

Leaving(e) == IF After(e) = "idle"
                THEN want' = [want EXCEPT ![e] = NoRequest] /\ Lock!Leave({e})
                ELSE UNCHANGED <<want, lock>>

\* Mutant: update by id, without the status in the where clause.
CommitBlindly(e) ==
  /\ pc[e] = "commit"
  /\ status' = want[e].to
  /\ checkpoint' = want[e].resume
  /\ pc' = [pc EXCEPT ![e] = After(e)]
  /\ Leaving(e)
  /\ UNCHANGED <<kind, begun>>

\* atomicStatusTransition: compare-and-set and history entry in one transaction
Commit(e) ==
  /\ pc[e] = "commit"
  /\ \/ /\ status = want[e].from
        /\ status' = want[e].to
        /\ checkpoint' = want[e].resume
        /\ pc' = [pc EXCEPT ![e] = After(e)]
        /\ Leaving(e)
        /\ UNCHANGED kind
     \/ /\ status # want[e].from
        /\ Finish(e)
  /\ UNCHANGED begun

-----------------------------------------------------------------------------
(* Calls of the provider adapter and what follows their answers            *)

Calling(e, k, at) == pc[e] = "call" /\ kind[e] = k /\ want[e].to = at

\* authenticate, and inspectRoute after a success (its failure falls back to
\* the booking mode of the case's own route)
Authenticate(e) ==
  /\ Calling(e, "auth", "AUTHENTICATING")
  /\ \/ Ask(e, "AUTHENTICATING", HVR, "AUTHENTICATING")
     \/ AskMove(e, "AUTHENTICATING", "FAILED")
     \/ Finish(e)
     \/ \E to \in {"MONITORING", "WAITING_QUEUE"} : AskMove(e, "AUTHENTICATING", to)
  /\ UNCHANGED begun

\* checkAvailability: only SLOT_FOUND moves the case
CheckAvailability(e) ==
  /\ pc[e] = "call" /\ kind[e] = "avail"
  /\ AskMove(e, want[e].from, "SLOT_FOUND") \/ Finish(e)
  /\ UNCHANGED begun

\* beginBooking: every answer but SLOT_LOST goes on
BeginBooking(e) ==
  /\ Calling(e, "book", "BOOKING")
  /\ begun' = IF begun < MaxCalls THEN begun + 1 ELSE begun
  /\ \E to \in {"SLOT_LOST", "ADDING_APPLICANTS"} : AskMove(e, "BOOKING", to)

\* addApplicants: the answer is not read
AddApplicants(e) ==
  /\ Calling(e, "book", "ADDING_APPLICANTS")
  /\ AskMove(e, "ADDING_APPLICANTS", "APPOINTMENT_SELECTED")
  /\ UNCHANGED begun

\* selectAppointment (answer not read), then getPaymentState
SelectAppointment(e) ==
  /\ Calling(e, "book", "APPOINTMENT_SELECTED")
  /\ \/ Ask(e, "APPOINTMENT_SELECTED", HVR, "PAYMENT_REQUIRED")
     \/ AskMove(e, "APPOINTMENT_SELECTED", "PAYMENT_REQUIRED")
  /\ UNCHANGED begun

\* A payment URL ends the execution for a human to pay
PaymentRequired(e) ==
  /\ Calling(e, "book", "PAYMENT_REQUIRED")
  /\ Finish(e) \/ AskMove(e, "PAYMENT_REQUIRED", "PAYMENT_PROCESSING")
  /\ UNCHANGED begun

\* getConfirmation: the case is confirmed whatever the answer
GetConfirmation(e) ==
  /\ Calling(e, "book", "PAYMENT_PROCESSING")
  /\ AskMove(e, "PAYMENT_PROCESSING", "CONFIRMED")
  /\ UNCHANGED begun

\* resume: the answer is not read; the target is read from the history next
ResumeAdapter(e) ==
  /\ pc[e] = "call" /\ kind[e] = "resume"
  /\ Go(e, "history")
  /\ UNCHANGED begun

\* Mutant: no default for a history entry without a target.
ReadBareTarget(e) ==
  /\ pc[e] = "history"
  /\ AskMove(e, HVR, checkpoint)
  /\ UNCHANGED begun

\* The target is the one of the latest history entry.
ReadTarget(e) ==
  /\ pc[e] = "history"
  /\ AskMove(e, HVR, IF checkpoint = NoCheckpoint THEN "AUTHENTICATING" ELSE checkpoint)
  /\ UNCHANGED begun

\* The adapter, Redis or the database throws, or the process dies
Abort(e) ==
  /\ pc[e] # "idle"
  /\ Finish(e)
  /\ UNCHANGED begun

\* The lease of an execution expires while it goes on (CaseLock says when)
LoseLock ==
  /\ inside # {}
  /\ ~faulty
  /\ Lock!Fault
  /\ UNCHANGED <<case, pc, kind, want, begun>>

-----------------------------------------------------------------------------
ExecStep(e) ==
  \/ \E k \in Kinds : Start(e, k)
  \/ Guard(e) \/ Load(e) \/ Check(e) \/ Verify(e) \/ Commit(e)
  \/ Authenticate(e) \/ CheckAvailability(e) \/ BeginBooking(e)
  \/ AddApplicants(e) \/ SelectAppointment(e) \/ PaymentRequired(e)
  \/ GetConfirmation(e) \/ ResumeAdapter(e) \/ ReadTarget(e) \/ Abort(e)

Next == LoseLock \/ \E e \in Execs : ExecStep(e)

Spec == Init /\ [][Next]_vars

-----------------------------------------------------------------------------
(* Properties                                                              *)

\* Whatever the interleaving of executions, and even when the lock was lost
\* between the check and the compare-and-set, the case lives by the matrix and
\* goes on from a checkpoint where the history says.
Lifecycle == INSTANCE CaseLifecycle
ImplementsLifecycle == Lifecycle!Spec

\* At most one execution ever calls beginBooking for the case: a booking that
\* went wrong is not begun again, by a retry, a second request or an execution
\* that lost the lock (docs/production-readiness.md:61 "NEVER retry blindly").
BookingBegunOnce == begun <= 1

\* Under the lock, a provider call is made for the status the case has: no
\* execution acts on a status that another one has moved meanwhile.
CallsFitStatus ==
  ~faulty => \A e \in Execs : pc[e] = "call" =>
    CASE kind[e] = "avail"  -> status = want[e].from
      [] kind[e] = "resume" -> status = HVR
      [] OTHER              -> status = want[e].to
=============================================================================

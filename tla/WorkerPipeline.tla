--------------------------- MODULE WorkerPipeline ---------------------------
(***************************************************************************)
(* The live automation of one booking case: the API that starts and        *)
(* resumes it (automation-operations.service.ts), the three BullMQ queues, *)
(* and the worker process that runs their jobs (apps/worker/src/queues)    *)
(* against the database and the provider.                                  *)
(*                                                                         *)
(* A job is a sequence of steps; each step is one await that reads or      *)
(* writes something shared, so the steps of jobs interleave as the awaits  *)
(* of the process do.  atomicConditionalTransition answers false when the  *)
(* case has moved; no caller reads the answer.  A provider call does not   *)
(* change what is modelled: its action picks the answer and the next step. *)
(***************************************************************************)
EXTENDS CaseStateMachine, Naturals, Sequences, FiniteSets

CONSTANTS Slots,        \* identities for the jobs in the queues and in work
          NoTarget,     \* a session or history entry without resumeToStatus
          Modes,        \* the booking modes a route may have
          MaxTries,     \* attempts of a job (3 and 5 in the code)
          MaxFaults,    \* bound on unexpected throws and worker crashes
          MaxSessions   \* bound on automation sessions of the case

ASSUME SlotsAssumption == IsFiniteSet(Slots)
ASSUME NoTargetAssumption == NoTarget \notin Status
ASSUME ModesAssumption == Modes \subseteq {"MONITORING", "WAITING_QUEUE"}
ASSUME BoundsAssumption ==
  MaxTries \in Nat \ {0} /\ MaxFaults \in Nat /\ MaxSessions \in Nat \ {0}

VARIABLES
  status,     \* BookingCase.status
  recorded,   \* resumeToStatus in the latest BookingCaseStateHistory
  mode,       \* bookingMode of the case's route: the status it monitors in
  sessions,   \* the AutomationSessions of the case, oldest first
  handoffs,   \* PaymentHandoffs of the case, up to 2
  jobs,       \* the jobs waiting or at work
  worker,     \* the id of the worker process, new at every start, from 1 on
  faults,     \* throws and crashes so far
  begun,      \* calls of beginBooking since the last slot was found, up to 2
  ended       \* a job ended monitoring: attempts used up or adapter gave up

caseVars == <<status, recorded>>
vars == <<status, recorded, mode, sessions, handoffs, jobs, worker, faults,
          begun, ended>>

Targets == ResumeTargets \cup {NoTarget}

ActiveSession == {"STARTING", "ACTIVE", "HUMAN_ACTION_REQUIRED", "PAYMENT_HANDOFF"}
\* EXPIRED and LOST are written by the jobs of WorkerMaintenance only, STARTING
\* by its request to prepare a login
EndedSession == {"COMPLETED", "EXPIRED", "LOST"}
Session == [st : ActiveSession \cup EndedSession, resume : Targets, owner : Nat]

\* What most steps leave alone
others == <<mode, sessions, handoffs, worker, faults, begun, ended>>

\* Steps at which a job waits in its queue, and the steps of each processJob
Queues == {"availQ", "bookingQ", "resumeQ"}
AvailSteps == {"toAuth", "findSession", "createSession", "authenticate", "authHuman",
               "checkpoint", "record", "inspectHuman", "authFailed", "toMode", "check",
               "checkHuman", "toSlot", "enqueueBooking", "enqueueAvail"}
BookingSteps == {"toBooking", "begin", "beginLost", "toAdding", "add", "addHuman",
                 "toSelected", "select", "selectLost", "payment", "payHuman",
                 "toPayment", "findHandoff", "handoffSession", "createHandoff"}
ResumeSteps == {"findActive", "findPayable", "resume", "toTarget", "enqueueResumed", "paid",
                "toProcessing", "confirm", "toConfirmed", "complete"}
Step == {"free"} \cup Queues \cup AvailSteps \cup BookingSteps \cup ResumeSteps

\* A job: its step, the attempts left, the session it loaded and its target
NewJob(queue) == [at |-> queue, tries |-> MaxTries, sess |-> 0, target |-> NoTarget]
NoJob == [at |-> "free", tries |-> 0, sess |-> 0, target |-> NoTarget]
Job   == [at : Step, tries : 0..MaxTries, sess : 0..MaxSessions, target : Targets]

TypeOK ==
  /\ status \in Status
  /\ recorded \in Targets
  /\ mode \in Modes
  /\ Len(sessions) <= MaxSessions /\ \A i \in DOMAIN sessions : sessions[i] \in Session
  /\ handoffs \in 0..2
  /\ jobs \in [Slots -> Job]
  /\ worker \in Nat
  /\ faults \in 0..MaxFaults
  /\ begun \in 0..2
  /\ ended \in BOOLEAN

\* A case that was made ready and not started yet
Init ==
  /\ status = "READY"
  /\ recorded = NoTarget
  /\ mode \in Modes
  /\ sessions = <<>>
  /\ handoffs = 0
  /\ jobs = [s \in Slots |-> NoJob]
  /\ worker = 1
  /\ faults = 0
  /\ begun = 0
  /\ ended = FALSE

-----------------------------------------------------------------------------
(* Helpers                                                                 *)

At(j, step) == jobs[j].at = step
Go(j, step) == jobs' = [jobs EXCEPT ![j].at = step]
Done(j)     == jobs' = [jobs EXCEPT ![j] = NoJob]

\* queue.add, of the job a processJob ends with: it takes the slot
Successor(j, queue) ==
  jobs' = [jobs EXCEPT ![j] = NewJob(queue)]

\* processJob throws: BullMQ tries the job again or gives it up
QueueOf(step) == CASE step \in AvailSteps   -> "availQ"
                   [] step \in BookingSteps -> "bookingQ"
                   [] step \in ResumeSteps  -> "resumeQ"
                   [] OTHER                 -> step

Retry(j) ==
  \/ /\ jobs[j].tries > 1
     /\ jobs' = [jobs EXCEPT ![j] = [NewJob(QueueOf(jobs[j].at)) EXCEPT
                                     !.tries = jobs[j].tries - 1]]
     /\ UNCHANGED ended
  \/ /\ jobs[j].tries <= 1
     /\ Done(j)
     /\ ended' = TRUE

\* atomicConditionalTransition: status and history move together or not at all
Cas(from, to, target) ==
  IF status = from
    THEN /\ status' = to
         /\ recorded' = target
    ELSE UNCHANGED caseVars

\* A step that is one such transition and goes on at the next step
CasStep(j, step, from, to, target, next) ==
  /\ At(j, step)
  /\ Cas(from, to, target)
  /\ IF next = "free" THEN Done(j) ELSE Go(j, next)
  /\ UNCHANGED others

\* findActiveSessionByCaseId: the latest in an active status, 0 if there is none
ActiveIndex ==
  LET active == {i \in DOMAIN sessions : sessions[i].st \in ActiveSession}
  IN  IF active = {} THEN 0 ELSE CHOOSE i \in active : \A k \in active : k <= i

\* What resumeAutomation looks for
Resumable ==
  {i \in DOMAIN sessions :
     sessions[i].st \in {"ACTIVE", "HUMAN_ACTION_REQUIRED", "PAYMENT_HANDOFF"}}

\* A worker takes a job while fewer than its concurrency are at work
Takes(steps, concurrency) ==
  Cardinality({j \in Slots : jobs[j].at \in steps}) < concurrency

-----------------------------------------------------------------------------
(* The API                                                                 *)

\* queue.add by the API, in a free slot
Enqueue(queue) ==
  LET free == {j \in Slots : At(j, "free")}
  IN  free # {} /\ Successor(CHOOSE j \in free : TRUE, queue)

\* startAutomation: a case in READY without a session under way
StartAutomation ==
  /\ status = "READY"
  /\ ActiveIndex = 0
  /\ Enqueue("availQ")
  /\ UNCHANGED <<caseVars, others>>

\* resumeAutomation: a case that waits for a human and has a session
ResumeAutomation ==
  /\ status = HVR
  /\ Resumable # {}
  /\ Enqueue("resumeQ")
  /\ UNCHANGED <<caseVars, others>>

-----------------------------------------------------------------------------
(* AvailabilityWorker.processJob                                           *)

\* Mutant: AUTHENTICATING is not among the statuses that are processed.
SkipAuthenticating(j) ==
  /\ At(j, "availQ")
  /\ Takes(AvailSteps, 2)
  /\ CASE status = "READY"                           -> Go(j, "toAuth")
       [] status \in {"MONITORING", "WAITING_QUEUE"} -> Go(j, "check")
       [] OTHER                                      -> Done(j)
  /\ UNCHANGED <<caseVars, others>>

\* Load the case; skip it unless it is in one of four statuses
AvailLoad(j) ==
  /\ At(j, "availQ")
  /\ Takes(AvailSteps, 2)
  /\ CASE status = "READY"                           -> Go(j, "toAuth")
       [] status = "AUTHENTICATING"                  -> Go(j, "authenticate")
       [] status \in {"MONITORING", "WAITING_QUEUE"} -> Go(j, "check")
       [] OTHER                                      -> Done(j)
  /\ UNCHANGED <<caseVars, others>>

BeginAuth(j) == CasStep(j, "toAuth", "READY", "AUTHENTICATING", NoTarget, "findSession")

\* Mutant: the session is looked for and never created.
FindSessionOnly(j) ==
  /\ At(j, "findSession")
  /\ Go(j, "authenticate")
  /\ UNCHANGED <<caseVars, others>>

FindSession(j) ==
  /\ At(j, "findSession")
  /\ Go(j, IF ActiveIndex = 0 THEN "createSession" ELSE "authenticate")
  /\ UNCHANGED <<caseVars, others>>

CreateSession(j) ==
  /\ At(j, "createSession")
  /\ Len(sessions) < MaxSessions
  /\ sessions' = Append(sessions, [st |-> "ACTIVE", resume |-> NoTarget, owner |-> worker])
  /\ Go(j, "authenticate")
  /\ UNCHANGED <<caseVars, mode, handoffs, worker, faults, begun, ended>>

\* authenticate and, after a success, inspectRoute
Authenticate(j) ==
  /\ At(j, "authenticate")
  /\ \/ /\ \E next \in {"authHuman", "inspectHuman", "authFailed", "toMode"} : Go(j, next)
        /\ UNCHANGED ended
     \/ Retry(j)
  /\ UNCHANGED <<caseVars, mode, sessions, handoffs, worker, faults, begun>>

AuthHuman(j)    == CasStep(j, "authHuman", "AUTHENTICATING", HVR, "AUTHENTICATING", "checkpoint")
InspectHuman(j) == CasStep(j, "inspectHuman", "AUTHENTICATING", HVR, "AUTHENTICATING", "free")
AuthFailed(j)   == CasStep(j, "authFailed", "AUTHENTICATING", "FAILED", NoTarget, "free")
EnterMode(j)    == CasStep(j, "toMode", "AUTHENTICATING", mode, NoTarget, "check")

\* recordHumanVerificationCheckpoint on the active session, if there is one
FindCheckpoint(j) ==
  /\ At(j, "checkpoint")
  /\ IF ActiveIndex = 0
       THEN Done(j)
       ELSE jobs' = [jobs EXCEPT ![j].at = "record", ![j].sess = ActiveIndex]
  /\ UNCHANGED <<caseVars, others>>

RecordCheckpoint(j) ==
  /\ At(j, "record")
  /\ sessions' = [sessions EXCEPT ![jobs[j].sess] =
                    [@ EXCEPT !.st = "HUMAN_ACTION_REQUIRED", !.resume = "AUTHENTICATING"]]
  /\ Done(j)
  /\ UNCHANGED <<caseVars, mode, handoffs, worker, faults, begun, ended>>

\* checkAvailability: a human, a slot, no slot, or a job that ends here
CheckAvailability(j) ==
  /\ At(j, "check")
  /\ \/ /\ \E next \in {"checkHuman", "toSlot", "enqueueAvail"} : Go(j, next)
        /\ UNCHANGED ended
     \/ /\ Done(j)
        /\ ended' = TRUE
  /\ UNCHANGED <<caseVars, mode, sessions, handoffs, worker, faults, begun>>

\* Both transitions start from MONITORING, whatever status was loaded.
CheckHuman(j) == CasStep(j, "checkHuman", "MONITORING", HVR, "MONITORING", "free")

FindSlot(j) ==
  /\ At(j, "toSlot")
  /\ Cas("MONITORING", "SLOT_FOUND", NoTarget)
  /\ IF status = "MONITORING" THEN begun' = 0 ELSE UNCHANGED begun
  /\ Go(j, "enqueueBooking")
  /\ UNCHANGED <<mode, sessions, handoffs, worker, faults, ended>>

\* Mutant: no booking job is added.
ForgetBooking(j) ==
  /\ At(j, "enqueueBooking")
  /\ Done(j)
  /\ UNCHANGED <<caseVars, others>>

\* The booking job is added whether or not the case moved
EnqueueBooking(j) ==
  /\ At(j, "enqueueBooking")
  /\ Successor(j, "bookingQ")
  /\ UNCHANGED <<caseVars, others>>

\* NO_SLOT: the next check, three minutes later
EnqueueAvail(j) ==
  /\ At(j, "enqueueAvail")
  /\ Successor(j, "availQ")
  /\ UNCHANGED <<caseVars, others>>

-----------------------------------------------------------------------------
(* BookingWorker.processJob                                                *)

\* Mutant: the status is not checked before the booking begins.
BookingLoadAny(j) ==
  /\ At(j, "bookingQ")
  /\ Takes(BookingSteps, 1)
  /\ Go(j, "toBooking")
  /\ UNCHANGED <<caseVars, others>>

\* booking must begin strictly from SLOT_FOUND
BookingLoad(j) ==
  /\ At(j, "bookingQ")
  /\ Takes(BookingSteps, 1)
  /\ IF status = "SLOT_FOUND" THEN Go(j, "toBooking") ELSE Done(j)
  /\ UNCHANGED <<caseVars, others>>

ToBooking(j) == CasStep(j, "toBooking", "SLOT_FOUND", "BOOKING", NoTarget, "begin")

\* beginBooking: any answer but SLOT_LOST goes on
BeginBooking(j) ==
  /\ At(j, "begin")
  /\ begun' = IF begun < 2 THEN begun + 1 ELSE begun
  /\ \E next \in {"beginLost", "toAdding"} : Go(j, next)
  /\ UNCHANGED <<caseVars, mode, sessions, handoffs, worker, faults, ended>>

BeginLost(j) == CasStep(j, "beginLost", "BOOKING", "SLOT_LOST", NoTarget, "free")
ToAdding(j)  == CasStep(j, "toAdding", "BOOKING", "ADDING_APPLICANTS", NoTarget, "add")

\* addApplicants: only HUMAN_ACTION_REQUIRED is looked at
AddApplicants(j) ==
  /\ At(j, "add")
  /\ \E next \in {"addHuman", "toSelected"} : Go(j, next)
  /\ UNCHANGED <<caseVars, mode, sessions, handoffs, worker, faults, begun, ended>>

AddHuman(j) ==
  CasStep(j, "addHuman", "ADDING_APPLICANTS", HVR, "ADDING_APPLICANTS", "free")
ToSelected(j) ==
  CasStep(j, "toSelected", "ADDING_APPLICANTS", "APPOINTMENT_SELECTED", NoTarget, "select")

\* selectAppointment: only SLOT_LOST is looked at
SelectAppointment(j) ==
  /\ At(j, "select")
  /\ \E next \in {"selectLost", "payment"} : Go(j, next)
  /\ UNCHANGED <<caseVars, others>>

SelectLost(j) ==
  CasStep(j, "selectLost", "APPOINTMENT_SELECTED", "SLOT_LOST", NoTarget, "free")

\* getPaymentState: only HUMAN_ACTION_REQUIRED is looked at
GetPaymentState(j) ==
  /\ At(j, "payment")
  /\ \E next \in {"payHuman", "toPayment"} : Go(j, next)
  /\ UNCHANGED <<caseVars, others>>

\* Mutant: the return after the transition is missing.
PayHumanGoesOn(j) ==
  CasStep(j, "payHuman", "APPOINTMENT_SELECTED", HVR, "PAYMENT_REQUIRED", "findHandoff")

PayHuman(j) ==
  CasStep(j, "payHuman", "APPOINTMENT_SELECTED", HVR, "PAYMENT_REQUIRED", "free")
ToPayment(j) ==
  CasStep(j, "toPayment", "APPOINTMENT_SELECTED", "PAYMENT_REQUIRED", NoTarget, "findHandoff")

\* The session to hand over, recordPaymentHandoff on it, createHandoff
FindHandoff(j) ==
  /\ At(j, "findHandoff")
  /\ IF ActiveIndex = 0
       THEN Done(j)
       ELSE jobs' = [jobs EXCEPT ![j].at = "handoffSession", ![j].sess = ActiveIndex]
  /\ UNCHANGED <<caseVars, others>>

\* Mutant: the job ends once the session is marked.
HandOffSessionOnly(j) ==
  /\ At(j, "handoffSession")
  /\ sessions' = [sessions EXCEPT ![jobs[j].sess].st = "PAYMENT_HANDOFF"]
  /\ Done(j)
  /\ UNCHANGED <<caseVars, mode, handoffs, worker, faults, begun, ended>>

HandOffSession(j) ==
  /\ At(j, "handoffSession")
  /\ sessions' = [sessions EXCEPT ![jobs[j].sess].st = "PAYMENT_HANDOFF"]
  /\ Go(j, "createHandoff")
  /\ UNCHANGED <<caseVars, mode, handoffs, worker, faults, begun, ended>>

CreateHandoff(j) ==
  /\ At(j, "createHandoff")
  /\ handoffs' = IF handoffs < 2 THEN handoffs + 1 ELSE handoffs
  /\ Done(j)
  /\ UNCHANGED <<caseVars, mode, sessions, worker, faults, begun, ended>>

-----------------------------------------------------------------------------
(* SessionResumeWorker.processJob                                          *)

ResumeLoad(j) ==
  /\ At(j, "resumeQ")
  /\ Takes(ResumeSteps, 2)
  /\ CASE status = HVR                -> Go(j, "findActive")
       [] status = "PAYMENT_REQUIRED" -> Go(j, "findPayable")
       [] OTHER                       -> Done(j)
  /\ UNCHANGED <<caseVars, others>>

\* The active session, which must be of this worker
FindActive(j) ==
  /\ jobs[j].at \in {"findActive", "findPayable"}
  /\ IF ActiveIndex = 0 \/ sessions[ActiveIndex].owner # worker
       THEN Done(j)
       ELSE jobs' = [jobs EXCEPT ![j].at = IF At(j, "findActive") THEN "resume" ELSE "paid",
                                 ![j].sess = ActiveIndex,
                                 ![j].target = sessions[ActiveIndex].resume]
  /\ UNCHANGED <<caseVars, others>>

\* adapter.resume: only HUMAN_ACTION_REQUIRED is looked at
ResumeAdapter(j) ==
  /\ At(j, "resume")
  /\ Go(j, "toTarget") \/ Done(j)
  /\ UNCHANGED <<caseVars, others>>

\* Mutant: no default for a session without a target.
ToBareTarget(j) ==
  CasStep(j, "toTarget", HVR, jobs[j].target, NoTarget, "enqueueResumed")

\* resumeToStatus of the session as it was loaded, or MONITORING
ToTarget(j) ==
  CasStep(j, "toTarget", HVR,
          IF jobs[j].target = NoTarget THEN "MONITORING" ELSE jobs[j].target,
          NoTarget, "enqueueResumed")

\* The availability check is added whether or not the case moved
EnqueueResumed(j) ==
  /\ At(j, "enqueueResumed")
  /\ Successor(j, "availQ")
  /\ UNCHANGED <<caseVars, others>>

\* getPaymentState: paid or in process, or the job ends
CheckPaid(j) ==
  /\ At(j, "paid")
  /\ Go(j, "toProcessing") \/ Done(j)
  /\ UNCHANGED <<caseVars, others>>

ToProcessing(j) ==
  CasStep(j, "toProcessing", "PAYMENT_REQUIRED", "PAYMENT_PROCESSING", NoTarget, "confirm")

GetConfirmation(j) ==
  /\ At(j, "confirm")
  /\ Go(j, "toConfirmed") \/ Done(j)
  /\ UNCHANGED <<caseVars, others>>

\* Mutant: the transition expects the status before the payment was processed.
ToConfirmedFromRequired(j) ==
  CasStep(j, "toConfirmed", "PAYMENT_REQUIRED", "CONFIRMED", NoTarget, "complete")

ToConfirmed(j) ==
  CasStep(j, "toConfirmed", "PAYMENT_PROCESSING", "CONFIRMED", NoTarget, "complete")

CompleteSession(j) ==
  /\ At(j, "complete")
  /\ sessions' = [sessions EXCEPT ![jobs[j].sess].st = "COMPLETED"]
  /\ Done(j)
  /\ UNCHANGED <<caseVars, mode, handoffs, worker, faults, begun, ended>>

-----------------------------------------------------------------------------
(* Failures                                                                *)

\* The database, Redis or the adapter throws at a step
Throw(j) ==
  /\ jobs[j].at \notin {"free"} \cup Queues
  /\ faults < MaxFaults
  /\ faults' = faults + 1
  /\ Retry(j)
  /\ UNCHANGED <<caseVars, mode, sessions, handoffs, worker, begun>>

\* The worker process dies and another one starts, with an id of its own;
\* BullMQ finds the stalled jobs and puts them back
CrashWorker ==
  /\ faults < MaxFaults
  /\ faults' = faults + 1
  /\ worker' = worker + 1
  /\ jobs' = [j \in Slots |->
                 IF At(j, "free") THEN NoJob
                 ELSE [NewJob(QueueOf(jobs[j].at)) EXCEPT !.tries = jobs[j].tries]]
  /\ UNCHANGED <<caseVars, mode, sessions, handoffs, begun, ended>>

-----------------------------------------------------------------------------
AvailStep(j) ==
  \/ AvailLoad(j) \/ BeginAuth(j) \/ FindSession(j) \/ CreateSession(j) \/ Authenticate(j)
  \/ AuthHuman(j) \/ FindCheckpoint(j) \/ RecordCheckpoint(j) \/ InspectHuman(j)
  \/ AuthFailed(j) \/ EnterMode(j) \/ CheckAvailability(j) \/ CheckHuman(j)
  \/ FindSlot(j) \/ EnqueueBooking(j) \/ EnqueueAvail(j)

BookingStep(j) ==
  \/ BookingLoad(j) \/ ToBooking(j) \/ BeginBooking(j) \/ BeginLost(j) \/ ToAdding(j)
  \/ AddApplicants(j) \/ AddHuman(j) \/ ToSelected(j) \/ SelectAppointment(j)
  \/ SelectLost(j) \/ GetPaymentState(j) \/ PayHuman(j) \/ ToPayment(j)
  \/ FindHandoff(j) \/ HandOffSession(j) \/ CreateHandoff(j)

ResumeStep(j) ==
  \/ ResumeLoad(j) \/ FindActive(j) \/ ResumeAdapter(j) \/ ToTarget(j) \/ EnqueueResumed(j)
  \/ CheckPaid(j) \/ ToProcessing(j) \/ GetConfirmation(j) \/ ToConfirmed(j)
  \/ CompleteSession(j)

JobStep(j) == AvailStep(j) \/ BookingStep(j) \/ ResumeStep(j)

Next ==
  \/ StartAutomation \/ ResumeAutomation \/ CrashWorker
  \/ \E j \in Slots : JobStep(j) \/ Throw(j)

\* The workers take the jobs that wait and awaits return; when a human starts
\* or resumes the case is left open, and what the provider answers.
Fairness == \A j \in Slots : WF_vars(JobStep(j))

Spec == Init /\ [][Next]_vars
FairSpec == Spec /\ Fairness

-----------------------------------------------------------------------------
(* Properties                                                              *)

AvailJob(j) == jobs[j].at \in {"availQ", "enqueueResumed"} \cup AvailSteps

\* A case that is authenticating or monitoring has an availability job, waiting
\* or at work, unless an answer of the provider or a fault ended it: jobs that
\* overlap (two starts, a resume, a stale check) never leave it unattended.
Attended(statuses) ==
  status \in statuses /\ ~ended /\ faults = 0 => \E j \in Slots : AvailJob(j)
MonitoringAttended == Attended({"AUTHENTICATING", "MONITORING"})

\* A found slot is acted upon: without a fault the booking job takes the case
\* out of SLOT_FOUND.
SlotActedUpon == (status = "SLOT_FOUND") ~> (status # "SLOT_FOUND" \/ faults > 0)

\* A case that waits for a human gets a session, without which resumeAutomation
\* refuses to go on.
HumanCanResume == (status = HVR) ~> (status # HVR \/ Resumable # {} \/ faults > 0)

\* For one found slot beginBooking is called at most once, with retries of the
\* job, duplicates of it and a worker that restarts.
BookingBegunOnce == begun <= 1

\* A payment is handed to a human only for a case that awaits it or is past it,
\* although the job does not look whether its transitions were made.
HandoffAwaitsPayment ==
  [][handoffs' > handoffs =>
       status \in {"PAYMENT_REQUIRED", "PAYMENT_PROCESSING", "CONFIRMED"}]_vars

\* A completed session belongs to a confirmed case.
CompletedIsConfirmed ==
  \A i \in DOMAIN sessions : sessions[i].st = "COMPLETED" => status = "CONFIRMED"

\* availability.worker.ts:85 "only process if status is READY, MONITORING,
\* WAITING_QUEUE": the same of a case that waits in the provider's queue.
WaitingQueueAttended == Attended({"WAITING_QUEUE"})

\* case-transition.service.ts:63 "Human verification resume validation": a case
\* goes on from a human checkpoint at the target its history names.
ResumesWhereRecorded ==
  [][status = HVR /\ status' # HVR => status' \in {recorded} \cup GivenUp]_vars
=============================================================================

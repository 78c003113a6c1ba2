-------------------------- MODULE WorkerPipelineProofs --------------------------
(***************************************************************************)
(* Proofs about WorkerPipeline, for any finite set of job slots, any       *)
(* number of attempts, faults and sessions: a booking is begun once, a     *)
(* payment is handed over only for a case that awaits it, a completed      *)
(* session belongs to a confirmed case, and a case that authenticates or   *)
(* monitors is attended.                                                   *)
(*                                                                         *)
(* The argument: at most one booking job is at work, so it alone takes the *)
(* case from SLOT_FOUND to the payment, and its step tells the status      *)
(* although no answer of a transition is read.  From PAYMENT_REQUIRED on   *)
(* the case only moves towards CONFIRMED, whichever resume jobs race.      *)
(***************************************************************************)
EXTENDS WorkerPipeline, FiniteSetTheorems, WellFoundedInduction, TLAPS

USE SlotsAssumption, NoTargetAssumption, ModesAssumption, BoundsAssumption

SessionsTyped == sessions \in Seq(Session)

\* The one booking job at work
OneBookingJob ==
  \A i, j \in Slots : jobs[i].at \in BookingSteps /\ jobs[j].at \in BookingSteps => i = j

\* What the step of a booking job tells of the case
Payable == {"PAYMENT_REQUIRED", "PAYMENT_PROCESSING", "CONFIRMED"}
BookingFits(j) ==
  /\ At(j, "toBooking") => status = "SLOT_FOUND"
  /\ jobs[j].at \in {"begin", "beginLost", "toAdding"} => status = "BOOKING"
  /\ jobs[j].at \in {"add", "addHuman", "toSelected"} => status = "ADDING_APPLICANTS"
  /\ jobs[j].at \in {"select", "selectLost", "payment", "payHuman", "toPayment"}
       => status = "APPOINTMENT_SELECTED"
  /\ jobs[j].at \in {"findHandoff", "handoffSession", "createHandoff"} => status \in Payable
BookingJobsFit == \A j \in Slots : BookingFits(j)

\* The slot that was found is not begun before the booking job begins it.
BegunFits ==
  /\ begun <= 1
  /\ status = "SLOT_FOUND" => begun = 0
  /\ \A j \in Slots : At(j, "begin") => begun = 0

\* What the step of a resume job tells of a case that is paid for
PaymentFits(j) ==
  /\ jobs[j].at \in {"findPayable", "paid", "toProcessing"} => status \in Payable
  /\ jobs[j].at \in {"confirm", "toConfirmed"} => status \in {"PAYMENT_PROCESSING", "CONFIRMED"}
  /\ At(j, "complete") => status = "CONFIRMED"
PaymentJobsFit == \A j \in Slots : PaymentFits(j)

\* The jobs that attend a case: at these steps a job moves the case, stays at
\* such a step or sets ended.  At another step of its own an availability job
\* may end and leave the case to a job that overlaps it.
AttendsAuth ==
  {"availQ", "findSession", "createSession", "authenticate", "authHuman", "inspectHuman",
   "authFailed", "toMode", "enqueueResumed", "enqueueAvail"}
AttendsMonitoring ==
  {"availQ", "check", "checkHuman", "toSlot", "enqueueResumed", "enqueueAvail"}
SomeAttend ==
  ~ended /\ faults = 0 =>
    /\ status = "AUTHENTICATING" => \E j \in Slots : jobs[j].at \in AttendsAuth
    /\ status = "MONITORING" => \E j \in Slots : jobs[j].at \in AttendsMonitoring

IInv ==
  /\ TypeOK
  /\ SessionsTyped
  /\ OneBookingJob
  /\ BookingJobsFit
  /\ BegunFits
  /\ PaymentJobsFit
  /\ CompletedIsConfirmed
  /\ SomeAttend
-----------------------------------------------------------------------------
\* A nonempty set of positions has a last one: the helper findActiveSessionByCaseId
\* stands on (orderBy createdAt desc).
LEMMA LastPosition ==
  ASSUME NEW n \in Nat, NEW S \in SUBSET (1..n), S # {}
  PROVE  \E i \in S : \A k \in S : k <= i
<1> DEFINE T == {m \in Nat : \E i \in S : m = n - i}
<1>1. PICK i0 \in S : TRUE
  OBVIOUS
<1>2. n - i0 \in T
  BY <1>1
<1>3. PICK x \in T : \A y \in T : ~ (<<y, x>> \in OpToRel(<, Nat))
  BY <1>2, NatLessThanWellFounded, WFMin
<1>4. \A y \in T : ~ (y < x)
  BY <1>3 DEF OpToRel
<1>5. PICK i \in S : x = n - i
  OBVIOUS
<1>6. ASSUME NEW k \in S PROVE k <= i
  <2>1. n - k \in T
    OBVIOUS
  <2>2. ~ (n - k < n - i)
    BY <1>4, <1>5, <2>1
  <2>3. QED
    BY <2>2
<1>7. QED
  BY <1>5, <1>6

\* findActiveSessionByCaseId answers with a session of the case in an active
\* status, or with none.
LEMMA ActiveIndexFits ==
  ASSUME SessionsTyped, Len(sessions) <= MaxSessions
  PROVE  /\ ActiveIndex \in 0..MaxSessions
         /\ ActiveIndex # 0 => /\ ActiveIndex \in DOMAIN sessions
                              /\ sessions[ActiveIndex] \in Session
                              /\ sessions[ActiveIndex].st \in ActiveSession
<1> DEFINE active == {i \in DOMAIN sessions : sessions[i].st \in ActiveSession}
<1>1. /\ Len(sessions) \in Nat /\ DOMAIN sessions = 1..Len(sessions)
      /\ \A i \in DOMAIN sessions : sessions[i] \in Session
  BY DEF SessionsTyped
<1>2. CASE active = {}
  BY <1>2 DEF ActiveIndex
<1>3. CASE active # {}
  <2>1. \E i \in active : \A k \in active : k <= i
    BY <1>1, <1>3, LastPosition
  <2>2. ActiveIndex \in active
    BY <1>3, <2>1 DEF ActiveIndex
  <2>3. QED
    BY <1>1, <2>2
<1>4. QED
  BY <1>2, <1>3
-----------------------------------------------------------------------------
\* The steps and statuses the actions name are steps and statuses.
LEMMA Names ==
  /\ "free" \in Step /\ Queues \subseteq Step /\ AvailSteps \subseteq Step
  /\ BookingSteps \subseteq Step /\ ResumeSteps \subseteq Step
  /\ Modes \subseteq Status /\ ResumeTargets \subseteq Status /\ ResumeTargets \subseteq Targets
  /\ NoTarget \in Targets /\ HVR \in Status
  /\ {"READY", "AUTHENTICATING", "MONITORING", "SLOT_FOUND", "BOOKING", "SLOT_LOST",
      "ADDING_APPLICANTS", "APPOINTMENT_SELECTED", "PAYMENT_REQUIRED", "PAYMENT_PROCESSING",
      "CONFIRMED", "FAILED"} \subseteq Status
  /\ {"AUTHENTICATING", "MONITORING", "ADDING_APPLICANTS", "PAYMENT_REQUIRED"} \subseteq Targets
BY DEF Step, Status, ResumeTargets, Targets, HVR

\* A job that moves to a step, ends, is followed by another or is tried again
\* is a job.
LEMMA JobMoves ==
  ASSUME jobs \in [Slots -> Job], NEW j \in Slots
  PROVE  /\ \A step \in Step : Go(j, step) => jobs' \in [Slots -> Job]
         /\ Done(j) => jobs' \in [Slots -> Job]
         /\ \A queue \in Queues : Successor(j, queue) => jobs' \in [Slots -> Job]
         /\ ended \in BOOLEAN /\ Retry(j) => jobs' \in [Slots -> Job] /\ ended' \in BOOLEAN
<1>1. \A q \in Step : NewJob(q) \in Job
  BY DEF NewJob, Job, Targets
<1>2. NoJob \in Job
  BY DEF NoJob, Job, Targets, Step
<1>3. QueueOf(jobs[j].at) \in Step
  <2>1. jobs[j].at \in Step
    BY DEF Job
  <2>2. QED
    BY <2>1 DEF QueueOf, Step, Queues
<1>4. \A step \in Step : [jobs[j] EXCEPT !.at = step] \in Job
  BY DEF Job
<1>5. ASSUME jobs[j].tries > 1
      PROVE  [NewJob(QueueOf(jobs[j].at)) EXCEPT !.tries = jobs[j].tries - 1] \in Job
  BY <1>1, <1>3, <1>5 DEF Job
<1>6. \A step \in Step : Go(j, step) => jobs' \in [Slots -> Job]
  BY <1>4 DEF Go
<1>7. Done(j) => jobs' \in [Slots -> Job]
  BY <1>2 DEF Done
<1>8. \A queue \in Queues : Successor(j, queue) => jobs' \in [Slots -> Job]
  BY <1>1, Names DEF Successor
<1>9. ended \in BOOLEAN /\ Retry(j) => jobs' \in [Slots -> Job] /\ ended' \in BOOLEAN
  BY <1>5, <1>7 DEF Retry
<1>10. QED
  BY <1>6, <1>7, <1>8, <1>9

\* Writing a status, or a status and a resume target, to a session of the case
\* leaves a sequence of as many sessions.
LEMMA SessionWrites ==
  ASSUME sessions \in Seq(Session), NEW i, NEW st \in ActiveSession \cup EndedSession,
         NEW target \in Targets
  PROVE  /\ [sessions EXCEPT ![i].st = st] \in Seq(Session)
         /\ Len([sessions EXCEPT ![i].st = st]) = Len(sessions)
         /\ [sessions EXCEPT ![i] = [@ EXCEPT !.st = st, !.resume = target]] \in Seq(Session)
         /\ Len([sessions EXCEPT ![i] = [@ EXCEPT !.st = st, !.resume = target]]) = Len(sessions)
<1>1. sessions \in [1..Len(sessions) -> Session] /\ Len(sessions) \in Nat
  OBVIOUS
<1>2. \A f \in [1..Len(sessions) -> Session] : f \in Seq(Session) /\ Len(f) = Len(sessions)
  BY <1>1
<1>3. [sessions EXCEPT ![i].st = st] \in [1..Len(sessions) -> Session]
  BY <1>1 DEF Session
<1>4. [sessions EXCEPT ![i] = [@ EXCEPT !.st = st, !.resume = target]]
        \in [1..Len(sessions) -> Session]
  BY <1>1 DEF Session
<1>5. QED
  BY <1>2, <1>3, <1>4

\* A transition of the case that is made or not leaves a case with its types.
LEMMA CasMoves ==
  ASSUME TypeOK, SessionsTyped, NEW j \in Slots, NEW step, NEW from, NEW to \in Status,
         NEW target \in Targets, NEW next \in Step, CasStep(j, step, from, to, target, next)
  PROVE  TypeOK' /\ SessionsTyped'
<1>1. jobs' \in [Slots -> Job]
  BY JobMoves DEF CasStep, TypeOK
<1>2. status' \in Status /\ recorded' \in Targets
  BY DEF CasStep, Cas, caseVars, TypeOK
<1>3. QED
  BY <1>1, <1>2 DEF CasStep, others, TypeOK, SessionsTyped

\* Every step keeps the types of the variables.
LEMMA TypeStep == TypeOK /\ SessionsTyped /\ [Next]_vars => TypeOK' /\ SessionsTyped'
<1> SUFFICES ASSUME TypeOK, SessionsTyped, [Next]_vars PROVE TypeOK' /\ SessionsTyped'
  OBVIOUS
<1> USE Names
<1>1. ASSUME jobs' \in [Slots -> Job], UNCHANGED <<caseVars, others>>
      PROVE  TypeOK' /\ SessionsTyped'
  BY <1>1 DEF TypeOK, SessionsTyped, caseVars, others
<1>2. ASSUME jobs' \in [Slots -> Job], ended' \in BOOLEAN, faults' \in 0..MaxFaults,
             begun' \in 0..2, handoffs' \in 0..2, worker' \in Nat,
             UNCHANGED <<caseVars, mode, sessions>>
      PROVE  TypeOK' /\ SessionsTyped'
  BY <1>2 DEF TypeOK, SessionsTyped, caseVars
<1>3. ASSUME jobs' \in [Slots -> Job], sessions' \in Seq(Session), Len(sessions') <= MaxSessions,
             UNCHANGED <<caseVars, mode, handoffs, worker, faults, begun, ended>>
      PROVE  TypeOK' /\ SessionsTyped'
  <2>1. \A i \in DOMAIN sessions' : sessions'[i] \in Session
    BY <1>3
  <2>2. QED
    BY <1>3, <2>1 DEF TypeOK, SessionsTyped, caseVars
<1>4. ASSUME NEW queue \in Queues, Enqueue(queue) PROVE jobs' \in [Slots -> Job]
  BY <1>4, JobMoves DEF Enqueue, TypeOK
<1>5. CASE StartAutomation
  BY <1>1, <1>4, <1>5 DEF StartAutomation, Queues
<1>6. CASE ResumeAutomation
  BY <1>1, <1>4, <1>6 DEF ResumeAutomation, Queues
<1>7. CASE CrashWorker
  <2>1. ASSUME NEW j \in Slots
        PROVE  [NewJob(QueueOf(jobs[j].at)) EXCEPT !.tries = jobs[j].tries] \in Job
    <3>1. jobs[j] \in Job
      BY DEF TypeOK
    <3>2. QueueOf(jobs[j].at) \in Step
      BY <3>1 DEF QueueOf, Job, Step, Queues
    <3>3. QED
      BY <3>1, <3>2 DEF NewJob, Job
  <2>2. NoJob \in Job
    BY DEF NoJob, Job
  <2>3. jobs' \in [Slots -> Job]
    BY <1>7, <2>1, <2>2 DEF CrashWorker
  <2>4. worker' \in Nat /\ faults' \in 0..MaxFaults
    BY <1>7 DEF CrashWorker, TypeOK
  <2>5. QED
    BY <1>2, <1>7, <2>3, <2>4 DEF CrashWorker, TypeOK
<1>8. ASSUME NEW j \in Slots, AvailStep(j) PROVE TypeOK' /\ SessionsTyped'
  <2> USE JobMoves
  <2>1. CASE \/ AvailLoad(j) \/ FindSession(j) \/ EnqueueBooking(j) \/ EnqueueAvail(j)
    BY <1>1, <2>1 DEF AvailLoad, FindSession, EnqueueBooking, EnqueueAvail, Queues, TypeOK,
                      AvailSteps
  <2>2. CASE FindCheckpoint(j)
    <3>1. [jobs[j] EXCEPT !.at = "record", !.sess = ActiveIndex] \in Job
      BY ActiveIndexFits DEF TypeOK, Job, AvailSteps
    <3>2. jobs' \in [Slots -> Job]
      BY <2>2, <3>1 DEF FindCheckpoint, TypeOK
    <3>3. QED
      BY <1>1, <2>2, <3>2 DEF FindCheckpoint
  <2>3. CASE Authenticate(j) \/ CheckAvailability(j)
    <3>1. jobs' \in [Slots -> Job] /\ ended' \in BOOLEAN
      BY <2>3 DEF Authenticate, CheckAvailability, TypeOK, AvailSteps
    <3>2. QED
      BY <1>2, <2>3, <3>1 DEF Authenticate, CheckAvailability, TypeOK
  <2>4. CASE CreateSession(j)
    <3>1. [st |-> "ACTIVE", resume |-> NoTarget, owner |-> worker] \in Session
      BY DEF Session, ActiveSession, TypeOK
    <3>2. sessions' \in Seq(Session) /\ Len(sessions') <= MaxSessions
      BY <2>4, <3>1 DEF CreateSession, SessionsTyped
    <3>3. jobs' \in [Slots -> Job]
      BY <2>4 DEF CreateSession, TypeOK, AvailSteps
    <3>4. QED
      BY <1>3, <2>4, <3>2, <3>3 DEF CreateSession
  <2>5. CASE RecordCheckpoint(j)
    <3>1. sessions' \in Seq(Session) /\ Len(sessions') <= MaxSessions
      BY <2>5, SessionWrites DEF RecordCheckpoint, SessionsTyped, TypeOK, ActiveSession
    <3>2. jobs' \in [Slots -> Job]
      BY <2>5 DEF RecordCheckpoint, TypeOK
    <3>3. QED
      BY <1>3, <2>5, <3>1, <3>2 DEF RecordCheckpoint
  <2>6. CASE FindSlot(j)
    <3>1. status' \in Status /\ recorded' \in Targets /\ begun' \in 0..2
      BY <2>6 DEF FindSlot, Cas, caseVars, TypeOK
    <3>2. jobs' \in [Slots -> Job]
      BY <2>6 DEF FindSlot, TypeOK, AvailSteps
    <3>3. QED
      BY <2>6, <3>1, <3>2 DEF FindSlot, TypeOK, SessionsTyped
  <2>7. CASE \/ BeginAuth(j) \/ AuthHuman(j) \/ InspectHuman(j) \/ AuthFailed(j)
             \/ EnterMode(j) \/ CheckHuman(j)
    <3>1. mode \in Status /\ {"findSession", "checkpoint", "check", "free"} \subseteq Step
      BY DEF TypeOK, AvailSteps
    <3>2. QED
      BY <2>7, <3>1, CasMoves
      DEF BeginAuth, AuthHuman, InspectHuman, AuthFailed, EnterMode, CheckHuman
  <2>8. QED
    BY <1>8, <2>1, <2>2, <2>3, <2>4, <2>5, <2>6, <2>7 DEF AvailStep
<1>9. ASSUME NEW j \in Slots, BookingStep(j) PROVE TypeOK' /\ SessionsTyped'
  <2> USE JobMoves
  <2>1. CASE BookingLoad(j) \/ SelectAppointment(j) \/ GetPaymentState(j)
    BY <1>1, <2>1 DEF BookingLoad, SelectAppointment, GetPaymentState, TypeOK, BookingSteps
  <2>2. CASE FindHandoff(j)
    <3>1. [jobs[j] EXCEPT !.at = "handoffSession", !.sess = ActiveIndex] \in Job
      BY ActiveIndexFits DEF TypeOK, Job, BookingSteps
    <3>2. jobs' \in [Slots -> Job]
      BY <2>2, <3>1 DEF FindHandoff, TypeOK
    <3>3. QED
      BY <1>1, <2>2, <3>2 DEF FindHandoff
  <2>3. CASE BeginBooking(j) \/ AddApplicants(j) \/ CreateHandoff(j)
    <3>1. jobs' \in [Slots -> Job]
      BY <2>3 DEF BeginBooking, AddApplicants, CreateHandoff, TypeOK, BookingSteps
    <3>2. begun' \in 0..2 /\ handoffs' \in 0..2
      BY <2>3 DEF BeginBooking, AddApplicants, CreateHandoff, TypeOK
    <3>3. QED
      BY <1>2, <2>3, <3>1, <3>2 DEF BeginBooking, AddApplicants, CreateHandoff, TypeOK
  <2>4. CASE HandOffSession(j)
    <3>1. sessions' \in Seq(Session) /\ Len(sessions') <= MaxSessions
      BY <2>4, SessionWrites DEF HandOffSession, SessionsTyped, TypeOK, ActiveSession
    <3>2. jobs' \in [Slots -> Job]
      BY <2>4 DEF HandOffSession, TypeOK, BookingSteps
    <3>3. QED
      BY <1>3, <2>4, <3>1, <3>2 DEF HandOffSession
  <2>5. CASE \/ ToBooking(j) \/ BeginLost(j) \/ ToAdding(j) \/ AddHuman(j) \/ ToSelected(j)
             \/ SelectLost(j) \/ PayHuman(j) \/ ToPayment(j)
    <3>1. {"begin", "add", "select", "findHandoff", "free"} \subseteq Step
      BY DEF BookingSteps
    <3>2. QED
      BY <2>5, <3>1, CasMoves
      DEF ToBooking, BeginLost, ToAdding, AddHuman, ToSelected, SelectLost, PayHuman, ToPayment
  <2>6. QED
    BY <1>9, <2>1, <2>2, <2>3, <2>4, <2>5 DEF BookingStep
<1>10. ASSUME NEW j \in Slots, ResumeStep(j) PROVE TypeOK' /\ SessionsTyped'
  <2> USE JobMoves
  <2>1. CASE \/ ResumeLoad(j) \/ ResumeAdapter(j) \/ EnqueueResumed(j) \/ CheckPaid(j)
             \/ GetConfirmation(j)
    BY <1>1, <2>1 DEF ResumeLoad, ResumeAdapter, EnqueueResumed, CheckPaid, GetConfirmation,
                      Queues, TypeOK, ResumeSteps
  <2>2. CASE FindActive(j)
    <3>1. ASSUME NEW at \in {"resume", "paid"}, ActiveIndex # 0
          PROVE  [jobs[j] EXCEPT !.at = at, !.sess = ActiveIndex,
                                 !.target = sessions[ActiveIndex].resume] \in Job
      <4>1. sessions[ActiveIndex] \in Session /\ ActiveIndex \in 0..MaxSessions
        BY <3>1, ActiveIndexFits DEF TypeOK
      <4>2. sessions[ActiveIndex].resume \in Targets
        BY <4>1 DEF Session
      <4>3. at \in Step /\ jobs[j] \in Job
        BY DEF Step, ResumeSteps, TypeOK
      <4>4. QED
        BY ONLY <4>1, <4>2, <4>3 DEF Job
    <3>2. jobs' \in [Slots -> Job]
      BY <2>2, <3>1 DEF FindActive, TypeOK
    <3>3. QED
      BY <1>1, <2>2, <3>2 DEF FindActive
  <2>3. CASE CompleteSession(j)
    <3>1. sessions' \in Seq(Session) /\ Len(sessions') <= MaxSessions
      BY <2>3, SessionWrites DEF CompleteSession, SessionsTyped, TypeOK, EndedSession
    <3>2. jobs' \in [Slots -> Job]
      BY <2>3 DEF CompleteSession, TypeOK
    <3>3. QED
      BY <1>3, <2>3, <3>1, <3>2 DEF CompleteSession
  <2>4. CASE ToTarget(j) \/ ToProcessing(j) \/ ToConfirmed(j)
    <3>1. {"enqueueResumed", "confirm", "complete"} \subseteq Step
      BY DEF ResumeSteps
    <3>2. (IF jobs[j].target = NoTarget THEN "MONITORING" ELSE jobs[j].target) \in Status
      BY DEF TypeOK, Job, Targets
    <3>3. QED
      BY <2>4, <3>1, <3>2, CasMoves DEF ToTarget, ToProcessing, ToConfirmed
  <2>5. QED
    BY <1>10, <2>1, <2>2, <2>3, <2>4 DEF ResumeStep
<1>11. ASSUME NEW j \in Slots, Throw(j) PROVE TypeOK' /\ SessionsTyped'
  <2>1. jobs' \in [Slots -> Job] /\ ended' \in BOOLEAN /\ faults' \in 0..MaxFaults
    BY <1>11, JobMoves DEF Throw, TypeOK
  <2>2. QED
    BY <1>2, <1>11, <2>1 DEF Throw, TypeOK
<1>12. CASE UNCHANGED vars
  BY <1>12 DEF vars, caseVars, TypeOK, SessionsTyped
<1>13. QED
  BY <1>5, <1>6, <1>7, <1>8, <1>9, <1>10, <1>11, <1>12 DEF Next, JobStep

\* A case that was made ready has the types.
LEMMA InitTypes == Init => TypeOK /\ SessionsTyped
<1> SUFFICES ASSUME Init PROVE TypeOK /\ SessionsTyped
  OBVIOUS
<1>1. NoJob \in Job
  BY Names DEF NoJob, Job
<1>2. jobs \in [Slots -> Job]
  BY <1>1 DEF Init
<1>3. sessions \in Seq(Session) /\ Len(sessions) = 0 /\ DOMAIN sessions = {}
  BY DEF Init
<1>4. Len(sessions) <= MaxSessions /\ \A i \in DOMAIN sessions : sessions[i] \in Session
  BY <1>3
<1>5. status \in Status /\ recorded \in Targets /\ mode \in Modes /\ worker \in Nat
  BY Names DEF Init
<1>6. handoffs \in 0..2 /\ faults \in 0..MaxFaults /\ begun \in 0..2
  BY DEF Init
<1>7. ended \in BOOLEAN
  BY DEF Init
<1>8. QED
  BY <1>2, <1>3, <1>4, <1>5, <1>6, <1>7 DEF TypeOK, SessionsTyped

\* Every variable of the live automation keeps its type; the sessions of the
\* case are a sequence that no job outgrows.
THEOREM PipelineTypeInvariant == Spec => []TypeOK
<1>1. Init => TypeOK /\ SessionsTyped
  BY InitTypes
<1>2. TypeOK /\ SessionsTyped /\ [Next]_vars => TypeOK' /\ SessionsTyped'
  BY TypeStep
<1>3. QED
  BY <1>1, <1>2, PTL DEF Spec

-----------------------------------------------------------------------------
\* The step of one job leaves the others where they are.
LEMMA OtherJobs ==
  ASSUME TypeOK, NEW j \in Slots, JobStep(j) \/ Throw(j), NEW k \in Slots, k # j
  PROVE  jobs'[k] = jobs[k]
<1> USE DEF TypeOK, Go, Done, Successor, Retry
<1>1. CASE AvailStep(j)
  BY <1>1 DEF AvailStep, AvailLoad, BeginAuth, FindSession, CreateSession, Authenticate,
              AuthHuman, FindCheckpoint, RecordCheckpoint, InspectHuman, AuthFailed, EnterMode,
              CheckAvailability, CheckHuman, FindSlot, EnqueueBooking, EnqueueAvail, CasStep
<1>2. CASE BookingStep(j)
  BY <1>2 DEF BookingStep, BookingLoad, ToBooking, BeginBooking, BeginLost, ToAdding,
              AddApplicants, AddHuman, ToSelected, SelectAppointment, SelectLost,
              GetPaymentState, PayHuman, ToPayment, FindHandoff, HandOffSession,
              CreateHandoff, CasStep
<1>3. CASE ResumeStep(j)
  BY <1>3 DEF ResumeStep, ResumeLoad, FindActive, ResumeAdapter, ToTarget, EnqueueResumed,
              CheckPaid, ToProcessing, GetConfirmation, ToConfirmed, CompleteSession, CasStep
<1>4. CASE Throw(j)
  BY <1>4 DEF Throw
<1>5. QED
  BY <1>1, <1>2, <1>3, <1>4 DEF JobStep

\* Where the step of a job leaves it
LEMMA JobGoes ==
  ASSUME TypeOK, NEW j \in Slots
  PROVE  /\ \A step : Go(j, step) => jobs'[j].at = step
         /\ Done(j) => jobs'[j].at = "free"
         /\ \A queue : Successor(j, queue) => jobs'[j].at = queue
         /\ jobs[j].at \notin {"free"} \cup Queues /\ Retry(j)
              => jobs'[j].at \in {"free"} \cup Queues
<1>1. jobs \in [Slots -> Job] /\ jobs[j].at \in Step
  BY DEF TypeOK, Job
<1>2. jobs[j].at \notin {"free"} \cup Queues => QueueOf(jobs[j].at) \in Queues
  BY <1>1 DEF QueueOf, Step, Queues
<1>3. /\ \A step : Go(j, step) => jobs'[j].at = step
      /\ Done(j) => jobs'[j].at = "free"
      /\ \A queue : Successor(j, queue) => jobs'[j].at = queue
  BY <1>1 DEF Go, Done, Successor, NoJob, NewJob, Job
<1>4. jobs[j].at \notin {"free"} \cup Queues /\ Retry(j) => jobs'[j].at \in {"free"} \cup Queues
  BY <1>1, <1>2, <1>3 DEF Retry, NewJob
<1>5. QED
  BY <1>3, <1>4

\* What the first step of a job decides on the status it loads
LEMMA Loads ==
  ASSUME NEW j \in Slots
  PROVE  /\ AvailLoad(j) =>
              \/ status = "READY" /\ Go(j, "toAuth")
              \/ status = "AUTHENTICATING" /\ Go(j, "authenticate")
              \/ status \in {"MONITORING", "WAITING_QUEUE"} /\ Go(j, "check")
              \/ status \notin {"AUTHENTICATING", "MONITORING"} /\ Done(j)
         /\ ResumeLoad(j) =>
              \/ status = HVR /\ Go(j, "findActive")
              \/ status = "PAYMENT_REQUIRED" /\ Go(j, "findPayable")
              \/ Done(j)
<1>1. AvailLoad(j) =>
              \/ status = "READY" /\ Go(j, "toAuth")
              \/ status = "AUTHENTICATING" /\ Go(j, "authenticate")
              \/ status \in {"MONITORING", "WAITING_QUEUE"} /\ Go(j, "check")
              \/ status \notin {"AUTHENTICATING", "MONITORING"} /\ Done(j)
  BY DEF AvailLoad, Go, Done
<1>2. ResumeLoad(j) =>
              \/ status = HVR /\ Go(j, "findActive")
              \/ status = "PAYMENT_REQUIRED" /\ Go(j, "findPayable")
              \/ Done(j)
  BY DEF ResumeLoad, Go, Done, HVR
<1>3. QED
  BY <1>1, <1>2

\* No job but a booking job moves a case on its way from SLOT_FOUND to the
\* payment, or becomes a booking job at work; and none takes a case back from
\* the payment.
Booked == {"SLOT_FOUND", "BOOKING", "ADDING_APPLICANTS", "APPOINTMENT_SELECTED"}
\* The jobs of the other two queues and a thrown attempt do neither.
LEMMA NotBooking ==
  ASSUME TypeOK, NEW j \in Slots, AvailStep(j) \/ ResumeStep(j) \/ Throw(j)
  PROVE  /\ jobs'[j].at \notin BookingSteps
         /\ status \in Booked => UNCHANGED status
         /\ status \in Payable => status' \in Payable
         /\ UNCHANGED begun \/ begun' = 0
         /\ status' = "SLOT_FOUND" => status = "SLOT_FOUND" \/ begun' = 0
<1> DEFINE Stays == UNCHANGED <<status, begun>>
<1> USE JobGoes DEF BookingSteps, Booked, Payable
<1>1. CASE AvailStep(j)
  <2>1. CASE AvailLoad(j)
    <3>1. Stays
      BY <2>1 DEF AvailLoad, caseVars, others
    <3>2. QED
      BY <2>1, <3>1, Loads
  <2>2. CASE \/ FindSession(j) \/ CreateSession(j) \/ FindCheckpoint(j) \/ RecordCheckpoint(j)
             \/ EnqueueBooking(j) \/ EnqueueAvail(j)
    <3>1. Stays
      BY <2>2 DEF FindSession, CreateSession, FindCheckpoint, RecordCheckpoint, EnqueueBooking,
                  EnqueueAvail, caseVars, others
    <3>2. jobs'[j].at \in {"free", "availQ", "bookingQ", "createSession", "authenticate", "record"}
      BY <2>2 DEF FindSession, CreateSession, FindCheckpoint, RecordCheckpoint, EnqueueBooking,
                  EnqueueAvail, TypeOK, Job
    <3>3. QED
      BY <3>1, <3>2
  <2>3. CASE Authenticate(j) \/ CheckAvailability(j)
    <3>1. Stays
      BY <2>3 DEF Authenticate, CheckAvailability, caseVars
    <3>2. jobs'[j].at \in {"free", "authHuman", "inspectHuman", "authFailed", "toMode",
                          "checkHuman", "toSlot", "enqueueAvail"} \cup Queues
      BY <2>3 DEF Authenticate, CheckAvailability, At, Queues
    <3>3. QED
      BY <3>1, <3>2 DEF Queues
  <2>4. CASE \/ BeginAuth(j) \/ AuthHuman(j) \/ InspectHuman(j) \/ AuthFailed(j)
             \/ EnterMode(j) \/ CheckHuman(j)
    <3>1. jobs'[j].at \in {"free", "findSession", "checkpoint", "check"}
      BY <2>4 DEF BeginAuth, AuthHuman, InspectHuman, AuthFailed, EnterMode, CheckHuman, CasStep
    <3>2. mode \in {"MONITORING", "WAITING_QUEUE"}
      BY DEF TypeOK
    <3>3. /\ UNCHANGED begun
          /\ \/ UNCHANGED status
             \/ /\ status \in {"READY", "AUTHENTICATING", "MONITORING"}
                /\ status' # "SLOT_FOUND"
      BY <2>4, <3>2 DEF BeginAuth, AuthHuman, InspectHuman, AuthFailed, EnterMode, CheckHuman,
                        CasStep, Cas, caseVars, others, HVR
    <3>4. QED
      BY <3>1, <3>3
  <2>5. CASE FindSlot(j)
    BY <2>5 DEF FindSlot, Cas, caseVars
  <2>6. QED
    BY <1>1, <2>1, <2>2, <2>3, <2>4, <2>5 DEF AvailStep
<1>2. CASE ResumeStep(j)
  <2>1. CASE ResumeLoad(j)
    <3>1. Stays
      BY <2>1 DEF ResumeLoad, caseVars, others
    <3>2. QED
      BY <2>1, <3>1, Loads
  <2>2. CASE \/ FindActive(j) \/ ResumeAdapter(j) \/ EnqueueResumed(j) \/ CheckPaid(j)
             \/ GetConfirmation(j) \/ CompleteSession(j)
    <3>1. Stays
      BY <2>2 DEF FindActive, ResumeAdapter, EnqueueResumed, CheckPaid, GetConfirmation,
                  CompleteSession, caseVars, others
    <3>2. jobs'[j].at \in {"free", "availQ", "resume", "paid", "toTarget", "toProcessing",
                          "toConfirmed"}
      BY <2>2 DEF FindActive, ResumeAdapter, EnqueueResumed, CheckPaid, GetConfirmation,
                  CompleteSession, TypeOK, Job
    <3>3. QED
      BY <3>1, <3>2
  <2>3. CASE ToTarget(j) \/ ToProcessing(j) \/ ToConfirmed(j)
    <3>1. jobs'[j].at \in {"enqueueResumed", "confirm", "complete"}
      BY <2>3 DEF ToTarget, ToProcessing, ToConfirmed, CasStep
    <3>2. jobs[j].target = NoTarget \/ jobs[j].target \in ResumeTargets
      BY DEF TypeOK, Job, Targets
    <3>3. /\ UNCHANGED begun
          /\ \/ UNCHANGED status
             \/ status = HVR /\ status' # "SLOT_FOUND"
             \/ status \in Payable /\ status' \in Payable
      BY <2>3, <3>2 DEF ToTarget, ToProcessing, ToConfirmed, CasStep, Cas, caseVars, others,
                        ResumeTargets
    <3>4. QED
      BY <3>1, <3>3 DEF HVR
  <2>4. QED
    BY <1>2, <2>1, <2>2, <2>3 DEF ResumeStep
<1>3. CASE Throw(j)
  <2>1. jobs'[j].at \in {"free"} \cup Queues
    BY <1>3 DEF Throw
  <2>2. Stays
    BY <1>3 DEF Throw, caseVars
  <2>3. QED
    BY <2>1, <2>2 DEF Queues
<1>4. QED
  BY <1>1, <1>2, <1>3

\* A booking job that is taken up is the only one at work.
LEMMA BookingTaken ==
  ASSUME NEW j \in Slots, BookingLoad(j)
  PROVE  \A k \in Slots : jobs[k].at \notin BookingSteps
<1> DEFINE working == {k \in Slots : jobs[k].at \in BookingSteps}
<1>1. Cardinality(working) < 1
  BY DEF BookingLoad, Takes
<1>2. IsFiniteSet(working)
  BY FS_Subset
<1>3. Cardinality(working) \in Nat
  BY <1>2, FS_CardinalityType
<1>4. working = {}
  BY <1>1, <1>2, <1>3, FS_EmptySet
<1>5. QED
  BY <1>4

\* At most one booking job is at work, and its step tells the status of the
\* case and whether the slot is begun: kept by every step.
BookingInv == OneBookingJob /\ BookingJobsFit /\ BegunFits

\* A step of the booking job itself: the status its next step tells is the one
\* it found or the one its transition made.
LEMMA BookingMoves ==
  ASSUME TypeOK, BookingInv, NEW j \in Slots, BookingStep(j)
  PROVE  /\ jobs'[j].at \in BookingSteps => \A k \in Slots \ {j} : jobs[k].at \notin BookingSteps
         /\ BookingFits(j)'
         /\ begun' <= 1
         /\ status' = "SLOT_FOUND" => status = "SLOT_FOUND" /\ UNCHANGED begun
         /\ jobs'[j].at = "begin" => begun' = 0
         /\ status \in Payable => status' \in Payable
         /\ jobs[j].at \notin BookingSteps => UNCHANGED <<status, begun>>
<1> DEFINE Alone == \A k \in Slots \ {j} : jobs[k].at \notin BookingSteps
<1> USE JobGoes DEF BookingInv, OneBookingJob, BookingJobsFit, BookingFits, BegunFits, At
<1>1. CASE BookingLoad(j)
  <2>1. Alone /\ jobs[j].at \notin BookingSteps
    BY <1>1, BookingTaken
  <2>2. UNCHANGED <<status, begun>>
    BY <1>1 DEF BookingLoad, caseVars, others
  <2>3. jobs'[j].at # "free" => jobs'[j].at = "toBooking" /\ status = "SLOT_FOUND"
    BY <1>1 DEF BookingLoad
  <2>4. QED
    BY <2>1, <2>2, <2>3
<1>2. CASE ~BookingLoad(j)
  <2>1. jobs[j].at \in BookingSteps
    BY <1>2 DEF BookingStep, ToBooking, BeginBooking, BeginLost, ToAdding,
                AddApplicants, AddHuman, ToSelected, SelectAppointment, SelectLost,
                GetPaymentState, PayHuman, ToPayment, FindHandoff, HandOffSession,
                CreateHandoff, CasStep, BookingSteps
  <2>2. Alone
    BY <2>1
  <2>3. CASE \/ ToBooking(j) \/ BeginLost(j) \/ ToAdding(j) \/ AddHuman(j) \/ ToSelected(j)
             \/ SelectLost(j) \/ PayHuman(j) \/ ToPayment(j)
    BY <2>1, <2>2, <2>3
    DEF ToBooking, BeginLost, ToAdding, AddHuman, ToSelected, SelectLost, PayHuman, ToPayment,
        CasStep, Cas, others, Payable, HVR
  <2>4. CASE BeginBooking(j) \/ AddApplicants(j)
    BY <2>1, <2>2, <2>4 DEF BeginBooking, AddApplicants, caseVars
  <2>5. CASE SelectAppointment(j) \/ GetPaymentState(j)
    BY <2>1, <2>2, <2>5 DEF SelectAppointment, GetPaymentState, caseVars, others
  <2>6. CASE FindHandoff(j)
    <3>1. jobs'[j].at \in {"free", "handoffSession"}
      BY <2>6 DEF FindHandoff, TypeOK, Job
    <3>2. QED
      BY <2>1, <2>2, <2>6, <3>1 DEF FindHandoff, caseVars, others
  <2>7. CASE HandOffSession(j) \/ CreateHandoff(j)
    BY <2>1, <2>2, <2>7 DEF HandOffSession, CreateHandoff, caseVars
  <2>8. QED
    BY <1>2, <2>3, <2>4, <2>5, <2>6, <2>7 DEF BookingStep
<1>3. QED
  BY <1>1, <1>2

\* A request of the API that is accepted puts one job in a free slot.
LEMMA ApiMoves ==
  ASSUME TypeOK, StartAutomation \/ ResumeAutomation
  PROVE  /\ UNCHANGED <<caseVars, others>>
         /\ \E j \in Slots : /\ jobs[j].at = "free"
                             /\ jobs'[j].at \in {"availQ", "resumeQ"}
                             /\ \A k \in Slots \ {j} : jobs'[k] = jobs[k]
<1>1. ASSUME NEW queue \in {"availQ", "resumeQ"}, Enqueue(queue)
      PROVE  \E j \in Slots : /\ jobs[j].at = "free"
                              /\ jobs'[j].at \in {"availQ", "resumeQ"}
                              /\ \A k \in Slots \ {j} : jobs'[k] = jobs[k]
  <2>1. PICK j \in Slots : At(j, "free") /\ Successor(j, queue)
    BY <1>1 DEF Enqueue
  <2>2. jobs'[j].at = queue /\ \A k \in Slots \ {j} : jobs'[k] = jobs[k]
    BY <2>1, JobGoes DEF Successor, TypeOK
  <2>3. QED
    BY <2>1, <2>2 DEF At
<1>2. QED
  BY <1>1 DEF StartAutomation, ResumeAutomation

\* After a crash every job waits in its queue again.
LEMMA CrashMoves ==
  ASSUME TypeOK, CrashWorker
  PROVE  /\ UNCHANGED <<caseVars, sessions, begun, ended>> /\ faults' # 0
         /\ \A k \in Slots : jobs'[k].at \in {"free"} \cup Queues
<1>1. \A k \in Slots : jobs[k].at \in Step
  BY DEF TypeOK, Job
<1>2. \A k \in Slots : jobs[k].at # "free" => QueueOf(jobs[k].at) \in Queues
  BY <1>1 DEF QueueOf, Step, Queues
<1>3. \A k \in Slots : jobs'[k].at \in {"free"} \cup Queues
  BY <1>2 DEF CrashWorker, NewJob, NoJob, At
<1>4. QED
  BY <1>3 DEF CrashWorker, TypeOK

\* The booking part of the invariant is kept by every step.
LEMMA BookingStepInv == TypeOK /\ BookingInv /\ [Next]_vars => BookingInv'
<1> SUFFICES ASSUME TypeOK, BookingInv, [Next]_vars PROVE BookingInv'
  OBVIOUS
<1> USE DEF BookingInv, OneBookingJob, BookingJobsFit, BookingFits, BegunFits, At
<1>1. CASE StartAutomation \/ ResumeAutomation
  BY <1>1, ApiMoves DEF caseVars, others, BookingSteps
<1>2. CASE CrashWorker
  BY <1>2, CrashMoves DEF caseVars, BookingSteps, Queues
<1>3. ASSUME NEW j \in Slots, AvailStep(j) \/ ResumeStep(j) \/ Throw(j) PROVE BookingInv'
  <2>1. \A k \in Slots \ {j} : jobs'[k] = jobs[k]
    BY <1>3, OtherJobs DEF JobStep
  <2>2. /\ jobs'[j].at \notin BookingSteps
        /\ status \in Booked => UNCHANGED status
        /\ status \in Payable => status' \in Payable
        /\ UNCHANGED begun \/ begun' = 0
        /\ status' = "SLOT_FOUND" => status = "SLOT_FOUND" \/ begun' = 0
    BY <1>3, NotBooking
  <2>3. OneBookingJob'
    BY <2>1, <2>2
  <2>4. BookingJobsFit'
    BY <2>1, <2>2 DEF BookingSteps, Booked
  <2>5. BegunFits'
    BY <2>1, <2>2 DEF BookingSteps
  <2>6. QED
    BY <2>3, <2>4, <2>5
<1>4. ASSUME NEW j \in Slots, BookingStep(j) PROVE BookingInv'
  <2>1. \A k \in Slots \ {j} : jobs'[k] = jobs[k]
    BY <1>4, OtherJobs DEF JobStep
  <2>2. /\ jobs'[j].at \in BookingSteps => \A k \in Slots \ {j} : jobs[k].at \notin BookingSteps
        /\ BookingFits(j)'
        /\ begun' <= 1
        /\ status' = "SLOT_FOUND" => status = "SLOT_FOUND" /\ UNCHANGED begun
        /\ jobs'[j].at = "begin" => begun' = 0
        /\ status \in Payable => status' \in Payable
        /\ jobs[j].at \notin BookingSteps => UNCHANGED <<status, begun>>
    BY <1>4, BookingMoves
  <2>3. OneBookingJob'
    BY <2>1, <2>2
  <2>4. ASSUME NEW k \in Slots \ {j} PROVE BookingFits(k)'
    <3>1. CASE jobs[j].at \in BookingSteps
      BY <2>1, <2>2, <3>1 DEF BookingSteps
    <3>2. CASE jobs[j].at \notin BookingSteps
      BY <2>1, <2>2, <3>2
    <3>3. QED
      BY <3>1, <3>2
  <2>5. BookingJobsFit'
    BY <2>2, <2>4
  <2>6. \A k \in Slots : jobs'[k].at = "begin" => begun' = 0
    <3>1. CASE jobs[j].at \in BookingSteps
      BY <2>1, <2>2, <3>1 DEF BookingSteps
    <3>2. CASE jobs[j].at \notin BookingSteps
      BY <2>1, <2>2, <3>2
    <3>3. QED
      BY <3>1, <3>2
  <2>7. QED
    BY <2>2, <2>3, <2>5, <2>6
<1>5. CASE UNCHANGED vars
  BY <1>5 DEF vars
<1>6. QED
  BY <1>1, <1>2, <1>3, <1>4, <1>5 DEF Next, JobStep

-----------------------------------------------------------------------------
\* Once the case awaits payment it only goes on towards CONFIRMED, whichever
\* job steps: no transition of a worker starts from these statuses but the two
\* of the resume jobs.
Forward ==
  status \in Payable =>
    \/ UNCHANGED status
    \/ status = "PAYMENT_REQUIRED" /\ status' = "PAYMENT_PROCESSING"
    \/ status = "PAYMENT_PROCESSING" /\ status' = "CONFIRMED"

\* So does every step of a job.
LEMMA PaymentForward ==
  ASSUME TypeOK, NEW j \in Slots, JobStep(j) \/ Throw(j)
  PROVE  Forward
<1> USE DEF Forward, Payable, caseVars, others
<1>1. CASE AvailStep(j)
  BY <1>1
  DEF AvailStep, AvailLoad, BeginAuth, FindSession, CreateSession, Authenticate, AuthHuman,
      FindCheckpoint, RecordCheckpoint, InspectHuman, AuthFailed, EnterMode, CheckAvailability,
      CheckHuman, FindSlot, EnqueueBooking, EnqueueAvail, CasStep, Cas
<1>2. CASE BookingStep(j)
  BY <1>2
  DEF BookingStep, BookingLoad, ToBooking, BeginBooking, BeginLost, ToAdding, AddApplicants,
      AddHuman, ToSelected, SelectAppointment, SelectLost, GetPaymentState, PayHuman, ToPayment,
      FindHandoff, HandOffSession, CreateHandoff, CasStep, Cas
<1>3. CASE ResumeStep(j)
  BY <1>3
  DEF ResumeStep, ResumeLoad, FindActive, ResumeAdapter, ToTarget, EnqueueResumed, CheckPaid,
      ToProcessing, GetConfirmation, ToConfirmed, CompleteSession, CasStep, Cas, HVR
<1>4. CASE Throw(j)
  BY <1>4 DEF Throw
<1>5. QED
  BY <1>1, <1>2, <1>3, <1>4 DEF JobStep

\* What a resume job knows of the payment after its step: it was true when it
\* loaded the case or its own transition made it so.
LEMMA PaymentMoves ==
  ASSUME TypeOK, PaymentJobsFit, NEW j \in Slots, JobStep(j) \/ Throw(j)
  PROVE  PaymentFits(j)'
<1> USE JobGoes DEF PaymentJobsFit, PaymentFits, At, Payable
<1>1. CASE AvailStep(j) \/ BookingStep(j) \/ Throw(j)
  <2>1. jobs'[j].at \notin ResumeSteps
    <3>1. CASE AvailStep(j)
      <4>1. AvailLoad(j) => jobs'[j].at \in {"free", "toAuth", "authenticate", "check"}
        BY Loads
      <4>2. FindCheckpoint(j) => jobs'[j].at \in {"free", "record"}
        BY DEF FindCheckpoint, TypeOK, Job
      <4>3. QED
        BY <3>1, <4>1, <4>2
        DEF AvailStep, BeginAuth, FindSession, CreateSession, Authenticate, AuthHuman,
            RecordCheckpoint, InspectHuman, AuthFailed, EnterMode, CheckAvailability, CheckHuman,
            FindSlot, EnqueueBooking, EnqueueAvail, CasStep, ResumeSteps, Queues
    <3>2. CASE BookingStep(j)
      <4>1. FindHandoff(j) => jobs'[j].at \in {"free", "handoffSession"}
        BY DEF FindHandoff, TypeOK, Job
      <4>2. QED
        BY <3>2, <4>1
        DEF BookingStep, BookingLoad, ToBooking, BeginBooking, BeginLost, ToAdding,
            AddApplicants, AddHuman, ToSelected, SelectAppointment, SelectLost, GetPaymentState,
            PayHuman, ToPayment, HandOffSession, CreateHandoff, CasStep, ResumeSteps
    <3>3. CASE Throw(j)
      BY <3>3 DEF Throw, ResumeSteps, Queues
    <3>4. QED
      BY <1>1, <3>1, <3>2, <3>3
  <2>2. QED
    BY <2>1 DEF ResumeSteps
<1>2. CASE ResumeStep(j)
  <2>1. CASE ResumeLoad(j)
    <3>1. UNCHANGED status
      BY <2>1 DEF ResumeLoad, caseVars
    <3>2. QED
      BY <2>1, <3>1, Loads
  <2>2. CASE FindActive(j)
    <3>1. \/ jobs'[j].at \in {"free", "resume"}
          \/ jobs[j].at = "findPayable" /\ jobs'[j].at = "paid"
      BY <2>2 DEF FindActive, TypeOK, Job
    <3>2. QED
      BY <2>2, <3>1 DEF FindActive, caseVars
  <2>3. CASE \/ ResumeAdapter(j) \/ EnqueueResumed(j) \/ CheckPaid(j) \/ GetConfirmation(j)
             \/ CompleteSession(j)
    BY <2>3 DEF ResumeAdapter, EnqueueResumed, CheckPaid, GetConfirmation, CompleteSession,
                caseVars
  <2>4. CASE ToTarget(j) \/ ToProcessing(j) \/ ToConfirmed(j)
    BY <2>4 DEF ToTarget, ToProcessing, ToConfirmed, CasStep, Cas, caseVars
  <2>5. QED
    BY <1>2, <2>1, <2>2, <2>3, <2>4 DEF ResumeStep
<1>3. QED
  BY <1>1, <1>2 DEF JobStep

\* Only the step that completes a session makes one COMPLETED.
LEMMA CompletedMoves ==
  ASSUME TypeOK, SessionsTyped, NEW j \in Slots, JobStep(j) \/ Throw(j)
  PROVE  \A i \in DOMAIN sessions' :
           sessions'[i].st = "COMPLETED" =>
             \/ i \in DOMAIN sessions /\ sessions[i].st = "COMPLETED"
             \/ jobs[j].at = "complete" /\ UNCHANGED status
<1>1. CASE UNCHANGED sessions
  BY <1>1
<1>2. CASE CreateSession(j)
  BY <1>2 DEF CreateSession, SessionsTyped
<1>3. CASE RecordCheckpoint(j)
  BY <1>3 DEF RecordCheckpoint, SessionsTyped, Session
<1>4. CASE HandOffSession(j)
  BY <1>4 DEF HandOffSession, SessionsTyped, Session
<1>5. CASE CompleteSession(j)
  BY <1>5 DEF CompleteSession, SessionsTyped, Session, At, caseVars
<1>6. CASE ~(\/ CreateSession(j) \/ RecordCheckpoint(j) \/ HandOffSession(j)
             \/ CompleteSession(j) \/ UNCHANGED sessions)
  BY <1>6
  DEF JobStep, AvailStep, AvailLoad, BeginAuth, FindSession, Authenticate, AuthHuman,
      FindCheckpoint, InspectHuman, AuthFailed, EnterMode, CheckAvailability,
      CheckHuman, FindSlot, EnqueueBooking, EnqueueAvail, CasStep, others,
      BookingStep, BookingLoad, ToBooking, BeginBooking, BeginLost, ToAdding, AddApplicants,
      AddHuman, ToSelected, SelectAppointment, SelectLost, GetPaymentState, PayHuman, ToPayment,
      FindHandoff, CreateHandoff, ResumeStep, ResumeLoad, FindActive, ResumeAdapter, ToTarget,
      EnqueueResumed, CheckPaid, ToProcessing, GetConfirmation, ToConfirmed, Throw
<1>7. QED
  BY <1>1, <1>2, <1>3, <1>4, <1>5, <1>6

\* The payment part of the invariant is kept by every step.
LEMMA PaymentStepInv ==
  TypeOK /\ SessionsTyped /\ PaymentJobsFit /\ CompletedIsConfirmed /\ [Next]_vars
    => PaymentJobsFit' /\ CompletedIsConfirmed'
<1> SUFFICES ASSUME TypeOK, SessionsTyped, PaymentJobsFit, CompletedIsConfirmed, [Next]_vars
             PROVE  PaymentJobsFit' /\ CompletedIsConfirmed'
  OBVIOUS
<1> USE DEF PaymentJobsFit, PaymentFits, CompletedIsConfirmed, At
<1>1. CASE StartAutomation \/ ResumeAutomation
  BY <1>1, ApiMoves DEF caseVars, others
<1>2. CASE CrashWorker
  BY <1>2, CrashMoves DEF caseVars, Queues
<1>3. ASSUME NEW j \in Slots, JobStep(j) \/ Throw(j)
      PROVE  PaymentJobsFit' /\ CompletedIsConfirmed'
  <2>1. Forward
    BY <1>3, PaymentForward
  <2>2. \A k \in Slots \ {j} : jobs'[k] = jobs[k]
    BY <1>3, OtherJobs
  <2>3. PaymentFits(j)'
    BY <1>3, PaymentMoves
  <2>4. PaymentJobsFit'
    BY <2>1, <2>2, <2>3 DEF Forward, Payable
  <2>5. CompletedIsConfirmed'
    BY <1>3, <2>1, CompletedMoves DEF Forward, Payable
  <2>6. QED
    BY <2>4, <2>5
<1>4. CASE UNCHANGED vars
  BY <1>4 DEF vars, caseVars
<1>5. QED
  BY <1>1, <1>2, <1>3, <1>4 DEF Next

-----------------------------------------------------------------------------
\* A job that attends a case goes on attending it or moves it or sets ended, and
\* the job that moves a case to AUTHENTICATING or MONITORING attends it there.
Unharmed == ~ended /\ faults = 0
\* The only other ways out of attending are ended and a fault.
LEMMA AttendMoves ==
  ASSUME TypeOK, NEW j \in Slots, JobStep(j) \/ Throw(j), Unharmed'
  PROVE  /\ Unharmed
         /\ status' = "AUTHENTICATING" /\ (status # "AUTHENTICATING" \/ jobs[j].at \in AttendsAuth)
                 => jobs'[j].at \in AttendsAuth
         /\ status' = "MONITORING" /\ (status # "MONITORING" \/ jobs[j].at \in AttendsMonitoring)
                 => jobs'[j].at \in AttendsMonitoring
<1> USE JobGoes DEF At, AttendsAuth, AttendsMonitoring
<1>1. CASE AvailStep(j)
  <2>1. CASE AvailLoad(j)
    <3>1. UNCHANGED status /\ Unharmed
      BY <2>1 DEF AvailLoad, caseVars, others, Unharmed
    <3>2. QED
      BY <2>1, <3>1, Loads DEF AvailLoad
  <2>2. CASE FindCheckpoint(j) \/ RecordCheckpoint(j)
    BY <2>2 DEF FindCheckpoint, RecordCheckpoint, caseVars, others, Unharmed
  <2>3. CASE \/ FindSession(j) \/ CreateSession(j) \/ EnqueueBooking(j) \/ EnqueueAvail(j)
    BY <2>3 DEF FindSession, CreateSession, EnqueueBooking, EnqueueAvail, caseVars, others,
                Unharmed
  <2>4. CASE Authenticate(j)
    <3>1. UNCHANGED status /\ Unharmed /\ At(j, "authenticate")
      BY <2>4 DEF Authenticate, Retry, caseVars, Unharmed, TypeOK
    <3>2. jobs'[j].at \in {"authHuman", "inspectHuman", "authFailed", "toMode", "availQ"}
      <4>1. CASE \E next \in {"authHuman", "inspectHuman", "authFailed", "toMode"} : Go(j, next)
        BY <4>1
      <4>2. CASE Retry(j)
        <5>1. QueueOf("authenticate") = "availQ"
          BY DEF QueueOf, AvailSteps, BookingSteps, ResumeSteps
        <5>2. jobs[j].at = "authenticate" /\ ~ended'
          BY <3>1 DEF Unharmed
        <5>3. jobs' = [jobs EXCEPT ![j] = [NewJob("availQ") EXCEPT !.tries = jobs[j].tries - 1]]
          BY <4>2, <5>1, <5>2 DEF Retry
        <5>4. QED
          BY <5>3 DEF NewJob, TypeOK
      <4>3. QED
        BY <2>4, <4>1, <4>2 DEF Authenticate
    <3>3. QED
      BY <3>1, <3>2
  <2>5. CASE CheckAvailability(j)
    BY <2>5 DEF CheckAvailability, caseVars, Unharmed
  <2>6. CASE \/ BeginAuth(j) \/ AuthHuman(j) \/ InspectHuman(j) \/ AuthFailed(j)
             \/ EnterMode(j) \/ CheckHuman(j)
    <3>1. mode \in {"MONITORING", "WAITING_QUEUE"}
      BY DEF TypeOK
    <3>2. QED
      BY <2>6, <3>1 DEF BeginAuth, AuthHuman, InspectHuman, AuthFailed, EnterMode, CheckHuman,
                        CasStep, Cas, caseVars, others, HVR, Unharmed
  <2>7. CASE FindSlot(j)
    BY <2>7 DEF FindSlot, Cas, caseVars, Unharmed
  <2>8. QED
    BY <1>1, <2>1, <2>2, <2>3, <2>4, <2>5, <2>6, <2>7 DEF AvailStep
<1>2. CASE BookingStep(j)
  <2>1. Unharmed
    BY <1>2
    DEF BookingStep, BookingLoad, ToBooking, BeginBooking, BeginLost, ToAdding, AddApplicants,
        AddHuman, ToSelected, SelectAppointment, SelectLost, GetPaymentState, PayHuman, ToPayment,
        FindHandoff, HandOffSession, CreateHandoff, CasStep, others, Unharmed
  <2>2. UNCHANGED status \/ status' \notin {"AUTHENTICATING", "MONITORING"}
    BY <1>2
    DEF BookingStep, BookingLoad, ToBooking, BeginBooking, BeginLost, ToAdding, AddApplicants,
        AddHuman, ToSelected, SelectAppointment, SelectLost, GetPaymentState, PayHuman, ToPayment,
        FindHandoff, HandOffSession, CreateHandoff, CasStep, Cas, caseVars, HVR
  <2>3. jobs[j].at \in {"bookingQ"} \cup BookingSteps
    BY <1>2
    DEF BookingStep, BookingLoad, ToBooking, BeginBooking, BeginLost, ToAdding, AddApplicants,
        AddHuman, ToSelected, SelectAppointment, SelectLost, GetPaymentState, PayHuman, ToPayment,
        FindHandoff, HandOffSession, CreateHandoff, CasStep, BookingSteps
  <2>4. QED
    BY <2>1, <2>2, <2>3 DEF BookingSteps
<1>3. CASE ResumeStep(j)
  <2>1. CASE ToTarget(j)
    BY <2>1 DEF ToTarget, CasStep, others, Unharmed
  <2>2. CASE EnqueueResumed(j)
    BY <2>2 DEF EnqueueResumed, caseVars, others, Unharmed
  <2>3. CASE \/ ResumeLoad(j) \/ FindActive(j) \/ ResumeAdapter(j) \/ CheckPaid(j)
             \/ GetConfirmation(j) \/ ToProcessing(j) \/ ToConfirmed(j) \/ CompleteSession(j)
    <3>1. Unharmed
      BY <2>3 DEF ResumeLoad, FindActive, ResumeAdapter, CheckPaid, GetConfirmation,
                  ToProcessing, ToConfirmed, CompleteSession, CasStep, others, Unharmed
    <3>2. UNCHANGED status \/ status' \notin {"AUTHENTICATING", "MONITORING"}
      BY <2>3 DEF ResumeLoad, FindActive, ResumeAdapter, CheckPaid, GetConfirmation,
                  ToProcessing, ToConfirmed, CompleteSession, CasStep, Cas, caseVars
    <3>3. jobs[j].at \notin AttendsAuth \cup AttendsMonitoring
      BY <2>3 DEF ResumeLoad, FindActive, ResumeAdapter, CheckPaid, GetConfirmation,
                  ToProcessing, ToConfirmed, CompleteSession, CasStep
    <3>4. QED
      BY <3>1, <3>2, <3>3
  <2>4. QED
    BY <1>3, <2>1, <2>2, <2>3 DEF ResumeStep
<1>4. CASE Throw(j)
  BY <1>4 DEF Throw, Unharmed, TypeOK
<1>5. QED
  BY <1>1, <1>2, <1>3, <1>4 DEF JobStep

\* A case that authenticates or monitors keeps a job that attends it.
LEMMA AttendStepInv == TypeOK /\ SomeAttend /\ [Next]_vars => SomeAttend'
<1> SUFFICES ASSUME TypeOK, SomeAttend, [Next]_vars, Unharmed' PROVE SomeAttend'
  BY DEF SomeAttend, Unharmed
<1> USE DEF SomeAttend, Unharmed
<1>1. CASE StartAutomation \/ ResumeAutomation
  BY <1>1, ApiMoves DEF caseVars, others, AttendsAuth, AttendsMonitoring
<1>2. CASE CrashWorker
  BY <1>2, CrashMoves
<1>3. ASSUME NEW j \in Slots, JobStep(j) \/ Throw(j) PROVE SomeAttend'
  <2>1. \A k \in Slots \ {j} : jobs'[k] = jobs[k]
    BY <1>3, OtherJobs
  <2>2. /\ ~ended /\ faults = 0
        /\ status' = "AUTHENTICATING" /\ (status # "AUTHENTICATING" \/ jobs[j].at \in AttendsAuth)
                => jobs'[j].at \in AttendsAuth
        /\ status' = "MONITORING" /\ (status # "MONITORING" \/ jobs[j].at \in AttendsMonitoring)
                => jobs'[j].at \in AttendsMonitoring
    BY <1>3, AttendMoves
  <2>3. QED
    BY <2>1, <2>2
<1>4. CASE UNCHANGED vars
  BY <1>4 DEF vars
<1>5. QED
  BY <1>1, <1>2, <1>3, <1>4 DEF Next

-----------------------------------------------------------------------------
\* The invariant holds of a case that was made ready, and every step keeps it.
LEMMA PipelineInit == Init => IInv
<1> SUFFICES ASSUME Init PROVE IInv
  OBVIOUS
<1>1. \A j \in Slots : jobs[j].at = "free"
  BY DEF Init, NoJob
<1>2. OneBookingJob /\ BookingJobsFit /\ BegunFits /\ PaymentJobsFit
  BY <1>1 DEF Init, OneBookingJob, BookingJobsFit, BookingFits, BegunFits, PaymentJobsFit,
              PaymentFits, At, BookingSteps
<1>3. CompletedIsConfirmed /\ SomeAttend
  BY DEF Init, CompletedIsConfirmed, SomeAttend
<1>4. QED
  BY <1>2, <1>3, InitTypes DEF IInv

\* Every step keeps the invariant.
LEMMA PipelineStep == IInv /\ [Next]_vars => IInv'
BY TypeStep, BookingStepInv, PaymentStepInv, AttendStepInv DEF IInv, BookingInv

\* The invariant of the live automation: the jobs of the three queues and the
\* status of the case fit each other, whatever interleaves, throws or crashes.
THEOREM PipelineInvariant == Spec => []IInv
BY PipelineInit, PipelineStep, PTL DEF Spec

\* For one found slot beginBooking is called at most once, with retries of the
\* booking job, duplicates of it and a worker that restarts (BookingWorker:
\* "booking must begin strictly from SLOT_FOUND", concurrency 1).
THEOREM BookingIsBegunOnce == Spec => []BookingBegunOnce
<1>1. IInv => BookingBegunOnce
  BY DEF IInv, BegunFits, BookingBegunOnce
<1>2. QED
  BY <1>1, PipelineInvariant, PTL

\* A completed session belongs to a confirmed case (SessionResumeWorker), even
\* when resume jobs race and one finds its transition already made.
THEOREM CompletedSessionIsConfirmed == Spec => []CompletedIsConfirmed
<1>1. IInv => CompletedIsConfirmed
  BY DEF IInv
<1>2. QED
  BY <1>1, PipelineInvariant, PTL

\* A case that authenticates or monitors has an availability job, waiting or at
\* work, unless the provider or a fault ended it (AvailabilityWorker).
THEOREM MonitoringIsAttended == Spec => []MonitoringAttended
<1>1. IInv => MonitoringAttended
  BY DEF IInv, SomeAttend, MonitoringAttended, Attended, AvailJob, AttendsAuth,
         AttendsMonitoring, AvailSteps
<1>2. QED
  BY <1>1, PipelineInvariant, PTL

\* A payment is handed to a human only for a case that awaits it or is past it
\* (BookingWorker, createHandoff), although no answer of a transition is read.
THEOREM HandoffIsAwaited == Spec => HandoffAwaitsPayment
<1>1. ASSUME IInv, Next, handoffs' > handoffs
      PROVE  status \in {"PAYMENT_REQUIRED", "PAYMENT_PROCESSING", "CONFIRMED"}
  <2>1. handoffs \in 0..2
    BY <1>1 DEF IInv, TypeOK
  <2>2. PICK j \in Slots : JobStep(j)
    BY <1>1, <2>1 DEF Next, StartAutomation, ResumeAutomation, CrashWorker, Throw, others
  <2>3. ~AvailStep(j)
    BY <1>1, <2>1
    DEF AvailStep, AvailLoad, BeginAuth, FindSession, CreateSession, Authenticate, AuthHuman,
        FindCheckpoint, RecordCheckpoint, InspectHuman, AuthFailed, EnterMode, CheckAvailability,
        CheckHuman, FindSlot, EnqueueBooking, EnqueueAvail, CasStep, others
  <2>4. ~ResumeStep(j)
    BY <1>1, <2>1
    DEF ResumeStep, ResumeLoad, FindActive, ResumeAdapter, ToTarget, EnqueueResumed, CheckPaid,
        ToProcessing, GetConfirmation, ToConfirmed, CompleteSession, CasStep, others
  <2>5. BookingStep(j) => CreateHandoff(j)
    BY <1>1, <2>1
    DEF BookingStep, BookingLoad, ToBooking, BeginBooking, BeginLost, ToAdding, AddApplicants,
        AddHuman, ToSelected, SelectAppointment, SelectLost, GetPaymentState, PayHuman, ToPayment,
        FindHandoff, HandOffSession, CasStep, others
  <2>6. At(j, "createHandoff")
    BY <2>2, <2>3, <2>4, <2>5 DEF JobStep, CreateHandoff
  <2>7. QED
    BY <1>1, <2>6 DEF IInv, BookingJobsFit, BookingFits, Payable, At
<1>2. IInv /\ [Next]_vars =>
        [handoffs' > handoffs =>
           status \in {"PAYMENT_REQUIRED", "PAYMENT_PROCESSING", "CONFIRMED"}]_vars
  BY <1>1
<1>3. QED
  BY <1>2, PipelineInvariant, PTL DEF Spec, HandoffAwaitsPayment
=============================================================================

------------------------ MODULE WorkerMaintenanceProofs ------------------------
(***************************************************************************)
(* Proofs about WorkerMaintenance, for any finite set of job slots and any *)
(* bounds on faults, sessions and restarts: what is proved of the live     *)
(* automation holds with the restarts, the maintenance and the logins made *)
(* by hand around it; a session that is given up stays given up and is     *)
(* told; a case at its human checkpoint can be resumed.                    *)
(*                                                                         *)
(* The argument: sessions are written by ids read earlier, by jobs and by  *)
(* the observer of a login.  A worker that recovers has no job at work and *)
(* no observer - the shutdown closes a queue when its jobs are over, and   *)
(* the others die with the process - so an id read before the recovery is  *)
(* not written after it.                                                   *)
(***************************************************************************)
EXTENDS WorkerMaintenance, WorkerPipelineProofs

USE SlotsAssumption, NoTargetAssumption, ModesAssumption, BoundsAssumption, MaintenanceBounds

MaintenanceRecords ==
  /\ late \subseteq DOMAIN sessions /\ prepared \subseteq DOMAIN sessions
  /\ aged \in BOOLEAN /\ flagged \in BOOLEAN
  /\ life \in {"down", "booting", "up", "closing"} /\ closed \in 0..3
  /\ tick \in [at : {"idle", "detect", "recheck", "flag"}, read : Status \cup {"none"}]
  /\ scan \in [todo : SUBSET (Sessions \X BOOLEAN), marked : {0} \cup Sessions]
  /\ told \subseteq Sessions /\ untold \subseteq Sessions
  /\ restarts \in 0..MaxRestarts
  /\ login \in [at : {"unasked", "queued", "watching", "seen", "over"},
                sess : {0} \cup DOMAIN sessions]

\* The process: recovery runs while the worker boots, with no job at work and no
\* observer; a queue that is closed has no job at work.
ScanWhileBooting == life # "booting" => scan = NoScan
NobodyAtWork ==
  life \in {"down", "booting"} => \A j \in Slots : jobs[j].at \in {"free"} \cup Queues
ClosedQueuesIdle ==
  life = "closing" =>
    \A j \in Slots : /\ closed >= 1 => jobs[j].at \notin AvailSteps
                     /\ closed >= 2 => jobs[j].at \notin BookingSteps
                     /\ closed >= 3 => jobs[j].at \notin ResumeSteps
ObserverAlive == login.at \in {"watching", "seen"} => life \in {"up", "closing"}
RestartCounted == life = "closing" => restarts > 0
ProcessInv ==
  ScanWhileBooting /\ NobodyAtWork /\ ClosedQueuesIdle /\ ObserverAlive /\ RestartCounted

\* The sessions a job, the observer or the recovery has read and may still write
\* are sessions of the case that were not given up.
Kept(i) == i \in DOMAIN sessions /\ sessions[i].st # "LOST"
Loaded == {"record", "handoffSession", "paid", "toProcessing", "confirm", "toConfirmed",
           "complete"}
JobSessionsKept == \A j \in Slots : jobs[j].at \in Loaded => Kept(jobs[j].sess)
SeenSessionKept == login.at = "seen" => Kept(login.sess)
ScannedSessionsKept ==
  /\ \A p \in scan.todo : Kept(p[1])
  /\ \A i \in Sessions : <<i, TRUE>> \in scan.todo => <<i, FALSE>> \notin scan.todo
KeptInv == JobSessionsKept /\ SeenSessionKept /\ ScannedSessionsKept

\* A case that was started has a session, or the job that creates it; without a
\* fault, a restart and a prepared login every session is of the worker.
SessionComing ==
  faults = 0 /\ status # "READY" =>
    Len(sessions) > 0 \/ \E j \in Slots : jobs[j].at \in {"findSession", "createSession"}
SessionsOwned ==
  faults = 0 /\ restarts = 0 /\ login.at = "unasked" =>
    \A i \in DOMAIN sessions : sessions[i].owner = worker /\ sessions[i].st # "STARTING"

MaintenanceInv ==
  /\ IInv
  /\ MaintenanceRecords
  /\ ProcessInv
  /\ KeptInv
  /\ LostIsTold
  /\ SessionComing
  /\ SessionsOwned
-----------------------------------------------------------------------------
(* What a step of a job does to the sessions                               *)

\* A job writes at most the session it loaded, and creates one for its worker.
LEMMA JobWrites ==
  ASSUME TypeOK, SessionsTyped, NEW j \in Slots, JobStep(j) \/ Throw(j)
  PROVE  /\ DOMAIN sessions \subseteq DOMAIN sessions'
         /\ \A i \in DOMAIN sessions :
              sessions'[i] # sessions[i] =>
                /\ jobs[j].at \in Loaded /\ jobs[j].sess = i
                /\ sessions'[i].st \notin {"LOST", "EXPIRED", "STARTING"}
                /\ sessions'[i].owner = sessions[i].owner
         /\ \A i \in DOMAIN sessions' \ DOMAIN sessions :
              sessions'[i].st = "ACTIVE" /\ sessions'[i].owner = worker
<1> USE DEF Loaded
<1>1. CASE UNCHANGED sessions
  BY <1>1
<1>2. CASE CreateSession(j)
  BY <1>2 DEF CreateSession, SessionsTyped
<1>3. CASE RecordCheckpoint(j)
  BY <1>3 DEF RecordCheckpoint, SessionsTyped, Session, At
<1>4. CASE HandOffSession(j)
  BY <1>4 DEF HandOffSession, SessionsTyped, Session, At
<1>5. CASE CompleteSession(j)
  BY <1>5 DEF CompleteSession, SessionsTyped, Session, At
<1>6. CASE ~(\/ CreateSession(j) \/ RecordCheckpoint(j) \/ HandOffSession(j)
             \/ CompleteSession(j) \/ UNCHANGED sessions)
  BY <1>6
  DEF JobStep, AvailStep, AvailLoad, BeginAuth, FindSession, Authenticate, AuthHuman,
      FindCheckpoint, InspectHuman, AuthFailed, EnterMode, CheckAvailability,
      CheckHuman, FindSlot, EnqueueBooking, EnqueueAvail, CasStep, others,
      BookingStep, BookingLoad, ToBooking, BeginBooking, BeginLost, ToAdding, AddApplicants,
      AddHuman, ToSelected, SelectAppointment, SelectLost, GetPaymentState, PayHuman, ToPayment,
      FindHandoff, CreateHandoff, ResumeStep, ResumeLoad, FindActive, ResumeAdapter, ToTarget,
      EnqueueResumed, CheckPaid, ToProcessing, GetConfirmation, ToConfirmed, Throw
<1>7. QED
  BY <1>1, <1>2, <1>3, <1>4, <1>5, <1>6

\* The session findActiveSessionByCaseId answers with was not given up.
LEMMA ActiveIsKept ==
  ASSUME TypeOK, SessionsTyped, ActiveIndex # 0
  PROVE  Kept(ActiveIndex)
BY ActiveIndexFits DEF TypeOK, Kept, ActiveSession

\* A job loads a session that was not given up, and keeps its id over its steps.
LEMMA JobLoads ==
  ASSUME TypeOK, SessionsTyped, JobSessionsKept, NEW j \in Slots, JobStep(j) \/ Throw(j)
  PROVE  jobs'[j].at \in Loaded => Kept(jobs'[j].sess)
<1> USE JobGoes DEF Loaded
<1> DEFINE Same == jobs'[j].sess = jobs[j].sess
<1>1. \A step : Go(j, step) => Same
  BY DEF Go, TypeOK, Job
<1>2. jobs[j].at \in Loaded => Kept(jobs[j].sess)
  BY DEF JobSessionsKept
<1>3. CASE FindCheckpoint(j)
  <2>1. jobs'[j].at = "record" => ActiveIndex # 0 /\ jobs'[j].sess = ActiveIndex
    BY <1>3 DEF FindCheckpoint, TypeOK, Job
  <2>2. jobs'[j].at \in {"free", "record"}
    BY <1>3 DEF FindCheckpoint, TypeOK, Job
  <2>3. QED
    BY <2>1, <2>2, ActiveIsKept
<1>4. CASE FindHandoff(j)
  <2>1. jobs'[j].at = "handoffSession" => ActiveIndex # 0 /\ jobs'[j].sess = ActiveIndex
    BY <1>4 DEF FindHandoff, TypeOK, Job
  <2>2. jobs'[j].at \in {"free", "handoffSession"}
    BY <1>4 DEF FindHandoff, TypeOK, Job
  <2>3. QED
    BY <2>1, <2>2, ActiveIsKept
<1>5. CASE FindActive(j)
  <2>1. jobs'[j].at # "free" => ActiveIndex # 0 /\ jobs'[j].sess = ActiveIndex
    BY <1>5 DEF FindActive, TypeOK, Job
  <2>2. QED
    BY <2>1, ActiveIsKept
<1>6. CASE AvailStep(j) /\ ~FindCheckpoint(j)
  <2>1. AvailLoad(j) => jobs'[j].at \in {"free", "toAuth", "authenticate", "check"}
    BY Loads
  <2>2. jobs'[j].at \notin Loaded
    BY <1>6, <2>1
    DEF AvailStep, BeginAuth, FindSession, CreateSession, Authenticate, AuthHuman,
        RecordCheckpoint, InspectHuman, AuthFailed, EnterMode, CheckAvailability, CheckHuman,
        FindSlot, EnqueueBooking, EnqueueAvail, CasStep, At, Queues
  <2>3. QED
    BY <2>2
<1>7. CASE BookingStep(j) /\ ~FindHandoff(j)
  <2>1. jobs'[j].at \notin Loaded
    BY <1>7
    DEF BookingStep, BookingLoad, ToBooking, BeginBooking, BeginLost, ToAdding,
        AddApplicants, AddHuman, ToSelected, SelectAppointment, SelectLost, GetPaymentState,
        PayHuman, ToPayment, HandOffSession, CreateHandoff, CasStep
  <2>2. QED
    BY <2>1
<1>8. CASE ResumeStep(j) /\ ~FindActive(j)
  <2>1. ResumeLoad(j) => jobs'[j].at \notin Loaded
    BY Loads
  <2>2. jobs'[j].at \in Loaded => Same /\ jobs[j].at \in Loaded
    BY <1>1, <1>8, <2>1
    DEF ResumeStep, ResumeAdapter, ToTarget, EnqueueResumed, CheckPaid,
        ToProcessing, GetConfirmation, ToConfirmed, CompleteSession, CasStep, At
  <2>3. QED
    BY <1>2, <2>2
<1>9. CASE Throw(j)
  BY <1>9 DEF Throw, Queues
<1>10. QED
  BY <1>3, <1>4, <1>5, <1>6, <1>7, <1>8, <1>9 DEF JobStep

\* The job that starts the case looks for a session next; a job that looks for
\* one finds it or creates it, unless it throws.
LEMMA JobBrings ==
  ASSUME TypeOK, SessionsTyped, NEW j \in Slots, JobStep(j)
  PROVE  /\ status = "READY" /\ status' # "READY" => jobs'[j].at = "findSession"
         /\ jobs[j].at \in {"findSession", "createSession"} =>
              jobs'[j].at = "createSession" \/ Len(sessions') > 0
<1> USE JobGoes DEF At, caseVars, others
<1>1. CASE AvailStep(j)
  <2>1. CASE BeginAuth(j)
    BY <2>1 DEF BeginAuth, CasStep
  <2>2. CASE FindSession(j)
    <3>1. ActiveIndex # 0 => Len(sessions) > 0
      BY ActiveIndexFits DEF TypeOK, SessionsTyped
    <3>2. QED
      BY <2>2, <3>1 DEF FindSession
  <2>3. CASE CreateSession(j)
    BY <2>3 DEF CreateSession, SessionsTyped
  <2>4. CASE ~(BeginAuth(j) \/ FindSession(j) \/ CreateSession(j))
    BY <1>1, <2>4
    DEF AvailStep, AvailLoad, Authenticate, AuthHuman, FindCheckpoint, RecordCheckpoint,
        InspectHuman, AuthFailed, EnterMode, CheckAvailability, CheckHuman, FindSlot,
        EnqueueBooking, EnqueueAvail, CasStep, Cas
  <2>5. QED
    BY <2>1, <2>2, <2>3, <2>4
<1>2. CASE BookingStep(j)
  BY <1>2
  DEF BookingStep, BookingLoad, ToBooking, BeginBooking, BeginLost, ToAdding, AddApplicants,
      AddHuman, ToSelected, SelectAppointment, SelectLost, GetPaymentState, PayHuman, ToPayment,
      FindHandoff, HandOffSession, CreateHandoff, CasStep, Cas
<1>3. CASE ResumeStep(j)
  BY <1>3
  DEF ResumeStep, ResumeLoad, FindActive, ResumeAdapter, ToTarget, EnqueueResumed, CheckPaid,
      ToProcessing, GetConfirmation, ToConfirmed, CompleteSession, CasStep, Cas, HVR
<1>4. QED
  BY <1>1, <1>2, <1>3 DEF JobStep

-----------------------------------------------------------------------------
(* What the other steps do to the sessions                                 *)

\* The recovery gives up a session and marks it, for its notification.
GivesUp(i) == scan'.marked = i /\ \E expired \in BOOLEAN : Recover(i, expired)

\* The sessions after a step: none is lost but the one the recovery marks, none
\* is completed but by the pipeline, each keeps its worker.
Rewritten ==
  /\ sessions' \in Seq(Session) /\ Len(sessions') <= MaxSessions
  /\ DOMAIN sessions \subseteq DOMAIN sessions'
  /\ \A i \in DOMAIN sessions :
       /\ sessions'[i].owner = sessions[i].owner
       /\ sessions[i].st = "LOST" => sessions'[i].st = "LOST"
       /\ sessions'[i].st = "LOST" => sessions[i].st = "LOST" \/ GivesUp(i)
       /\ sessions'[i].st = "COMPLETED" => sessions[i].st = "COMPLETED"
  /\ \A i \in DOMAIN sessions' \ DOMAIN sessions : sessions'[i].st = "STARTING"

\* No maintenance, login or recovery writes a session that was given up.
LEMMA MaintenanceRewrites ==
  ASSUME MaintenanceInv,
         \/ StartPrepared \/ PrepareLogin \/ RecordLogin \/ Cleanup
         \/ \E i \in Sessions, expired \in BOOLEAN : Recover(i, expired)
  PROVE  Rewritten
<1> USE DEF Rewritten
<1>1. /\ sessions \in Seq(Session) /\ Len(sessions) <= MaxSessions
      /\ DOMAIN sessions = 1..Len(sessions) /\ Len(sessions) \in Nat
      /\ \A i \in DOMAIN sessions : sessions[i] \in Session
  BY DEF MaintenanceInv, IInv, TypeOK, SessionsTyped
<1>2. ASSUME NEW i \in DOMAIN sessions, NEW st \in ActiveSession \cup EndedSession,
             sessions' = [sessions EXCEPT ![i].st = st],
             sessions[i].st = "LOST" => st = "LOST",
             st = "LOST" => sessions[i].st = "LOST" \/ GivesUp(i),
             st = "COMPLETED" => sessions[i].st = "COMPLETED"
      PROVE  Rewritten
  <2>1. sessions' \in Seq(Session) /\ Len(sessions') = Len(sessions)
    BY <1>1, <1>2, SessionWrites DEF Targets
  <2>2. DOMAIN sessions' = DOMAIN sessions
    BY <1>1, <2>1
  <2>3. \A k \in DOMAIN sessions : /\ sessions'[k].owner = sessions[k].owner
                                  /\ k # i => sessions'[k] = sessions[k]
                                  /\ sessions'[i].st = st
    BY <1>1, <1>2 DEF Session
  <2>4. QED
    BY <1>1, <1>2, <2>1, <2>2, <2>3
<1>3. CASE StartPrepared
  <2>1. ActiveIndex \in DOMAIN sessions /\ sessions[ActiveIndex].st \in ActiveSession
    BY <1>3, ActiveIndexFits
    DEF StartPrepared, MaintenanceInv, MaintenanceRecords, IInv, TypeOK
  <2>2. QED
    BY <1>2, <1>3, <2>1 DEF StartPrepared, ActiveSession
<1>4. CASE PrepareLogin
  <2>1. CASE Len(sessions) < MaxSessions /\
             sessions' = Append(sessions, [st |-> "STARTING", resume |-> NoTarget, owner |-> ApiWorker])
    <3>1. [st |-> "STARTING", resume |-> NoTarget, owner |-> ApiWorker] \in Session
      BY DEF Session, ActiveSession, Targets, ApiWorker
    <3>2. /\ sessions' \in Seq(Session) /\ Len(sessions') = Len(sessions) + 1
          /\ \A i \in DOMAIN sessions : sessions'[i] = sessions[i]
          /\ sessions'[Len(sessions) + 1].st = "STARTING"
      BY <1>1, <2>1, <3>1
    <3>3. DOMAIN sessions' = 1..(Len(sessions) + 1)
      BY <1>1, <3>2
    <3>4. QED
      BY <1>1, <2>1, <3>2, <3>3
  <2>2. CASE \E i \in Preparable :
               sessions' = [sessions EXCEPT ![i].st = IF @ = "ACTIVE" THEN @ ELSE "STARTING"]
    <3>1. PICK i \in Preparable :
                 sessions' = [sessions EXCEPT ![i].st = IF @ = "ACTIVE" THEN @ ELSE "STARTING"]
      BY <2>2
    <3>2. i \in DOMAIN sessions
      BY DEF Preparable
    <3>3. sessions' = [sessions EXCEPT ![i].st =
                         IF sessions[i].st = "ACTIVE" THEN "ACTIVE" ELSE "STARTING"]
      BY <1>1, <3>1, <3>2 DEF Session
    <3>4. QED
      BY <1>2, <3>2, <3>3 DEF Preparable, ActiveSession
  <2>3. QED
    BY <1>4, <2>1, <2>2 DEF PrepareLogin
<1>5. CASE RecordLogin
  <2>1. Kept(login.sess)
    BY <1>5 DEF RecordLogin, MaintenanceInv, KeptInv, SeenSessionKept
  <2>2. CASE UNCHANGED sessions
    BY <1>1, <2>2
  <2>3. CASE sessions' = [sessions EXCEPT ![login.sess].st = "ACTIVE"]
    BY <1>2, <2>1, <2>3 DEF Kept, ActiveSession
  <2>4. QED
    BY <1>5, <2>2, <2>3 DEF RecordLogin
<1>6. CASE Cleanup
  <2> DEFINE ids == {i \in late : Open(i)}
  <2>1. \A i \in DOMAIN sessions :
          i \in ids => /\ sessions[i].st \in {"ACTIVE", "HUMAN_ACTION_REQUIRED"}
                      /\ [sessions[i] EXCEPT !.st = "EXPIRED"] \in Session
    BY <1>1 DEF Open, Session, EndedSession
  <2>2. sessions' = [i \in DOMAIN sessions |->
                       IF i \in ids THEN [sessions[i] EXCEPT !.st = "EXPIRED"] ELSE sessions[i]]
    BY <1>6 DEF Cleanup, Expire
  <2>3. sessions' \in [1..Len(sessions) -> Session]
    BY <1>1, <2>1, <2>2
  <2>4. sessions' \in Seq(Session) /\ Len(sessions') = Len(sessions)
    BY <1>1, <2>3
  <2>5. ASSUME NEW i \in DOMAIN sessions
        PROVE  /\ sessions'[i].owner = sessions[i].owner
               /\ sessions[i].st = "LOST" => sessions'[i].st = "LOST"
               /\ sessions'[i].st = "LOST" => sessions[i].st = "LOST"
               /\ sessions'[i].st = "COMPLETED" => sessions[i].st = "COMPLETED"
    <3>1. CASE i \in ids
      BY <1>1, <2>1, <2>2, <3>1 DEF Session
    <3>2. CASE i \notin ids
      BY <2>2, <3>2
    <3>3. QED
      BY <3>1, <3>2
  <2>6. QED
    BY <1>1, <2>3, <2>4, <2>5
<1>7. ASSUME NEW i \in Sessions, NEW expired \in BOOLEAN, Recover(i, expired) PROVE Rewritten
  <2>1. Kept(i) /\ sessions[i] \in Session
    BY <1>1, <1>7 DEF Recover, MaintenanceInv, KeptInv, ScannedSessionsKept, Kept
  <2> DEFINE st == IF expired THEN "EXPIRED"
                   ELSE IF sessions[i].st = "HUMAN_ACTION_REQUIRED" THEN "LOST" ELSE sessions[i].st
  <2>2. sessions' = [sessions EXCEPT ![i].st = st]
    BY <1>1, <1>7, <2>1 DEF Recover, Kept, Session
  <2>3. st \in ActiveSession \cup EndedSession
    BY <2>1 DEF Session, EndedSession
  <2>4. st = "LOST" => GivesUp(i)
    <3>1. st = "LOST" => scan'.marked = i
      BY <1>7, <2>1 DEF Recover, Kept, MaintenanceInv, MaintenanceRecords
    <3>2. QED
      BY <1>7, <3>1 DEF GivesUp
  <2>5. QED
    BY <1>2, <2>1, <2>2, <2>3, <2>4 DEF Kept
<1>8. QED
  BY <1>3, <1>4, <1>5, <1>6, <1>7

-----------------------------------------------------------------------------
(* The pipeline under maintenance                                          *)

\* A step that leaves the case to its jobs - it may put one more in a queue,
\* write sessions, count a fault or start another worker - keeps the invariant
\* of the pipeline.
LEMMA PipelineUntouched ==
  ASSUME IInv, UNCHANGED <<caseVars, mode, handoffs, begun, ended>>,
         worker' \in Nat, faults' \in 0..MaxFaults, faults' = 0 => faults = 0,
         sessions' \in Seq(Session), Len(sessions') <= MaxSessions,
         \A i \in DOMAIN sessions' : sessions'[i].st = "COMPLETED" =>
                                      i \in DOMAIN sessions /\ sessions[i].st = "COMPLETED",
         jobs' \in [Slots -> Job],
         \A j \in Slots :
           jobs'[j] # jobs[j] => jobs[j].at = "free" /\ jobs'[j].at = "availQ"
  PROVE  IInv'
<1>1. TypeOK' /\ SessionsTyped'
  <2>1. \A i \in DOMAIN sessions' : sessions'[i] \in Session
    OBVIOUS
  <2>2. QED
    BY <2>1 DEF IInv, TypeOK, SessionsTyped, caseVars
<1>2. OneBookingJob' /\ BookingJobsFit'
  BY DEF IInv, OneBookingJob, BookingJobsFit, BookingFits, At, BookingSteps, caseVars
<1>3. BegunFits' /\ PaymentJobsFit'
  BY DEF IInv, BegunFits, PaymentJobsFit, PaymentFits, At, caseVars
<1>4. CompletedIsConfirmed'
  BY DEF IInv, CompletedIsConfirmed, caseVars
<1>5. SomeAttend'
  BY DEF IInv, SomeAttend, AttendsAuth, AttendsMonitoring, caseVars
<1>6. QED
  BY <1>1, <1>2, <1>3, <1>4, <1>5 DEF IInv

\* Maintenance keeps the invariant of the pipeline.
LEMMA PipelineKept == MaintenanceInv /\ [MaintenanceNext]_allVars => IInv'
<1> SUFFICES ASSUME MaintenanceInv, [MaintenanceNext]_allVars PROVE IInv'
  OBVIOUS
<1>1. /\ IInv /\ jobs \in [Slots -> Job] /\ worker \in Nat /\ faults \in 0..MaxFaults
      /\ sessions \in Seq(Session) /\ Len(sessions) <= MaxSessions
  BY DEF MaintenanceInv, IInv, TypeOK, SessionsTyped
<1>2. ASSUME NEW j \in Slots, Work(j) PROVE IInv'
  BY <1>1, <1>2, PipelineStep DEF Work, Next
<1>3. CASE Request
  BY <1>1, <1>3, PipelineStep DEF Request, Next
<1>4. CASE UNCHANGED vars
  BY <1>1, <1>4, PipelineStep
<1>5. CASE Die
  BY <1>1, <1>5, PipelineStep DEF Die, Next
<1>6. ASSUME Rewritten,
             UNCHANGED <<caseVars, mode, handoffs, jobs, worker, begun, ended>>,
             faults' \in 0..MaxFaults, faults' = 0 => faults = 0
      PROVE  IInv'
  <2>1. \A i \in DOMAIN sessions' : sessions'[i].st = "COMPLETED" =>
                                      i \in DOMAIN sessions /\ sessions[i].st = "COMPLETED"
    BY <1>6 DEF Rewritten
  <2>2. QED
    BY <1>1, <1>6, <2>1, PipelineUntouched DEF Rewritten
<1>7. CASE StartPrepared
  <2>1. Rewritten
    BY <1>7, MaintenanceRewrites
  <2>2. PICK j \in Slots : At(j, "free") /\ Successor(j, "availQ")
    BY <1>7 DEF StartPrepared, Enqueue
  <2>3. jobs' \in [Slots -> Job]
    BY <1>1, <2>2, JobMoves DEF Queues
  <2>4. \A k \in Slots :
          jobs'[k] # jobs[k] => jobs[k].at = "free" /\ jobs'[k].at = "availQ"
    BY <1>1, <2>2 DEF Successor, NewJob, At
  <2>5. \A i \in DOMAIN sessions' : sessions'[i].st = "COMPLETED" =>
                                      i \in DOMAIN sessions /\ sessions[i].st = "COMPLETED"
    BY <2>1 DEF Rewritten
  <2>6. QED
    BY <1>1, <1>7, <2>1, <2>3, <2>4, <2>5, PipelineUntouched DEF Rewritten, StartPrepared
<1>8. CASE PrepareLogin
  BY <1>1, <1>6, <1>8, MaintenanceRewrites DEF PrepareLogin
<1>9. CASE RecordLogin
  BY <1>1, <1>6, <1>9, MaintenanceRewrites DEF RecordLogin
<1>10. CASE Cleanup
  BY <1>1, <1>6, <1>10, MaintenanceRewrites DEF Cleanup
<1>11. ASSUME NEW i \in Sessions, NEW expired \in BOOLEAN, Recover(i, expired) PROVE IInv'
  BY <1>1, <1>6, <1>11, MaintenanceRewrites DEF Recover
<1>12. ASSUME UNCHANGED <<caseVars, mode, sessions, handoffs, jobs, begun, ended>>,
              worker' \in Nat, faults' \in 0..MaxFaults, faults' = 0 => faults = 0
       PROVE  IInv'
  BY <1>1, <1>12, PipelineUntouched
<1>13. CASE TickFails \/ Exit
  BY <1>1, <1>12, <1>13 DEF TickFails, Exit
<1>14. CASE OpenForLogin \/ Observe \/ PassThreshold \/ Detect \/ Recheck \/ Flag \/ Shutdown
            \/ CloseQueue \/ Boot \/ NotifyLost \/ OpenQueues
  BY <1>4, <1>14 DEF OpenForLogin, Observe, PassThreshold, Detect, Recheck, Flag, Shutdown,
                     CloseQueue, Boot, NotifyLost, OpenQueues
<1>15. ASSUME NEW i \in DOMAIN sessions, PassExpiry(i) PROVE IInv'
  BY <1>4, <1>15 DEF PassExpiry
<1>16. CASE UNCHANGED allVars
  BY <1>4, <1>16 DEF allVars
<1>17. QED
  BY <1>2, <1>3, <1>5, <1>7, <1>8, <1>9, <1>10, <1>11, <1>13, <1>14, <1>15, <1>16
  DEF MaintenanceNext, ManualLogin, Tick, Process

-----------------------------------------------------------------------------
(* The sessions under every step                                           *)

\* No session goes, one that was given up stays so, and only the recovery gives
\* one up, which it marks.
SessionsGoOn ==
  /\ DOMAIN sessions \subseteq DOMAIN sessions'
  /\ \A i \in DOMAIN sessions : sessions[i].st = "LOST" => sessions'[i].st = "LOST"
LostByRecovery ==
  \A i \in DOMAIN sessions' :
    sessions'[i].st = "LOST" =>
      \/ i \in DOMAIN sessions /\ sessions[i].st = "LOST"
      \/ GivesUp(i)

\* The steps that write no session
WritesNoSession ==
  \/ UNCHANGED allVars \/ Request \/ OpenForLogin \/ Observe \/ PassThreshold \/ Detect
  \/ Recheck \/ Flag \/ TickFails \/ Shutdown \/ CloseQueue \/ Exit \/ Die \/ Boot
  \/ NotifyLost \/ OpenQueues \/ \E i \in DOMAIN sessions : PassExpiry(i)

\* None of these steps writes a session.
LEMMA NoSessionWritten == ASSUME WritesNoSession PROVE UNCHANGED sessions
BY DEF WritesNoSession, allVars, vars, Request, StartAutomation, ResumeAutomation, others,
       OpenForLogin, Observe, PassThreshold, Detect, Recheck, Flag, TickFails, Shutdown,
       CloseQueue, Exit, Die, CrashWorker, Boot, NotifyLost, OpenQueues, PassExpiry

\* No session goes away, and only the recovery gives one up.
LEMMA SessionSteps ==
  ASSUME MaintenanceInv, [MaintenanceNext]_allVars
  PROVE  SessionsGoOn /\ LostByRecovery
<1> USE DEF SessionsGoOn, LostByRecovery
<1>1. ASSUME NEW j \in Slots, Work(j) PROVE SessionsGoOn /\ LostByRecovery
  <2>1. TypeOK /\ SessionsTyped /\ (JobStep(j) \/ Throw(j))
    BY <1>1 DEF Work, MaintenanceInv, IInv
  <2>2. \A i \in DOMAIN sessions :
          sessions'[i] # sessions[i] => sessions[i].st # "LOST" /\ sessions'[i].st # "LOST"
    BY <2>1, JobWrites DEF MaintenanceInv, KeptInv, JobSessionsKept, Kept
  <2>3. /\ DOMAIN sessions \subseteq DOMAIN sessions'
        /\ \A i \in DOMAIN sessions' \ DOMAIN sessions : sessions'[i].st = "ACTIVE"
    BY <2>1, JobWrites
  <2>4. QED
    BY <2>2, <2>3
<1>2. CASE WritesNoSession
  BY <1>2, NoSessionWritten
<1>3. CASE Rewritten
  BY <1>3 DEF Rewritten
<1>4. QED
  BY <1>1, <1>2, <1>3, MaintenanceRewrites
  DEF MaintenanceNext, ManualLogin, Tick, Process, WritesNoSession

-----------------------------------------------------------------------------
(* The types of the variables                                              *)

\* The records of the maintenance keep their types.
LEMMA RecordsKept == MaintenanceInv /\ [MaintenanceNext]_allVars => MaintenanceRecords'
<1> SUFFICES ASSUME MaintenanceInv, [MaintenanceNext]_allVars PROVE MaintenanceRecords'
  OBVIOUS
<1>1. MaintenanceRecords /\ status \in Status
  BY DEF MaintenanceInv, IInv, TypeOK
<1>2. DOMAIN sessions \subseteq DOMAIN sessions' /\ DOMAIN sessions \subseteq Sessions
  BY SessionSteps DEF SessionsGoOn, MaintenanceInv, IInv, TypeOK, SessionsTyped, Sessions
<1> USE DEF MaintenanceRecords
<1>3. ASSUME NEW j \in Slots, Work(j) PROVE MaintenanceRecords'
  BY <1>1, <1>2, <1>3 DEF Work, Age, preparation
<1>4. CASE Request
  BY <1>1, <1>2, <1>4 DEF Request, maintenance, preparation
<1>5. CASE StartPrepared
  BY <1>1, <1>2, <1>5 DEF StartPrepared, preparation
<1>6. CASE PrepareLogin
  <2>1. login' \in [at : {"unasked", "queued", "watching", "seen", "over"},
                    sess : {0} \cup DOMAIN sessions']
    BY <1>1, <1>2, <1>6 DEF PrepareLogin
  <2>2. prepared' \subseteq DOMAIN sessions'
    <3>1. Len(sessions) + 1 \in DOMAIN sessions' \/ UNCHANGED prepared
      BY <1>6 DEF PrepareLogin, MaintenanceInv, IInv, SessionsTyped
    <3>2. QED
      BY <1>1, <1>2, <1>6, <3>1 DEF PrepareLogin
  <2>3. late' \subseteq DOMAIN sessions'
    BY <1>1, <1>2, <1>6 DEF PrepareLogin
  <2>4. QED
    BY <1>1, <1>6, <2>1, <2>2, <2>3 DEF PrepareLogin
<1>7. CASE OpenForLogin
  BY <1>1, <1>2, <1>7 DEF OpenForLogin, vars
<1>8. CASE Observe
  <2>1. ActiveIndex # 0 => ActiveIndex \in DOMAIN sessions
    BY ActiveIndexFits DEF MaintenanceInv, IInv, TypeOK
  <2>2. login' \in [at : {"unasked", "queued", "watching", "seen", "over"},
                    sess : {0} \cup DOMAIN sessions']
    BY <1>2, <1>8, <2>1 DEF Observe
  <2>3. QED
    BY <1>1, <1>2, <1>8, <2>2 DEF Observe
<1>9. CASE RecordLogin
  <2>1. login.sess \in DOMAIN sessions
    BY <1>9 DEF RecordLogin, MaintenanceInv, KeptInv, SeenSessionKept, Kept
  <2>2. QED
    BY <1>1, <1>2, <1>9, <2>1 DEF RecordLogin
<1>10. ASSUME NEW i \in DOMAIN sessions, PassExpiry(i) PROVE MaintenanceRecords'
  BY <1>1, <1>2, <1>10 DEF PassExpiry, preparation
<1>11. CASE PassThreshold
  BY <1>1, <1>2, <1>11 DEF PassThreshold, preparation
<1>12. CASE Cleanup
  BY <1>1, <1>2, <1>12 DEF Cleanup, NoTick, preparation
<1>13. CASE Detect \/ Recheck \/ Flag
  <2>1. tick' \in [at : {"idle", "detect", "recheck", "flag"}, read : Status \cup {"none"}]
    BY <1>1, <1>13 DEF Detect, Recheck, Flag, NoTick
  <2>2. flagged' \in BOOLEAN
    BY <1>1, <1>13 DEF Detect, Recheck, Flag
  <2>3. QED
    BY <1>1, <1>2, <1>13, <2>1, <2>2 DEF Detect, Recheck, Flag, preparation
<1>14. CASE TickFails
  BY <1>1, <1>2, <1>14 DEF TickFails, NoTick, preparation
<1>15. CASE Shutdown \/ CloseQueue
  BY <1>1, <1>2, <1>15 DEF Shutdown, CloseQueue, preparation
<1>16. CASE Exit
  BY <1>1, <1>2, <1>16 DEF Exit, ForgetObserver, NoTick
<1>17. CASE Die
  BY <1>1, <1>2, <1>17 DEF Die, ForgetObserver, NoTick, NoScan
<1>18. CASE Boot
  <2>1. scan' \in [todo : SUBSET (Sessions \X BOOLEAN), marked : {0} \cup Sessions]
    <3>1. scan'.todo \subseteq Sessions \X BOOLEAN /\ scan'.marked = 0
      <4>1. \A k \in Sessions : (k \in late) \in BOOLEAN
        OBVIOUS
      <4>2. \A k \in Sessions : <<k, k \in late>> \in Sessions \X BOOLEAN
        BY <4>1
      <4>3. scan'.marked = 0
        BY <1>18 DEF Boot
      <4>4. scan'.todo = {<<i, i \in late>> : i \in {k \in DOMAIN sessions : Open(k)}}
        BY <1>18 DEF Boot
      <4>5. QED
        BY <1>2, <4>2, <4>3, <4>4
    <3>2. scan' = [todo |-> scan'.todo, marked |-> scan'.marked]
      BY <1>18 DEF Boot
    <3>3. QED
      BY <3>1, <3>2
  <2>2. QED
    BY <1>1, <1>2, <1>18, <2>1 DEF Boot, preparation
<1>19. CASE NotifyLost \/ OpenQueues
  BY <1>1, <1>2, <1>19 DEF NotifyLost, OpenQueues, preparation
<1>20. ASSUME NEW i \in Sessions, NEW expired \in BOOLEAN, Recover(i, expired)
       PROVE  MaintenanceRecords'
  BY <1>1, <1>2, <1>20 DEF Recover, preparation
<1>21. CASE UNCHANGED allVars
  BY <1>1, <1>2, <1>21 DEF allVars, maintenance, preparation
<1>22. QED
  BY <1>3, <1>4, <1>5, <1>6, <1>7, <1>8, <1>9, <1>10, <1>11, <1>12, <1>13, <1>14, <1>15, <1>16,
     <1>17, <1>18, <1>19, <1>20, <1>21
  DEF MaintenanceNext, ManualLogin, Tick, Process

-----------------------------------------------------------------------------
(* The worker process                                                      *)

\* A job at work was taken from its own queue.
LEMMA JobOfQueue ==
  ASSUME TypeOK, NEW j \in Slots, JobStep(j) \/ Throw(j)
  PROVE  /\ jobs'[j].at \in AvailSteps => jobs[j].at \in {"availQ"} \cup AvailSteps
         /\ jobs'[j].at \in BookingSteps => jobs[j].at \in {"bookingQ"} \cup BookingSteps
         /\ jobs'[j].at \in ResumeSteps => jobs[j].at \in {"resumeQ"} \cup ResumeSteps
<1> USE JobGoes DEF At
<1>1. CASE AvailStep(j)
  <2>1. jobs[j].at \in {"availQ"} \cup AvailSteps
    BY <1>1
    DEF AvailStep, AvailLoad, BeginAuth, FindSession, CreateSession, Authenticate, AuthHuman,
        FindCheckpoint, RecordCheckpoint, InspectHuman, AuthFailed, EnterMode, CheckAvailability,
        CheckHuman, FindSlot, EnqueueBooking, EnqueueAvail, CasStep, AvailSteps
  <2>2. AvailLoad(j) => jobs'[j].at \in {"free", "toAuth", "authenticate", "check"}
    BY Loads
  <2>3. FindCheckpoint(j) => jobs'[j].at \in {"free", "record"}
    BY DEF FindCheckpoint, TypeOK, Job
  <2>4. jobs'[j].at \notin BookingSteps \cup ResumeSteps
    BY <1>1, <2>2, <2>3
    DEF AvailStep, BeginAuth, FindSession, CreateSession, Authenticate, AuthHuman,
        RecordCheckpoint, InspectHuman, AuthFailed, EnterMode, CheckAvailability, CheckHuman,
        FindSlot, EnqueueBooking, EnqueueAvail, CasStep, BookingSteps, ResumeSteps, Queues
  <2>5. QED
    BY <2>1, <2>4
<1>2. CASE BookingStep(j)
  <2>1. jobs[j].at \in {"bookingQ"} \cup BookingSteps
    BY <1>2
    DEF BookingStep, BookingLoad, ToBooking, BeginBooking, BeginLost, ToAdding, AddApplicants,
        AddHuman, ToSelected, SelectAppointment, SelectLost, GetPaymentState, PayHuman, ToPayment,
        FindHandoff, HandOffSession, CreateHandoff, CasStep, BookingSteps
  <2>2. FindHandoff(j) => jobs'[j].at \in {"free", "handoffSession"}
    BY DEF FindHandoff, TypeOK, Job
  <2>3. jobs'[j].at \notin AvailSteps \cup ResumeSteps
    BY <1>2, <2>2
    DEF BookingStep, BookingLoad, ToBooking, BeginBooking, BeginLost, ToAdding, AddApplicants,
        AddHuman, ToSelected, SelectAppointment, SelectLost, GetPaymentState, PayHuman, ToPayment,
        HandOffSession, CreateHandoff, CasStep, AvailSteps, ResumeSteps
  <2>4. QED
    BY <2>1, <2>3
<1>3. CASE ResumeStep(j)
  <2>1. jobs[j].at \in {"resumeQ"} \cup ResumeSteps
    BY <1>3
    DEF ResumeStep, ResumeLoad, FindActive, ResumeAdapter, ToTarget, EnqueueResumed, CheckPaid,
        ToProcessing, GetConfirmation, ToConfirmed, CompleteSession, CasStep, ResumeSteps
  <2>2. ResumeLoad(j) => jobs'[j].at \in {"free", "findActive", "findPayable"}
    BY Loads
  <2>3. FindActive(j) => jobs'[j].at \in {"free", "resume", "paid"}
    BY DEF FindActive, TypeOK, Job
  <2>4. jobs'[j].at \notin AvailSteps \cup BookingSteps
    BY <1>3, <2>2, <2>3
    DEF ResumeStep, ResumeAdapter, ToTarget, EnqueueResumed, CheckPaid, ToProcessing,
        GetConfirmation, ToConfirmed, CompleteSession, CasStep, AvailSteps, BookingSteps
  <2>5. QED
    BY <2>1, <2>4
<1>4. CASE Throw(j)
  BY <1>4 DEF Throw, Queues, AvailSteps, BookingSteps, ResumeSteps
<1>5. QED
  BY <1>1, <1>2, <1>3, <1>4 DEF JobStep

\* The process keeps its own.
LEMMA ProcessKept == MaintenanceInv /\ [MaintenanceNext]_allVars => ProcessInv'
<1> SUFFICES ASSUME MaintenanceInv, [MaintenanceNext]_allVars PROVE ProcessInv'
  OBVIOUS
<1>1. ProcessInv /\ MaintenanceRecords /\ TypeOK
  BY DEF MaintenanceInv, IInv
<1> USE DEF ProcessInv, ScanWhileBooting, NobodyAtWork, ClosedQueuesIdle, ObserverAlive,
            RestartCounted
<1>2. ASSUME NEW j \in Slots, Work(j) PROVE ProcessInv'
  <2>1. \A k \in Slots \ {j} : jobs'[k] = jobs[k]
    BY <1>1, <1>2, OtherJobs DEF Work
  <2>2. /\ jobs'[j].at \in AvailSteps => jobs[j].at \in {"availQ"} \cup AvailSteps
        /\ jobs'[j].at \in BookingSteps => jobs[j].at \in {"bookingQ"} \cup BookingSteps
        /\ jobs'[j].at \in ResumeSteps => jobs[j].at \in {"resumeQ"} \cup ResumeSteps
    BY <1>1, <1>2, JobOfQueue DEF Work
  <2>3. closed \in 0..3
    BY <1>1 DEF MaintenanceRecords
  <2>4. ClosedQueuesIdle'
    BY <1>1, <1>2, <2>1, <2>2, <2>3 DEF Work, Serving, At
  <2>5. QED
    BY <1>1, <1>2, <2>4 DEF Work, Serving, preparation
<1>3. ASSUME UNCHANGED <<life, closed, scan, restarts>>,
             login' = login \/ login'.at = "queued" \/ login'.at = "over",
             \A j \in Slots : jobs'[j] # jobs[j] => jobs'[j].at \in Queues
      PROVE  ProcessInv'
  BY <1>1, <1>3 DEF Queues, AvailSteps, BookingSteps, ResumeSteps
<1>4. CASE Request
  <2>1. \A j \in Slots : jobs'[j] # jobs[j] => jobs'[j].at \in Queues
    BY <1>1, <1>4, ApiMoves DEF Request, Queues
  <2>2. QED
    BY <1>3, <1>4, <2>1 DEF Request, maintenance, preparation
<1>5. CASE StartPrepared
  <2>1. \A j \in Slots : jobs'[j] # jobs[j] => jobs'[j].at \in Queues
    BY <1>1, <1>5, JobGoes DEF StartPrepared, Enqueue, Successor, NewJob, Queues, TypeOK
  <2>2. QED
    BY <1>3, <1>5, <2>1 DEF StartPrepared, preparation
<1>6. CASE PrepareLogin \/ RecordLogin
  BY <1>1, <1>3, <1>6 DEF PrepareLogin, RecordLogin, MaintenanceRecords
<1>7. CASE OpenForLogin \/ Observe
  BY <1>1, <1>7 DEF OpenForLogin, Observe, vars, MaintenanceRecords
<1>8. CASE \/ PassThreshold \/ Cleanup \/ Detect \/ Recheck \/ Flag \/ TickFails
           \/ \E i \in DOMAIN sessions : PassExpiry(i)
  BY <1>3, <1>8 DEF PassThreshold, Cleanup, Detect, Recheck, Flag, TickFails, PassExpiry,
                    preparation, vars
<1>9. CASE Shutdown
  BY <1>1, <1>9 DEF Shutdown, preparation, vars, MaintenanceRecords
<1>10. CASE CloseQueue
  <2>1. /\ closed = 0 => \A j \in Slots : jobs[j].at \notin AvailSteps
        /\ closed = 1 => \A j \in Slots : jobs[j].at \notin BookingSteps
        /\ closed = 2 => \A j \in Slots : jobs[j].at \notin ResumeSteps
    BY <1>10 DEF CloseQueue, StepsOf
  <2>2. closed \in 0..3
    BY <1>1 DEF MaintenanceRecords
  <2>3. ClosedQueuesIdle'
    BY <1>1, <1>10, <2>1, <2>2 DEF CloseQueue, vars
  <2>4. QED
    BY <1>1, <1>10, <2>3 DEF CloseQueue, vars, preparation
<1>11. CASE Exit
  <2>1. \A j \in Slots : jobs[j].at \in Step
    BY <1>1 DEF TypeOK, Job
  <2>2. \A j \in Slots : jobs[j].at \in {"free"} \cup Queues
    BY <1>1, <1>11, <2>1 DEF Exit, Step
  <2>3. login'.at \notin {"watching", "seen"}
    BY <1>11 DEF Exit, ForgetObserver
  <2>4. QED
    BY <1>1, <1>11, <2>2, <2>3 DEF Exit
<1>12. CASE Die
  <2>1. \A j \in Slots : jobs'[j].at \in {"free"} \cup Queues
    BY <1>1, <1>12, CrashMoves DEF Die
  <2>2. login'.at \notin {"watching", "seen"}
    BY <1>12 DEF Die, ForgetObserver
  <2>3. QED
    BY <1>12, <2>1, <2>2 DEF Die
<1>13. CASE Boot \/ NotifyLost \/ OpenQueues
  BY <1>1, <1>13 DEF Boot, NotifyLost, OpenQueues, vars, preparation, NoScan
<1>14. ASSUME NEW i \in Sessions, NEW expired \in BOOLEAN, Recover(i, expired) PROVE ProcessInv'
  BY <1>1, <1>14 DEF Recover, preparation, NoScan
<1>15. CASE UNCHANGED allVars
  BY <1>1, <1>15 DEF allVars, vars, maintenance, preparation
<1>16. QED
  BY <1>2, <1>4, <1>5, <1>6, <1>7, <1>8, <1>9, <1>10, <1>11, <1>12, <1>13, <1>14, <1>15
  DEF MaintenanceNext, ManualLogin, Tick, Process

-----------------------------------------------------------------------------
(* Sessions that were given up                                             *)

KeptAfter(i) == i \in DOMAIN sessions' /\ sessions'[i].st # "LOST"

\* What was read and may still be written is not given up meanwhile: nobody is
\* at work, and no observer waits, while the recovery gives sessions up.
LEMMA KeptKept == MaintenanceInv /\ [MaintenanceNext]_allVars => KeptInv'
<1> SUFFICES ASSUME MaintenanceInv, [MaintenanceNext]_allVars PROVE KeptInv'
  OBVIOUS
<1>1. /\ KeptInv /\ ProcessInv /\ MaintenanceRecords /\ TypeOK /\ SessionsTyped
      /\ DOMAIN sessions \subseteq Sessions
  BY DEF MaintenanceInv, IInv, TypeOK, SessionsTyped, Sessions
<1>2. SessionsGoOn /\ LostByRecovery
  BY SessionSteps
<1>3. \A i : Kept(i) => KeptAfter(i) \/ GivesUp(i)
  BY <1>2 DEF SessionsGoOn, LostByRecovery, Kept, KeptAfter
<1>4. \A i : GivesUp(i) => /\ life = "booting" /\ UNCHANGED <<jobs, login>>
                          /\ \E e \in BOOLEAN : /\ <<i, e>> \in scan.todo
                                               /\ scan'.todo = scan.todo \ {<<i, e>>}
  BY <1>1 DEF GivesUp, Recover, ProcessInv, ScanWhileBooting, NoScan, preparation,
              MaintenanceRecords
<1>5. JobSessionsKept'
  <2>1. ASSUME NEW j \in Slots, jobs'[j].at \in Loaded PROVE Kept(jobs'[j].sess)
    <3>1. CASE jobs'[j] = jobs[j]
      BY <1>1, <2>1, <3>1 DEF KeptInv, JobSessionsKept
    <3>2. CASE jobs'[j] # jobs[j]
      <4>1. ASSUME NEW k \in Slots, Work(k) PROVE k = j
        BY <1>1, <3>2, <4>1, OtherJobs DEF Work
      <4>2. CASE Work(j)
        BY <1>1, <2>1, <4>2, JobLoads DEF Work, KeptInv
      <4>3. CASE Request
        BY <1>1, <2>1, <3>2, <4>3, ApiMoves DEF Request, Loaded
      <4>4. CASE StartPrepared
        BY <1>1, <2>1, <3>2, <4>4, JobGoes
        DEF StartPrepared, Enqueue, Successor, NewJob, Loaded, TypeOK
      <4>5. CASE Die
        BY <1>1, <2>1, <4>5, CrashMoves DEF Die, Loaded, Queues
      <4>6. CASE UNCHANGED jobs
        BY <3>2, <4>6
      <4>7. QED
        BY <4>1, <4>2, <4>3, <4>4, <4>5, <4>6
        DEF MaintenanceNext, ManualLogin, PrepareLogin, OpenForLogin, Observe, RecordLogin,
            PassThreshold, Tick, Cleanup, Detect, Recheck, Flag, TickFails, PassExpiry, Shutdown,
            Process, CloseQueue, Exit, Boot, NotifyLost, OpenQueues, Recover, allVars, vars
    <3>3. QED
      BY <3>1, <3>2
  <2>2. ASSUME NEW j \in Slots, jobs'[j].at \in Loaded PROVE KeptAfter(jobs'[j].sess)
    <3>1. CASE GivesUp(jobs'[j].sess)
      <4>1. life = "booting" /\ jobs' = jobs
        BY <1>4, <3>1
      <4>2. QED
        BY <1>1, <2>2, <4>1 DEF ProcessInv, NobodyAtWork, Loaded, Queues
    <3>2. CASE ~GivesUp(jobs'[j].sess)
      <4>1. Kept(jobs'[j].sess)
        BY <2>1, <2>2
      <4>2. QED
        BY <1>3, <3>2, <4>1
    <3>3. QED
      BY <3>1, <3>2
  <2>3. QED
    BY <2>2 DEF JobSessionsKept, Kept, KeptAfter
<1>6. SeenSessionKept'
  <2>1. ASSUME login'.at = "seen" PROVE Kept(login'.sess) /\ life \in {"up", "closing"}
    <3>1. CASE login' = login
      BY <1>1, <2>1, <3>1 DEF KeptInv, SeenSessionKept, ProcessInv, ObserverAlive
    <3>2. CASE Observe
      BY <1>1, <2>1, <3>2, ActiveIsKept DEF Observe, ProcessInv, ObserverAlive
    <3>3. CASE PrepareLogin \/ OpenForLogin \/ RecordLogin
      BY <1>1, <2>1, <3>3 DEF PrepareLogin, OpenForLogin, RecordLogin, MaintenanceRecords
    <3>4. CASE Exit \/ Die
      BY <1>1, <2>1, <3>4 DEF Exit, Die, ForgetObserver, KeptInv, SeenSessionKept, ProcessInv,
                              ObserverAlive
    <3>5. QED
      BY <3>1, <3>2, <3>3, <3>4
      DEF MaintenanceNext, Work, Request, ManualLogin, StartPrepared, PassThreshold, Tick,
          Cleanup, Detect, Recheck, Flag, TickFails, PassExpiry, Shutdown, Process, CloseQueue,
          Boot, NotifyLost, OpenQueues, Recover, allVars, maintenance, preparation
  <2>2. login'.at = "seen" => ~GivesUp(login'.sess)
    BY <1>4, <2>1
  <2>3. QED
    BY <1>3, <2>1, <2>2 DEF SeenSessionKept, Kept, KeptAfter
<1>7. ScannedSessionsKept'
  <2>1. CASE UNCHANGED scan
    <3>1. ASSUME NEW p \in scan.todo PROVE KeptAfter(p[1])
      <4>1. ~GivesUp(p[1])
        BY <1>4, <2>1
      <4>2. QED
        BY <1>1, <1>3, <4>1 DEF KeptInv, ScannedSessionsKept
    <3>2. QED
      BY <1>1, <2>1, <3>1 DEF KeptInv, ScannedSessionsKept, Kept, KeptAfter
  <2>2. CASE Boot
    <3>1. scan'.todo = {<<i, i \in late>> : i \in {k \in DOMAIN sessions : Open(k)}}
      BY <2>2 DEF Boot
    <3>2. UNCHANGED sessions
      BY <2>2 DEF Boot, vars
    <3>3. \A p \in scan'.todo : Open(p[1]) /\ p[2] = (p[1] \in late)
      BY <3>1
    <3>4. \A p \in scan'.todo : Kept(p[1])'
      BY <3>2, <3>3 DEF Kept, Open
    <3>5. ASSUME NEW i \in Sessions, <<i, TRUE>> \in scan'.todo, <<i, FALSE>> \in scan'.todo
          PROVE  FALSE
      BY <3>3, <3>5
    <3>6. QED
      BY <3>4, <3>5 DEF ScannedSessionsKept
  <2>3. CASE NotifyLost
    BY <1>1, <2>3 DEF NotifyLost, vars, KeptInv, ScannedSessionsKept, Kept, MaintenanceRecords
  <2>4. CASE Die
    BY <2>4 DEF Die, NoScan, ScannedSessionsKept
  <2>5. ASSUME NEW i \in Sessions, NEW expired \in BOOLEAN, Recover(i, expired)
        PROVE  ScannedSessionsKept'
    <3>1. scan'.todo = scan.todo \ {<<i, expired>>} /\ <<i, expired>> \in scan.todo
      BY <1>1, <2>5 DEF Recover, MaintenanceRecords
    <3>2. \A p \in scan'.todo : p[1] # i
      <4>1. \A p \in scan.todo : p[1] = i => p = <<i, TRUE>> \/ p = <<i, FALSE>>
        <5>1. scan.todo \subseteq Sessions \X BOOLEAN
          BY <1>1 DEF MaintenanceRecords
        <5>2. \A p \in scan.todo : p = <<p[1], p[2]>> /\ p[2] \in BOOLEAN
          BY <5>1
        <5>3. QED
          BY <5>2
      <4>2. QED
        BY <1>1, <3>1, <4>1 DEF KeptInv, ScannedSessionsKept
    <3>3. \A k \in DOMAIN sessions : k # i => sessions'[k] = sessions[k]
      BY <2>5 DEF Recover
    <3>4. \A p \in scan'.todo : Kept(p[1])'
      BY <1>1, <1>2, <3>1, <3>2, <3>3 DEF KeptInv, ScannedSessionsKept, Kept, SessionsGoOn
    <3>5. QED
      BY <1>1, <3>1, <3>4 DEF KeptInv, ScannedSessionsKept
  <2>6. QED
    BY <2>1, <2>2, <2>3, <2>4, <2>5
    DEF MaintenanceNext, Work, Request, ManualLogin, StartPrepared, PrepareLogin, OpenForLogin,
        Observe, RecordLogin, PassThreshold, Tick, Cleanup, Detect, Recheck, Flag, TickFails,
        PassExpiry, Shutdown, Process, CloseQueue, Exit, OpenQueues, allVars, maintenance
<1>8. QED
  BY <1>5, <1>6, <1>7 DEF KeptInv

\* A session that is given up is marked for its notification, told, or its worker
\* died before it told.
LEMMA LostKeptTold == MaintenanceInv /\ [MaintenanceNext]_allVars => LostIsTold'
<1> SUFFICES ASSUME MaintenanceInv, [MaintenanceNext]_allVars PROVE LostIsTold'
  OBVIOUS
<1>1. LostIsTold /\ ProcessInv /\ MaintenanceRecords /\ DOMAIN sessions \subseteq Sessions
  BY DEF MaintenanceInv, IInv, TypeOK, SessionsTyped, Sessions
<1>2. LostByRecovery
  BY SessionSteps
<1>3. ASSUME NEW i \in DOMAIN sessions, i \in told \cup untold \cup {scan.marked},
             ~\E k \in Sessions, expired \in BOOLEAN : Recover(k, expired)
      PROVE  i \in told' \cup untold' \cup {scan'.marked}
  <2>1. i # 0
    BY <1>1 DEF Sessions
  <2>2. CASE UNCHANGED <<told, untold, scan>>
    BY <1>3, <2>2
  <2>3. CASE NotifyLost
    BY <1>3, <2>3 DEF NotifyLost
  <2>4. CASE Die
    BY <1>3, <2>1, <2>4 DEF Die
  <2>5. CASE Boot
    BY <1>1, <1>3, <2>1, <2>5 DEF Boot, ProcessInv, ScanWhileBooting, NoScan
  <2>6. QED
    BY <1>3, <2>2, <2>3, <2>4, <2>5
    DEF MaintenanceNext, Work, Request, ManualLogin, StartPrepared, PrepareLogin, OpenForLogin,
        Observe, RecordLogin, PassThreshold, Tick, Cleanup, Detect, Recheck, Flag, TickFails,
        PassExpiry, Shutdown, Process, CloseQueue, Exit, OpenQueues, allVars, maintenance
<1>4. ASSUME NEW i \in DOMAIN sessions', sessions'[i].st = "LOST"
      PROVE  i \in told' \cup untold' \cup {scan'.marked}
  <2>1. CASE GivesUp(i)
    BY <2>1 DEF GivesUp
  <2>2. CASE ~GivesUp(i)
    <3>1. i \in DOMAIN sessions /\ sessions[i].st = "LOST"
      BY <1>2, <1>4, <2>2 DEF LostByRecovery
    <3>2. i \in told \cup untold \cup {scan.marked} /\ i # 0
      BY <1>1, <3>1 DEF LostIsTold, Sessions
    <3>3. ASSUME NEW k \in Sessions, NEW expired \in BOOLEAN, Recover(k, expired)
          PROVE  i \in told' \cup untold'
      BY <3>2, <3>3 DEF Recover
    <3>4. QED
      BY <1>3, <3>1, <3>2, <3>3
  <2>3. QED
    BY <2>1, <2>2
<1>5. QED
  BY <1>4 DEF LostIsTold

-----------------------------------------------------------------------------
(* A session to resume with                                                *)

\* A case that was started keeps a session or the job that creates it.
LEMMA ComingKept == MaintenanceInv /\ [MaintenanceNext]_allVars => SessionComing'
<1> SUFFICES ASSUME MaintenanceInv, [MaintenanceNext]_allVars, faults' = 0, status' # "READY"
             PROVE  Len(sessions') > 0 \/ \E j \in Slots : jobs'[j].at \in {"findSession", "createSession"}
  BY DEF SessionComing
<1>1. /\ TypeOK /\ SessionsTyped /\ SessionComing /\ faults \in Nat
      /\ DOMAIN sessions = 1..Len(sessions) /\ Len(sessions) \in Nat
  BY DEF MaintenanceInv, IInv, TypeOK, SessionsTyped
<1>2. /\ DOMAIN sessions \subseteq DOMAIN sessions'
      /\ DOMAIN sessions' = 1..Len(sessions') /\ Len(sessions') \in Nat
  BY SessionSteps, PipelineKept DEF SessionsGoOn, IInv, SessionsTyped
<1>3. Len(sessions) > 0 => Len(sessions') > 0
  <2>1. Len(sessions) > 0 => 1 \in DOMAIN sessions'
    BY <1>1, <1>2
  <2>2. QED
    BY <1>2, <2>1
<1>4. ASSUME NEW j \in Slots, Work(j)
      PROVE  Len(sessions') > 0 \/ \E k \in Slots : jobs'[k].at \in {"findSession", "createSession"}
  <2>1. JobStep(j) /\ UNCHANGED faults
    <3>1. ~Throw(j)
      BY <1>1 DEF Throw
    <3>2. UNCHANGED faults
      BY <1>4, <3>1
      DEF Work, JobStep, AvailStep, AvailLoad, BeginAuth, FindSession, CreateSession,
          Authenticate, AuthHuman, FindCheckpoint, RecordCheckpoint, InspectHuman, AuthFailed,
          EnterMode, CheckAvailability, CheckHuman, FindSlot, EnqueueBooking, EnqueueAvail,
          CasStep, others, BookingStep, BookingLoad, ToBooking, BeginBooking, BeginLost, ToAdding,
          AddApplicants, AddHuman, ToSelected, SelectAppointment, SelectLost, GetPaymentState,
          PayHuman, ToPayment, FindHandoff, HandOffSession, CreateHandoff, ResumeStep, ResumeLoad,
          FindActive, ResumeAdapter, ToTarget, EnqueueResumed, CheckPaid, ToProcessing,
          GetConfirmation, ToConfirmed, CompleteSession
    <3>3. QED
      BY <1>4, <3>1, <3>2 DEF Work
  <2>2. \A k \in Slots \ {j} : jobs'[k] = jobs[k]
    BY <1>1, <2>1, OtherJobs
  <2>3. /\ status = "READY" => jobs'[j].at = "findSession"
        /\ jobs[j].at \in {"findSession", "createSession"} =>
             jobs'[j].at = "createSession" \/ Len(sessions') > 0
    BY <1>1, <2>1, JobBrings
  <2>4. QED
    BY <1>1, <1>3, <2>1, <2>2, <2>3 DEF SessionComing
<1>5. ASSUME UNCHANGED status, faults = 0,
             \A j \in Slots : jobs'[j] # jobs[j] => jobs[j].at = "free"
      PROVE  Len(sessions') > 0 \/ \E k \in Slots : jobs'[k].at \in {"findSession", "createSession"}
  BY <1>1, <1>3, <1>5 DEF SessionComing
<1>6. CASE Request
  BY <1>1, <1>5, <1>6, ApiMoves DEF Request, caseVars, others
<1>7. CASE StartPrepared
  <2>1. \A j \in Slots : jobs'[j] # jobs[j] => jobs[j].at = "free"
    BY <1>1, <1>7 DEF StartPrepared, Enqueue, Successor, At, TypeOK
  <2>2. QED
    BY <1>5, <1>7, <2>1 DEF StartPrepared, caseVars
<1>8. CASE Die \/ TickFails
  BY <1>1, <1>8, CrashMoves DEF Die, TickFails
<1>9. CASE RecordLogin
  BY <1>1, <1>5, <1>9 DEF RecordLogin, caseVars
<1>10. CASE ~(Request \/ StartPrepared \/ Die \/ TickFails \/ RecordLogin)
            /\ ~\E j \in Slots : Work(j)
  <2>1. UNCHANGED <<status, jobs, faults>>
    BY <1>10
    DEF MaintenanceNext, ManualLogin, PrepareLogin, OpenForLogin, Observe, PassThreshold, Tick,
        Cleanup, Detect, Recheck, Flag, PassExpiry, Shutdown, Process, CloseQueue, Exit, Boot,
        NotifyLost, OpenQueues, Recover, allVars, vars, caseVars
  <2>2. QED
    BY <1>5, <2>1
<1>11. QED
  BY <1>4, <1>6, <1>7, <1>8, <1>9, <1>10

\* Without a fault, a restart and a login by hand there is one worker, and the
\* sessions are its own.
LEMMA OwnedKept == MaintenanceInv /\ [MaintenanceNext]_allVars => SessionsOwned'
<1> SUFFICES ASSUME MaintenanceInv, [MaintenanceNext]_allVars,
                    faults' = 0, restarts' = 0, login'.at = "unasked"
             PROVE  \A i \in DOMAIN sessions' :
                      sessions'[i].owner = worker' /\ sessions'[i].st # "STARTING"
  BY DEF SessionsOwned
<1>1. /\ TypeOK /\ SessionsTyped /\ SessionsOwned /\ ProcessInv /\ MaintenanceRecords
      /\ faults \in Nat /\ restarts \in Nat
      /\ \A i \in DOMAIN sessions : sessions[i] \in Session
  BY DEF MaintenanceInv, IInv, TypeOK, MaintenanceRecords
<1>2. ASSUME UNCHANGED <<sessions, worker>>, faults = 0, restarts = 0, login.at = "unasked"
      PROVE  \A i \in DOMAIN sessions' :
               sessions'[i].owner = worker' /\ sessions'[i].st # "STARTING"
  BY <1>1, <1>2 DEF SessionsOwned
<1>3. ASSUME NEW j \in Slots, Work(j)
      PROVE  \A i \in DOMAIN sessions' :
               sessions'[i].owner = worker' /\ sessions'[i].st # "STARTING"
  <2>1. restarts = 0 /\ login.at = "unasked"
    BY <1>3 DEF Work, preparation
  <2>2. faults = 0 /\ UNCHANGED worker
    BY <1>1, <1>3
    DEF Work, Throw, JobStep, AvailStep, AvailLoad, BeginAuth, FindSession, CreateSession,
        Authenticate, AuthHuman, FindCheckpoint, RecordCheckpoint, InspectHuman, AuthFailed,
        EnterMode, CheckAvailability, CheckHuman, FindSlot, EnqueueBooking, EnqueueAvail,
        CasStep, others, BookingStep, BookingLoad, ToBooking, BeginBooking, BeginLost, ToAdding,
        AddApplicants, AddHuman, ToSelected, SelectAppointment, SelectLost, GetPaymentState,
        PayHuman, ToPayment, FindHandoff, HandOffSession, CreateHandoff, ResumeStep, ResumeLoad,
        FindActive, ResumeAdapter, ToTarget, EnqueueResumed, CheckPaid, ToProcessing,
        GetConfirmation, ToConfirmed, CompleteSession
  <2>3. /\ \A i \in DOMAIN sessions :
              sessions'[i] # sessions[i] => /\ sessions'[i].st # "STARTING"
                                           /\ sessions'[i].owner = sessions[i].owner
        /\ \A i \in DOMAIN sessions' \ DOMAIN sessions :
              sessions'[i].st = "ACTIVE" /\ sessions'[i].owner = worker
    BY <1>1, <1>3, JobWrites DEF Work
  <2>4. QED
    BY <1>1, <2>1, <2>2, <2>3 DEF SessionsOwned
<1>4. CASE Request \/ PassThreshold \/ Detect \/ Recheck \/ Flag \/ CloseQueue \/ Boot
           \/ NotifyLost \/ OpenQueues \/ UNCHANGED allVars
           \/ \E i \in DOMAIN sessions : PassExpiry(i)
  <2>1. UNCHANGED <<sessions, worker, faults, restarts, login>>
    BY <1>4
    DEF Request, StartAutomation, ResumeAutomation, others, PassThreshold, Detect, Recheck, Flag,
        CloseQueue, Boot, NotifyLost, OpenQueues, PassExpiry, allVars, vars, maintenance,
        preparation
  <2>2. QED
    BY <1>2, <2>1
<1>5. CASE StartPrepared \/ Cleanup \/ \E i \in Sessions, expired \in BOOLEAN : Recover(i, expired)
  <2>1. UNCHANGED <<worker, faults, restarts, login>>
    BY <1>5 DEF StartPrepared, Cleanup, Recover, preparation
  <2>2. Rewritten
    BY <1>5, MaintenanceRewrites
  <2>3. /\ DOMAIN sessions' = DOMAIN sessions
        /\ \A i \in DOMAIN sessions : sessions'[i].st # "STARTING" \/ sessions'[i].st = sessions[i].st
    <3>1. CASE StartPrepared
      <4>1. \A i \in DOMAIN sessions :
              sessions'[i].st = (IF i = ActiveIndex THEN "ACTIVE" ELSE sessions[i].st)
        BY <1>1, <3>1 DEF StartPrepared, Session
      <4>2. QED
        BY <3>1, <4>1 DEF StartPrepared
    <3>2. CASE Cleanup
      <4>1. \A i \in DOMAIN sessions :
              sessions'[i].st = sessions[i].st \/ sessions'[i].st = "EXPIRED"
        BY <1>1, <3>2 DEF Cleanup, Expire, Session
      <4>2. QED
        BY <3>2, <4>1 DEF Cleanup, Expire
    <3>3. ASSUME NEW k \in Sessions, NEW expired \in BOOLEAN, Recover(k, expired)
          PROVE  /\ DOMAIN sessions' = DOMAIN sessions
                 /\ \A i \in DOMAIN sessions :
                      sessions'[i].st # "STARTING" \/ sessions'[i].st = sessions[i].st
      BY <1>1, <3>3 DEF Recover, Session
    <3>4. QED
      BY <1>5, <3>1, <3>2, <3>3
  <2>4. QED
    BY <1>1, <2>1, <2>2, <2>3 DEF SessionsOwned, Rewritten
<1>6. CASE PrepareLogin \/ OpenForLogin \/ Observe \/ RecordLogin
  BY <1>1, <1>6 DEF PrepareLogin, OpenForLogin, Observe, RecordLogin, MaintenanceRecords
<1>7. CASE Shutdown \/ Exit \/ Die \/ TickFails
  <2>1. Exit => restarts' > 0
    BY <1>1 DEF Exit, ProcessInv, RestartCounted
  <2>2. Die => faults' > 0
    BY <1>1 DEF Die, CrashWorker
  <2>3. QED
    BY <1>1, <1>7, <2>1, <2>2 DEF Shutdown, TickFails
<1>8. QED
  BY <1>3, <1>4, <1>5, <1>6, <1>7 DEF MaintenanceNext, ManualLogin, Tick, Process

-----------------------------------------------------------------------------
(* The theorems                                                            *)

\* Nothing has been started, lost or recovered yet.
LEMMA MaintenanceInitInv == MaintenanceInit => MaintenanceInv
<1> SUFFICES ASSUME MaintenanceInit PROVE MaintenanceInv
  OBVIOUS
<1>1. IInv /\ Init
  BY PipelineInit DEF MaintenanceInit
<1>2. sessions = <<>> /\ DOMAIN sessions = {} /\ status = "READY"
  BY <1>1 DEF Init
<1>3. \A j \in Slots : jobs[j].at = "free"
  BY <1>1 DEF Init, NoJob
<1>4. MaintenanceRecords
  <2>1. aged \in BOOLEAN /\ flagged \in BOOLEAN
    BY Zenon DEF MaintenanceInit
  <2>2. /\ late \subseteq DOMAIN sessions /\ prepared \subseteq DOMAIN sessions
        /\ told \subseteq Sessions /\ untold \subseteq Sessions
        /\ life \in {"down", "booting", "up", "closing"}
    BY Zenon DEF MaintenanceInit
  <2>3. closed \in 0..3 /\ restarts \in 0..MaxRestarts
    <3>1. closed = 0 /\ restarts = 0
      BY DEF MaintenanceInit
    <3>2. QED
      BY <3>1
  <2>4. tick \in [at : {"idle", "detect", "recheck", "flag"}, read : Status \cup {"none"}]
    BY DEF MaintenanceInit, NoTick
  <2>5. scan \in [todo : SUBSET (Sessions \X BOOLEAN), marked : {0} \cup Sessions]
    BY DEF MaintenanceInit, NoScan
  <2>6. login \in [at : {"unasked", "queued", "watching", "seen", "over"},
                   sess : {0} \cup DOMAIN sessions]
    BY DEF MaintenanceInit, NoLogin
  <2>7. QED
    BY <2>1, <2>2, <2>3, <2>4, <2>5, <2>6, Zenon DEF MaintenanceRecords
<1>5. ProcessInv
  BY DEF MaintenanceInit, ProcessInv, ScanWhileBooting, NobodyAtWork, ClosedQueuesIdle,
         ObserverAlive, RestartCounted, NoLogin
<1>6. KeptInv
  BY <1>3 DEF MaintenanceInit, KeptInv, JobSessionsKept, SeenSessionKept, ScannedSessionsKept,
              NoLogin, NoScan, Loaded
<1>7. LostIsTold /\ SessionComing /\ SessionsOwned
  BY <1>2 DEF LostIsTold, SessionComing, SessionsOwned
<1>8. QED
  BY <1>1, <1>4, <1>5, <1>6, <1>7 DEF MaintenanceInv

\* The invariant of the worker process around the pipeline.
THEOREM MaintenanceInvariant == MaintenanceSpec => []MaintenanceInv
<1>1. MaintenanceInv /\ [MaintenanceNext]_allVars => MaintenanceInv'
  BY PipelineKept, RecordsKept, ProcessKept, KeptKept, LostKeptTold, ComingKept, OwnedKept
  DEF MaintenanceInv
<1>2. QED
  BY <1>1, MaintenanceInitInv, PTL DEF MaintenanceSpec

\* Every variable of the worker process keeps its type (worker-bootstrap.ts and
\* the maintenance jobs): what is read later by id is a session of the case.
THEOREM MaintenanceTypeInvariant == MaintenanceSpec => []MaintenanceTypeOK
<1>1. MaintenanceInv => MaintenanceTypeOK
  BY DEF MaintenanceInv, IInv, MaintenanceRecords, MaintenanceTypeOK
<1>2. QED
  BY <1>1, MaintenanceInvariant, PTL

\* The pipeline keeps its promises with restarts, maintenance and logins by hand
\* around it: a slot is begun once, a completed session belongs to a confirmed
\* case, and a case that authenticates or monitors is attended.
THEOREM PipelineSurvivesMaintenance ==
  MaintenanceSpec => [](BookingBegunOnce /\ CompletedIsConfirmed /\ MonitoringAttended)
<1>1. MaintenanceInv => BookingBegunOnce /\ CompletedIsConfirmed
  BY DEF MaintenanceInv, IInv, BegunFits, BookingBegunOnce
<1>2. MaintenanceInv => MonitoringAttended
  BY DEF MaintenanceInv, IInv, SomeAttend, MonitoringAttended, Attended, AvailJob, AttendsAuth,
         AttendsMonitoring, AvailSteps
<1>3. QED
  BY <1>1, <1>2, MaintenanceInvariant, PTL

\* A session the start-up recovery gave up has its SESSION_LOST notification, or
\* is the one to be notified next, or its worker died in between
\* (SessionRecoveryService).
THEOREM LostSessionIsTold == MaintenanceSpec => []LostIsTold
<1>1. MaintenanceInv => LostIsTold
  BY DEF MaintenanceInv
<1>2. QED
  BY <1>1, MaintenanceInvariant, PTL

\* What the recovery gave up stays given up (SessionRecoveryService against every
\* other writer of AutomationSession): no id read before it is written after it.
THEOREM RecoveredStaysLost == MaintenanceSpec => RecoveryIsFinal
<1>1. MaintenanceInv /\ [MaintenanceNext]_allVars =>
        [\A i \in DOMAIN sessions : sessions[i].st = "LOST" => sessions'[i].st = "LOST"]_allVars
  BY SessionSteps DEF SessionsGoOn
<1>2. QED
  BY <1>1, MaintenanceInvariant, PTL DEF MaintenanceSpec, RecoveryIsFinal

\* A case at its human checkpoint has a session of the running worker to go on
\* with, unless time, a fault, a restart or a login by hand took it
\* (resumeAutomation and SessionResumeWorker).
THEOREM CheckpointResumes == MaintenanceSpec => []CheckpointCanBeResumed
<1>1. ASSUME MaintenanceInv, status = HVR, ~(\E i \in Resumable : sessions[i].owner = worker),
             ~\E i \in DOMAIN sessions : sessions[i].st \in {"EXPIRED", "LOST"},
             ~\E j \in Slots : jobs[j].at \notin {"free"} \cup Queues,
             ~(faults > 0 \/ restarts > 0 \/ login.at # "unasked")
      PROVE  FALSE
  <2>1. /\ faults = 0 /\ restarts = 0 /\ login.at = "unasked"
        /\ Len(sessions) \in Nat /\ DOMAIN sessions = 1..Len(sessions)
        /\ \A i \in DOMAIN sessions : sessions[i] \in Session
    BY <1>1 DEF MaintenanceInv, IInv, TypeOK, SessionsTyped, MaintenanceRecords
  <2>2. \A j \in Slots : jobs[j].at \notin {"findSession", "createSession"}
    BY <1>1 DEF Queues
  <2>3. Len(sessions) > 0
    BY <1>1, <2>1, <2>2 DEF MaintenanceInv, SessionComing, HVR
  <2>4. 1 \in DOMAIN sessions
    BY <2>1, <2>3
  <2>5. sessions[1].owner = worker /\ sessions[1].st # "STARTING"
    BY <1>1, <2>1, <2>4 DEF MaintenanceInv, SessionsOwned
  <2>6. sessions[1].st # "COMPLETED"
    BY <1>1, <2>4 DEF MaintenanceInv, IInv, CompletedIsConfirmed, HVR
  <2>7. sessions[1].st \in ActiveSession \cup EndedSession
    BY <2>1, <2>4 DEF Session
  <2>8. 1 \in Resumable
    BY <1>1, <2>4, <2>5, <2>6, <2>7 DEF Resumable, ActiveSession, EndedSession
  <2>9. QED
    BY <1>1, <2>5, <2>8
<1>2. MaintenanceInv => CheckpointCanBeResumed
  BY <1>1 DEF CheckpointCanBeResumed
<1>3. QED
  BY <1>2, MaintenanceInvariant, PTL
=============================================================================

------------------------- MODULE WorkerMaintenance -------------------------
(***************************************************************************)
(* The life of the worker process around the jobs of WorkerPipeline        *)
(* (apps/worker/src/worker-bootstrap.ts): the recovery of sessions before  *)
(* its queues are opened, the maintenance jobs of every minute, and the    *)
(* graceful shutdown that closes the queues one after the other; and the   *)
(* session of a case whose login the operator makes by hand, which the API *)
(* creates and an observer in the worker marks when it sees the login.     *)
(*                                                                         *)
(* Time is abstract: a session may pass its expiresAt and a case the       *)
(* threshold of its status at any moment.  createHandoff is given no       *)
(* deadlineAt by its only caller, so PaymentExpiryJob finds nothing and is *)
(* not a step here.  One tick of the interval is over before the next.     *)
(***************************************************************************)
EXTENDS WorkerPipeline

CONSTANTS MaxRestarts,  \* bound on graceful restarts
          MaxPrepares   \* bound on logins prepared: 0 or 1

ASSUME MaintenanceBounds == MaxRestarts \in Nat /\ MaxPrepares \in 0..1

VARIABLES
  late,      \* sessions past their expiresAt
  aged,      \* the case is in its status for longer than the threshold
  life,      \* of the worker process
  closed,    \* queues the shutdown has closed
  tick,      \* the maintenance under way, with the status it read
  scan,      \* the recovery under way: sessions to go, and the one it marked
  told,      \* SESSION_LOST notifications, by session
  untold,    \* history: sessions the worker marked LOST and died
  flagged,   \* STUCK_CASE was sent since the case entered its status
  restarts,  \* graceful restarts so far
  prepared,  \* sessions whose checkpoint says that a login was prepared
  login      \* the prepare-login job and its observer, with what it found

preparation == <<prepared, login>>
maintenance == <<late, aged, life, closed, tick, scan, told, untold, flagged, restarts,
                 preparation>>
allVars == <<vars, maintenance>>

NoTick == [at |-> "idle", read |-> "none"]
NoLogin == [at |-> "unasked", sess |-> 0]
\* the workerId of the sessions the API creates, of no worker process
ApiWorker == 0
NoScan == [todo |-> {}, marked |-> 0]
Sessions == 1..MaxSessions
Threatened == {"AUTHENTICATING", "BOOKING", "ADDING_APPLICANTS", "APPOINTMENT_SELECTED",
               "PAYMENT_PROCESSING"}

\* The statuses that recovery and cleanup look for
Open(i) == i \in DOMAIN sessions /\ sessions[i].st \in {"ACTIVE", "HUMAN_ACTION_REQUIRED"}

MaintenanceTypeOK ==
  /\ TypeOK
  /\ late \subseteq DOMAIN sessions /\ aged \in BOOLEAN
  /\ life \in {"down", "booting", "up", "closing"} /\ closed \in 0..3
  /\ tick.at \in {"idle", "detect", "recheck", "flag"}
  /\ scan.todo \subseteq Sessions \X BOOLEAN /\ scan.marked \in {0} \cup Sessions
  /\ told \cup untold \subseteq Sessions /\ flagged \in BOOLEAN
  /\ restarts \in 0..MaxRestarts
  /\ prepared \subseteq DOMAIN sessions
  /\ login.at \in {"unasked", "queued", "watching", "seen", "over"}
  /\ login.sess \in {0} \cup DOMAIN sessions

MaintenanceInit ==
  /\ Init
  /\ late = {} /\ aged = FALSE
  /\ life = "up" /\ closed = 0
  /\ tick = NoTick /\ scan = NoScan
  /\ told = {} /\ untold = {} /\ flagged = FALSE
  /\ restarts = 0
  /\ prepared = {} /\ login = NoLogin

-----------------------------------------------------------------------------
(* The pipeline in a worker that is up                                     *)

\* a change of the case's status renews its updatedAt
Age ==
  /\ aged' = (aged /\ status' = status)
  /\ flagged' = (flagged /\ status' = status)

\* Mutant: the queues are open while the sessions are recovered.
ServingAlways(j) == life # "down"

\* the queue that is being closed gives out no job, and those closed before
Serving(j) ==
  /\ life \in {"up", "closing"}
  /\ life = "closing" => /\ ~At(j, "availQ")
                         /\ closed >= 1 => ~At(j, "bookingQ")
                         /\ closed >= 2 => ~At(j, "resumeQ")

Work(j) ==
  /\ Serving(j)
  /\ JobStep(j) \/ Throw(j)
  /\ Age
  /\ UNCHANGED <<late, life, closed, tick, scan, told, untold, restarts, preparation>>

Request ==
  /\ StartAutomation \/ ResumeAutomation
  /\ UNCHANGED maintenance

\* startAutomation with a session under way, if it was prepared: it is renewed
StartPrepared ==
  /\ status = "READY"
  /\ ActiveIndex \in prepared
  /\ Enqueue("availQ")
  /\ sessions' = [sessions EXCEPT ![ActiveIndex].st = "ACTIVE"]
  /\ late' = late \ {ActiveIndex}
  /\ UNCHANGED <<caseVars, mode, handoffs, worker, faults, begun, ended,
                 aged, life, closed, tick, scan, told, untold, flagged, restarts, preparation>>

PassExpiry(i) ==
  /\ i \notin late /\ sessions[i].st \in ActiveSession \ {"PAYMENT_HANDOFF"}
  /\ late' = late \cup {i}
  /\ UNCHANGED <<vars, aged, life, closed, tick, scan, told, untold, flagged, restarts, preparation>>

PassThreshold ==
  /\ status \in Threatened /\ ~aged
  /\ aged' = TRUE
  /\ UNCHANGED <<vars, late, life, closed, tick, scan, told, untold, flagged, restarts, preparation>>

-----------------------------------------------------------------------------
(* A login made by hand                                                    *)

\* The page of a case offers it in READY, and may show READY still when the case
\* went on; asked later than that, it is not explored
LoginAwaited == status \in {"READY", "AUTHENTICATING", HVR}

\* prepareLoginSession of the API looks at no status: the latest open session is
\* renewed and, unless it is ACTIVE, set to STARTING; its checkpoint is kept
Preparable ==
  {i \in DOMAIN sessions : sessions[i].st \in {"STARTING", "ACTIVE", "HUMAN_ACTION_REQUIRED"}}

PrepareLogin ==
  /\ login.at = "unasked" /\ MaxPrepares = 1 /\ LoginAwaited
  /\ login' = [login EXCEPT !.at = "queued"]
  /\ \/ /\ Preparable = {} /\ Len(sessions) < MaxSessions
        /\ sessions' = Append(sessions,
             [st |-> "STARTING", resume |-> NoTarget, owner |-> ApiWorker])
        /\ prepared' = prepared \cup {Len(sessions) + 1}
        /\ UNCHANGED late
     \/ \E i \in Preparable :
        /\ \A k \in Preparable : k <= i
        /\ sessions' = [sessions EXCEPT ![i].st = IF @ = "ACTIVE" THEN @ ELSE "STARTING"]
        /\ late' = late \ {i}
        /\ UNCHANGED prepared
  /\ UNCHANGED <<caseVars, mode, handoffs, jobs, worker, faults, begun, ended,
                 aged, life, closed, tick, scan, told, untold, flagged, restarts>>

\* processPrepareLogin opens the login page and starts the observer, or fails
OpenForLogin ==
  /\ login.at = "queued" /\ life = "up"
  /\ \E next \in {"watching", "over"} : login' = [login EXCEPT !.at = next]
  /\ UNCHANGED <<vars, late, aged, life, closed, tick, scan, told, untold, flagged,
                 restarts, prepared>>

\* startAuthObserver: it sees the login and looks for the active session; or the
\* tab is closed, or 25 minutes are over
Observe ==
  /\ login.at = "watching"
  /\ login' \in {[at |-> "over", sess |-> 0]} \cup
                (IF ActiveIndex = 0 THEN {} ELSE {[at |-> "seen", sess |-> ActiveIndex]})
  /\ UNCHANGED <<vars, late, aged, life, closed, tick, scan, told, untold, flagged,
                 restarts, prepared>>

\* ... and writes it by its id, without a look at its status or a new expiresAt;
\* an error is ignored, and the observer has stopped already
RecordLogin ==
  /\ login.at = "seen"
  /\ login' = [at |-> "over", sess |-> 0]
  /\ \/ /\ sessions' = [sessions EXCEPT ![login.sess].st = "ACTIVE"]
        /\ prepared' = prepared \cup {login.sess}
        /\ UNCHANGED faults
     \/ /\ faults < MaxFaults /\ faults' = faults + 1
        /\ UNCHANGED <<sessions, prepared>>
  /\ UNCHANGED <<caseVars, mode, handoffs, jobs, worker, begun, ended,
                 late, aged, life, closed, tick, scan, told, untold, flagged, restarts>>

\* The observer is a timer of the worker process
ForgetObserver ==
  login' = IF login.at \in {"watching", "seen"} THEN [at |-> "over", sess |-> 0] ELSE login

ManualLogin == StartPrepared \/ PrepareLogin \/ OpenForLogin \/ Observe \/ RecordLogin

-----------------------------------------------------------------------------
(* The maintenance interval                                                *)

\* expired-session-cleanup.job.ts runCleanup: one updateMany
Expire(ids) ==
  sessions' = [i \in DOMAIN sessions |->
                 IF i \in ids THEN [sessions[i] EXCEPT !.st = "EXPIRED"] ELSE sessions[i]]

\* Mutant: the cleanup leaves sessions at a human checkpoint alone.
CleanupActive ==
  /\ life = "up" /\ tick.at = "idle"
  /\ Expire({i \in late : sessions[i].st = "ACTIVE"})
  /\ tick' = [NoTick EXCEPT !.at = "detect"]
  /\ UNCHANGED <<caseVars, mode, handoffs, jobs, worker, faults, begun, ended,
                 late, aged, life, closed, scan, told, untold, flagged, restarts, preparation>>

Cleanup ==
  /\ life = "up" /\ tick.at = "idle"
  /\ Expire({i \in late : Open(i)})
  /\ tick' = [NoTick EXCEPT !.at = "detect"]
  /\ UNCHANGED <<caseVars, mode, handoffs, jobs, worker, faults, begun, ended,
                 late, aged, life, closed, scan, told, untold, flagged, restarts, preparation>>

\* stuck-case-recovery.job.ts detectStuckCases: only a candidate in
\* AUTHENTICATING asks for attention; for the others nothing follows
Detect ==
  /\ tick.at = "detect"
  /\ tick' = IF aged /\ status = "AUTHENTICATING"
               THEN [at |-> "recheck", read |-> status] ELSE NoTick
  /\ UNCHANGED <<vars, late, aged, life, closed, scan, told, untold, flagged, restarts, preparation>>

\* Mutant: the case that changed is the one that is not skipped.
RecheckInverted ==
  /\ tick.at = "recheck"
  /\ tick' = IF status # tick.read THEN [tick EXCEPT !.at = "flag"] ELSE NoTick
  /\ UNCHANGED <<vars, late, aged, life, closed, scan, told, untold, flagged, restarts, preparation>>

\* runRecoveryCycle: skip a case that changed, flag it otherwise
Recheck ==
  /\ tick.at = "recheck"
  /\ tick' = IF status = tick.read THEN [tick EXCEPT !.at = "flag"] ELSE NoTick
  /\ UNCHANGED <<vars, late, aged, life, closed, scan, told, untold, flagged, restarts, preparation>>

Flag ==
  /\ tick.at = "flag"
  /\ tick' = NoTick
  /\ flagged' = (flagged \/ status = tick.read)
  /\ UNCHANGED <<vars, late, aged, life, closed, scan, told, untold, restarts, preparation>>

\* the database fails under a step: the tick, or its only candidate, is over
TickFails ==
  /\ life = "up" \/ tick.at # "idle"
  /\ faults < MaxFaults
  /\ faults' = faults + 1
  /\ tick' = NoTick
  /\ UNCHANGED <<caseVars, mode, sessions, handoffs, jobs, worker, begun, ended,
                 late, aged, life, closed, scan, told, untold, flagged, restarts, preparation>>

Tick == Cleanup \/ Detect \/ Recheck \/ Flag

-----------------------------------------------------------------------------
(* Shutdown and start                                                      *)

\* SIGTERM: the interval is cleared; a tick under way goes on
Shutdown ==
  /\ life = "up" /\ restarts < MaxRestarts
  /\ life' = "closing" /\ closed' = 0
  /\ restarts' = restarts + 1
  /\ UNCHANGED <<vars, late, aged, tick, scan, told, untold, flagged, preparation>>

\* worker.close() of BullMQ: it waits for the jobs at work
StepsOf(q) == CASE q = 1 -> AvailSteps [] q = 2 -> BookingSteps [] q = 3 -> ResumeSteps

CloseQueue ==
  /\ life = "closing" /\ closed < 3
  /\ \A j \in Slots : jobs[j].at \notin StepsOf(closed + 1)
  /\ closed' = closed + 1
  /\ UNCHANGED <<vars, late, aged, life, tick, scan, told, untold, flagged, restarts, preparation>>

Exit ==
  /\ life = "closing" /\ closed = 3
  /\ life' = "down" /\ closed' = 0 /\ tick' = NoTick
  /\ worker' = worker + 1
  /\ ForgetObserver
  /\ UNCHANGED <<caseVars, mode, sessions, handoffs, jobs, faults, begun, ended,
                 late, aged, scan, told, untold, flagged, restarts, prepared>>

\* the process dies, or the shutdown meets its deadline with jobs at work
Die ==
  /\ life # "down"
  /\ CrashWorker
  /\ life' = "down" /\ closed' = 0 /\ tick' = NoTick /\ scan' = NoScan
  /\ untold' = untold \cup ({scan.marked} \ {0})
  /\ ForgetObserver
  /\ UNCHANGED <<late, aged, told, flagged, restarts, prepared>>

\* session-recovery.service.ts recoverStartupSessions: reads the sessions of
\* every worker in an open status, and whether each is past its expiry
Boot ==
  /\ life = "down"
  /\ life' = "booting"
  /\ scan' = [todo |-> {<<i, i \in late>> : i \in {k \in DOMAIN sessions : Open(k)}},
              marked |-> 0]
  /\ UNCHANGED <<vars, late, aged, closed, tick, told, untold, flagged, restarts, preparation>>

\* Mutant: the operator is not told of a lost session.
RecoverSilently(i, expired) ==
  /\ scan.marked = 0 /\ <<i, expired>> \in scan.todo
  /\ scan' = [scan EXCEPT !.todo = @ \ {<<i, expired>>}]
  /\ sessions' = [sessions EXCEPT ![i].st =
       IF expired THEN "EXPIRED" ELSE IF @ = "HUMAN_ACTION_REQUIRED" THEN "LOST" ELSE @]
  /\ UNCHANGED <<caseVars, mode, handoffs, jobs, worker, faults, begun, ended,
                 late, aged, life, closed, tick, told, untold, flagged, restarts, preparation>>

\* classifySession and its write; ACTIVE sessions are left as they are
Recover(i, expired) ==
  /\ scan.marked = 0 /\ <<i, expired>> \in scan.todo
  /\ scan' = [scan EXCEPT !.todo = @ \ {<<i, expired>>},
       !.marked = IF ~expired /\ sessions[i].st = "HUMAN_ACTION_REQUIRED" THEN i ELSE 0]
  /\ sessions' = [sessions EXCEPT ![i].st =
       IF expired THEN "EXPIRED" ELSE IF @ = "HUMAN_ACTION_REQUIRED" THEN "LOST" ELSE @]
  /\ UNCHANGED <<caseVars, mode, handoffs, jobs, worker, faults, begun, ended,
                 late, aged, life, closed, tick, told, untold, flagged, restarts, preparation>>

NotifyLost ==
  /\ scan.marked # 0
  /\ told' = told \cup {scan.marked}
  /\ scan' = [scan EXCEPT !.marked = 0]
  /\ UNCHANGED <<vars, late, aged, life, closed, tick, untold, flagged, restarts, preparation>>

\* the queues are opened only after the recovery
OpenQueues ==
  /\ life = "booting" /\ scan = NoScan
  /\ life' = "up"
  /\ UNCHANGED <<vars, late, aged, closed, tick, scan, told, untold, flagged, restarts, preparation>>

Process ==
  \/ CloseQueue \/ Exit \/ Boot \/ NotifyLost \/ OpenQueues
  \/ \E i \in Sessions, expired \in BOOLEAN : Recover(i, expired)

MaintenanceNext ==
  \/ \E j \in Slots : Work(j)
  \/ Request \/ ManualLogin \/ PassThreshold \/ Tick \/ TickFails
  \/ \E i \in DOMAIN sessions : PassExpiry(i)
  \/ Shutdown \/ Die \/ Process

\* The interval fires again and again, a supervisor starts the worker again,
\* and its own steps return; when time passes is left open.
MaintenanceSpec == MaintenanceInit /\ [][MaintenanceNext]_allVars
MaintenanceFairSpec ==
  /\ MaintenanceSpec
  /\ \A j \in Slots : WF_allVars(Work(j))
  /\ WF_allVars(Tick) /\ WF_allVars(Process)

-----------------------------------------------------------------------------
(* Properties                                                              *)

\* A session that the start-up recovery gave up has a SESSION_LOST notification,
\* unless the worker died between the two writes: then nobody is told, as the
\* next start-up does not see the session any more.
LostIsTold ==
  \A i \in DOMAIN sessions :
    sessions[i].st = "LOST" => i \in told \cup untold \cup {scan.marked}

\* What the recovery gave up stays given up: sessions are written by the id a job
\* found earlier, but no such job is at work while the recovery runs.
RecoveryIsFinal ==
  [][\A i \in DOMAIN sessions : sessions[i].st = "LOST" => sessions'[i].st = "LOST"]_allVars

\* A case that waits for a human has a session with which resumeAutomation and
\* the resume job of the running worker go on - or a fault, a restart or time
\* took it, or the API prepared a login in between, whose session is of no
\* worker, and STARTING until the login is seen.  An overlap of jobs, or of jobs
\* and the observer, does not take it.
CheckpointCanBeResumed ==
  status = HVR /\ ~(\E i \in Resumable : sessions[i].owner = worker) =>
    \/ \E i \in DOMAIN sessions : sessions[i].st \in {"EXPIRED", "LOST"}
    \/ \E j \in Slots : jobs[j].at \notin {"free"} \cup Queues
    \/ faults > 0 \/ restarts > 0 \/ login.at # "unasked"

\* No session that is past its expiry stays open, unless it is renewed: neither a
\* tick that fails, a restart nor a job or observer that writes the session again
\* keeps it so.  (One that is STARTING does not count as open.)
LateSessionEnds ==
  \A i \in Sessions :
    (i \in late /\ Open(i)) ~> ~(i \in late /\ Open(i))

\* production-readiness.md:124: a case stuck in AUTHENTICATING is flagged.
StuckLoginIsFlagged ==
  (aged /\ status = "AUTHENTICATING") ~> (flagged \/ status # "AUTHENTICATING")

\* A case that awaits its payment is handed over to a human, whose job it is then:
\* only the session may be gone, with which the handoff is recorded - it expires
\* 30 minutes after it was created and no job renews it.
PaymentIsHandedOver ==
  (status = "PAYMENT_REQUIRED") ~>
    (\/ status # "PAYMENT_REQUIRED" \/ handoffs > 0 \/ faults > 0
     \/ \E i \in DOMAIN sessions : sessions[i].st \in {"EXPIRED", "LOST"})
=============================================================================

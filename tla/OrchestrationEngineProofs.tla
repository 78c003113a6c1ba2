---------------------- MODULE OrchestrationEngineProofs ----------------------
(***************************************************************************)
(* Proofs about OrchestrationEngine, for any set of executions: what one   *)
(* asks for keeps to the lifecycle of the case, a booking is begun once,   *)
(* and under the lock a provider call fits the status.                     *)
(*                                                                         *)
(* The argument: an execution that committed READY -> AUTHENTICATING or    *)
(* SLOT_FOUND -> BOOKING drives the case.  Only it asks for moves out of   *)
(* the statuses it goes through, so there is one driver at a time, and a   *)
(* case that was resumed from a human checkpoint has none ever after.      *)
(***************************************************************************)
EXTENDS OrchestrationEngine, TLAPS

USE NoCheckpointAssumption, MaxCallsAssumption

Asking == {"check", "verify", "commit"}
Resumable == {"AUTHENTICATING", "PAYMENT_REQUIRED"}

\* The moves each method asks for
BookMoves ==
  {<<"SLOT_FOUND", "BOOKING">>, <<"BOOKING", "SLOT_LOST">>,
   <<"BOOKING", "ADDING_APPLICANTS">>, <<"ADDING_APPLICANTS", "APPOINTMENT_SELECTED">>,
   <<"APPOINTMENT_SELECTED", HVR>>, <<"APPOINTMENT_SELECTED", "PAYMENT_REQUIRED">>,
   <<"PAYMENT_REQUIRED", "PAYMENT_PROCESSING">>, <<"PAYMENT_PROCESSING", "CONFIRMED">>}
AuthMoves ==
  {<<"READY", "AUTHENTICATING">>, <<"AUTHENTICATING", HVR>>, <<"AUTHENTICATING", "FAILED">>,
   <<"AUTHENTICATING", "MONITORING">>, <<"AUTHENTICATING", "WAITING_QUEUE">>}
BookCalls == {"BOOKING", "ADDING_APPLICANTS", "APPOINTMENT_SELECTED", "PAYMENT_REQUIRED",
              "PAYMENT_PROCESSING"}

AuthRequest(e) ==
  /\ pc[e] \in {"idle", "check", "commit", "call"}
  /\ pc[e] \in Asking => <<want[e].from, want[e].to>> \in AuthMoves
  /\ pc[e] = "call" => want[e].to = "AUTHENTICATING"
AvailRequest(e) ==
  /\ pc[e] \in {"idle", "guard", "load", "call", "check", "commit"}
  /\ pc[e] \in Asking => want[e].to = "SLOT_FOUND"
  /\ pc[e] = "commit" => want[e].from \in {"MONITORING", "WAITING_QUEUE"}
BookRequest(e) ==
  /\ pc[e] \in {"idle", "guard", "load", "check", "commit", "call"}
  /\ pc[e] \in Asking => <<want[e].from, want[e].to>> \in BookMoves
  /\ pc[e] = "call" => want[e].to \in BookCalls
ResumeRequest(e) ==
  /\ pc[e] \in PC
  /\ pc[e] \in Asking => want[e].from = HVR /\ want[e].to \in Resumable

\* A move to the human checkpoint names its target; no other move does.
TargetOf(from, to) ==
  IF to # HVR THEN NoCheckpoint
  ELSE IF from = "AUTHENTICATING" THEN "AUTHENTICATING" ELSE "PAYMENT_REQUIRED"
NamesTarget(e) ==
  pc[e] \in Asking => want[e].resume = TargetOf(want[e].from, want[e].to)

RequestFits(e) ==
  /\ kind[e] = "auth" => AuthRequest(e)
  /\ kind[e] = "avail" => AvailRequest(e)
  /\ kind[e] = "book" => BookRequest(e)
  /\ kind[e] = "resume" => ResumeRequest(e)
  /\ NamesTarget(e)

Requests == \A e \in Execs : RequestFits(e)

\* The execution that drives the case, and the status it has brought it to
Driving(e) ==
  /\ kind[e] \in {"auth", "book"}
  /\ \/ pc[e] = "call"
     \/ pc[e] \in Asking /\ want[e].from \notin {"READY", "SLOT_FOUND"}
Driven(e) == IF pc[e] = "call" THEN want[e].to ELSE want[e].from

DriverOwnsStatus == \A e \in Execs : Driving(e) => status = Driven(e)
OneDriver == \A e, f \in Execs : Driving(e) /\ Driving(f) => e = f

Targets == /\ checkpoint \in Resumable \cup {NoCheckpoint}
           /\ status = HVR => checkpoint \in Resumable

\* Once a resume has passed the check of transition(), no driver is left, and
\* the status does not leave the checkpoint and its targets any more.
Resumed == status \in {HVR} \cup Resumable /\ \A e \in Execs : ~Driving(e)
ResumedForGood ==
  \A e \in Execs : pc[e] \in {"verify", "commit"} /\ want[e].from = HVR => Resumed
VerifiedTarget ==
  \A e \in Execs :
    pc[e] = "commit" /\ want[e].from = HVR /\ status = HVR => checkpoint = want[e].to

\* Where a case is once its booking began
BookingStatus ==
  BookCalls \cup {"SLOT_LOST", "CONFIRMED"}
            \cup (IF checkpoint = "PAYMENT_REQUIRED" THEN {HVR} ELSE {})
BegunForGood ==
  /\ begun # 0 => begun = 1 /\ status \in BookingStatus
  /\ \A e \in Execs : pc[e] = "call" /\ kind[e] = "book" /\ want[e].to = "BOOKING" => begun = 0

\* What the lock is for
Exclusion ==
  ~faulty =>
    /\ inside = {e \in Execs : pc[e] # "idle"}
    /\ \A e, f \in Execs : pc[e] # "idle" /\ pc[f] # "idle" => e = f
    /\ \A e \in Execs :
         /\ pc[e] = "call" /\ kind[e] = "avail" => status = want[e].from
         /\ pc[e] \in {"load", "call"} /\ kind[e] = "resume" => status = HVR

\* The inductive invariant
IInv ==
  /\ TypeOK
  /\ Requests
  /\ DriverOwnsStatus
  /\ OneDriver
  /\ Targets
  /\ ResumedForGood
  /\ VerifiedTarget
  /\ BegunForGood
  /\ Exclusion
-----------------------------------------------------------------------------
\* Every step of the engine keeps the types of its variables.
LEMMA TypeStep == TypeOK /\ [Next]_vars => TypeOK'
<1> SUFFICES ASSUME TypeOK, [Next]_vars PROVE TypeOK'
  OBVIOUS
<1> USE DEF TypeOK, Request, CheckpointSet, PC, Kinds, case, lock, Go, Ask, AskMove
<1>0. "READY" \in Status /\ "AUTHENTICATING" \in Status /\ "SLOT_FOUND" \in Status
      /\ "BOOKING" \in Status /\ HVR \in Status /\ "FAILED" \in Status
      /\ "MONITORING" \in Status /\ "WAITING_QUEUE" \in Status /\ "SLOT_LOST" \in Status
      /\ "ADDING_APPLICANTS" \in Status /\ "APPOINTMENT_SELECTED" \in Status
      /\ "PAYMENT_REQUIRED" \in Status /\ "PAYMENT_PROCESSING" \in Status
      /\ "CONFIRMED" \in Status
  BY DEF Status, HVR
<1>1. ASSUME NEW e \in Execs, Finish(e), UNCHANGED begun PROVE TypeOK'
  BY <1>0, <1>1 DEF Finish, NoRequest, Lock!Leave
<1>2. ASSUME NEW e \in Execs, NEW k \in Kinds, Start(e, k) PROVE TypeOK'
  <2>1. inside' \in SUBSET Execs /\ faulty' \in BOOLEAN /\ kind' \in [Execs -> Kinds]
        /\ status' \in Status /\ checkpoint' \in CheckpointSet /\ begun' \in 0..MaxCalls
    BY <1>2 DEF Start, Lock!Enter
  <2>2. pc' \in [Execs -> PC]
    BY <1>2 DEF Start
  <2>3. want' \in [Execs -> Request]
    BY <1>0, <1>2 DEF Start
  <2>4. QED
    BY <2>1, <2>2, <2>3
<1>3. ASSUME NEW e \in Execs, Guard(e) PROVE TypeOK'
  BY <1>1, <1>3 DEF Guard
<1>4. ASSUME NEW e \in Execs, Load(e) PROVE TypeOK'
  <2>1. CASE /\ pc' = [pc EXCEPT ![e] = "call"]
             /\ want' = [want EXCEPT ![e].from = status]
             /\ UNCHANGED <<status, checkpoint, lock, kind, begun>>
    BY <2>1
  <2>2. CASE AskMove(e, "SLOT_FOUND", "BOOKING") /\ UNCHANGED begun
    BY <1>0, <2>2
  <2>3. CASE Go(e, "call") /\ UNCHANGED begun
    BY <2>3
  <2>4. QED
    BY <1>4, <2>1, <2>2, <2>3 DEF Load
<1>5. ASSUME NEW e \in Execs, Check(e) PROVE TypeOK'
  BY <1>1, <1>5 DEF Check
<1>6. ASSUME NEW e \in Execs, Verify(e) PROVE TypeOK'
  BY <1>1, <1>6 DEF Verify
<1>7. ASSUME NEW e \in Execs, Commit(e) PROVE TypeOK'
  <2>1. CASE Finish(e)
    BY <1>1, <1>7, <2>1 DEF Commit
  <2>2. CASE ~Finish(e)
    BY <1>0, <1>7, <2>2 DEF Commit, Leaving, After, NoRequest, Lock!Leave
  <2>3. QED
    BY <2>1, <2>2
<1>8. ASSUME NEW e \in Execs, Authenticate(e) PROVE TypeOK'
  BY <1>0, <1>1, <1>8 DEF Authenticate
<1>9. ASSUME NEW e \in Execs, CheckAvailability(e) PROVE TypeOK'
  BY <1>0, <1>1, <1>9 DEF CheckAvailability
<1>10. ASSUME NEW e \in Execs, BeginBooking(e) PROVE TypeOK'
  BY <1>0, <1>10 DEF BeginBooking
<1>11. ASSUME NEW e \in Execs, AddApplicants(e) PROVE TypeOK'
  BY <1>0, <1>11 DEF AddApplicants
<1>12. ASSUME NEW e \in Execs, SelectAppointment(e) PROVE TypeOK'
  BY <1>0, <1>12 DEF SelectAppointment
<1>13. ASSUME NEW e \in Execs, PaymentRequired(e) PROVE TypeOK'
  BY <1>0, <1>1, <1>13 DEF PaymentRequired
<1>14. ASSUME NEW e \in Execs, GetConfirmation(e) PROVE TypeOK'
  BY <1>0, <1>14 DEF GetConfirmation
<1>15. ASSUME NEW e \in Execs, ResumeAdapter(e) PROVE TypeOK'
  BY <1>15 DEF ResumeAdapter
<1>16. ASSUME NEW e \in Execs, ReadTarget(e) PROVE TypeOK'
  BY <1>0, <1>16 DEF ReadTarget
<1>17. ASSUME NEW e \in Execs, Abort(e) PROVE TypeOK'
  BY <1>1, <1>17 DEF Abort
<1>18. ASSUME LoseLock PROVE TypeOK'
  BY <1>18 DEF LoseLock, Lock!Fault
<1>19. CASE UNCHANGED vars
  BY <1>19 DEF vars
<1>20. QED
  BY <1>2, <1>3, <1>4, <1>5, <1>6, <1>7, <1>8, <1>9, <1>10, <1>11, <1>12, <1>13, <1>14,
     <1>15, <1>16, <1>17, <1>18, <1>19 DEF Next, ExecStep

\* A case that is ready, with no execution under way, has the types.
LEMMA InitTypeOK == Init => TypeOK
<1> SUFFICES ASSUME Init PROVE TypeOK
  OBVIOUS
<1>1. NoRequest \in Request /\ "READY" \in Status
  BY DEF NoRequest, Request, CheckpointSet, Status
<1>2. status \in Status /\ checkpoint \in CheckpointSet
  BY <1>1 DEF Init, CheckpointSet
<1>3. inside \in SUBSET Execs /\ faulty \in BOOLEAN
  BY DEF Init, Lock!Init
<1>4. pc \in [Execs -> PC] /\ kind \in [Execs -> Kinds]
  BY DEF Init, PC, Kinds
<1>5. want \in [Execs -> Request]
  BY <1>1 DEF Init
<1>6. begun \in 0..MaxCalls
  BY DEF Init
<1>7. QED
  BY <1>2, <1>3, <1>4, <1>5, <1>6 DEF TypeOK

\* Every variable of the engine keeps its type (OrchestrationEngineService as a
\* whole): in particular no request ever names a status that does not exist.
THEOREM EngineTypeInvariant == Spec => []TypeOK
BY InitTypeOK, TypeStep, PTL DEF Spec

-----------------------------------------------------------------------------
\* A step of one execution that commits nothing: the case stays as it is and so
\* do the other executions; this one does not become a driver, asks for what its
\* method asks for, and passes the checks of transition() only where they hold.
Local(e) ==
  /\ UNCHANGED <<status, checkpoint>>
  /\ \A f \in Execs \ {e} : pc'[f] = pc[f] /\ kind'[f] = kind[f] /\ want'[f] = want[f]
  /\ RequestFits(e)'
  /\ Driving(e)' => Driving(e) /\ Driven(e)' = Driven(e)
  /\ pc'[e] \in {"verify", "commit"} /\ want'[e].from = HVR =>
       /\ status = HVR \/ (pc[e] = "verify" /\ want[e].from = HVR)
       /\ pc'[e] = "commit" => status # HVR \/ checkpoint = want'[e].to

\* A local step leaves the call of beginBooking alone.
NoBegin(e) == /\ UNCHANGED begun
              /\ ~(pc'[e] = "call" /\ kind'[e] = "book" /\ want'[e].to = "BOOKING")

\* Such a step keeps what holds of all requests.
LEMMA LocalKeeps ==
  ASSUME IInv, NEW e \in Execs, Local(e)
  PROVE  /\ Requests'
         /\ DriverOwnsStatus'
         /\ OneDriver'
         /\ Targets'
         /\ ResumedForGood'
         /\ VerifiedTarget'
         /\ NoBegin(e) => BegunForGood'
<1> USE DEF IInv, Local
<1>0. \A f \in Execs \ {e} : (Driving(f)' <=> Driving(f)) /\ Driven(f)' = Driven(f)
  BY DEF Driving, Driven
<1>1. Requests'
  <2>1. \A f \in Execs \ {e} : RequestFits(f)'
    BY DEF Requests, RequestFits, AuthRequest, AvailRequest, BookRequest, ResumeRequest,
       NamesTarget, TargetOf
  <2>2. QED
    BY <2>1 DEF Requests
<1>2. DriverOwnsStatus'
  BY <1>0 DEF DriverOwnsStatus
<1>3. OneDriver'
  BY <1>0 DEF OneDriver
<1>4. Targets'
  BY DEF Targets
<1>5. \A f \in Execs : Driving(f)' => Driving(f)
  BY <1>0
<1>6. status = HVR => Resumed
  BY DEF Requests, RequestFits, AuthRequest, BookRequest, AuthMoves, BookMoves, BookCalls, HVR,
     DriverOwnsStatus, Driving, Driven, Resumed, Asking
<1>7. Resumed => Resumed'
  BY <1>5 DEF Resumed
<1>8. ResumedForGood'
  BY <1>6, <1>7 DEF ResumedForGood
<1>9. VerifiedTarget'
  BY DEF VerifiedTarget
<1>10. ASSUME NoBegin(e) PROVE BegunForGood'
  BY <1>10 DEF NoBegin, BegunForGood, BookingStatus
<1>11. QED
  BY <1>1, <1>2, <1>3, <1>4, <1>8, <1>9, <1>10
-----------------------------------------------------------------------------
\* What an execution drives is never READY, a slot, a monitored case or HVR.
LEMMA DrivenStatus ==
  ASSUME IInv, NEW e \in Execs, Driving(e)
  PROVE  Driven(e) \in BookCalls \cup {"AUTHENTICATING"}
BY DEF IInv, Requests, RequestFits, AuthRequest, BookRequest, AuthMoves, BookMoves, BookCalls,
   HVR, Driving, Driven, Asking

\* Asking for a move that fits the method is a local step.
FitMove(e, from, to, resume) ==
  /\ kind[e] = "auth" => <<from, to>> \in AuthMoves
  /\ kind[e] = "avail" => to = "SLOT_FOUND"
  /\ kind[e] = "book" => <<from, to>> \in BookMoves
  /\ kind[e] = "resume" => from = HVR /\ to \in Resumable
  /\ resume = TargetOf(from, to)
  /\ kind[e] \in {"auth", "book"} /\ from \notin {"READY", "SLOT_FOUND"} =>
       pc[e] = "call" /\ from = want[e].to

\* Asking for a transition is such a step.
LEMMA AskIsLocal ==
  ASSUME IInv, NEW e \in Execs, NEW from, NEW to, NEW resume,
         Ask(e, from, to, resume), FitMove(e, from, to, resume)
  PROVE  Local(e) /\ pc'[e] = "check"
<1> USE DEF IInv, TypeOK
<1>1. /\ pc'[e] = "check" /\ kind'[e] = kind[e]
      /\ want'[e] = [from |-> from, to |-> to, resume |-> resume]
      /\ \A f \in Execs \ {e} : pc'[f] = pc[f] /\ kind'[f] = kind[f] /\ want'[f] = want[f]
      /\ UNCHANGED <<status, checkpoint>>
  BY DEF Ask, case
<1>2. want'[e].from = from /\ want'[e].to = to /\ want'[e].resume = resume
  BY <1>1
<1>3. NamesTarget(e)'
  BY <1>1, <1>2 DEF FitMove, NamesTarget
<1>4. RequestFits(e)'
  BY <1>1, <1>2, <1>3 DEF FitMove, RequestFits, AuthRequest, AvailRequest, BookRequest,
     ResumeRequest, PC, Asking
<1>5. Driving(e)' => Driving(e) /\ Driven(e)' = Driven(e)
  BY <1>1, <1>2 DEF FitMove, Driving, Driven, Asking
<1>6. QED
  BY <1>1, <1>4, <1>5 DEF Local

\* Every step of an execution is a local one, but for a commit that succeeds.
LEMMA StepsAreLocal ==
  ASSUME IInv, NEW e \in Execs, ExecStep(e), Commit(e) => Finish(e)
  PROVE  Local(e) /\ (NoBegin(e) \/ BeginBooking(e))
<1> DEFINE P == Local(e) /\ NoBegin(e)
<1> USE DEF IInv, TypeOK
<1>1. ASSUME Finish(e), UNCHANGED begun PROVE P
  BY <1>1 DEF Finish, RequestFits, AuthRequest, AvailRequest, BookRequest, ResumeRequest,
     NamesTarget, TargetOf, PC, Asking, Local, NoBegin, Driving, case
<1>2. ASSUME NEW from, NEW to, NEW resume, Ask(e, from, to, resume),
             FitMove(e, from, to, resume), UNCHANGED begun
      PROVE  P
  BY <1>2, AskIsLocal DEF NoBegin
<1>3. ASSUME NEW from, NEW to, AskMove(e, from, to), FitMove(e, from, to, NoCheckpoint),
             UNCHANGED begun
      PROVE  P
  BY <1>2, <1>3 DEF AskMove
<1>4. ASSUME NEW k \in Kinds, Start(e, k) PROVE P
  BY <1>4 DEF Start, Kinds, RequestFits, AuthRequest, AvailRequest, BookRequest, ResumeRequest,
     NamesTarget, TargetOf, PC, AuthMoves, HVR, Asking, Local, NoBegin, Driving, case
<1>5. ASSUME Guard(e) PROVE P
  BY <1>1, <1>5 DEF Guard, Executable, Requests, RequestFits, AuthRequest, AvailRequest,
     BookRequest, ResumeRequest, NamesTarget, TargetOf, PC, Asking, Go, Local, NoBegin, Driving, case
<1>6. ASSUME Load(e) PROVE P
  <2>1. CASE kind[e] = "avail"
    BY <1>6, <2>1 DEF Load, RequestFits, AvailRequest, NamesTarget, TargetOf, Asking, Local, NoBegin,
       Driving, case
  <2>2. CASE kind[e] = "book"
    <3>1. FitMove(e, "SLOT_FOUND", "BOOKING", NoCheckpoint)
      BY <2>2 DEF FitMove, TargetOf, BookMoves, HVR
    <3>2. QED
      BY <1>3, <1>6, <2>2, <3>1 DEF Load
  <2>3. CASE kind[e] = "resume"
    BY <1>6, <2>3 DEF Load, RequestFits, ResumeRequest, NamesTarget, TargetOf, Asking, PC, Go, Local,
       NoBegin, Driving, case
  <2>4. QED
    BY <1>6, <2>1, <2>2, <2>3 DEF Load
<1>7. ASSUME pc[e] \in {"check", "verify"}, UNCHANGED begun,
             (Go(e, "verify") /\ pc[e] = "check") \/ Go(e, "commit"),
             kind[e] = "resume" \/ Go(e, "commit"),
             kind[e] = "avail" => want[e].from \in {"MONITORING", "WAITING_QUEUE"},
             want[e].from = HVR => status = HVR \/ pc[e] = "verify",
             want[e].from = HVR /\ Go(e, "commit") => status # HVR \/ checkpoint = want[e].to
      PROVE  P
  <2>1. RequestFits(e)'
    BY <1>7 DEF Go, Requests, RequestFits, AuthRequest, AvailRequest, BookRequest, ResumeRequest,
       NamesTarget, TargetOf, PC, Asking
  <2>2. Driving(e)' => Driving(e) /\ Driven(e)' = Driven(e)
    BY <1>7 DEF Go, Driving, Driven, Asking
  <2>3. QED
    BY <1>7, <2>1, <2>2 DEF Go, Local, NoBegin, case
<1>8. ASSUME Check(e) PROVE P
  <2>1. CASE Finish(e)
    BY <1>1, <1>8, <2>1 DEF Check
  <2>2. CASE ~Finish(e)
    <3>1. /\ pc[e] = "check" /\ status = want[e].from /\ want[e].to \in Allowed(want[e].from)
          /\ UNCHANGED begun
          /\ Go(e, IF want[e].from = HVR /\ want[e].to \notin GivenUp THEN "verify" ELSE "commit")
      BY <1>8, <2>2 DEF Check, CanTransition
    <3>2. kind[e] = "avail" => want[e].from \in {"MONITORING", "WAITING_QUEUE"}
      BY <3>1 DEF Allowed, GivenUp, HVR, ResumeTargets, Requests, RequestFits, AvailRequest, Asking
    <3>3. want[e].from = HVR <=> kind[e] = "resume"
      BY <3>1, <3>2 DEF HVR, Requests, RequestFits, AuthRequest, AvailRequest, BookRequest,
         ResumeRequest, Asking, AuthMoves, BookMoves, Kinds
    <3>4. kind[e] = "resume" => want[e].to \notin GivenUp
      BY <3>1 DEF Requests, RequestFits, ResumeRequest, Asking, Resumable, GivenUp
    <3>5. CASE kind[e] = "resume"
      <4>1. Go(e, "verify")
        BY <3>1, <3>3, <3>4, <3>5
      <4>2. ~Go(e, "commit")
        BY <4>1 DEF Go
      <4>3. QED
        BY <1>7, <3>1, <3>5, <4>1, <4>2
    <3>6. CASE kind[e] # "resume"
      BY <1>7, <3>1, <3>2, <3>3, <3>6
    <3>7. QED
      BY <3>5, <3>6
  <2>3. QED
    BY <2>1, <2>2
<1>9. ASSUME Verify(e) PROVE P
  <2>1. CASE Finish(e)
    BY <1>1, <1>9, <2>1 DEF Verify
  <2>2. CASE ~Finish(e)
    <3>1. /\ pc[e] = "verify" /\ checkpoint \in {NoCheckpoint, want[e].to} /\ Go(e, "commit")
          /\ UNCHANGED begun
      BY <1>9, <2>2 DEF Verify
    <3>2. kind[e] = "resume"
      BY <3>1 DEF Requests, RequestFits, AuthRequest, AvailRequest, BookRequest, Kinds
    <3>3. status = HVR => checkpoint # NoCheckpoint
      BY DEF Targets, Resumable, Status
    <3>4. QED
      BY <1>7, <3>1, <3>2, <3>3
  <2>3. QED
    BY <2>1, <2>2
<1>10. ASSUME Commit(e) PROVE P
  BY <1>1, <1>10 DEF Commit
<1>11. ASSUME Authenticate(e) PROVE P
  <2>1. pc[e] = "call" /\ kind[e] = "auth" /\ want[e].to = "AUTHENTICATING" /\ UNCHANGED begun
    BY <1>11 DEF Authenticate, Calling
  <2>2. FitMove(e, "AUTHENTICATING", HVR, "AUTHENTICATING")
    BY <2>1 DEF FitMove, TargetOf, AuthMoves, HVR
  <2>3. \A to \in {"FAILED", "MONITORING", "WAITING_QUEUE"} :
          FitMove(e, "AUTHENTICATING", to, NoCheckpoint)
    BY <2>1 DEF FitMove, TargetOf, AuthMoves, HVR
  <2>4. CASE Ask(e, "AUTHENTICATING", HVR, "AUTHENTICATING")
    BY <1>2, <2>1, <2>2, <2>4
  <2>5. ASSUME NEW to \in {"FAILED", "MONITORING", "WAITING_QUEUE"},
               AskMove(e, "AUTHENTICATING", to)
        PROVE  P
    BY <1>3, <2>1, <2>3, <2>5
  <2>6. CASE Finish(e)
    BY <1>1, <2>1, <2>6
  <2>7. QED
    BY <1>11, <2>4, <2>5, <2>6 DEF Authenticate
<1>12. ASSUME CheckAvailability(e) PROVE P
  <2>1. kind[e] = "avail" => FitMove(e, want[e].from, "SLOT_FOUND", NoCheckpoint)
    BY DEF FitMove, TargetOf, HVR
  <2>2. CASE AskMove(e, want[e].from, "SLOT_FOUND")
    BY <1>3, <1>12, <2>1, <2>2 DEF CheckAvailability
  <2>3. CASE Finish(e)
    BY <1>1, <1>12, <2>3 DEF CheckAvailability
  <2>4. QED
    BY <1>12, <2>2, <2>3 DEF CheckAvailability
<1>13. ASSUME BeginBooking(e) PROVE Local(e)
  BY <1>13, AskIsLocal DEF BeginBooking, Calling, AskMove, FitMove, TargetOf, BookMoves, HVR
<1>14. ASSUME AddApplicants(e) PROVE P
  BY <1>3, <1>14 DEF AddApplicants, Calling, FitMove, TargetOf, BookMoves, HVR
<1>15. ASSUME SelectAppointment(e) PROVE P
  BY <1>2, <1>3, <1>15 DEF SelectAppointment, Calling, FitMove, TargetOf, BookMoves, HVR
<1>16. ASSUME PaymentRequired(e) PROVE P
  BY <1>1, <1>3, <1>16 DEF PaymentRequired, Calling, FitMove, TargetOf, BookMoves, HVR
<1>17. ASSUME GetConfirmation(e) PROVE P
  BY <1>3, <1>17 DEF GetConfirmation, Calling, FitMove, TargetOf, BookMoves, HVR
<1>18. ASSUME ResumeAdapter(e) PROVE P
  BY <1>18 DEF ResumeAdapter, Go, RequestFits, ResumeRequest, NamesTarget, TargetOf, PC, Asking, Local,
     NoBegin, Driving, case
<1>19. ASSUME ReadTarget(e) PROVE P
  <2> DEFINE target == IF checkpoint = NoCheckpoint THEN "AUTHENTICATING" ELSE checkpoint
  <2>1. kind[e] = "resume"
    BY <1>19 DEF ReadTarget, Requests, RequestFits, AuthRequest, AvailRequest, BookRequest, Kinds
  <2>2. target \in Resumable
    BY DEF Targets, Resumable
  <2>3. FitMove(e, HVR, target, NoCheckpoint)
    BY <2>1, <2>2 DEF FitMove, TargetOf, Resumable, HVR
  <2>4. QED
    BY <1>3, <1>19, <2>3 DEF ReadTarget
<1>20. ASSUME Abort(e) PROVE P
  BY <1>1, <1>20 DEF Abort
<1>21. QED
  BY <1>4, <1>5, <1>6, <1>8, <1>9, <1>10, <1>11, <1>12, <1>13, <1>14, <1>15, <1>16, <1>17,
     <1>18, <1>19, <1>20 DEF ExecStep
-----------------------------------------------------------------------------
\* atomicStatusTransition with the status where the request expects it
Commits(e) ==
  /\ pc[e] = "commit"
  /\ status = want[e].from
  /\ status' = want[e].to
  /\ checkpoint' = want[e].resume
  /\ pc' = [pc EXCEPT ![e] = After(e)]
  /\ Leaving(e)
  /\ UNCHANGED <<kind, begun>>

\* The committed move is one of the matrix, and from the human checkpoint it
\* goes to the target of the history.
LEMMA CommitIsMove ==
  ASSUME IInv, NEW e \in Execs, Commits(e)
  PROVE  /\ CanTransition(status, status')
         /\ status = HVR => checkpoint = status' /\ status' \in Resumable
         /\ status' = HVR => checkpoint' \in Resumable
         /\ status' # HVR => checkpoint' = NoCheckpoint
<1> USE DEF IInv, TypeOK
<1>1. /\ status = want[e].from /\ status' = want[e].to /\ checkpoint' = want[e].resume
      /\ pc[e] = "commit" /\ kind[e] \in Kinds
  BY DEF Commits
<1>2. CanTransition(status, status')
  BY <1>1 DEF Requests, RequestFits, AuthRequest, AvailRequest, BookRequest, ResumeRequest, Asking,
     Kinds, AuthMoves, BookMoves, Resumable, CanTransition, Allowed, GivenUp, ResumeTargets, HVR
<1>3. status = HVR => kind[e] = "resume"
  BY <1>1 DEF Requests, RequestFits, AuthRequest, AvailRequest, BookRequest, Asking, Kinds,
     AuthMoves, BookMoves, HVR
<1>4. status = HVR => checkpoint = status' /\ status' \in Resumable
  BY <1>1, <1>3 DEF VerifiedTarget, Requests, RequestFits, ResumeRequest, Asking
<1>5. checkpoint' = TargetOf(want[e].from, want[e].to)
  BY <1>1 DEF Requests, RequestFits, NamesTarget, Asking
<1>6. QED
  BY <1>1, <1>2, <1>4, <1>5 DEF TargetOf, Resumable

\* A commit keeps the invariant, but for the part about the lock.
LEMMA CommitKeeps ==
  ASSUME IInv, NEW e \in Execs, Commits(e)
  PROVE  /\ Requests'
         /\ DriverOwnsStatus'
         /\ OneDriver'
         /\ Targets'
         /\ ResumedForGood'
         /\ VerifiedTarget'
         /\ BegunForGood'
<1> USE DEF IInv, TypeOK
<1>1. /\ status = want[e].from /\ status' = want[e].to /\ pc[e] = "commit"
      /\ kind[e] \in Kinds /\ kind' = kind /\ UNCHANGED begun
      /\ \A f \in Execs \ {e} : pc'[f] = pc[f] /\ want'[f] = want[f]
      /\ pc'[e] = After(e)
      /\ After(e) # "idle" => want' = want
  BY DEF Commits, Leaving
<1>2. After(e) \in {"idle", "call"}
  BY DEF After
<1>3. After(e) = "call" =>
        \/ kind[e] = "auth" /\ want[e].to = "AUTHENTICATING"
        \/ kind[e] = "book" /\ want[e].to \in BookCalls
  BY DEF After, BookCalls
<1>4. ~Driving(e) => status \in {"READY", "SLOT_FOUND", "MONITORING", "WAITING_QUEUE", HVR}
  BY <1>1 DEF Driving, Asking, Kinds, Requests, RequestFits, AvailRequest, ResumeRequest
<1>5. \A f \in Execs \ {e} : ~Driving(f)
  <2>1. SUFFICES ASSUME NEW f \in Execs \ {e}, Driving(f) PROVE FALSE
    OBVIOUS
  <2>2. status = Driven(f) /\ Driven(f) \in BookCalls \cup {"AUTHENTICATING"}
    BY <2>1, DrivenStatus DEF DriverOwnsStatus
  <2>3. ~Driving(e)
    BY <2>1 DEF OneDriver
  <2>4. QED
    BY <1>4, <2>2, <2>3 DEF BookCalls, HVR
<1>6. \A f \in Execs \ {e} : ~Driving(f)'
  BY <1>1, <1>5 DEF Driving
<1>7. RequestFits(e)'
  BY <1>1, <1>2, <1>3 DEF RequestFits, AuthRequest, AvailRequest, BookRequest, ResumeRequest,
     NamesTarget, Asking, PC, BookCalls
<1>8. \A f \in Execs \ {e} : RequestFits(f)'
  BY <1>1 DEF Requests, RequestFits, AuthRequest, AvailRequest, BookRequest, ResumeRequest,
     NamesTarget
<1>9. Requests'
  BY <1>7, <1>8 DEF Requests
<1>10. DriverOwnsStatus'
  BY <1>1, <1>2, <1>6 DEF DriverOwnsStatus, Driving, Driven, Asking
<1>11. OneDriver'
  BY <1>6 DEF OneDriver
<1>12. Targets'
  BY CommitIsMove DEF Targets
<1>13. ASSUME NEW f \in Execs, pc'[f] \in {"verify", "commit"}, want'[f].from = HVR
       PROVE  Resumed' /\ status' # HVR
  <2>1. f # e /\ Resumed
    BY <1>1, <1>2, <1>13 DEF ResumedForGood
  <2>2. status = HVR
    BY <1>4, <2>1 DEF Resumed, Resumable, HVR
  <2>3. status' \in Resumable
    BY <2>2, CommitIsMove
  <2>4. kind[e] = "resume"
    BY <1>1, <2>2 DEF Requests, RequestFits, AuthRequest, AvailRequest, BookRequest, Asking, Kinds,
       AuthMoves, BookMoves, HVR
  <2>5. ~Driving(e)'
    BY <1>1, <2>4 DEF Driving
  <2>6. QED
    BY <1>6, <2>3, <2>5 DEF Resumed, Resumable, HVR
<1>14. ResumedForGood' /\ VerifiedTarget'
  BY <1>13 DEF ResumedForGood, VerifiedTarget
<1>15. BegunForGood'
  <2>1. ASSUME begun # 0 PROVE begun' = 1 /\ status' \in BookingStatus'
    <3>1. status \in BookingStatus
      BY <2>1 DEF BegunForGood
    <3>2. CASE kind[e] = "book"
      <4>1. \/ status' \in BookCalls \cup {"SLOT_LOST", "CONFIRMED"}
            \/ status = "APPOINTMENT_SELECTED" /\ status' = HVR
        BY <1>1, <3>2 DEF Requests, RequestFits, BookRequest, Asking, BookMoves, BookCalls
      <4>2. status = "APPOINTMENT_SELECTED" /\ status' = HVR => checkpoint' = "PAYMENT_REQUIRED"
        BY <1>1 DEF Requests, RequestFits, NamesTarget, TargetOf, Asking, Commits
      <4>3. QED
        BY <1>1, <2>1, <4>1, <4>2 DEF BegunForGood, BookingStatus
    <3>3. CASE kind[e] = "resume"
      <4>1. status = HVR
        BY <1>1, <3>3 DEF Requests, RequestFits, ResumeRequest, Asking
      <4>2. status' = "PAYMENT_REQUIRED"
        BY <3>1, <4>1, CommitIsMove DEF BookingStatus, BookCalls, HVR
      <4>3. QED
        BY <1>1, <2>1, <4>2 DEF BegunForGood, BookingStatus, BookCalls
    <3>4. CASE kind[e] \in {"auth", "avail"}
      BY <1>1, <3>1, <3>4 DEF Requests, RequestFits, AuthRequest, AvailRequest, Asking, AuthMoves,
         BookingStatus, BookCalls, HVR
    <3>5. QED
      BY <1>1, <3>2, <3>3, <3>4 DEF Kinds
  <2>2. ASSUME NEW f \in Execs, pc'[f] = "call", kind'[f] = "book", want'[f].to = "BOOKING"
        PROVE  begun' = 0
    <3>1. f = e
      BY <1>6, <2>2 DEF Driving
    <3>2. status = "SLOT_FOUND"
      <4>1. kind[e] = "book" /\ want[e].to = "BOOKING"
        BY <1>1, <2>2, <3>1
      <4>2. <<want[e].from, want[e].to>> \in BookMoves
        BY <1>1, <4>1 DEF Requests, RequestFits, BookRequest, Asking
      <4>3. QED
        BY <1>1, <4>1, <4>2 DEF BookMoves, HVR
    <3>3. status \notin BookingStatus
      BY <3>2 DEF BookingStatus, BookCalls, HVR
    <3>4. QED
      BY <1>1, <3>3 DEF BegunForGood
  <2>3. QED
    BY <1>1, <2>1, <2>2 DEF BegunForGood
<1>16. QED
  BY <1>9, <1>10, <1>11, <1>12, <1>14, <1>15
-----------------------------------------------------------------------------
\* While the lock is kept an execution moves alone, and what it read stays true.
LEMMA ExclusionStep == IInv /\ [Next]_vars => Exclusion'
<1> DEFINE Alone ==
      /\ inside' = {e \in Execs : pc'[e] # "idle"}
      /\ \A e, f \in Execs : pc'[e] # "idle" /\ pc'[f] # "idle" => e = f
      /\ \A e \in Execs :
           /\ pc'[e] = "call" /\ kind'[e] = "avail" => status' = want'[e].from
           /\ pc'[e] \in {"load", "call"} /\ kind'[e] = "resume" => status' = HVR
<1> SUFFICES ASSUME IInv, [Next]_vars, ~faulty' PROVE Alone
  BY DEF Exclusion
<1> USE DEF IInv, TypeOK
<1>1. ASSUME NEW e \in Execs, pc[e] # "idle", ~faulty,
             \A f \in Execs \ {e} : pc'[f] = pc[f],
             \/ pc'[e] # "idle" /\ inside' = inside
             \/ pc'[e] = "idle" /\ inside' = inside \ {e},
             pc'[e] = "call" /\ kind'[e] = "avail" => status' = want'[e].from,
             pc'[e] \in {"load", "call"} /\ kind'[e] = "resume" => status' = HVR
      PROVE  Alone
  BY <1>1 DEF Exclusion
<1>2. ASSUME NEW e \in Execs, Finish(e), pc[e] # "idle" PROVE Alone
  BY <1>1, <1>2 DEF Finish, Lock!Leave
<1>3. ASSUME NEW e \in Execs, NEW from, NEW to, NEW resume, Ask(e, from, to, resume),
             pc[e] # "idle"
      PROVE  Alone
  BY <1>1, <1>3 DEF Ask, lock
<1>4. ASSUME NEW e \in Execs, NEW to, Go(e, to), pc[e] # "idle", to # "idle",
             to = "call" => kind[e] = "resume" /\ pc[e] = "load",
             to = "load" => (kind[e] = "resume" => status = HVR)
      PROVE  Alone
  BY <1>1, <1>4 DEF Go, case, lock, Exclusion
<1>5. ASSUME NEW e \in Execs, NEW k \in Kinds, Start(e, k) PROVE Alone
  BY <1>5 DEF Start, Lock!Enter, Exclusion
<1>6. ASSUME NEW e \in Execs, Guard(e) PROVE Alone
  BY <1>2, <1>4, <1>6 DEF Guard, Executable
<1>7. ASSUME NEW e \in Execs, Load(e) PROVE Alone
  <2>1. CASE kind[e] = "avail"
    BY <1>1, <1>7, <2>1 DEF Load, case, lock, Request
  <2>2. CASE kind[e] # "avail"
    BY <1>3, <1>4, <1>7, <2>2 DEF Load, AskMove
  <2>3. QED
    BY <2>1, <2>2
<1>8. ASSUME NEW e \in Execs, Check(e) PROVE Alone
  BY <1>2, <1>4, <1>8 DEF Check
<1>9. ASSUME NEW e \in Execs, Verify(e) PROVE Alone
  BY <1>2, <1>4, <1>9 DEF Verify
<1>10. ASSUME NEW e \in Execs, Commits(e) PROVE Alone
  BY <1>1, <1>10 DEF Commits, Leaving, After, Lock!Leave, lock
<1>11. ASSUME NEW e \in Execs, Commit(e) PROVE Alone
  BY <1>2, <1>10, <1>11 DEF Commit, Commits
<1>12. ASSUME NEW e \in Execs, Authenticate(e) PROVE Alone
  BY <1>2, <1>3, <1>12 DEF Authenticate, Calling, AskMove
<1>13. ASSUME NEW e \in Execs, CheckAvailability(e) PROVE Alone
  BY <1>2, <1>3, <1>13 DEF CheckAvailability, AskMove
<1>14. ASSUME NEW e \in Execs, BeginBooking(e) \/ AddApplicants(e) \/ SelectAppointment(e)
       PROVE  Alone
  BY <1>3, <1>14 DEF BeginBooking, AddApplicants, SelectAppointment, Calling, AskMove
<1>15. ASSUME NEW e \in Execs, PaymentRequired(e) \/ GetConfirmation(e) PROVE Alone
  BY <1>2, <1>3, <1>15 DEF PaymentRequired, GetConfirmation, Calling, AskMove
<1>16. ASSUME NEW e \in Execs, ResumeAdapter(e) PROVE Alone
  BY <1>4, <1>16 DEF ResumeAdapter
<1>17. ASSUME NEW e \in Execs, ReadTarget(e) PROVE Alone
  BY <1>3, <1>17 DEF ReadTarget, AskMove
<1>18. ASSUME NEW e \in Execs, Abort(e) PROVE Alone
  BY <1>2, <1>18 DEF Abort
<1>19. ASSUME LoseLock PROVE Alone
  BY <1>19 DEF LoseLock, Lock!Fault
<1>20. CASE UNCHANGED vars
  BY <1>20 DEF vars, Exclusion
<1>21. QED
  BY <1>5, <1>6, <1>7, <1>8, <1>9, <1>11, <1>12, <1>13, <1>14, <1>15, <1>16, <1>17, <1>18,
     <1>19, <1>20 DEF Next, ExecStep
-----------------------------------------------------------------------------
\* Every step keeps the inductive invariant.
LEMMA InvStep == IInv /\ [Next]_vars => IInv'
<1> SUFFICES ASSUME IInv, [Next]_vars PROVE IInv'
  OBVIOUS
<1>1. TypeOK' /\ Exclusion'
  BY TypeStep, ExclusionStep DEF IInv
<1>2. ASSUME NEW e \in Execs, ExecStep(e), Commit(e) => Finish(e) PROVE IInv'
  <2>1. Local(e) /\ (NoBegin(e) \/ BeginBooking(e))
    BY <1>2, StepsAreLocal
  <2>2. ASSUME BeginBooking(e) PROVE BegunForGood'
    <3>1. pc[e] = "call" /\ kind[e] = "book" /\ want[e].to = "BOOKING"
      BY <2>2 DEF BeginBooking, Calling
    <3>2. begun = 0 /\ begun' = 1
      BY <2>2, <3>1 DEF BeginBooking, IInv, BegunForGood
    <3>3. Driving(e) /\ status = "BOOKING"
      BY <3>1 DEF IInv, DriverOwnsStatus, Driving, Driven
    <3>4. pc'[e] = "check"
      BY <2>2 DEF BeginBooking, AskMove, Ask, IInv, TypeOK
    <3>5. ASSUME NEW f \in Execs, pc'[f] = "call", kind'[f] = "book" PROVE FALSE
      BY <2>1, <3>3, <3>4, <3>5 DEF Local, Driving, IInv, OneDriver
    <3>6. status' \in BookingStatus'
      BY <2>1, <3>3 DEF Local, BookingStatus, BookCalls
    <3>7. QED
      BY <3>2, <3>5, <3>6 DEF BegunForGood
  <2>3. QED
    BY <1>1, <2>1, <2>2, LocalKeeps DEF IInv
<1>3. ASSUME NEW e \in Execs, Commit(e), ~Finish(e) PROVE IInv'
  <2>1. Commits(e)
    BY <1>3 DEF Commit, Commits
  <2>2. QED
    BY <1>1, <2>1, CommitKeeps DEF IInv
<1>4. CASE LoseLock \/ UNCHANGED vars
  <2>1. UNCHANGED <<status, checkpoint, pc, kind, want, begun>>
    BY <1>4 DEF LoseLock, case, vars
  <2>2. QED
    BY <1>1, <2>1 DEF IInv, Requests, RequestFits, AuthRequest, AvailRequest, BookRequest,
       ResumeRequest, NamesTarget, DriverOwnsStatus, OneDriver, Driving, Driven, Targets,
       ResumedForGood, Resumed, VerifiedTarget, BegunForGood, BookingStatus
<1>5. QED
  BY <1>2, <1>3, <1>4 DEF Next

\* The inductive invariant holds in every state.
THEOREM EngineInvariant == Spec => []IInv
<1>1. Init => IInv
  <2> SUFFICES ASSUME Init PROVE IInv
    OBVIOUS
  <2>1. TypeOK
    BY InitTypeOK
  <2>2. \A e \in Execs : pc[e] = "idle" /\ kind[e] = "auth"
    BY DEF Init
  <2>3. Requests /\ DriverOwnsStatus /\ OneDriver /\ ResumedForGood /\ VerifiedTarget
    BY <2>2 DEF Requests, RequestFits, AuthRequest, NamesTarget, Asking, DriverOwnsStatus, OneDriver,
       Driving, ResumedForGood, VerifiedTarget
  <2>4. Targets /\ BegunForGood /\ Exclusion
    BY <2>2 DEF Init, Lock!Init, Targets, BegunForGood, Exclusion, HVR
  <2>5. QED
    BY <2>1, <2>3, <2>4 DEF IInv
<1>2. QED
  BY <1>1, InvStep, PTL DEF Spec

\* executeBooking never calls beginBooking a second time for a case, whatever
\* executions there are and even after the lock was lost.
THEOREM BookingIsBegunOnce == Spec => []BookingBegunOnce
<1>1. IInv => BookingBegunOnce
  BY DEF IInv, BegunForGood, BookingBegunOnce, TypeOK
<1>2. QED
  BY <1>1, EngineInvariant, PTL

\* Under withCaseLock an adapter is called for the status the case has.
THEOREM CallsFit == Spec => []CallsFitStatus
<1>1. IInv => CallsFitStatus
  <2> SUFFICES ASSUME IInv, ~faulty, NEW e \in Execs, pc[e] = "call"
               PROVE  CASE kind[e] = "avail"  -> status = want[e].from
                        [] kind[e] = "resume" -> status = HVR
                        [] OTHER              -> status = want[e].to
    BY DEF CallsFitStatus
  <2>1. kind[e] \in {"auth", "book"} => status = want[e].to
    BY DEF IInv, DriverOwnsStatus, Driving, Driven
  <2>2. QED
    BY <2>1 DEF IInv, Exclusion, TypeOK, Kinds
<1>2. QED
  BY <1>1, EngineInvariant, PTL

\* CaseTransitionService lets the case live by CaseLifecycle: check, history
\* read and compare-and-set are separate steps, and still every change of the
\* status is a move of the matrix, and one out of the human checkpoint goes to
\* the target of the history.
THEOREM EngineImplementsLifecycle == Spec => ImplementsLifecycle
<1>0. /\ Lifecycle!Status = Status
      /\ Lifecycle!CheckpointSet = CheckpointSet
      /\ Lifecycle!HVR = HVR /\ Lifecycle!GivenUp = GivenUp
      /\ \A from, to : CanTransition(from, to) => Lifecycle!CanTransition(from, to)
  BY DEF Lifecycle!Status, Status, Lifecycle!CheckpointSet, CheckpointSet, Lifecycle!HVR, HVR,
     Lifecycle!GivenUp, GivenUp, Lifecycle!CanTransition, CanTransition, Lifecycle!Allowed, Allowed,
     Lifecycle!ResumeTargets, ResumeTargets
<1>1. Init => Lifecycle!Init
  BY <1>0 DEF Init, Lifecycle!Init, Status, Lifecycle!Terminal
<1>2. ASSUME IInv, [Next]_vars PROVE [Lifecycle!Next]_Lifecycle!vars
  <2>1. ASSUME NEW e \in Execs, Commits(e) PROVE Lifecycle!Next
    <3>1. want[e].to \in Status
      BY <1>2 DEF IInv, TypeOK, Request
    <3>2. status' = want[e].to
      BY <2>1 DEF Commits
    <3>3. checkpoint' \in IF status' = HVR THEN CheckpointSet ELSE {NoCheckpoint}
      BY <1>2, <2>1, CommitIsMove DEF CheckpointSet, Status, Resumable
    <3>4. Lifecycle!Move(want[e].to)
      BY <1>0, <1>2, <2>1, <3>2, <3>3, CommitIsMove DEF Lifecycle!Move
    <3>5. QED
      BY <1>0, <3>1, <3>4 DEF Lifecycle!Next
  <2>2. ASSUME NEW e \in Execs, ExecStep(e), Commit(e) => Finish(e)
        PROVE  UNCHANGED <<status, checkpoint>>
    BY <1>2, <2>2, StepsAreLocal DEF Local
  <2>3. CASE LoseLock \/ UNCHANGED vars
    BY <2>3 DEF LoseLock, case, vars, Lifecycle!vars
  <2>4. ASSUME NEW e \in Execs, ExecStep(e) PROVE [Lifecycle!Next]_Lifecycle!vars
    <3>1. CASE Commit(e) => Finish(e)
      BY <2>2, <2>4, <3>1 DEF Lifecycle!vars
    <3>2. CASE ~(Commit(e) => Finish(e))
      <4>1. Commits(e)
        BY <3>2 DEF Commit, Commits
      <4>2. QED
        BY <2>1, <4>1
    <3>3. QED
      BY <3>1, <3>2
  <2>5. QED
    BY <1>2, <2>3, <2>4 DEF Next
<1>3. QED
  BY <1>1, <1>2, EngineInvariant, PTL DEF Spec, ImplementsLifecycle, Lifecycle!Spec
=============================================================================

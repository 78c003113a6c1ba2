--------------------------- MODULE CaseLockProofs ---------------------------
(***************************************************************************)
(* Proofs about CaseLock, for any calls, processes, lease and interval:    *)
(* an interval never survives its call, the heartbeat keeps the key of a   *)
(* running call until a fault, and the lock implements the mutex.          *)
(***************************************************************************)
EXTENDS CaseLock, TLAPS

USE ProcOfAssumption, NoCallAssumption, IntervalAssumption, FaultsAssumption

\* A process has one interval for the key: the one it has mapped.
TimersAreMapped == \A c \in timers : mapped[ProcOf[c]] = c

\* A key with a lease is a key with an owner.
LeaseIffHeld == lease = 0 <=> holder = NoCall

\* Nothing is renewed for a call that has not entered.
NoEarlyRenewal ==
  \A c \in Calls : pc[c] \in {"idle", "acquiring", "granted"} => renewal[c] = "none"

\* While nothing went wrong, a granted key has its whole lease, the lease of a
\* running call outlasts its next heartbeat, and a renewal finds its key.
Margin == Ttl - HeartbeatInterval
GrantedKeepsKey ==
  \A c \in Calls : pc[c] = "granted" => holder = c /\ lease = Ttl
RunningKeepsKey ==
  \A c \in Calls : pc[c] = "running" =>
    /\ holder = c
    /\ c \in timers
    /\ IF renewal[c] = "sent" THEN lease >= Margin ELSE lease >= due[c] + Margin
RenewalFindsKey ==
  \A c \in Calls : /\ renewal[c] # "missed"
                   /\ renewal[c] = "sent" => holder = c
KeyIsKept == GrantedKeepsKey /\ RunningKeepsKey /\ RenewalFindsKey

\* The inductive invariant
IInv ==
  /\ TypeOK
  /\ NoOrphanTimer
  /\ TimersAreMapped
  /\ LeaseIffHeld
  /\ NoEarlyRenewal
  /\ Quiet => KeyIsKept

-----------------------------------------------------------------------------
\* Every step of the lock keeps the types of its variables.
LEMMA TypeStep == TypeOK /\ [Next]_vars => TypeOK'
<1> SUFFICES ASSUME TypeOK, [Next]_vars PROVE TypeOK'
  OBVIOUS
<1> USE DEF TypeOK, PC, Renewal, redis, local, Go, Fault
<1>1. ASSUME NEW c \in Calls, Acquire(c) PROVE TypeOK'
  BY <1>1 DEF Acquire
<1>2. ASSUME NEW c \in Calls, AcquireRuns(c) PROVE TypeOK'
  BY <1>2 DEF AcquireRuns
<1>3. ASSUME NEW c \in Calls, AcquireFails(c) PROVE TypeOK'
  BY <1>3 DEF AcquireFails
<1>4. ASSUME NEW c \in Calls, Enter(c) PROVE TypeOK'
  BY <1>4 DEF Enter, StartHeartbeat
<1>5. ASSUME NEW c \in Calls, FnEnds(c) PROVE TypeOK'
  BY <1>5 DEF FnEnds, StopHeartbeat
<1>6. ASSUME NEW c \in Calls, ReleaseRuns(c) PROVE TypeOK'
  BY <1>6 DEF ReleaseRuns
<1>7. ASSUME NEW c \in Calls, ReleaseFails(c) PROVE TypeOK'
  BY <1>7 DEF ReleaseFails
<1>8. ASSUME NEW c \in Calls, Fire(c) PROVE TypeOK'
  BY <1>8 DEF Fire
<1>9. ASSUME NEW c \in Calls, RenewRuns(c) PROVE TypeOK'
  BY <1>9 DEF RenewRuns
<1>9a. ASSUME NEW c \in Calls, HearLost(c), faults' \in 0..MaxFaults
       PROVE  TypeOK'
  BY <1>9a DEF HearLost, StopHeartbeat
<1>10. ASSUME NEW c \in Calls, RenewAnswered(c) PROVE TypeOK'
  <2>1. CASE HearLost(c)
    BY <2>1, <1>10, <1>9a DEF RenewAnswered
  <2>2. CASE /\ renewal' = [renewal EXCEPT ![c] = "none"]
             /\ UNCHANGED <<redis, pc, local, destroyed, faults>>
    BY <2>2
  <2>3. QED
    BY <1>10, <2>1, <2>2 DEF RenewAnswered
<1>11. ASSUME NEW c \in Calls, RenewFails(c) PROVE TypeOK'
  <2>1. faults' \in 0..MaxFaults
    BY <1>11 DEF RenewFails
  <2>2. QED
    BY <1>11, <2>1, <1>9a DEF RenewFails
<1>12. ASSUME Tick PROVE TypeOK'
  BY <1>12 DEF Tick, Down
<1>13. ASSUME NEW p \in Procs, ModuleDestroy(p) PROVE TypeOK'
  BY <1>13 DEF ModuleDestroy, StopHeartbeat
<1>14. ASSUME NEW p \in Procs, Crash(p) PROVE TypeOK'
  BY <1>14 DEF Crash
<1>15. CASE UNCHANGED vars
  BY <1>15 DEF vars
<1>16. QED
  BY <1>1, <1>2, <1>3, <1>4, <1>5, <1>6, <1>7, <1>8, <1>9, <1>10, <1>11,
     <1>12, <1>13, <1>14, <1>15 DEF Next, CallStep

\* Every variable of the lock keeps its type (CaseLockService as a whole).
THEOREM TypeInvariant == Spec => []TypeOK
<1>1. Init => TypeOK
  BY DEF Init, TypeOK, PC, Renewal
<1>2. QED
  BY <1>1, TypeStep, PTL DEF Spec

-----------------------------------------------------------------------------
\* stopHeartbeat leaves a process without an interval for the key, and what
\* concerns intervals and leases still holds.
LEMMA StopKeepsTimers ==
  ASSUME IInv, NEW p \in Procs, StopHeartbeat(p), UNCHANGED <<holder, lease>>
  PROVE  /\ \A c \in timers' : c \in timers /\ ProcOf[c] # p
         /\ TimersAreMapped'
         /\ LeaseIffHeld'
  BY DEF IInv, TypeOK, TimersAreMapped, LeaseIffHeld, StopHeartbeat

\* Every step of the lock keeps the inductive invariant.
LEMMA InvStep == IInv /\ [Next]_vars => IInv'
<1> SUFFICES ASSUME IInv, [Next]_vars PROVE IInv'
  OBVIOUS
<1>0. TypeOK'
  BY TypeStep DEF IInv
<1> DEFINE Facts == /\ NoOrphanTimer
                    /\ TimersAreMapped
                    /\ LeaseIffHeld
                    /\ NoEarlyRenewal
                    /\ Quiet => KeyIsKept
<1>1. SUFFICES Facts'
  BY <1>0 DEF IInv
<1> USE <1>0 DEF IInv, NoOrphanTimer, TimersAreMapped, LeaseIffHeld, NoEarlyRenewal, Quiet,
      TypeOK, redis, local, Go
<1>2. ASSUME NEW c \in Calls, Acquire(c) PROVE Facts'
  BY <1>2 DEF Acquire, KeyIsKept, GrantedKeepsKey, RunningKeepsKey, RenewalFindsKey
<1>3. ASSUME NEW c \in Calls, AcquireRuns(c) PROVE Facts'
  BY <1>3 DEF AcquireRuns, KeyIsKept, GrantedKeepsKey, RunningKeepsKey, RenewalFindsKey, Margin
<1>4. ASSUME NEW c \in Calls, AcquireFails(c) PROVE Facts'
  BY <1>4 DEF AcquireFails, Fault
<1>5. ASSUME NEW c \in Calls, Enter(c) PROVE Facts'
  <2>1. /\ NoOrphanTimer'
        /\ TimersAreMapped'
        /\ LeaseIffHeld'
        /\ NoEarlyRenewal'
    BY <1>5 DEF Enter, StartHeartbeat
  <2>2. ASSUME Quiet' PROVE KeyIsKept'
    BY <1>5, <2>2 DEF Enter, StartHeartbeat, KeyIsKept, GrantedKeepsKey, RunningKeepsKey,
       RenewalFindsKey, Margin
  <2>3. QED
    BY <2>1, <2>2
<1>6. ASSUME NEW c \in Calls, FnEnds(c) PROVE Facts'
  <2>1. /\ NoOrphanTimer'
        /\ TimersAreMapped'
        /\ LeaseIffHeld'
        /\ NoEarlyRenewal'
    BY <1>6, StopKeepsTimers DEF FnEnds
  <2>2. ASSUME Quiet' PROVE KeyIsKept'
    BY <1>6, <2>2 DEF FnEnds, StopHeartbeat, KeyIsKept, GrantedKeepsKey, RunningKeepsKey,
       RenewalFindsKey, Margin
  <2>3. QED
    BY <2>1, <2>2
<1>7. ASSUME NEW c \in Calls, ReleaseRuns(c) PROVE Facts'
  BY <1>7 DEF ReleaseRuns, KeyIsKept, GrantedKeepsKey, RunningKeepsKey, RenewalFindsKey, Margin
<1>8. ASSUME NEW c \in Calls, ReleaseFails(c) PROVE Facts'
  BY <1>8 DEF ReleaseFails, Fault
<1>9. ASSUME NEW c \in Calls, Fire(c) PROVE Facts'
  BY <1>9 DEF Fire, KeyIsKept, GrantedKeepsKey, RunningKeepsKey, RenewalFindsKey, Margin
<1>10. ASSUME NEW c \in Calls, RenewRuns(c) PROVE Facts'
  BY <1>10 DEF RenewRuns, KeyIsKept, GrantedKeepsKey, RunningKeepsKey, RenewalFindsKey, Margin
<1>11. ASSUME NEW c \in Calls, HearLost(c), Quiet' => UNCHANGED faults /\ renewal[c] = "missed"
       PROVE  Facts'
  <2>1. /\ NoOrphanTimer'
        /\ TimersAreMapped'
        /\ LeaseIffHeld'
        /\ NoEarlyRenewal'
    BY <1>11, StopKeepsTimers DEF HearLost
  <2>2. ~Quiet'
    BY <1>11 DEF HearLost, KeyIsKept, RenewalFindsKey
  <2>3. QED
    BY <2>1, <2>2
<1>12. ASSUME NEW c \in Calls, RenewAnswered(c) PROVE Facts'
  <2>1. CASE renewal[c] = "missed"
    BY <1>12, <1>11, <2>1 DEF RenewAnswered
  <2>2. CASE renewal[c] = "renewed"
    BY <1>12, <2>2 DEF RenewAnswered, KeyIsKept, GrantedKeepsKey, RunningKeepsKey,
       RenewalFindsKey, Margin
  <2>3. QED
    BY <1>12, <2>1, <2>2 DEF RenewAnswered
<1>13. ASSUME NEW c \in Calls, RenewFails(c) PROVE Facts'
  BY <1>13, <1>11 DEF RenewFails, Fault
<1>14. ASSUME Tick PROVE Facts'
  <2>1. /\ NoOrphanTimer'
        /\ TimersAreMapped'
        /\ LeaseIffHeld'
        /\ NoEarlyRenewal'
    BY <1>14 DEF Tick, Down
  <2>2. ASSUME Quiet' PROVE KeyIsKept'
    BY <1>14, <2>2 DEF Tick, Late, Fault, Down, KeyIsKept, GrantedKeepsKey, RunningKeepsKey,
       RenewalFindsKey, Margin
  <2>3. QED
    BY <2>1, <2>2
<1>15. ASSUME NEW p \in Procs, ModuleDestroy(p) PROVE Facts'
  <2>1. /\ NoOrphanTimer'
        /\ TimersAreMapped'
        /\ LeaseIffHeld'
        /\ NoEarlyRenewal'
    BY <1>15, StopKeepsTimers DEF ModuleDestroy
  <2>2. QED
    BY <1>15, <2>1 DEF ModuleDestroy
<1>16. ASSUME NEW p \in Procs, Crash(p) PROVE Facts'
  <2>1. /\ NoOrphanTimer'
        /\ TimersAreMapped'
        /\ LeaseIffHeld'
        /\ NoEarlyRenewal'
    BY <1>16 DEF Crash
  <2>2. ASSUME Quiet' PROVE KeyIsKept'
    BY <1>16, <2>2 DEF Crash, KeyIsKept, GrantedKeepsKey, RunningKeepsKey, RenewalFindsKey, Margin
  <2>3. QED
    BY <2>1, <2>2
<1>17. CASE UNCHANGED vars
  BY <1>17 DEF vars, KeyIsKept, GrantedKeepsKey, RunningKeepsKey, RenewalFindsKey
<1>18. QED
  BY <1>2, <1>3, <1>4, <1>5, <1>6, <1>7, <1>8, <1>9, <1>10, <1>12, <1>13,
     <1>14, <1>15, <1>16, <1>17 DEF Next, CallStep

\* The inductive invariant holds in every state.
THEOREM InductiveInvariant == Spec => []IInv
<1>1. Init => IInv
  BY DEF Init, IInv, TypeOK, PC, Renewal, NoOrphanTimer, TimersAreMapped, LeaseIffHeld,
     NoEarlyRenewal, KeyIsKept, GrantedKeepsKey, RunningKeepsKey, RenewalFindsKey
<1>2. QED
  BY <1>1, InvStep, PTL DEF Spec

\* A call that runs fn owns the key until a fault: the heartbeat of
\* startHeartbeat renews the lease before it can expire.
THEOREM RunningCallHoldsKey == Spec => []HeldWhileRunning
<1>1. IInv => HeldWhileRunning
  BY DEF IInv, HeldWhileRunning, Inside, KeyIsKept, RunningKeepsKey
<1>2. QED
  BY <1>1, InductiveInvariant, PTL

\* withCaseLock lets one call in at a time until a fault or a shutdown: the
\* lock implements CaseMutex.
THEOREM LockImplementsMutex == Spec => ImplementsMutex
<1>1. Init => Mutex!Init
  BY DEF Init, Mutex!Init, Inside, Quiet
<1>2. ASSUME IInv, IInv', [Next]_vars
      PROVE  [Mutex!Next]_Mutex!vars
  <2> USE <1>2 DEF IInv, TypeOK, Inside, redis, local, Go
  <2>0. ASSUME Inside' = Inside
        PROVE  [Mutex!Next]_Mutex!vars
    <3>1. Quiet' => Quiet
      BY DEF Next, CallStep, Quiet, Fault, Acquire, AcquireRuns, AcquireFails, Enter, FnEnds,
         ReleaseRuns, ReleaseFails, Fire, RenewRuns, RenewAnswered, RenewFails, HearLost, Tick,
         ModuleDestroy, Crash, vars
    <3>2. CASE Quiet' = Quiet
      BY <2>0, <3>2 DEF Mutex!vars
    <3>3. CASE Quiet' # Quiet
      BY <2>0, <3>1, <3>3 DEF Mutex!Next, Mutex!Fault, Quiet
    <3>4. QED
      BY <3>2, <3>3
  <2>1. ASSUME NEW c \in Calls, Enter(c)
        PROVE  [Mutex!Next]_Mutex!vars
    <3>1. Inside' = Inside \cup {c} /\ c \notin Inside /\ Quiet' = Quiet
      BY <2>1 DEF Enter, Quiet
    <3>2. Quiet => Inside = {}
      BY <2>1 DEF Enter, KeyIsKept, GrantedKeepsKey, RunningKeepsKey
    <3>3. Mutex!Enter(c)
      BY <3>1, <3>2 DEF Mutex!Enter
    <3>4. QED
      BY <3>3 DEF Mutex!Next
  <2>2. ASSUME NEW c \in Calls, FnEnds(c)
        PROVE  [Mutex!Next]_Mutex!vars
    <3>1. Inside' = Inside \ {c} /\ Quiet' = Quiet
      BY <2>2 DEF FnEnds, Quiet
    <3>2. Mutex!Leave({c})
      BY <3>1 DEF Mutex!Leave
    <3>3. QED
      BY <3>2 DEF Mutex!Next
  <2>3. ASSUME NEW p \in Procs, Crash(p)
        PROVE  [Mutex!Next]_Mutex!vars
    <3>1. PICK dying \in SUBSET Calls :
            dying = {c \in Calls : pc'[c] = "dead" /\ pc[c] # "dead"}
      OBVIOUS
    <3>2. Inside' = Inside \ dying /\ Quiet' = Quiet /\ dying # {}
      BY <2>3, <3>1 DEF Crash, Quiet
    <3>3. Mutex!Leave(dying)
      BY <3>2 DEF Mutex!Leave
    <3>4. QED
      BY <3>3 DEF Mutex!Next
  <2>4. ASSUME ~ \E c \in Calls : Enter(c) \/ FnEnds(c),
               ~ \E p \in Procs : Crash(p)
        PROVE  Inside' = Inside
    BY <2>4 DEF Next, CallStep, Acquire, AcquireRuns, AcquireFails, ReleaseRuns, ReleaseFails,
       Fire, RenewRuns, RenewAnswered, RenewFails, HearLost, Tick, ModuleDestroy, vars
  <2>5. QED
    BY <2>0, <2>1, <2>2, <2>3, <2>4
<1>3. QED
  BY <1>1, <1>2, InductiveInvariant, PTL DEF Spec, ImplementsMutex, Mutex!Spec

\* No interval of startHeartbeat outlives its call.
THEOREM NoIntervalOutlivesCall == Spec => []NoOrphanTimer
<1>1. IInv => NoOrphanTimer
  BY DEF IInv
<1>2. QED
  BY <1>1, InductiveInvariant, PTL

\* A release or renewal by a call that is not the owner, be its lease expired or
\* its key another's, leaves key and lease alone (RELEASE_LOCK_LUA, RENEW_LOCK_LUA).
THEOREM OthersLeaveKey == Spec => KeyTouchedByOwnerOnly
<1> DEFINE Ends(c) == \/ pc[c] = "releasing" /\ pc'[c] = "done"
                      \/ renewal[c] = "sent" /\ renewal'[c] # "sent"
<1>1. TypeOK /\ [Next]_vars => [\A c \in Calls : Ends(c) /\ holder # c => UNCHANGED redis]_vars
  <2> SUFFICES ASSUME TypeOK, Next, NEW c \in Calls, Ends(c), holder # c
               PROVE  UNCHANGED redis
    OBVIOUS
  <2> USE DEF TypeOK, Go
  <2>1. CASE Tick
    BY <2>1 DEF Tick
  <2>2. ASSUME NEW p \in Procs, ModuleDestroy(p) \/ Crash(p) PROVE UNCHANGED redis
    BY <2>2 DEF ModuleDestroy, Crash
  <2>3. ASSUME NEW d \in Calls, AcquireRuns(d) PROVE UNCHANGED redis
    BY <2>3 DEF AcquireRuns
  <2>4. ASSUME NEW d \in Calls, ReleaseRuns(d) PROVE UNCHANGED redis
    BY <2>4 DEF ReleaseRuns
  <2>5. ASSUME NEW d \in Calls, RenewRuns(d) PROVE UNCHANGED redis
    BY <2>5 DEF RenewRuns, redis
  <2>6. ASSUME NEW d \in Calls,
               \/ Acquire(d) \/ AcquireFails(d) \/ Enter(d) \/ FnEnds(d) \/ ReleaseFails(d)
               \/ Fire(d) \/ RenewAnswered(d) \/ RenewFails(d)
        PROVE  UNCHANGED redis
    BY <2>6 DEF Acquire, AcquireFails, Enter, FnEnds, ReleaseFails, Fire, RenewAnswered,
                RenewFails, HearLost
  <2>7. QED
    BY <2>1, <2>2, <2>3, <2>4, <2>5, <2>6 DEF Next, CallStep
<1>2. QED
  BY <1>1, TypeInvariant, PTL DEF Spec, KeyTouchedByOwnerOnly
=============================================================================

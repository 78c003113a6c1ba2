------------------------------ MODULE CaseLock ------------------------------
(***************************************************************************)
(* The per-case Redis lock of the orchestrator:                            *)
(* apps/api/.../orchestrator/infrastructure/locks/case-lock.service.ts.    *)
(*                                                                         *)
(* One key (keys of different cases do not touch each other) and the calls *)
(* of withCaseLock(case, fn) that compete for it from several processes.   *)
(* A call's identity stands for its token, which is fresh for every call   *)
(* (randomUUID).  Redis runs a command at a later moment than the call     *)
(* sends it, and the answer arrives later still; time is a clock of ticks  *)
(* that counts down the lease of the key and every heartbeat interval.     *)
(***************************************************************************)
EXTENDS Naturals, FiniteSets

CONSTANTS
  Calls,              \* the calls of withCaseLock
  Procs,              \* the processes (each has one CaseLockService)
  ProcOf,             \* the process that makes a call
  NoCall,             \* no token: the key does not exist
  Ttl,                \* ttlMs, in ticks
  HeartbeatInterval,  \* heartbeatIntervalMs, in ticks
  MaxFaults           \* bound on late answers and on Redis errors

ASSUME ProcOfAssumption == ProcOf \in [Calls -> Procs]
ASSUME NoCallAssumption == NoCall \notin Calls
\* the check of the constructor, without which it throws
ASSUME IntervalAssumption ==
  /\ Ttl \in Nat \ {0}
  /\ HeartbeatInterval \in Nat \ {0}
  /\ HeartbeatInterval < Ttl
ASSUME FaultsAssumption == MaxFaults \in Nat

VARIABLES
  holder,     \* the token stored at the key, or NoCall
  lease,      \* ticks until the key expires, 0 when there is no key
  pc,         \* where each call is in withCaseLock
  renewal,    \* the renewal a call has under way
  told,       \* ownershipLost of the call's closure
  timers,     \* the calls whose interval is live
  due,        \* ticks until the interval of a call fires
  mapped,     \* activeHeartbeats.get(key) of each process
  destroyed,  \* processes whose onModuleDestroy ran
  faults      \* late answers and Redis errors so far

redis == <<holder, lease>>
local == <<told, timers, due, mapped>>
vars  == <<holder, lease, pc, renewal, told, timers, due, mapped, destroyed, faults>>

PC == {"idle", "acquiring", "granted", "running", "releasing", "done",
       "conflict", "failed", "dead"}
Renewal == {"none", "sent", "renewed", "missed"}

TypeOK ==
  /\ holder \in Calls \cup {NoCall}
  /\ lease \in 0..Ttl
  /\ pc \in [Calls -> PC]
  /\ renewal \in [Calls -> Renewal]
  /\ told \in [Calls -> BOOLEAN]
  /\ timers \in SUBSET Calls
  /\ due \in [Calls -> 0..HeartbeatInterval]
  /\ mapped \in [Procs -> Calls \cup {NoCall}]
  /\ destroyed \in SUBSET Procs
  /\ faults \in 0..MaxFaults

Init ==
  /\ holder = NoCall
  /\ lease = 0
  /\ pc = [c \in Calls |-> "idle"]
  /\ renewal = [c \in Calls |-> "none"]
  /\ told = [c \in Calls |-> FALSE]
  /\ timers = {}
  /\ due = [c \in Calls |-> HeartbeatInterval]
  /\ mapped = [p \in Procs |-> NoCall]
  /\ destroyed = {}
  /\ faults = 0

-----------------------------------------------------------------------------
(* Helpers                                                                 *)

\* A late answer or an error of Redis: one more fault, of MaxFaults.
Fault == faults < MaxFaults /\ faults' = faults + 1

Go(c, to) == pc' = [pc EXCEPT ![c] = to]

\* One tick less of a countdown
Down(n) == IF n = 0 THEN 0 ELSE n - 1

\* Mutant: the map entry is deleted but the interval is not cleared.
StopWithoutClear(p) ==
  /\ mapped' = [mapped EXCEPT ![p] = NoCall]
  /\ UNCHANGED <<timers, due>>

\* stopHeartbeat(handle): clears the interval the process has mapped at the
\* handle's key, whichever call started it
StopHeartbeat(p) ==
  /\ timers' = timers \ {mapped[p]}
  /\ due' = [c \in Calls |-> IF c = mapped[p] THEN HeartbeatInterval ELSE due[c]]
  /\ mapped' = [mapped EXCEPT ![p] = NoCall]

\* Mutant: an interval that is already mapped at the key is left running.
StartOverOldInterval(c) ==
  /\ timers' = timers \cup {c}
  /\ due' = [due EXCEPT ![c] = HeartbeatInterval]
  /\ mapped' = [mapped EXCEPT ![ProcOf[c]] = c]

\* startHeartbeat(handle): stops the interval mapped at the key, if any, and
\* maps a new one
StartHeartbeat(c) ==
  /\ timers' = (timers \ {mapped[ProcOf[c]]}) \cup {c}
  /\ due' = [d \in Calls |-> IF d \in {c, mapped[ProcOf[c]]} THEN HeartbeatInterval
                             ELSE due[d]]
  /\ mapped' = [mapped EXCEPT ![ProcOf[c]] = c]

\* Something is owed that had to happen before this tick for the lease to be
\* renewed in time: an answer to SET, a due interval, a renewal.
Late == \E c \in Calls : \/ pc[c] = "granted"
                         \/ c \in timers /\ due[c] = 0
                         \/ renewal[c] = "sent"

-----------------------------------------------------------------------------
(* withCaseLock                                                            *)

\* acquireLock sends SET key token PX ttl NX
Acquire(c) ==
  /\ pc[c] = "idle"
  /\ Go(c, "acquiring")
  /\ UNCHANGED <<redis, renewal, local, destroyed, faults>>

\* Mutant: SET without NX.
SetWithoutNX(c) ==
  /\ pc[c] = "acquiring"
  /\ holder' = c
  /\ lease' = Ttl
  /\ Go(c, "granted")
  /\ UNCHANGED <<renewal, local, destroyed, faults>>

\* Redis runs it; anything but OK is a CaseLockConflictError
AcquireRuns(c) ==
  /\ pc[c] = "acquiring"
  /\ \/ /\ holder = NoCall
        /\ holder' = c
        /\ lease' = Ttl
        /\ Go(c, "granted")
     \/ /\ holder # NoCall
        /\ Go(c, "conflict")
        /\ UNCHANGED redis
  /\ UNCHANGED <<renewal, local, destroyed, faults>>

\* The connection fails before or after Redis ran the SET: the caller sees an
\* error either way, and in the second case the key stays until it expires
AcquireFails(c) ==
  /\ pc[c] \in {"acquiring", "granted"}
  /\ Fault
  /\ Go(c, "failed")
  /\ UNCHANGED <<redis, renewal, local, destroyed>>

\* acquireLock returns: the heartbeat starts and fn is called
Enter(c) ==
  /\ pc[c] = "granted"
  /\ Go(c, "running")
  /\ StartHeartbeat(c)
  /\ UNCHANGED <<redis, renewal, told, destroyed, faults>>

\* fn returns or throws; the finally block stops the heartbeat and sends the
\* release
FnEnds(c) ==
  /\ pc[c] = "running"
  /\ Go(c, "releasing")
  /\ StopHeartbeat(ProcOf[c])
  /\ UNCHANGED <<redis, renewal, told, destroyed, faults>>

\* Mutant: DEL without comparing the token.
PlainDelete(c) ==
  /\ pc[c] = "releasing"
  /\ renewal[c] = "none"
  /\ Go(c, "done")
  /\ holder' = NoCall
  /\ lease' = 0
  /\ UNCHANGED <<renewal, local, destroyed, faults>>

\* RELEASE_LOCK_LUA: DEL only for the token that is stored.  A connection
\* answers in order, so the renewal of the call was answered before.
ReleaseRuns(c) ==
  /\ pc[c] = "releasing"
  /\ renewal[c] = "none"
  /\ Go(c, "done")
  /\ \/ /\ holder = c
        /\ holder' = NoCall
        /\ lease' = 0
     \/ /\ holder # c
        /\ UNCHANGED redis
  /\ UNCHANGED <<renewal, local, destroyed, faults>>

\* release errors are ignored
ReleaseFails(c) ==
  /\ pc[c] = "releasing"
  /\ Fault
  /\ Go(c, "done")
  /\ UNCHANGED <<redis, renewal, local, destroyed>>

-----------------------------------------------------------------------------
(* The heartbeat                                                           *)

\* The interval fires and sends the renewal.  An interval that fires while an
\* earlier renewal is unanswered is taken to fire when the answer is in.
Fire(c) ==
  /\ c \in timers
  /\ due[c] = 0
  /\ renewal[c] = "none"
  /\ due' = [due EXCEPT ![c] = HeartbeatInterval]
  /\ renewal' = [renewal EXCEPT ![c] = "sent"]
  /\ UNCHANGED <<redis, pc, told, timers, mapped, destroyed, faults>>

\* Mutant: the script compares the token and forgets PEXPIRE.
RenewWithoutExpire(c) ==
  /\ renewal[c] = "sent"
  /\ renewal' = [renewal EXCEPT ![c] = IF holder = c THEN "renewed" ELSE "missed"]
  /\ UNCHANGED <<redis, pc, local, destroyed, faults>>

\* Mutant: a renewal adds a lease to what is left of the old one.
RenewAddsLease(c) ==
  /\ renewal[c] = "sent"
  /\ holder = c
  /\ lease' = lease + Ttl
  /\ renewal' = [renewal EXCEPT ![c] = "renewed"]
  /\ UNCHANGED <<holder, pc, local, destroyed, faults>>

\* RENEW_LOCK_LUA: PEXPIRE only for the token that is stored
RenewRuns(c) ==
  /\ renewal[c] = "sent"
  /\ \/ /\ holder = c
        /\ lease' = Ttl
        /\ renewal' = [renewal EXCEPT ![c] = "renewed"]
     \/ /\ holder # c
        /\ UNCHANGED lease
        /\ renewal' = [renewal EXCEPT ![c] = "missed"]
  /\ UNCHANGED <<holder, pc, local, destroyed, faults>>

\* Mutant: the heartbeat stops and nobody calls onOwnershipLost.
HearLostSilently(c) ==
  /\ renewal' = [renewal EXCEPT ![c] = "none"]
  /\ StopHeartbeat(ProcOf[c])
  /\ UNCHANGED <<redis, pc, told, destroyed>>

\* The process hears that the renewal was not done: it stops the heartbeat
\* mapped at the key and calls onOwnershipLost
HearLost(c) ==
  /\ renewal' = [renewal EXCEPT ![c] = "none"]
  /\ StopHeartbeat(ProcOf[c])
  /\ told' = [told EXCEPT ![c] = TRUE]
  /\ UNCHANGED <<redis, pc, destroyed>>

RenewAnswered(c) ==
  /\ pc[c] # "dead"
  /\ \/ /\ renewal[c] = "renewed"
        /\ renewal' = [renewal EXCEPT ![c] = "none"]
        /\ UNCHANGED <<redis, pc, local, destroyed>>
     \/ /\ renewal[c] = "missed"
        /\ HearLost(c)
  /\ UNCHANGED faults

\* the catch of the interval's callback, before or after Redis ran the renewal
RenewFails(c) ==
  /\ pc[c] # "dead"
  /\ renewal[c] # "none"
  /\ Fault
  /\ HearLost(c)

-----------------------------------------------------------------------------
(* Time, shutdown, crash                                                   *)

Tick ==
  /\ holder # NoCall \/ timers # {}
  /\ \/ ~Late /\ UNCHANGED faults
     \/ Late /\ Fault
  /\ holder' = IF lease = 1 THEN NoCall ELSE holder
  /\ lease' = Down(lease)
  /\ due' = [c \in Calls |-> IF c \in timers THEN Down(due[c]) ELSE due[c]]
  /\ UNCHANGED <<pc, renewal, told, timers, mapped, destroyed>>

\* onModuleDestroy clears every mapped interval; the calls go on
ModuleDestroy(p) ==
  /\ p \notin destroyed
  /\ destroyed' = destroyed \cup {p}
  /\ StopHeartbeat(p)
  /\ UNCHANGED <<redis, pc, renewal, told, faults>>

\* The process dies with its calls and intervals; commands it sent
\* may still be run by Redis.
Crash(p) ==
  LET dying == {c \in Calls : /\ ProcOf[c] = p
                              /\ pc[c] \in {"acquiring", "granted", "running", "releasing"}}
  IN  /\ dying # {}
      /\ pc' = [c \in Calls |-> IF c \in dying THEN "dead" ELSE pc[c]]
      /\ timers' = {c \in timers : ProcOf[c] # p}
      /\ due' = [c \in Calls |-> IF ProcOf[c] = p THEN HeartbeatInterval ELSE due[c]]
      /\ mapped' = [mapped EXCEPT ![p] = NoCall]
      /\ UNCHANGED <<redis, renewal, told, destroyed, faults>>

-----------------------------------------------------------------------------
CallStep(c) ==
  \/ Acquire(c) \/ AcquireRuns(c) \/ AcquireFails(c) \/ Enter(c) \/ FnEnds(c)
  \/ ReleaseRuns(c) \/ ReleaseFails(c)
  \/ Fire(c) \/ RenewRuns(c) \/ RenewAnswered(c) \/ RenewFails(c)

Next ==
  \/ \E c \in Calls : CallStep(c)
  \/ Tick
  \/ \E p \in Procs : ModuleDestroy(p) \/ Crash(p)

\* Redis runs what it is sent and answers, intervals fire, time passes; how
\* long fn takes, and whether a fault happens, is left open.
Fairness ==
  /\ WF_vars(Tick)
  /\ \A c \in Calls : WF_vars(AcquireRuns(c) \/ Enter(c) \/ ReleaseRuns(c))
  /\ \A c \in Calls : WF_vars(Fire(c) \/ RenewRuns(c) \/ RenewAnswered(c))

Spec == Init /\ [][Next]_vars
FairSpec == Spec /\ Fairness

-----------------------------------------------------------------------------
(* Properties                                                              *)

Inside == {c \in Calls : pc[c] = "running"}
Quiet  == faults = 0 /\ destroyed = {}

\* While every answer is in time and no process shuts down, a call that runs
\* fn owns the key: the heartbeat renews the lease before it can expire.
HeldWhileRunning == Quiet => \A c \in Inside : holder = c

\* An interval never survives its call, although intervals are kept by key
\* and not by token: a leaked one would renew the key for good.
NoOrphanTimer == \A c \in timers : pc[c] = "running"

\* Nobody but the owner of the key extends its lease or deletes it: a call
\* whose lease expired cannot disturb the next owner ("Wrong owner cannot
\* release" of the integration test, and the same of renewals).
KeyTouchedByOwnerOnly ==
  [][\A c \in Calls :
       (\/ pc[c] = "releasing" /\ pc'[c] = "done"
        \/ renewal[c] = "sent" /\ renewal'[c] # "sent")
       /\ holder # c => UNCHANGED redis]_vars

\* The lock implements the mutex: calls enter one at a time until a fault or
\* a shutdown.
Mutex == INSTANCE CaseMutex WITH inside <- Inside, faulty <- ~Quiet
ImplementsMutex == Mutex!Spec

\* A key whose call is over (its release failed, its process died, the answer
\* to its SET was lost) becomes free: "TTL recovery" of the integration test.
AbandonedKeyFreed ==
  \A c \in Calls :
    (holder = c /\ pc[c] \in {"done", "failed", "dead"}) ~> holder # c

\* A call that runs on after its lease expired learns of it, if no other call
\* of its process works on the case and the process is not shutting down.
LossIsHeard ==
  \A c \in Calls :
    (\A d \in Calls \ {c} : ProcOf[d] # ProcOf[c]) =>
      ((pc[c] = "running" /\ holder # c)
         ~> (told[c] \/ pc[c] # "running" \/ ProcOf[c] \in destroyed))

\* docs/production-readiness.md:70 "Locks heartbeat every heartbeatIntervalMs
\* ms": the owner of the key that runs fn, was not told of a loss and is not
\* shutting down has a live interval.
OwnerHeartbeats ==
  \A c \in Inside :
    holder = c /\ ~told[c] /\ ProcOf[c] \notin destroyed => c \in timers
=============================================================================

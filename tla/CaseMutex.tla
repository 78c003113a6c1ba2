----------------------------- MODULE CaseMutex ------------------------------
(***************************************************************************)
(* What the per-case lock promises its callers: until something goes wrong *)
(* with the lock at most one call is inside withCaseLock(case, fn).  Once  *)
(* the promise is off (a heartbeat too late, a Redis error, a shutdown)    *)
(* calls may overlap.  CaseLock implements this module.                    *)
(***************************************************************************)
CONSTANT Calls
VARIABLES inside,    \* the calls whose fn is running
          faulty     \* TRUE once the lock no longer promises exclusion

vars == <<inside, faulty>>

Init == inside = {} /\ faulty = FALSE

Enter(c) ==
  /\ c \notin inside
  /\ inside = {} \/ faulty
  /\ inside' = inside \cup {c}
  /\ UNCHANGED faulty

\* fn returns or throws, or the processes of the calls in C die
Leave(C) ==
  /\ C # {}
  /\ inside' = inside \ C
  /\ UNCHANGED faulty

Fault ==
  /\ faulty' = TRUE
  /\ UNCHANGED inside

Next == \/ \E c \in Calls : Enter(c)
        \/ \E C \in SUBSET Calls : Leave(C)
        \/ Fault

Spec == Init /\ [][Next]_vars
=============================================================================

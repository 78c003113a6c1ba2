----------------------------- MODULE MCCaseLock -----------------------------
(***************************************************************************)
(* Instance of CaseLock for TLC: two calls in one process, one in another. *)
(***************************************************************************)
EXTENDS CaseLock, TLC

CONSTANTS c1, c2, c3, p1, p2

MCCalls  == {c1, c2, c3}
MCProcs  == {p1, p2}
MCProcOf == [c \in MCCalls |-> IF c = c3 THEN p2 ELSE p1]
=============================================================================

----------------------- MODULE MCOrchestrationEngine ------------------------
(***************************************************************************)
(* Instance of OrchestrationEngine for TLC: three executions at a time.      *)
(***************************************************************************)
EXTENDS OrchestrationEngine, TLC

CONSTANTS e1, e2, e3

MCExecs == {e1, e2, e3}
ExecSymmetry == Permutations(MCExecs)
=============================================================================

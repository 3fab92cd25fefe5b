--------------------------- MODULE MCPlanRuntime ---------------------------
(***************************************************************************)
(* TLC instance of PlanRuntime: three steps, each of which falls back to   *)
(* its successor, and two sessions.                                        *)
(***************************************************************************)
EXTENDS PlanRuntime, TLC

MCFallback == (0 :> 1) @@ (1 :> 2) @@ (2 :> NoStep)
CallerSymmetry == Permutations(Callers)
=============================================================================

--------------------------- MODULE MCExternalCalls ---------------------------
(***************************************************************************)
(* TLC instance of ExternalCalls: two agents that are each other's         *)
(* fallback, an endpoint and a workflow activity.                          *)
(***************************************************************************)
EXTENDS ExternalCalls, TLC

CONSTANTS a1, a2

MCFallbackOf == (a1 :> a2) @@ (a2 :> a1)
=============================================================================

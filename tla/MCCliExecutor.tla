--------------------------- MODULE MCCliExecutor ---------------------------
(***************************************************************************)
(* TLC instance of CliExecutor: three platforms with adapters, one of them *)
(* opencode, and one whose adapter is missing.  Chains are those that      *)
(* resolve_cli_chain builds, up to length three: no platform twice, and    *)
(* opencode last, or first when the tenant chose it; and the chains of its *)
(* callers, one platform alone, or none.                                   *)
(***************************************************************************)
EXTENDS CliExecutor

CONSTANTS claude_code, codex, copilot_cli

MCPlatforms == {claude_code, codex, copilot_cli, opencode}
MCRegistered == MCPlatforms \ {copilot_cli}

NoRepeats(c) == \A i, k \in DOMAIN c : i # k => c[i] # c[k]
Resolvable(c) == Len(c) < 2 \/ c[1] = opencode \/ c[Len(c)] = opencode

MCChains ==
  {c \in UNION {[1 .. n -> MCPlatforms] : n \in 0 .. 3} :
     NoRepeats(c) /\ Resolvable(c)}

\* Lineages by what the gate can tell apart.
MCLineages == {<<>>, <<"a">>, <<"a", "b">>, <<"a", "a">>, <<"a", "b", "c">>}
=============================================================================

---------------------------- MODULE MCCliRouting ----------------------------
(***************************************************************************)
(* TLC instance of CliRouting: two processes, and two paid platforms of    *)
(* which one is connected, or both.                                        *)
(***************************************************************************)
EXTENDS CliRouting, TLC

CONSTANTS gemini_cli, codex

MCPaid == {gemini_cli, codex}
MCPriority == <<gemini_cli, codex>>
MCRanked == [S \in SUBSET MCPaid |-> SelectSeq(MCPriority, LAMBDA p : p \in S)]
ProcessSymmetry == Permutations(Processes)
=============================================================================

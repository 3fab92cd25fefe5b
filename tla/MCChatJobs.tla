----------------------------- MODULE MCChatJobs -----------------------------
(***************************************************************************)
(* TLC instance of ChatJobs for its counterexamples: one job is enough.    *)
(***************************************************************************)
EXTENDS ChatJobs

CONSTANT j1

MCOneJob == {j1}
=============================================================================

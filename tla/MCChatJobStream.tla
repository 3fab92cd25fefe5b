-------------------------- MODULE MCChatJobStream --------------------------
(***************************************************************************)
(* TLC instance of ChatJobStream: one job and its follower.                *)
(***************************************************************************)
EXTENDS ChatJobStream

CONSTANT j1

MCJobs == {j1}
=============================================================================

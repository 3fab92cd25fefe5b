-------------------------- MODULE MCSessionEvents --------------------------
(***************************************************************************)
(* TLC instances of SessionEvents.                                         *)
(***************************************************************************)
EXTENDS SessionEvents, TLC

CONSTANTS p1, p2

MCPublishers == {p1, p2}

PublisherSymmetry == Permutations(Publishers)
=============================================================================

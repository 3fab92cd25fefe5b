--------------------------- MODULE MCReviewRounds ---------------------------
(***************************************************************************)
(* TLC instance of ReviewRounds: two CLIs, so that an agreed finding needs *)
(* both and their records can overlap, and rounds enough for a record of   *)
(* one round to arrive in the next.                                        *)
(***************************************************************************)
EXTENDS ReviewRounds, TLC

Symmetry == Permutations(Clis)
=============================================================================

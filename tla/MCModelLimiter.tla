--------------------------- MODULE MCModelLimiter ---------------------------
(***************************************************************************)
(* Small instances of ModelLimiter.                                        *)
(***************************************************************************)
EXTENDS ModelLimiter, TLC

MCHints == {0, 1, 2}
MCSymmetry == Permutations(Threads)
=============================================================================

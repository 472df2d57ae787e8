---------------------------- MODULE MCHashJoin ----------------------------
(* Two batches on each side, the second one of the right side partial. *)
EXTENDS HashJoin, TLC

\* Join cells are only compared for equality.
MCSymmetry == Permutations(Keys)
=============================================================================

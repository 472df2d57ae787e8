---------------------------- MODULE MCAggregate ----------------------------
(* Ints of three bits, so that two rows of one group overflow; three groups, *)
(* so that the results take two batches, the second one partial.             *)
EXTENDS Aggregate

MCAmounts == {-3, 2, 3}
=============================================================================

--------------------------- MODULE MCTableFaults ---------------------------
(* A two-column table whose allocations may fail. *)
EXTENDS TableFaults, TLC

MCColumnNames == <<"id", "name">>
MCNames == {"id", "name"}

\* Cells are compared for equality only.
MCSymmetry == Permutations(Values)
=============================================================================

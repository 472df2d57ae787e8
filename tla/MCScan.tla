------------------------------- MODULE MCScan -------------------------------
(* One column, a name the schema does not have, two batches of rows. *)
EXTENDS Scan, TLC

MCColumnNames == <<"id">>
MCNames == {"id", "other"}

\* The scans compare cells and keys for equality only.
MCSymmetry == Permutations(Values)
=============================================================================

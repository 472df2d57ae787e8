----------------------------- MODULE Aggregate -----------------------------
(***************************************************************************)
(* AggregateExecutor over a SeqScanExecutor                                *)
(* (src/src/executor/Executor.cpp): SUM of one column, grouped by another. *)
(* init drains the child, adds up, and keeps the groups as a list; next    *)
(* hands that list out in batches.  std::stoi throws out of init on a cell *)
(* that is not a number, and the client may go on using the executor.  A   *)
(* running total that leaves the range of an int is undefined behaviour:   *)
(* from there on nothing is known, and nothing more is modelled.           *)
(*                                                                         *)
(* An unresolved or missing column is an index out of range in the code    *)
(* and is left out.  The name of the function is not looked at.            *)
(***************************************************************************)
EXTENDS Integers, Sequences, SequencesExt, FiniteSetsExt

CONSTANTS
  Groups,      \* the cells of the GROUP BY column
  Amounts,     \* the numbers std::stoi reads from the other column's cells
  NotANumber,  \* a cell on which std::stoi throws
  IntMax,      \* the largest int
  MaxRows,     \* bound on the rows of the table
  BATCH_SIZE

ASSUME AggregateAssumption ==
  /\ IntMax \in Nat /\ MaxRows \in Nat /\ Amounts \subseteq -IntMax - 1..IntMax
  /\ NotANumber \notin Amounts
  /\ BATCH_SIZE \in Nat \ {0}

VARIABLES
  rows,            \* the table: <<group, amount>> per row; any "$" is stripped
  final_results_,  \* <<group, sum>> per group
  current_row_,    \* how many of them next has handed out
  opened,          \* how many rows there were at the last init that returned
  outcome,         \* of the last init: "returned", also before any, "threw" or "undefined"
  delivered,       \* the rows handed out since init
  ended            \* whether the last next returned false

vars == <<rows, final_results_, current_row_, opened, outcome, delivered, ended>>

-----------------------------------------------------------------------------
\* The range of an int.
Ints == -IntMax - 1..IntMax

GroupsOf(rs) == {row[1] : row \in Range(rs)}

\* hash_map[group_key] += amount
Add(hash_map, row) == [hash_map EXCEPT ![row[1]] = @ + row[2]]

\* The map before the first row and after each: a new key starts at 0.
HashMaps(rs) ==
  LET map[i \in 0..Len(rs)] ==
        IF i = 0 THEN [g \in GroupsOf(rs) |-> 0] ELSE Add(map[i - 1], rs[i])
  IN  map

HashMap(rs) == HashMaps(rs)[Len(rs)]

Numeric(rs) == \A i \in 1..Len(rs) : rs[i][2] # NotANumber

\* No total leaves the range of an int, not even on the way.
Fits(rs) == \A i \in 0..Len(rs) : \A g \in GroupsOf(rs) : HashMaps(rs)[i][g] \in Ints

Init ==
  /\ rows = <<>> /\ opened = 0
  /\ final_results_ = <<>> /\ current_row_ = 0
  /\ outcome = "returned" /\ delivered = <<>> /\ ended = FALSE

Insert(row) ==
  /\ Len(rows) < MaxRows /\ outcome # "undefined"
  /\ rows' = Append(rows, row)
  /\ UNCHANGED <<final_results_, current_row_, opened, outcome, delivered, ended>>

\* Mutant of AggregateInit: final_results_ is not cleared.
AggregateInitAppends ==
  /\ outcome # "undefined" /\ Numeric(rows) /\ Fits(rows)
  /\ \E order \in SetToSeqs(GroupsOf(rows)) :
       final_results_' = final_results_ \o
         [i \in 1..Len(order) |-> <<order[i], HashMap(rows)[order[i]]>>]
  /\ current_row_' = 0
  /\ opened' = Len(rows) /\ outcome' = "returned"
  /\ delivered' = <<>> /\ ended' = FALSE
  /\ UNCHANGED rows

\* Every amount is a number and every total an int.  The hash map is walked in no particular order.
AggregateInit ==
  /\ outcome # "undefined" /\ Numeric(rows) /\ Fits(rows)
  /\ \E order \in SetToSeqs(GroupsOf(rows)) :
       final_results_' = [i \in 1..Len(order) |-> <<order[i], HashMap(rows)[order[i]]>>]
  /\ current_row_' = 0
  /\ opened' = Len(rows) /\ outcome' = "returned"
  /\ delivered' = <<>> /\ ended' = FALSE
  /\ UNCHANGED rows

\* std::stoi throws on the row behind the first n: the results were cleared
\* already, the sums are lost.
AggregateInitThrows ==
  /\ outcome # "undefined"
  /\ \E n \in 0..Len(rows) - 1 :
       /\ rows[n + 1][2] = NotANumber
       /\ Numeric(SubSeq(rows, 1, n)) /\ Fits(SubSeq(rows, 1, n))
  /\ final_results_' = <<>> /\ current_row_' = 0
  /\ outcome' = "threw"
  /\ delivered' = <<>> /\ ended' = FALSE
  /\ UNCHANGED <<rows, opened>>

\* A total overflows before std::stoi throws or the rows end.
AggregateInitOverflows ==
  /\ outcome # "undefined"
  /\ \E n \in 1..Len(rows) : Numeric(SubSeq(rows, 1, n)) /\ ~Fits(SubSeq(rows, 1, n))
  /\ outcome' = "undefined"
  /\ UNCHANGED <<rows, final_results_, current_row_, opened, delivered, ended>>

\* Mutant of AggregateNext: every batch moves on by BATCH_SIZE.
AggregateNextOvershoots ==
  /\ outcome # "undefined" /\ current_row_ < Len(final_results_)
  /\ delivered' = delivered \o
       SubSeq(final_results_, current_row_ + 1,
              Min({current_row_ + BATCH_SIZE, Len(final_results_)}))
  /\ current_row_' = current_row_ + BATCH_SIZE
  /\ ended' = FALSE
  /\ UNCHANGED <<rows, final_results_, opened, outcome>>

AggregateNext ==
  /\ outcome # "undefined" /\ current_row_ < Len(final_results_)
  /\ LET rows_to_fetch == Min({BATCH_SIZE, Len(final_results_) - current_row_})
     IN  /\ delivered' = delivered \o
              SubSeq(final_results_, current_row_ + 1, current_row_ + rows_to_fetch)
         /\ current_row_' = current_row_ + rows_to_fetch
  /\ ended' = FALSE
  /\ UNCHANGED <<rows, final_results_, opened, outcome>>

AggregateEnd ==
  /\ outcome # "undefined" /\ current_row_ >= Len(final_results_)
  /\ ended' = TRUE
  /\ UNCHANGED <<rows, final_results_, current_row_, opened, outcome, delivered>>

Next ==
  \/ \E g \in Groups, a \in Amounts \cup {NotANumber} : Insert(<<g, a>>)
  \/ AggregateInit \/ AggregateInitThrows \/ AggregateInitOverflows
  \/ AggregateNext \/ AggregateEnd

Spec == Init /\ [][Next]_vars

-----------------------------------------------------------------------------
TypeOK ==
  /\ rows \in Seq(Groups \X (Amounts \cup {NotANumber})) /\ Len(rows) <= MaxRows
  /\ final_results_ \in Seq(Groups \X Ints)
  /\ current_row_ \in 0..Len(final_results_)
  /\ opened \in 0..Len(rows)
  /\ delivered \in Seq(Groups \X Ints)
  /\ outcome \in {"returned", "threw", "undefined"} /\ ended \in BOOLEAN

\* The mathematical sum of group g over the rows rs.
SumOf(g, rs) ==
  LET sum[i \in 0..Len(rs)] ==
        IF i = 0 THEN 0
        ELSE IF rs[i][1] = g THEN sum[i - 1] + rs[i][2] ELSE sum[i - 1]
  IN  sum[Len(rs)]

\* A client that pulls until false has got each group of the table as it was at
\* init exactly once, with its exact sum, unless a total overflowed while it was
\* added up, however often init ran or threw before and whatever was inserted
\* meanwhile (AggregateExecutor::init and next).
AggregateExact ==
  ended /\ outcome = "returned" =>
    LET seen == SubSeq(rows, 1, opened)
    IN  /\ {row[1] : row \in Range(delivered)} = GroupsOf(seen)
        /\ Len(delivered) = Cardinality(GroupsOf(seen))
        /\ \A row \in Range(delivered) : row[2] = SumOf(row[1], seen)
=============================================================================

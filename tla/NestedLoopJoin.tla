--------------------------- MODULE NestedLoopJoin ---------------------------
(***************************************************************************)
(* NestedLoopJoinExecutor over two SeqScanExecutors                        *)
(* (src/src/executor/Executor.cpp).  init copies the whole right table     *)
(* into right_materialized_; each next joins one batch of the left table,  *)
(* which it reads live.  Rows are inserted on either side between pulls.   *)
(*                                                                         *)
(* Of a row only its number and its join cell matter: the rest of it is    *)
(* copied along.  Module Table shows that a row keeps its cells.           *)
(***************************************************************************)
EXTENDS Integers, Sequences, SequencesExt

CONSTANTS
  Keys,        \* the cells of the join columns
  Predicates,  \* the ON conditions: "=", ">" or "unresolved", see JoinInit
  MaxLeft,     \* bound on the rows of the left table
  MaxRight,    \* bound on the rows of the right table
  BATCH_SIZE

VARIABLES
  predicate_,          \* the kind of ON condition
  left_keys,           \* the join cells of the left table, in row order
  right_keys,          \* those of the right table
  left_row,            \* the left scan's current_row_
  right_materialized_, \* the right table's chunks, as lists of row numbers
  opened,              \* how many right rows there were at init
  out,                 \* the <<left row, right row>> pairs delivered since init
  ended                \* next returned false, and no row was inserted since

tables == <<left_keys, right_keys>>
vars   == <<predicate_, tables, left_row, right_materialized_, opened, out, ended>>

-----------------------------------------------------------------------------
\* The row numbers of the batch a scan of n rows copies when s are behind it.
BatchAt(s, n) == [i \in 1..(IF n - s < BATCH_SIZE THEN n - s ELSE BATCH_SIZE) |-> s + i]

\* Mutant of Batches: the last batch is lost when it is not full.
BatchesFull(n) ==
  [b \in 1..(n \div BATCH_SIZE) |-> BatchAt((b - 1) * BATCH_SIZE, n)]

\* The batches that a scan of n rows delivers until its end.
Batches(n) ==
  [b \in 1..((n + BATCH_SIZE - 1) \div BATCH_SIZE) |-> BatchAt((b - 1) * BATCH_SIZE, n)]

\* The innermost loop: left row l against each row of one right chunk.
RowPairs(l, chunk) ==
  FlattenSeq([i \in 1..Len(chunk) |->
    IF left_keys[l] = right_keys[chunk[i]] THEN << <<l, chunk[i]>> >> ELSE <<>>])

\* The loop around it: left row l against every right chunk.
PairsOf(l, chunks) ==
  FlattenSeq([c \in 1..Len(chunks) |-> RowPairs(l, chunks[c])])

\* What one left batch contributes.
JoinBatch(batch, chunks) ==
  FlattenSeq([i \in 1..Len(batch) |-> PairsOf(batch[i], chunks)])

-----------------------------------------------------------------------------
\* Both tables empty, the executor as constructed.
Init ==
  /\ predicate_ \in Predicates
  /\ left_keys = <<>> /\ right_keys = <<>>
  /\ left_row = 0 /\ right_materialized_ = <<>> /\ opened = 0
  /\ out = <<>> /\ ended = FALSE

InsertLeft(k) ==
  /\ Len(left_keys) < MaxLeft
  /\ left_keys' = Append(left_keys, k)
  /\ ended' = FALSE
  /\ UNCHANGED <<predicate_, right_keys, left_row, right_materialized_, opened, out>>

InsertRight(k) ==
  /\ Len(right_keys) < MaxRight
  /\ right_keys' = Append(right_keys, k)
  /\ UNCHANGED <<predicate_, left_keys, left_row, right_materialized_, opened, out, ended>>

\* init: the left scan restarts, the right side is read to its end.
JoinInit ==
  /\ left_row' = 0
  /\ right_materialized_' = Batches(Len(right_keys))
  /\ opened' = Len(right_keys)
  /\ out' = <<>>
  /\ ended' = FALSE
  /\ UNCHANGED <<predicate_, tables>>

\* Mutant of JoinNext: the left scan moves by a full batch even at its end.
JoinNextOvershoots ==
  /\ left_row < Len(left_keys)
  /\ LET batch == BatchAt(left_row, Len(left_keys))
         pairs == IF predicate_ = "=" THEN JoinBatch(batch, right_materialized_)
                                      ELSE <<>>
     IN  /\ left_row' = left_row + BATCH_SIZE
         /\ out' = out \o pairs
         /\ ended' = (pairs = <<>>)
  /\ UNCHANGED <<predicate_, tables, right_materialized_, opened>>

\* next with a left batch at hand.  Without an "=" between two columns that are
\* found the batch is dropped and the answer is false; it is also false when no
\* row of the batch has a match.
JoinNext ==
  /\ left_row < Len(left_keys)
  /\ LET batch == BatchAt(left_row, Len(left_keys))
         pairs == IF predicate_ = "=" THEN JoinBatch(batch, right_materialized_)
                                      ELSE <<>>
     IN  /\ left_row' = left_row + Len(batch)
         /\ out' = out \o pairs
         /\ ended' = (pairs = <<>>)
  /\ UNCHANGED <<predicate_, tables, right_materialized_, opened>>

\* next when the left scan has no more rows.
JoinEnd ==
  /\ left_row >= Len(left_keys)
  /\ ended' = TRUE
  /\ UNCHANGED <<predicate_, tables, left_row, right_materialized_, opened, out>>

Next ==
  \/ \E k \in Keys : InsertLeft(k) \/ InsertRight(k)
  \/ JoinInit \/ JoinNext \/ JoinEnd

Spec == Init /\ [][Next]_vars

-----------------------------------------------------------------------------
TypeOK ==
  /\ predicate_ \in Predicates
  /\ left_keys \in Seq(Keys) /\ Len(left_keys) <= MaxLeft
  /\ right_keys \in Seq(Keys) /\ Len(right_keys) <= MaxRight
  /\ left_row \in 0..Len(left_keys)
  /\ opened \in 0..Len(right_keys)
  /\ right_materialized_ \in Seq(Seq(1..opened))
  /\ out \in Seq((1..Len(left_keys)) \X (1..Len(right_keys)))
  /\ ended \in BOOLEAN

\* The pairs an equi-join of left rows L with the first n right rows must have.
Matches(L, n) == {p \in L \X (1..n) : left_keys[p[1]] = right_keys[p[2]]}

\* Pairs come by left row, then by right row, and none comes twice.
LeftThenRight(s) ==
  \A i, j \in 1..Len(s) : i < j =>
    s[i][1] < s[j][1] \/ (s[i][1] = s[j][1] /\ s[i][2] < s[j][2])

\* An equi-join has delivered every matching pair of the left rows it consumed
\* and the right rows it saw at init, each once and in the order of the two
\* loops, also when a left batch without a match was answered with false and
\* the client pulled again, or when the tables grew between two pulls.
JoinExact ==
  predicate_ = "=" =>
    /\ Range(out) = Matches(1..left_row, opened)
    /\ LeftThenRight(out)
=============================================================================

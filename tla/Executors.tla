----------------------------- MODULE Executors -----------------------------
(***************************************************************************)
(* Trees of executors (src/src/executor/Executor.cpp) over live tables.    *)
(* An executor is a record of its members: init and next are functions     *)
(* from it to what it becomes, for every class and every nesting.          *)
(*                                                                         *)
(* Where the code indexes a vector out of its range or follows a null      *)
(* pointer, the outcome is "undefined" and nothing is known of the         *)
(* executor any more.  A cell that std::stoi throws on, and a sum beyond   *)
(* an int, are left to module Aggregate: here every cell is a number.      *)
(***************************************************************************)
EXTENDS SQLSyntax, FiniteSetsExt, Functions, TLC

CONSTANTS
  Schema,      \* table name -> its list of column names
  Dotted,      \* a name with a "." -> the part after it
  Amount,      \* cell -> the number std::stoi reads from it
  BATCH_SIZE

VARIABLES
  rows,        \* the tables: table name -> its list of rows
  indexes_     \* the tables: table name -> the columns with an index

-----------------------------------------------------------------------------
Strip(name) == IF name \in DOMAIN Dotted THEN Dotted[name] ELSE name

\* Table::getColumnIndex counted from 1: 0 is the code's -1.
getColumnIndex(columns, c) == SelectInSeq(columns, LAMBDA d : d = c)

\* A chunk is stored by columns, and says how many rows it has.
NoChunk == [columns |-> <<>>, size |-> 0]

RowOf(chunk, r) == [c \in DOMAIN chunk.columns |-> chunk.columns[c][r]]

RowsOf(chunk) == [r \in 1..chunk.size |-> RowOf(chunk, r)]

\* chunk.columns[c][r] is inside both vectors.
Readable(chunk, c, r) == c \in DOMAIN chunk.columns /\ r \in DOMAIN chunk.columns[c]

RowReadable(chunk, r) == \A c \in DOMAIN chunk.columns : Readable(chunk, c, r)

\* Rows pushed onto n cleared columns.
ChunkOf(n, rs) ==
  [columns |-> [c \in 1..n |-> MapSeq(LAMBDA row : row[c],
                                      SelectSeq(rs, LAMBDA row : c <= Len(row)))],
   size    |-> Len(rs)]

\* The next batch of a list of which s are handed out.
Batch(list, s) == SubSeq(list, s + 1, Min({s + BATCH_SIZE, Len(list)}))

-----------------------------------------------------------------------------
\* The constructors.

SeqScanExecutor(t) == [kind |-> "SeqScan", table_ |-> t, current_row_ |-> 0]

IndexScanExecutor(t, c, key) ==
  [kind |-> "IndexScan", table_ |-> t, column_name_ |-> c, lookup_key_ |-> key,
   matched_row_ids_ |-> <<>>, current_idx_ |-> 0]

\* A predicate is a list of at most one expression: <<>> is a null pointer.
FilterExecutor(child, predicate, schema) ==
  [kind |-> "Filter", child_ |-> child, predicate_ |-> predicate, table_schema_ |-> schema]

ProjectExecutor(child, columns, schema) ==
  [kind |-> "Project", child_ |-> child, columns_ |-> columns, table_schema_ |-> schema]

NestedLoopJoinExecutor(left, right, predicate, ls, rs) ==
  [kind |-> "NestedLoopJoin", left_child_ |-> left, right_child_ |-> right,
   predicate_ |-> predicate, left_schema_ |-> ls, right_schema_ |-> rs,
   right_materialized_ |-> <<>>]

HashJoinExecutor(left, right, predicate, ls, rs) ==
  [kind |-> "HashJoin", left_child_ |-> left, right_child_ |-> right,
   predicate_ |-> predicate, left_schema_ |-> ls, right_schema_ |-> rs,
   hash_map_ |-> <<>>]

AggregateExecutor(child, groupBys, aggregates, schema) ==
  [kind |-> "Aggregate", child_ |-> child, groupBys_ |-> groupBys,
   aggregates_ |-> aggregates, table_schema_ |-> schema,
   final_results_ |-> <<>>, current_row_ |-> 0]

\* What is left of an executor after undefined behaviour.
Broken == [kind |-> "Broken"]

-----------------------------------------------------------------------------
\* What next returns.

True(e, chunk) == [outcome |-> "true", exec |-> e, chunk |-> chunk]
False(e)       == [outcome |-> "false", exec |-> e, chunk |-> NoChunk]
Undefined      == [outcome |-> "undefined", exec |-> Broken, chunk |-> NoChunk]

\* Mutant of SeqScanNext: the scan moves by a full batch even at the end.
SeqScanNextOvershoots(e) ==
  LET batch == Batch(rows[e.table_], e.current_row_)
  IN  IF batch = <<>> THEN False(e)
      ELSE True([e EXCEPT !.current_row_ = @ + BATCH_SIZE],
                ChunkOf(Len(Schema[e.table_]), batch))

SeqScanNext(e) ==
  LET batch == Batch(rows[e.table_], e.current_row_)
  IN  IF batch = <<>> THEN False(e)
      ELSE True([e EXCEPT !.current_row_ = @ + Len(batch)],
                ChunkOf(Len(Schema[e.table_]), batch))

IndexScanNext(e) ==
  LET batch == Batch(e.matched_row_ids_, e.current_idx_)
  IN  IF batch = <<>> THEN False(e)
      ELSE True([e EXCEPT !.current_idx_ = @ + Len(batch)],
                ChunkOf(Len(Schema[e.table_]), MapSeq(LAMBDA r : rows[e.table_][r], batch)))

AggregateNext(e) ==
  LET batch == Batch(e.final_results_, e.current_row_)
  IN  IF batch = <<>> THEN False(e)
      ELSE True([e EXCEPT !.current_row_ = @ + Len(batch)], ChunkOf(2, batch))

\* One turn of the filter's loop: the name is not stripped, and a predicate that
\* is not column = number lets no row through.
FilterBatch(e, in_chunk) ==
  LET p    == e.predicate_[1]
      col  == getColumnIndex(e.table_schema_, p.left.value)
      pass == SelectSeq([r \in 1..in_chunk.size |-> r],
                        LAMBDA r : in_chunk.columns[col][r] = p.right.value)
  IN  IF e.predicate_ = <<>> THEN True(e, in_chunk)
      ELSE IF p.op # "=" \/ p.left.node # "Identifier" \/ p.right.node # "NumberLiteral"
              \/ col = 0
      THEN False(e)
      ELSE IF \/ \E r \in 1..in_chunk.size : ~Readable(in_chunk, col, r)
              \/ \E r \in Range(pass) : ~RowReadable(in_chunk, r)
      THEN Undefined
      ELSE IF pass = <<>> THEN False(e)
      ELSE True(e, ChunkOf(Len(in_chunk.columns), MapSeq(LAMBDA r : RowOf(in_chunk, r), pass)))

\* Mutant of ProjectBatch: columns are taken in the order of the table.
ProjectBatchUnordered(e, in_chunk) ==
  LET wanted == {e.columns_[i].value : i \in 1..Len(e.columns_)}
      kept   == SelectSeq([c \in 1..Len(in_chunk.columns) |-> c],
                          LAMBDA c : e.table_schema_[c] \in wanted)
  IN  True(e, [in_chunk EXCEPT !.columns = MapSeq(LAMBDA c : in_chunk.columns[c], kept)])

\* Whole columns are copied; a function call, and a name that does not resolve,
\* leave theirs empty.
ProjectBatch(e, in_chunk) ==
  LET In(i) == IF e.columns_[i].node = "Identifier"
               THEN getColumnIndex(e.table_schema_, e.columns_[i].value) ELSE 0
  IN  IF \E i \in DOMAIN e.columns_ : In(i) > Len(in_chunk.columns) THEN Undefined
      ELSE True(e, [columns |-> [i \in 1..Len(e.columns_) |->
                                   IF In(i) = 0 THEN <<>> ELSE in_chunk.columns[In(i)]],
                    size    |-> in_chunk.size])

\* Where the sides of the ON condition are in the two children.
LeftColumn(e)  == getColumnIndex(e.left_schema_, Strip(e.predicate_.left.value))
RightColumn(e) == getColumnIndex(e.right_schema_, Strip(e.predicate_.right.value))

\* Mutant of JoinBatch: the output is as wide as the left side.
JoinBatchNarrow(e, left, found) ==
  LET total == Len(e.left_schema_)
      out   == FlattenSeq([i \in 1..left.size |->
                 MapSeq(LAMBDA right : RowOf(left, i) \o right, found[i])])
  IN  IF \E i \in 1..left.size : \E right \in Range(found[i]) :
           ~RowReadable(left, i) \/ Len(left.columns) + Len(right) > total
      THEN Undefined
      ELSE IF out = <<>> THEN False(e) ELSE True(e, ChunkOf(total, out))

\* The output of a join for one left batch: found[i] are the rows joined to the
\* batch's row i.  Without any, next answers false.
JoinBatch(e, left, found) ==
  LET total == Len(e.left_schema_) + Len(e.right_schema_)
      out   == FlattenSeq([i \in 1..left.size |->
                 MapSeq(LAMBDA right : RowOf(left, i) \o right, found[i])])
  IN  IF \E i \in 1..left.size : \E right \in Range(found[i]) :
           ~RowReadable(left, i) \/ Len(left.columns) + Len(right) > total
      THEN Undefined
      ELSE IF out = <<>> THEN False(e) ELSE True(e, ChunkOf(total, out))

\* Every left row against every row of every right chunk.  Without an "=" of two
\* columns that are found the batch is dropped.
NestedLoopJoinBatch(e, left) ==
  LET p      == e.predicate_
      l      == LeftColumn(e)
      r      == RightColumn(e)
      rights == FlattenSeq(MapSeq(LAMBDA chunk : [i \in 1..chunk.size |-> <<chunk, i>>],
                                  e.right_materialized_))
      found  == [i \in 1..left.size |->
                   SelectSeq(rights, LAMBDA x : x[1].columns[r][x[2]] = left.columns[l][i])]
  IN  IF p.op # "=" \/ p.left.node # "Identifier" \/ p.right.node # "Identifier"
         \/ l = 0 \/ r = 0
      THEN False(e)
      ELSE IF \/ rights # <<>> /\ \E i \in 1..left.size : ~Readable(left, l, i)
              \/ left.size # 0 /\ \E x \in Range(rights) : ~Readable(x[1], r, x[2])
              \/ \E i \in 1..left.size : \E x \in Range(found[i]) : ~RowReadable(x[1], x[2])
      THEN Undefined
      ELSE JoinBatch(e, left, MapSeq(LAMBDA f : MapSeq(LAMBDA x : RowOf(x[1], x[2]), f), found))

\* The map is probed with every left row; the operator is not looked at.
HashJoinBatch(e, left) ==
  LET l == LeftColumn(e)
      Rights(key) == IF key \in DOMAIN e.hash_map_ THEN e.hash_map_[key] ELSE <<>>
  IN  IF \/ e.predicate_.left.node # "Identifier"
         \/ \E i \in 1..left.size : ~Readable(left, l, i)
      THEN Undefined
      ELSE JoinBatch(e, left, [i \in 1..left.size |-> Rights(left.columns[l][i])])

-----------------------------------------------------------------------------
RECURSIVE NextOf(_)
NextOf(e) ==
  CASE e.kind = "SeqScan"   -> SeqScanNext(e)
    [] e.kind = "IndexScan" -> IndexScanNext(e)
    [] e.kind = "Aggregate" -> AggregateNext(e)
    [] e.kind = "Broken"    -> Undefined
    [] e.kind = "Filter" ->
         LET pulled == NextOf(e.child_)
             after  == [e EXCEPT !.child_ = pulled.exec]
             result == FilterBatch(after, pulled.chunk)
         IN  IF pulled.outcome = "undefined" THEN Undefined
             ELSE IF pulled.outcome = "false" THEN False(after)
             ELSE IF result.outcome = "false" THEN NextOf(after) ELSE result
    [] e.kind = "Project" ->
         LET pulled == NextOf(e.child_)
             after  == [e EXCEPT !.child_ = pulled.exec]
         IN  IF pulled.outcome = "undefined" THEN Undefined
             ELSE IF pulled.outcome = "false" THEN False(after)
             ELSE ProjectBatch(after, pulled.chunk)
    [] e.kind \in {"NestedLoopJoin", "HashJoin"} ->
         LET pulled == NextOf(e.left_child_)
             after  == [e EXCEPT !.left_child_ = pulled.exec]
         IN  IF pulled.outcome = "undefined" THEN Undefined
             ELSE IF pulled.outcome = "false" THEN False(after)
             ELSE IF e.kind = "HashJoin" THEN HashJoinBatch(after, pulled.chunk)
             ELSE NestedLoopJoinBatch(after, pulled.chunk)

RECURSIVE DrainTo(_, _)
DrainTo(e, chunks) ==
  LET pulled == NextOf(e)
  IN  IF pulled.outcome = "true" THEN DrainTo(pulled.exec, Append(chunks, pulled.chunk))
      ELSE [outcome |-> pulled.outcome, exec |-> pulled.exec, chunks |-> chunks]

\* while (next(chunk)): every chunk up to the first false.
Drain(e) == DrainTo(e, <<>>)

-----------------------------------------------------------------------------
\* Mutant of IndexScanInit: without an index all rows are taken.
IndexScanInitFallsBack(e) ==
  LET table == rows[e.table_]
      col   == getColumnIndex(Schema[e.table_], e.column_name_)
  IN  [e EXCEPT
        !.current_idx_ = 0,
        !.matched_row_ids_ =
          SelectSeq([r \in 1..Len(table) |-> r],
                    LAMBDA r : \/ e.column_name_ \notin indexes_[e.table_]
                               \/ table[r][col] = e.lookup_key_)]

IndexScanInit(e) ==
  LET table == rows[e.table_]
      col   == getColumnIndex(Schema[e.table_], e.column_name_)
  IN  [e EXCEPT
        !.current_idx_ = 0,
        !.matched_row_ids_ =
          IF e.column_name_ \in indexes_[e.table_]
          THEN SelectSeq([r \in 1..Len(table) |-> r],
                         LAMBDA r : table[r][col] = e.lookup_key_)
          ELSE <<>>]

NestedLoopJoinInit(e, left, right) ==
  [e EXCEPT !.left_child_ = left, !.right_child_ = right.exec,
            !.right_materialized_ = right.chunks]

\* The right side's rows by their join cell, in the order of the side.
HashJoinInit(e, left, right) ==
  LET r    == RightColumn(e)
      all  == FlattenSeq(MapSeq(RowsOf, right.chunks))
      Keys == {row[r] : row \in Range(all)}
  IN  IF \/ e.predicate_.right.node # "Identifier"
         \/ \E chunk \in Range(right.chunks) : \E i \in 1..chunk.size :
              ~Readable(chunk, r, i) \/ ~RowReadable(chunk, i)
      THEN Broken
      ELSE [e EXCEPT !.left_child_ = left, !.right_child_ = right.exec,
                     !.hash_map_ = [key \in Keys |-> SelectSeq(all, LAMBDA row : row[r] = key)]]

\* std::to_string, and the "$" that is put before a sum.
SumCell(n) == "$" \o ToString(n)

\* Mutant of AggregateInit: current_row_ is not reset.
AggregateInitKeepsPosition(e, drained) ==
  LET gb_idx  == getColumnIndex(e.table_schema_, e.groupBys_[1].value)
      agg_idx == getColumnIndex(e.table_schema_, e.aggregates_[1].arguments[1].value)
      all     == FlattenSeq(MapSeq(LAMBDA chunk :
                   [r \in 1..chunk.size |-> <<chunk.columns[gb_idx][r], chunk.columns[agg_idx][r]>>],
                   drained.chunks))
      Total(g) == FoldLeft(LAMBDA sum, row : sum + Amount[row[2]], 0,
                           SelectSeq(all, LAMBDA row : row[1] = g))
      groups  == SetToSeq({row[1] : row \in Range(all)})
  IN  IF \/ e.groupBys_ = <<>> \/ e.aggregates_ = <<>>
         \/ e.aggregates_[1].arguments = <<>>
         \/ \E chunk \in Range(drained.chunks) : \E r \in 1..chunk.size :
              ~Readable(chunk, gb_idx, r) \/ ~Readable(chunk, agg_idx, r)
      THEN Broken
      ELSE [e EXCEPT !.child_ = drained.exec,
                     !.final_results_ = MapSeq(LAMBDA g : <<g, SumCell(Total(g))>>, groups)]

\* The first GROUP BY column and the first function's first argument, whatever
\* the function: the groups come in the order of the hash map, which is some
\* order of their keys.
AggregateInit(e, drained) ==
  LET gb_idx  == getColumnIndex(e.table_schema_, e.groupBys_[1].value)
      agg_idx == getColumnIndex(e.table_schema_, e.aggregates_[1].arguments[1].value)
      all     == FlattenSeq(MapSeq(LAMBDA chunk :
                   [r \in 1..chunk.size |-> <<chunk.columns[gb_idx][r], chunk.columns[agg_idx][r]>>],
                   drained.chunks))
      Total(g) == FoldLeft(LAMBDA sum, row : sum + Amount[row[2]], 0,
                           SelectSeq(all, LAMBDA row : row[1] = g))
      groups  == SetToSeq({row[1] : row \in Range(all)})
  IN  IF \/ e.groupBys_ = <<>> \/ e.aggregates_ = <<>>
         \/ e.aggregates_[1].arguments = <<>>
         \/ \E chunk \in Range(drained.chunks) : \E r \in 1..chunk.size :
              ~Readable(chunk, gb_idx, r) \/ ~Readable(chunk, agg_idx, r)
      THEN Broken
      ELSE [e EXCEPT !.child_ = drained.exec, !.current_row_ = 0,
                     !.final_results_ = MapSeq(LAMBDA g : <<g, SumCell(Total(g))>>, groups)]

RECURSIVE InitOf(_)
InitOf(e) ==
  CASE e.kind = "SeqScan"   -> [e EXCEPT !.current_row_ = 0]
    [] e.kind = "IndexScan" -> IndexScanInit(e)
    [] e.kind = "Broken"    -> Broken
    [] e.kind \in {"Filter", "Project"} ->
         LET child == InitOf(e.child_)
         IN  IF child = Broken THEN Broken ELSE [e EXCEPT !.child_ = child]
    [] e.kind = "Aggregate" ->
         LET drained == Drain(InitOf(e.child_))
         IN  IF drained.outcome = "undefined" THEN Broken ELSE AggregateInit(e, drained)
    [] e.kind \in {"NestedLoopJoin", "HashJoin"} ->
         LET left  == InitOf(e.left_child_)
             right == Drain(InitOf(e.right_child_))
         IN  IF left = Broken \/ right.outcome = "undefined" THEN Broken
             ELSE IF e.kind = "HashJoin" THEN HashJoinInit(e, left, right)
             ELSE NestedLoopJoinInit(e, left, right)
=============================================================================

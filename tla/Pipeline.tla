------------------------------ MODULE Pipeline ------------------------------
(***************************************************************************)
(* A client and one tree of executors: init, then next until it is         *)
(* answered with false (executePlan in src/src/cli/benchmark.cpp), or      *)
(* longer, or init again.  Rows are inserted and indexes created between   *)
(* any two calls: scans at the bottom of a chain of left children read the *)
(* tables as they are, everything that init drains was read before.        *)
(***************************************************************************)
EXTENDS Executors, FiniteSets

CONSTANTS
  Trees,      \* the trees a client wires
  TableRows,  \* table name -> the rows that may be inserted
  MaxRows,    \* table name -> bound on its rows
  Indexable   \* table name -> the columns an index may be created on

Tables == DOMAIN Schema

VARIABLES
  exec,      \* the tree
  outcome,   \* what the last next returned; "open" after init or an insert
  chunks,    \* the chunks delivered since init
  opened,    \* history: the tables and their indexes at the last init
  wired      \* history: whether the tree was wired right

client == <<exec, outcome, chunks, opened, wired>>
vars   == <<rows, indexes_, client>>

-----------------------------------------------------------------------------
RECURSIVE ColumnsOf(_)
\* The names of the columns a tree delivers.
ColumnsOf(e) ==
  CASE e.kind \in {"SeqScan", "IndexScan"} -> Schema[e.table_]
    [] e.kind = "Filter"    -> ColumnsOf(e.child_)
    [] e.kind = "Project"   -> MapSeq(LAMBDA c : c.value, e.columns_)
    [] e.kind = "Aggregate" -> <<e.groupBys_[1].value, e.aggregates_[1].functionName>>
    [] OTHER -> ColumnsOf(e.left_child_) \o ColumnsOf(e.right_child_)

Resolves(name, columns) == getColumnIndex(columns, name) # 0

RECURSIVE WellWired(_)
\* Every schema names what the child delivers, and the columns of projects,
\* aggregates and hash joins are found.  A nested loop join and a filter may name
\* what they like.
WellWired(e) ==
  CASE e.kind \in {"SeqScan", "IndexScan"} -> TRUE
    [] e.kind = "Filter" -> e.table_schema_ = ColumnsOf(e.child_) /\ WellWired(e.child_)
    [] e.kind = "Project" ->
         /\ e.table_schema_ = ColumnsOf(e.child_) /\ WellWired(e.child_)
         /\ \A c \in Range(e.columns_) : c.node = "Identifier" /\ Resolves(c.value, e.table_schema_)
    [] e.kind = "Aggregate" ->
         /\ e.table_schema_ = ColumnsOf(e.child_) /\ WellWired(e.child_)
         /\ Len(e.groupBys_) > 0 /\ Len(e.aggregates_) > 0
         /\ Resolves(e.groupBys_[1].value, e.table_schema_)
         /\ Len(e.aggregates_[1].arguments) > 0
         /\ Resolves(e.aggregates_[1].arguments[1].value, e.table_schema_)
    [] e.kind \in {"NestedLoopJoin", "HashJoin"} ->
         /\ e.left_schema_ = ColumnsOf(e.left_child_) /\ WellWired(e.left_child_)
         /\ e.right_schema_ = ColumnsOf(e.right_child_) /\ WellWired(e.right_child_)
         /\ e.kind = "HashJoin" =>
              /\ e.predicate_.right.node = "Identifier"
              /\ LeftColumn(e) # 0 /\ RightColumn(e) # 0
    [] OTHER -> FALSE

-----------------------------------------------------------------------------
Init ==
  /\ rows = [t \in Tables |-> <<>>]
  /\ indexes_ = [t \in Tables |-> {}]
  /\ exec \in Trees /\ wired = WellWired(exec)
  /\ outcome = "constructed" /\ chunks = <<>> /\ opened = <<>>

\* Table::insert and Table::createIndex, with what module Table shows of them.
Insert(t, row) ==
  /\ Len(rows[t]) < MaxRows[t]
  /\ rows' = [rows EXCEPT ![t] = Append(@, row)]
  /\ outcome' = IF outcome = "false" THEN "open" ELSE outcome
  /\ UNCHANGED <<indexes_, exec, chunks, opened, wired>>

CreateIndex(t, c) ==
  /\ indexes_' = [indexes_ EXCEPT ![t] = @ \cup {c}]
  /\ UNCHANGED <<rows, client>>

Open ==
  /\ exec # Broken
  /\ exec' = InitOf(exec)
  /\ outcome' = IF exec' = Broken THEN "undefined" ELSE "open"
  /\ chunks' = <<>>
  /\ opened' = [rows |-> rows, indexes_ |-> indexes_]
  /\ UNCHANGED <<rows, indexes_, wired>>

Pull ==
  /\ exec # Broken /\ outcome # "constructed"
  /\ LET pulled == NextOf(exec)
     IN  /\ exec' = pulled.exec
         /\ outcome' = pulled.outcome
         /\ chunks' = IF pulled.outcome = "true" THEN Append(chunks, pulled.chunk) ELSE chunks
  /\ UNCHANGED <<rows, indexes_, opened, wired>>

Next ==
  \/ \E t \in Tables : \E row \in TableRows[t] : Insert(t, row)
  \/ \E t \in Tables : \E c \in Indexable[t] : CreateIndex(t, c)
  \/ Open \/ Pull

Spec == Init /\ [][Next]_vars

-----------------------------------------------------------------------------
\* No cursor is behind the end of what it goes through.
RECURSIVE CursorsOK(_)
CursorsOK(e) ==
  CASE e.kind = "SeqScan"   -> e.current_row_ \in 0..Len(rows[e.table_])
    [] e.kind = "IndexScan" -> /\ e.current_idx_ \in 0..Len(e.matched_row_ids_)
                               /\ Range(e.matched_row_ids_) \subseteq 1..Len(rows[e.table_])
    [] e.kind = "Aggregate" -> e.current_row_ \in 0..Len(e.final_results_) /\ CursorsOK(e.child_)
    [] e.kind \in {"Filter", "Project"} -> CursorsOK(e.child_)
    [] e.kind = "Broken" -> TRUE
    [] OTHER -> CursorsOK(e.left_child_) /\ CursorsOK(e.right_child_)

TypeOK ==
  /\ outcome \in {"constructed", "open", "true", "false", "undefined"}
  /\ outcome = "undefined" <=> exec = Broken
  /\ CursorsOK(exec)

-----------------------------------------------------------------------------
\* What a tree means, row by row: no batches, no chunks, no columns, and its
\* expressions as README.md and ast/AST.h explain them, whatever the executors do.

\* "=" compares the cells as they are written, ">" and "<" the numbers in them.
Compares(op, a, b) ==
  \/ op = "=" /\ a = b
  \/ op = ">" /\ Amount[a] > Amount[b]
  \/ op = "<" /\ Amount[a] < Amount[b]

\* Whether a filter's condition holds for a row.  A name that is not found, of
\* which nobody tells the client, holds for none.
Holds(p, columns, row) ==
  LET c == getColumnIndex(columns, Strip(p.left.value))
  IN  c # 0 /\ Compares(p.op, row[c], p.right.value)

\* The same for a join's condition and a pair of rows.
Joins(e, left, right) ==
  /\ e.predicate_.right.node = "Identifier" /\ LeftColumn(e) # 0 /\ RightColumn(e) # 0
  /\ Compares(e.predicate_.op, left[LeftColumn(e)], right[RightColumn(e)])

\* The rows a scan stands for: those it consumed, all there are now, or those
\* there were at init.
Scanned(e, which) ==
  CASE which = "consumed" -> SubSeq(rows[e.table_], 1, e.current_row_)
    [] which = "now"      -> rows[e.table_]
    [] which = "opened"   -> opened.rows[e.table_]

\* An index scan knows the rows there were at init, if there was an index.
Looked(e, which) ==
  LET c     == getColumnIndex(Schema[e.table_], e.column_name_)
      found == IF e.column_name_ \in opened.indexes_[e.table_]
               THEN SelectSeq(opened.rows[e.table_], LAMBDA row : row[c] = e.lookup_key_)
               ELSE <<>>
  IN  IF which = "consumed" THEN SubSeq(found, 1, e.current_idx_) ELSE found

\* One row for each combination of cells in the grouping columns, with a cell for
\* each function: the number of rows if it is COUNT, the sum of its column if not.
Groups(e, all) ==
  LET Key(row)  == MapSeq(LAMBDA c : row[getColumnIndex(e.table_schema_, c.value)], e.groupBys_)
      Of(key)   == SelectSeq(all, LAMBDA row : Key(row) = key)
      Sum(f, rs) ==
        LET a == getColumnIndex(e.table_schema_, f.arguments[1].value)
        IN  MapThenSumSet(LAMBDA i : Amount[rs[i][a]], DOMAIN rs)
      Cell(f, rs) == IF f.functionName = "COUNT" THEN ToString(Len(rs)) ELSE SumCell(Sum(f, rs))
  IN  MapSeq(LAMBDA key : key \o MapSeq(LAMBDA f : Cell(f, Of(key)), e.aggregates_),
             SetToSeq({Key(row) : row \in Range(all)}))

\* What a column of a SELECT is called in the rows below it.
NameOf(c) == IF c.node = "Identifier" THEN c.value ELSE c.functionName

RECURSIVE Answer(_, _)
Answer(e, which) ==
  CASE e.kind = "SeqScan"   -> Scanned(e, which)
    [] e.kind = "IndexScan" -> Looked(e, which)
    [] e.kind = "Filter" ->
         IF e.predicate_ = <<>> THEN Answer(e.child_, which)
         ELSE SelectSeq(Answer(e.child_, which),
                        LAMBDA row : Holds(e.predicate_[1], ColumnsOf(e.child_), row))
    [] e.kind = "Project" ->
         MapSeq(LAMBDA row : [i \in 1..Len(e.columns_) |->
                                row[getColumnIndex(ColumnsOf(e.child_), NameOf(e.columns_[i]))]],
                Answer(e.child_, which))
    [] e.kind = "Aggregate" ->
         LET groups == Groups(e, Answer(e.child_, "opened"))
         IN  IF which = "consumed" THEN SubSeq(groups, 1, e.current_row_) ELSE groups
    [] OTHER ->
         LET rights == Answer(e.right_child_, "opened")
         IN  FlattenSeq(MapSeq(LAMBDA left :
               MapSeq(LAMBDA right : left \o right,
                      SelectSeq(rights, LAMBDA right : Joins(e, left, right))),
               Answer(e.left_child_, which)))

RECURSIVE PlainTree(_)
\* Only what the executors know of the language: conditions with "=", on columns
\* without a "table." in a filter, one grouping column and one SUM.
PlainTree(e) ==
  CASE e.kind \in {"SeqScan", "IndexScan"} -> TRUE
    [] e.kind = "Filter" ->
         /\ PlainTree(e.child_)
         /\ \A p \in Range(e.predicate_) :
              /\ p.op = "=" /\ p.right.node = "NumberLiteral"
              /\ p.left.value \notin DOMAIN Dotted
    [] e.kind = "Project" -> PlainTree(e.child_)
    [] e.kind = "Aggregate" ->
         /\ PlainTree(e.child_)
         /\ Len(e.groupBys_) = 1 /\ Len(e.aggregates_) = 1
         /\ e.aggregates_[1].functionName = "SUM"
    [] OTHER -> /\ PlainTree(e.left_child_) /\ PlainTree(e.right_child_)
                /\ e.predicate_.op = "="

RECURSIVE HasJoin(_)
HasJoin(e) ==
  CASE e.kind \in {"SeqScan", "IndexScan"} -> FALSE
    [] e.kind \in {"Filter", "Project", "Aggregate"} -> HasJoin(e.child_)
    [] OTHER -> TRUE

RECURSIVE DrainsJoin(_)
\* Some init drains a join, which ends at the first left batch without a match.
DrainsJoin(e) ==
  CASE e.kind \in {"SeqScan", "IndexScan"} -> FALSE
    [] e.kind \in {"Filter", "Project"} -> DrainsJoin(e.child_)
    [] e.kind = "Aggregate" -> HasJoin(e.child_)
    [] OTHER -> HasJoin(e.right_child_) \/ DrainsJoin(e.left_child_)

Delivered == FlattenSeq(MapSeq(RowsOf, chunks))

-----------------------------------------------------------------------------
\* In a tree that is wired right no executor reads outside of a chunk it was
\* given, and every chunk has the columns its parent was told of, with as many
\* cells in each as it says it has rows: executors take this from one another
\* without looking (Chunk in Storage.h, every next in Executor.cpp).
WiredTreesAreSound ==
  wired =>
    /\ exec # Broken
    /\ \A chunk \in Range(chunks) :
         /\ chunk.size > 0
         /\ Len(chunk.columns) = Len(ColumnsOf(exec))
         /\ \A column \in Range(chunk.columns) : Len(column) = chunk.size

\* Through any nesting of executors, and with inserts between the calls, a client
\* of a plain tree has got exactly the rows that the tree's meaning gives for what
\* the scans of its left children consumed and what the rest was at init, in that
\* order, also when a join said false in between and was pulled again (every next
\* in Executor.cpp).
DeliversAnswer ==
  /\ wired /\ outcome \notin {"constructed", "undefined"}
  /\ PlainTree(exec) /\ ~DrainsJoin(exec)
  => Delivered = Answer(exec, "consumed")

\* "false if no more data" (Executor.h:20): after it, the client has the whole
\* answer.
EndMeansNoMoreData ==
  outcome = "false" /\ wired => Delivered = Answer(exec, "now")

\* Without a join it does mean that, whatever filter, project, aggregate and scan
\* of a plain tree are nested: executePlan loses nothing.
EndWithoutJoin ==
  exec # Broken /\ ~HasJoin(exec) /\ PlainTree(exec) => EndMeansNoMoreData

\* What executePlan gets from a tree that is opened now has all of its cells, and
\* is the tree's meaning, in any order.
AnsweredAsAsked(e) ==
  LET got == Drain(InitOf(e)).chunks
  IN  /\ \A chunk \in Range(got) : \A column \in Range(chunk.columns) : Len(column) = chunk.size
      /\ Range(FlattenSeq(MapSeq(RowsOf, got))) = Range(Answer(e, "now"))

\* "SELECT with column projection and aggregate functions (SUM, COUNT, ...)",
\* "JOIN ... ON <predicate>", "WHERE with comparison operators (=, >, <, ...)",
\* "GROUP BY with multiple grouping columns" (README.md:52-55): whatever the tables
\* hold at an init, one at least of the trees that use these answers as asked.  It
\* is less than the list promises, so that one state refutes every item of it.
SomeFeatureAnswers ==
  opened # <<>> /\ opened.rows = rows => \E e \in Trees : AnsweredAsAsked(e)
=============================================================================

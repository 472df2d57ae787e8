----------------------------- MODULE Optimizer -----------------------------
(***************************************************************************)
(* class Optimizer (src/src/optimizer/Optimizer.cpp) with the class        *)
(* Catalog (src/src/catalog/Catalog.cpp) it trusts, beside the tables the  *)
(* catalog is about.  The client keeps the two in step by hand: it sets    *)
(* row counts, registers indexes, creates them and inserts in any order,   *)
(* and may optimize a plan again when the catalog has changed.             *)
(*                                                                         *)
(* optimize changes the tree in place and returns its root.  The root of a *)
(* planned tree is a ProjectNode and stays it, so there is one plan, not   *)
(* one before and one after.  No code turns a plan into executors: the      *)
(* client wires them by hand, node by node, and drains the tree.           *)
(***************************************************************************)
EXTENDS Planner, Executors, FiniteSets

CONSTANTS
  Queries,    \* the statements that are planned
  TableRows,  \* table name -> the rows that may be inserted
  RowCounts,  \* the row counts a client may report
  MaxRows,    \* bound on the rows of one table
  SizeMax     \* one more than the largest size_t

ASSUME SizeAssumption == SizeMax \in Nat \ {0}

Tables == DOMAIN Schema

VARIABLES
  table_row_counts_,  \* Catalog: table name -> reported rows, where set
  table_indexes_,     \* Catalog: table name -> the columns registered
  query,              \* history: the statement of the plan, <<>> before
  plan,               \* the tree, <<>> before
  naive,              \* history: the tree as planned
  recounted           \* history: a row count was set since

catalog == <<table_row_counts_, table_indexes_>>
storage == <<rows, indexes_>>
plans   == <<query, plan, naive>>
vars    == <<catalog, storage, plans, recounted>>

-----------------------------------------------------------------------------
getTableRowCount(t) ==
  IF t \in DOMAIN table_row_counts_ THEN table_row_counts_[t] ELSE 10000

hasIndex(t, c) == c \in table_indexes_[t]

\* A filter over a project goes below it.
RECURSIVE applyPredicatePushdown(_)
applyPredicatePushdown(p) ==
  CASE p.node \in {"Project", "Aggregate"} ->
         [p EXCEPT !.child = applyPredicatePushdown(@)]
    [] p.node = "NestedLoopJoin" ->
         [p EXCEPT !.left_child = applyPredicatePushdown(@),
                   !.right_child = applyPredicatePushdown(@)]
    [] p.node = "Filter" ->
         LET below == applyPredicatePushdown(p.child)
         IN  IF below.node = "Project"
             THEN [below EXCEPT !.child = FilterNode(@, p.predicate)]
             ELSE [p EXCEPT !.child = below]
    [] OTHER -> p

\* The rows of a join's child: a guess unless it is a scan.
EstimatedRows(p) == IF p.node = "SeqScan" THEN getTableRowCount(p.tableName) ELSE 1000

\* Whether hashing costs less than comparing all pairs; the product is a size_t
\* and wraps.  The sum could wrap too, for counts no run reports.
HashingIsCheaper(left_rows, right_rows) ==
  left_rows + right_rows < (left_rows * right_rows) % SizeMax

\* Mutant of CheaperJoin: the smaller side is put on the right.
CheaperJoinSwapped(l, r, p) ==
  LET left_rows  == EstimatedRows(l)
      right_rows == EstimatedRows(r)
  IN  IF HashingIsCheaper(left_rows, right_rows) /\ right_rows > 5
      THEN IF left_rows < right_rows
           THEN HashJoinNode(r, l, p, left_rows + right_rows)
           ELSE HashJoinNode(l, r, p, left_rows + right_rows)
      ELSE NestedLoopJoinNode(l, r, p)

\* Hashing a right side of more than five rows, where it costs less.
CheaperJoin(l, r, p) ==
  LET left_rows  == EstimatedRows(l)
      right_rows == EstimatedRows(r)
  IN  IF HashingIsCheaper(left_rows, right_rows) /\ right_rows > 5
      THEN HashJoinNode(l, r, p, left_rows + right_rows)
      ELSE NestedLoopJoinNode(l, r, p)

RECURSIVE applyCostBasedJoinSelection(_)
applyCostBasedJoinSelection(p) ==
  CASE p.node \in {"Project", "Filter", "Aggregate"} ->
         [p EXCEPT !.child = applyCostBasedJoinSelection(@)]
    [] p.node = "NestedLoopJoin" ->
         CheaperJoin(applyCostBasedJoinSelection(p.left_child),
                     applyCostBasedJoinSelection(p.right_child), p.predicate)
    [] OTHER -> p

\* Mutant of IndexAnswers: the operator is not looked at.
IndexAnswersAnyOperator(t, p) ==
  /\ p.left.node = "Identifier" /\ p.right.node = "NumberLiteral"
  /\ hasIndex(t, Strip(p.left.value))

\* column = number, on a column that the catalog says has an index.
IndexAnswers(t, p) ==
  /\ p.op = "="
  /\ p.left.node = "Identifier" /\ p.right.node = "NumberLiteral"
  /\ hasIndex(t, Strip(p.left.value))

\* A filter right over a scan gives way to an index scan.
RECURSIVE applyIndexSelection(_)
applyIndexSelection(p) ==
  CASE p.node \in {"Project", "Aggregate"} ->
         [p EXCEPT !.child = applyIndexSelection(@)]
    [] p.node \in {"NestedLoopJoin", "HashJoin"} ->
         [p EXCEPT !.left_child = applyIndexSelection(@),
                   !.right_child = applyIndexSelection(@)]
    [] p.node = "Filter" ->
         LET below == applyIndexSelection(p.child)
         IN  IF below.node = "SeqScan" /\ IndexAnswers(below.tableName, p.predicate)
             THEN IndexScanNode(below.tableName, Strip(p.predicate.left.value),
                                p.predicate.right.value)
             ELSE [p EXCEPT !.child = below]
    [] OTHER -> p

\* Mutant of optimize: indexes are selected before filters are pushed down.
optimizeIndexFirst(p) ==
  applyCostBasedJoinSelection(applyPredicatePushdown(applyIndexSelection(p)))

optimize(p) ==
  applyIndexSelection(applyCostBasedJoinSelection(applyPredicatePushdown(p)))

-----------------------------------------------------------------------------
\* A tree that is not the planner's: its filter comes after its project.
FilterOverProject(s) ==
  FilterNode(ProjectNode(JoinChain(s), s.columns), s.whereClause[1])

Init ==
  /\ table_row_counts_ = <<>>
  /\ table_indexes_ = [t \in Tables |-> {}]
  /\ rows = [t \in Tables |-> <<>>]
  /\ indexes_ = [t \in Tables |-> {}]
  /\ query = <<>> /\ plan = <<>> /\ naive = <<>>
  /\ recounted = FALSE

setTableRowCount(t, n) ==
  /\ table_row_counts_' = [u \in DOMAIN table_row_counts_ \cup {t} |->
                             IF u = t THEN n ELSE table_row_counts_[u]]
  /\ recounted' = TRUE
  /\ UNCHANGED <<table_indexes_, storage, plans>>

addIndex(t, c) ==
  /\ table_indexes_' = [table_indexes_ EXCEPT ![t] = @ \cup {c}]
  /\ UNCHANGED <<table_row_counts_, storage, plans, recounted>>

\* Table::createIndex and Table::insert, with what module Table shows of them.
CreateIndex(t, c) ==
  /\ indexes_' = [indexes_ EXCEPT ![t] = @ \cup {c}]
  /\ UNCHANGED <<catalog, rows, plans, recounted>>

Insert(t, row) ==
  /\ Len(rows[t]) < MaxRows
  /\ rows' = [rows EXCEPT ![t] = Append(@, row)]
  /\ UNCHANGED <<catalog, indexes_, plans, recounted>>

\* createPlan refuses a statement that is not a SELECT; one under an EXPLAIN is
\* taken out by the client.
CreatePlan(s) ==
  /\ ~s.explain
  /\ \/ naive' = planSelect(s)
     \/ /\ s.whereClause # <<>> /\ AggregatesOf(s) = <<>>
        /\ naive' = FilterOverProject(s)
  /\ plan' = naive' /\ query' = s
  /\ recounted' = FALSE
  /\ UNCHANGED <<catalog, storage>>

Optimize ==
  /\ plan # <<>>
  /\ plan' = optimize(plan)
  /\ UNCHANGED <<catalog, storage, query, naive, recounted>>

Next ==
  \/ \E t \in Tables, n \in RowCounts : setTableRowCount(t, n)
  \/ \E t \in Tables : \E c \in Range(Schema[t]) : addIndex(t, c) \/ CreateIndex(t, c)
  \/ \E t \in Tables : \E row \in TableRows[t] : Insert(t, row)
  \/ \E s \in Queries : CreatePlan(s)
  \/ Optimize

Spec == Init /\ [][Next]_vars

-----------------------------------------------------------------------------
RECURSIVE ColumnsOf(_)
\* What a client calls the columns that a tree delivers.
ColumnsOf(p) ==
  CASE p.node \in {"SeqScan", "IndexScan"} -> Schema[p.tableName]
    [] p.node = "Filter"    -> ColumnsOf(p.child)
    [] p.node = "Project"   ->
         MapSeq(LAMBDA c : IF c.node = "Identifier" THEN c.value ELSE c.functionName, p.columns)
    [] p.node = "Aggregate" -> <<p.groupBys[1].value, p.aggregates[1].functionName>>
    [] OTHER -> ColumnsOf(p.left_child) \o ColumnsOf(p.right_child)

RECURSIVE Wire(_)
\* The executor of each node's name, with the schema of its children.
Wire(p) ==
  CASE p.node = "SeqScan"   -> SeqScanExecutor(p.tableName)
    [] p.node = "IndexScan" -> IndexScanExecutor(p.tableName, p.columnName, p.lookupKey)
    [] p.node = "Filter"    -> FilterExecutor(Wire(p.child), <<p.predicate>>, ColumnsOf(p.child))
    [] p.node = "Project"   -> ProjectExecutor(Wire(p.child), p.columns, ColumnsOf(p.child))
    [] p.node = "Aggregate" ->
         AggregateExecutor(Wire(p.child), p.groupBys, p.aggregates, ColumnsOf(p.child))
    [] p.node = "NestedLoopJoin" ->
         NestedLoopJoinExecutor(Wire(p.left_child), Wire(p.right_child), p.predicate,
                                ColumnsOf(p.left_child), ColumnsOf(p.right_child))
    [] p.node = "HashJoin" ->
         HashJoinExecutor(Wire(p.left_child), Wire(p.right_child), p.predicate,
                          ColumnsOf(p.left_child), ColumnsOf(p.right_child))

\* The cells of each column, from the first batch to the last.
CellsOf(chunks) ==
  IF chunks = <<>> THEN <<>>
  ELSE [c \in DOMAIN chunks[1].columns |->
          FlattenSeq(MapSeq(LAMBDA chunk : chunk.columns[c], chunks))]

Fetched(drained) == [outcome |-> drained.outcome, columns |-> CellsOf(drained.chunks)]

\* What executePlan gets from a plan now, and whether that is defined at all.
Answer(p) == Fetched(Drain(InitOf(Wire(p))))

NoRows == [outcome |-> "false", columns |-> <<>>]

RECURSIVE Scanned(_)
\* The tables at the leaves of a tree, from left to right.
Scanned(p) ==
  CASE p.node \in {"SeqScan", "IndexScan"} -> <<p.tableName>>
    [] p.node \in {"NestedLoopJoin", "HashJoin"} ->
         Scanned(p.left_child) \o Scanned(p.right_child)
    [] OTHER -> Scanned(p.child)

TypeOK ==
  /\ \E T \in SUBSET Tables : table_row_counts_ \in [T -> RowCounts]
  /\ \A t \in Tables : /\ table_indexes_[t] \subseteq Range(Schema[t])
                       /\ indexes_[t] \subseteq Range(Schema[t])
                       /\ rows[t] \in Seq(TableRows[t])
  /\ plan # <<>> => Scanned(plan) = Scanned(naive)

\* The catalog lists only indexes that the tables have.
CatalogIsTrue == \A t \in Tables : table_indexes_[t] \subseteq indexes_[t]

\* No "table." in the WHERE; an ON that both joins understand, which is "="
\* between a column of the tables so far and one of the joined table.
Plain(s) ==
  /\ \A i \in 1..Len(s.whereClause) : s.whereClause[i].left.value \notin DOMAIN Dotted
  /\ \A i \in 1..Len(s.joins) : s.joins[i].condition.op = "="

\* Optimizing changes what a query costs, never what it answers: with a true
\* catalog and a plain query the tree gives the rows of the tree as planned, in
\* the same order, however stale the row counts are, however often it was
\* optimized and whatever was inserted since.
OptimizedAnswersAlike ==
  plan # <<>> /\ CatalogIsTrue /\ Plain(query) => Answer(plan) = Answer(naive)

\* A catalog that lists an index the table does not have (main.cpp:16 registers
\* one and creates none) costs a plain query all of its rows and no error is
\* reported; it never costs some of them, and never brings in others.
StaleCatalogOnlyLoses ==
  plan # <<>> /\ Plain(query) => Answer(plan) \in {Answer(naive), NoRows}

\* The same without a word about how the query is written: README.md and
\* Optimizer.cpp:132 (Strip "users." prefix) take `users.id = 42' for `id = 42'.
RewriteKeepsAnswer ==
  plan # <<>> /\ CatalogIsTrue => Answer(plan) = Answer(naive)

\* A plan that was optimized too early is not stuck: after indexes were added,
\* optimizing it again gives what optimizing a fresh plan would give now, unless
\* row counts were set in between (optimize rewrites the client's tree in place,
\* and benchmark.cpp optimizes the same one twice).
ReoptimizeCatchesUp ==
  plan # <<>> /\ ~recounted => optimize(plan) = optimize(naive)
=============================================================================

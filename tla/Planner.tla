------------------------------ MODULE Planner ------------------------------
(***************************************************************************)
(* The plan nodes of src/src/planner/LogicalPlan.h and the tree that       *)
(* Planner::planSelect (src/src/planner/Planner.cpp) builds of them.       *)
(***************************************************************************)
EXTENDS SQLSyntax

SeqScanNode(t) == [node |-> "SeqScan", tableName |-> t]

IndexScanNode(t, c, key) ==
  [node |-> "IndexScan", tableName |-> t, columnName |-> c, lookupKey |-> key]

FilterNode(c, p) == [node |-> "Filter", child |-> c, predicate |-> p]

AggregateNode(c, gb, agg) ==
  [node |-> "Aggregate", child |-> c, groupBys |-> gb, aggregates |-> agg]

ProjectNode(c, cols) == [node |-> "Project", child |-> c, columns |-> cols]

NestedLoopJoinNode(l, r, p) ==
  [node |-> "NestedLoopJoin", left_child |-> l, right_child |-> r, predicate |-> p]

HashJoinNode(l, r, p, cost) ==
  [node |-> "HashJoin", left_child |-> l, right_child |-> r, predicate |-> p,
   estimated_cost |-> cost]

-----------------------------------------------------------------------------
\* A chain of joins, each with the next table on its right.
JoinChain(s) ==
  FoldLeft(LAMBDA root, j : NestedLoopJoinNode(root, SeqScanNode(j.tableName), j.condition),
           SeqScanNode(s.tableName), s.joins)

FilteredPlan(s) ==
  IF s.whereClause = <<>> THEN JoinChain(s)
  ELSE FilterNode(JoinChain(s), s.whereClause[1])

\* A GROUP BY or a function among the columns brings in an aggregate.
AggregatesOf(s) == SelectSeq(s.columns, LAMBDA c : c.node = "FunctionCall")

AggregatedPlan(s) ==
  IF s.groupBy = <<>> /\ AggregatesOf(s) = <<>> THEN FilteredPlan(s)
  ELSE AggregateNode(FilteredPlan(s), s.groupBy, AggregatesOf(s))

planSelect(s) == ProjectNode(AggregatedPlan(s), s.columns)
=============================================================================

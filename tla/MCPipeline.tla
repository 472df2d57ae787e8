----------------------------- MODULE MCPipeline -----------------------------
(* Two tables, up to two batches of the one that is read live, and trees of  *)
(* every executor in every place the planner or a client may put it, with    *)
(* names that are found, that are found twice and that are not found.        *)
EXTENDS Pipeline

MCSchema == [users |-> <<"id">>, orders |-> <<"uid", "amount">>]
MCDotted == ("users.id" :> "id") @@ ("orders.uid" :> "uid")
MCAmount == ("1" :> 1) @@ ("2" :> 2) @@
            [n \in {SumCell(i) : i \in 0..9} |-> CHOOSE i \in 0..9 : SumCell(i) = n]

MCTableRows ==
  [users |-> {<<"1">>, <<"2">>}, orders |-> {<<"1", "1">>, <<"1", "2">>, <<"2", "2">>}]
MCMaxRows == [users |-> 3, orders |-> 2]
MCIndexable == [users |-> {}, orders |-> {"uid"}]

Users  == MCSchema.users
Orders == MCSchema.orders

ScanUsers  == SeqScanExecutor("users")
ScanOrders == SeqScanExecutor("orders")

Names(ns) == MapSeq(Identifier, ns)

On(l, o, r)  == BinaryExpression(Identifier(l), o, Identifier(r))
OfUser       == On("users.id", "=", "orders.uid")
Where(c, o, n) == <<BinaryExpression(Identifier(c), o, NumberLiteral(n))>>
Call(f, c)   == <<FunctionCall(f, <<Identifier(c)>>)>>
SumOf(c)     == Call("SUM", c)

UsersOrders(p)     == NestedLoopJoinExecutor(ScanUsers, ScanOrders, p, Users, Orders)
UsersHashOrders(p) == HashJoinExecutor(ScanUsers, ScanOrders, p, Users, Orders)
SumOrders(child)   == AggregateExecutor(child, Names(<<"uid">>), SumOf("amount"), Orders)

Chained(l, o) == On(l, o, "users.id")

OneTable ==
  { ProjectExecutor(FilterExecutor(ScanOrders, Where("uid", "=", "1"), Orders),
                    Names(<<"amount", "uid", "amount">>), Orders),
    ProjectExecutor(FilterExecutor(FilterExecutor(ScanOrders, <<>>, Orders),
                                   Where("uid", "=", "1"), Orders), Names(<<"uid">>), Orders),
    FilterExecutor(ProjectExecutor(IndexScanExecutor("orders", "uid", "1"),
                                   Names(<<"amount">>), Orders),
                   Where("amount", "=", "2"), <<"amount">>),
    ProjectExecutor(SumOrders(ScanOrders), Names(<<"SUM", "uid">>), <<"uid", "SUM">>),
    AggregateExecutor(FilterExecutor(ScanOrders, Where("uid", "=", "2"), Orders),
                      Names(<<"amount">>), SumOf("uid"), Orders),
    AggregateExecutor(SumOrders(ScanOrders), Names(<<"uid">>), SumOf("SUM"), <<"uid", "SUM">>) }

TwoTables ==
  { UsersOrders(OfUser), UsersHashOrders(OfUser), UsersOrders(On("id", "=", "nobody")),
    ProjectExecutor(FilterExecutor(UsersOrders(OfUser), Where("amount", "=", "2"), Users \o Orders),
                    Names(<<"amount", "id">>), Users \o Orders),
    HashJoinExecutor(ScanUsers, SumOrders(ScanOrders), OfUser, Users, <<"uid", "SUM">>),
    NestedLoopJoinExecutor(FilterExecutor(ScanUsers, Where("id", "=", "1"), Users),
                           IndexScanExecutor("orders", "uid", "1"), OfUser, Users, Orders) }

\* A join as the left child of another; the column "id" is there twice.
Chains ==
  { HashJoinExecutor(UsersOrders(OfUser), ScanUsers, Chained("amount", "="), Users \o Orders, Users),
    FilterExecutor(
      NestedLoopJoinExecutor(UsersHashOrders(OfUser), ScanUsers, Chained("amount", "="),
                             Users \o Orders, Users),
      Where("id", "=", "2"), Users \o Orders \o Users) }

\* What README.md lists besides, and the executors do not know: ">" and "<", in a
\* WHERE and in an ON, two grouping columns, and COUNT.
NotPlain ==
  { FilterExecutor(ScanOrders, Where("amount", ">", "1"), Orders),
    FilterExecutor(ScanOrders, Where("amount", "<", "2"), Orders),
    UsersOrders(On("id", ">", "uid")), UsersHashOrders(On("id", ">", "uid")),
    AggregateExecutor(ScanOrders, Names(<<"uid", "amount">>), SumOf("amount"), Orders),
    AggregateExecutor(ScanOrders, Names(<<"uid">>), Call("COUNT", "amount"), Orders) }

\* Trees that are not wired right: columns that are not found, a number in the
\* ON of a hash join, no GROUP BY, COUNT(*), a schema of another table.
Miswired ==
  { UsersHashOrders(On("id", "=", "nobody")),
    UsersHashOrders(BinaryExpression(Identifier("id"), "=", NumberLiteral("1"))),
    AggregateExecutor(ScanOrders, <<>>, SumOf("amount"), Orders),
    AggregateExecutor(ScanOrders, Names(<<"uid">>), SumOf("*"), Orders),
    FilterExecutor(ScanUsers, Where("amount", "=", "1"), Orders) }

MCTrees == OneTable \cup TwoTables \cup Chains \cup NotPlain \cup Miswired

\* An aggregate, which drains its child before it answers, over a join.
MCSumsOfJoin ==
  { AggregateExecutor(UsersOrders(OfUser), Names(<<"id">>), SumOf("amount"), Users \o Orders) }

\* Those, and SELECT uid, SUM(amount) ... GROUP BY uid as the planner plans it.
MCListed ==
  NotPlain \cup
  { ProjectExecutor(SumOrders(ScanOrders), Names(<<"uid">>) \o SumOf("amount"), <<"uid", "SUM">>) }
=============================================================================

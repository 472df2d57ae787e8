---------------------------- MODULE MCOptimizer ----------------------------
(* Two tables that can be joined, and queries on one table, on both, and on  *)
(* a table joined twice.  The reported row counts lie on both sides of the   *)
(* threshold, whatever the tables hold.                                      *)
EXTENDS Optimizer

MCSchema == [users |-> <<"id">>, orders |-> <<"uid">>]
MCDotted == ("users.id" :> "id") @@ ("orders.uid" :> "uid")

\* Orders of user 1 only: two matches for it, none for user 2.
MCTableRows == [users |-> {<<"1">>, <<"2">>}, orders |-> {<<"1">>}]
MCAmount == ("1" :> 1) @@ ("2" :> 2)

Id    == Identifier("id")
UserId == Identifier("users.id")
OrderUser == Identifier("orders.uid")

Query(columns, joins, where, group) ==
  [explain |-> FALSE, columns |-> columns, tableName |-> "users", joins |-> joins,
   whereClause |-> where, groupBy |-> group]

Number == NumberLiteral("1")
Sum == FunctionCall("sum", <<Id>>)
Orders == JoinClause("orders", BinaryExpression(UserId, "=", OrderUser))

MCPlainQueries ==
  { Query(<<Id>>, <<>>, <<BinaryExpression(Id, "=", Number)>>, <<>>),
    Query(<<Id, Sum>>, <<>>, <<BinaryExpression(Id, "=", Number)>>, <<Id>>),
    Query(<<Id>>, <<>>, <<BinaryExpression(Id, ">", Number)>>, <<>>),
    Query(<<Id>>, <<Orders>>, <<BinaryExpression(Id, "=", Number)>>, <<>>),
    Query(<<Id>>, <<Orders, Orders>>, <<>>, <<>>) }

MCQueries ==
  MCPlainQueries \cup { Query(<<Id>>, <<>>, <<BinaryExpression(UserId, "=", Number)>>, <<>>) }
=============================================================================

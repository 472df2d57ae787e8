----------------------------- MODULE SQLSyntax -----------------------------
(***************************************************************************)
(* The statements of src/src/ast/AST.h, and the token list that writes     *)
(* each of them down in the SQL that README.md calls supported.            *)
(***************************************************************************)
EXTENDS Naturals, Sequences, SequencesExt

CONSTANT EmptyString

Identifier(v)    == [node |-> "Identifier", value |-> v]
NumberLiteral(v) == [node |-> "NumberLiteral", value |-> v]

BinaryExpression(l, o, r) ==
  [node |-> "BinaryExpression", left |-> l, op |-> o, right |-> r]

FunctionCall(name, args) ==
  [node |-> "FunctionCall", functionName |-> name, arguments |-> args]

JoinClause(table, cond) == [tableName |-> table, condition |-> cond]

\* whereClause is a list of at most one expression: <<>> is the null pointer.
SelectStatement ==
  [explain |-> FALSE, columns |-> <<>>, tableName |-> EmptyString, joins |-> <<>>,
   whereClause |-> <<>>, groupBy |-> <<>>]

\* An ExplainStatement is the statement it wraps, marked.
ExplainStatement == [SelectStatement EXCEPT !.explain = TRUE]

-----------------------------------------------------------------------------
\* The statements that can be written down: every function has one argument, and
\* conditions compare a column with a column or a number.
Identifiers    == [node : {"Identifier"}, value : STRING]
NumberLiterals == [node : {"NumberLiteral"}, value : STRING]

FunctionCalls ==
  [node : {"FunctionCall"}, functionName : STRING, arguments : [1..1 -> Identifiers]]

BinaryExpressions ==
  [node : {"BinaryExpression"}, left : Identifiers, op : STRING,
   right : Identifiers \cup NumberLiterals]

JoinClauses == [tableName : STRING, condition : BinaryExpressions]

SelectStatements ==
  [explain : BOOLEAN, columns : Seq(Identifiers \cup FunctionCalls), tableName : STRING,
   joins : Seq(JoinClauses), whereClause : {<<>>} \cup [1..1 -> BinaryExpressions],
   groupBy : Seq(Identifiers)]

-----------------------------------------------------------------------------
Token(t, l) == [type |-> t, literal |-> l]

\* A token whose spelling no one looks at.
Keyword(t) == Token(t, t)

CommaSeparated(lists) ==
  FlattenSeq([i \in 1..Len(lists) |->
    IF i = 1 THEN lists[i] ELSE <<Keyword("COMMA")>> \o lists[i]])

WriteIdentifier(e) == <<Token("IDENTIFIER", e.value)>>

\* A column, or a function of a column or of "*".
WriteColumn(e) ==
  IF e.node = "Identifier" THEN WriteIdentifier(e)
  ELSE <<Token("IDENTIFIER", e.functionName), Keyword("LPAREN")>>
       \o <<Token(IF e.arguments[1].value = "*" THEN "STAR" ELSE "IDENTIFIER",
                  e.arguments[1].value)>>
       \o <<Keyword("RPAREN")>>

WriteCondition(e) ==
  WriteIdentifier(e.left)
  \o <<Token(IF e.op = "=" THEN "EQUALS" ELSE "ILLEGAL", e.op)>>
  \o <<Token(IF e.right.node = "NumberLiteral" THEN "NUMBER" ELSE "IDENTIFIER",
             e.right.value)>>

WriteJoin(j) ==
  <<Keyword("JOIN"), Token("IDENTIFIER", j.tableName), Keyword("ON")>>
  \o WriteCondition(j.condition)

MapSeq(Write(_), s) == [i \in 1..Len(s) |-> Write(s[i])]

\* One statement, with the semicolon that ends it.
WriteStatement(s) ==
  (IF s.explain THEN <<Keyword("EXPLAIN")>> ELSE <<>>)
  \o <<Keyword("SELECT")>> \o CommaSeparated(MapSeq(WriteColumn, s.columns))
  \o <<Keyword("FROM"), Token("IDENTIFIER", s.tableName)>>
  \o FlattenSeq(MapSeq(WriteJoin, s.joins))
  \o (IF s.whereClause = <<>> THEN <<>>
      ELSE <<Keyword("WHERE")>> \o WriteCondition(s.whereClause[1]))
  \o (IF s.groupBy = <<>> THEN <<>>
      ELSE <<Keyword("GROUP"), Keyword("BY")>>
           \o CommaSeparated(MapSeq(WriteIdentifier, s.groupBy)))
  \o <<Keyword("SEMICOLON")>>

WriteScript(script) == FlattenSeq(MapSeq(WriteStatement, script))
=============================================================================

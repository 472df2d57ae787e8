----------------------------- MODULE MCParser -----------------------------
(* Statements with up to two columns, two joins and two groups, alone and in *)
(* pairs, in three layouts; the token lists one token away from such a       *)
(* script; all texts of up to three characters, one or two of each class; and *)
(* the text of main.cpp with one character lost.                             *)
EXTENDS Parser, TLC

a == Identifier("a")
b == Identifier("b")
On(o) == BinaryExpression(a, o, b)
Where(o) == <<BinaryExpression(a, o, NumberLiteral("1"))>>

Columns == {<<a>>, <<a, FunctionCall("sum", <<b>>)>>, <<FunctionCall("count", <<Identifier("*")>>), b>>}
Joins   == {<<>>, <<JoinClause("u", On("="))>>, <<JoinClause("u", On(">")), JoinClause("v", On("="))>>}

\* A WHERE or a GROUP BY, or neither: see MCGroupedScripts for both.
Tails == {[w |-> <<>>, g |-> <<>>], [w |-> Where("="), g |-> <<>>], [w |-> Where(">"), g |-> <<>>],
          [w |-> <<>>, g |-> <<a>>], [w |-> <<>>, g |-> <<a, b>>]}

Statements(C, J, T) ==
  {[explain |-> e, columns |-> c, tableName |-> "t", joins |-> j,
    whereClause |-> t.w, groupBy |-> t.g] : e \in BOOLEAN, c \in C, j \in J, t \in T}

Short == Statements({<<a>>}, {j \in Joins : Len(j) < 2}, Tails)

MCScripts ==
  {<<s>> : s \in Statements(Columns, Joins, Tails)} \cup {<<s, t>> : s \in Short, t \in Short}

\* README.md's example has a WHERE and a GROUP BY.
MCGroupedScripts ==
  {<<s>> : s \in Statements(Columns, Joins, {[w |-> Where("="), g |-> <<a, b>>]})}

-----------------------------------------------------------------------------
Types == {"SELECT", "FROM", "WHERE", "IDENTIFIER", "NUMBER", "STAR", "EQUALS",
          "JOIN", "ON", "GROUP", "BY", "EXPLAIN", "COMMA", "SEMICOLON",
          "LPAREN", "RPAREN", "ILLEGAL"}

Numbered(types) == [i \in 1..Len(types) |-> Token(types[i], i)]

TypesOf(script_) == MapSeq(LAMBDA t : t.type, WriteScript(script_))

Whole ==
  {TypesOf(<<s>>) : s \in Statements({<<a, FunctionCall("sum", <<b>>)>>}, {<<JoinClause("u", On("="))>>},
                                     {[w |-> Where("="), g |-> <<a, b>>], [w |-> <<>>, g |-> <<a>>]})}
  \cup {TypesOf(<<s, s>>) : s \in Statements({<<a>>}, {<<>>}, Tails)}

\* One token dropped, replaced or the tail lost.
MCSources ==
  {Numbered(types) : types \in Whole
     \cup UNION {{RemoveAt(w, i) : i \in 1..Len(w)} : w \in Whole}
     \cup UNION {{SubSeq(w, 1, i) : i \in 0..Len(w)} : w \in Whole}
     \cup UNION {{ReplaceAt(w, i, t) : i \in 1..Len(w), t \in Types} : w \in Whole}}

-----------------------------------------------------------------------------
Symbols ==
  ("COMMA" :> ",") @@ ("SEMICOLON" :> ";") @@ ("LPAREN" :> "(") @@ ("RPAREN" :> ")")

Capitals == [k \in Keywords |-> k]

Mixed ==
  ("SELECT" :> "select") @@ ("FROM" :> "From") @@ ("WHERE" :> "wHERE") @@ ("JOIN" :> "joiN")
  @@ ("ON" :> "on") @@ ("GROUP" :> "GRoup") @@ ("BY" :> "bY") @@ ("EXPLAIN" :> "eXPLAIN")

MCLayouts ==
  {[spelling |-> Symbols @@ Capitals, blank |-> " ", tight |-> FALSE],
   [spelling |-> Symbols @@ Mixed, blank |-> "\n\t", tight |-> FALSE],
   [spelling |-> Symbols @@ Mixed, blank |-> " ", tight |-> TRUE]}

Alphabet == {"o", "N", ".", "4", "2", " ", "\n", "=", "*", ">"}

RECURSIVE TextsOf(_)
TextsOf(n) ==
  IF n = 0 THEN {""} ELSE {t \o ch : t \in TextsOf(n - 1), ch \in Alphabet}

Demo == "EXPLAIN SELECT name FROM users WHERE id = 42;"

Without(text, i) == SubSeq(text, 1, i - 1) \o SubSeq(text, i + 1, Len(text))

MCTexts ==
  UNION {TextsOf(n) : n \in 1..3} \cup {Demo} \cup {Without(Demo, i) : i \in 1..Len(Demo)}
=============================================================================

------------------------------- MODULE Parser -------------------------------
(***************************************************************************)
(* class Parser (src/src/parser/Parser.cpp), which owns a Lexer: parse()   *)
(* reads the token list to its end, clause by clause, with current_token_  *)
(* and one token of lookahead.  A step here is one token of the lexer or   *)
(* one clause of a statement.                                              *)
(*                                                                         *)
(* The parser asks for tokens one at a time.  What the lexer answers does  *)
(* not depend on when it is asked, so all of them are read first.          *)
(*                                                                         *)
(* No function of the parser reports an error: what it does not expect it  *)
(* skips, or takes for what it expected.                                   *)
(***************************************************************************)
EXTENDS Lexer, FiniteSets

CONSTANTS
  Scripts,   \* lists of statements, written down as README.md does
  Layouts,   \* ways of writing them down: [spelling, blank, tight]
  Texts,     \* texts that need not be statements
  Sources    \* token lists that need not be statements

VARIABLES
  script,      \* the list of statements that was written down, or <<>>
  position,    \* the number of current_token_
  clause,      \* where parse() is
  stmt,        \* the statement being built
  statements   \* the statements returned so far

input == <<script, tokens, lexerVars>>
vars  == <<input, position, clause, stmt, statements>>

-----------------------------------------------------------------------------
\* The lexer goes on delivering END_OF_FILE tokens with an empty literal.
TokenAt(i) == IF i \in 1..Len(tokens) THEN tokens[i] ELSE Token("END_OF_FILE", EmptyString)

Is(i, type) == TokenAt(i).type = type

\* Mutant of ParsedExpression: no token is read after the left side.
ParsedExpressionStays(i) ==
  BinaryExpression(Identifier(TokenAt(i).literal), TokenAt(i).literal,
    IF Is(i + 1, "NUMBER") THEN NumberLiteral(TokenAt(i + 1).literal)
                           ELSE Identifier(TokenAt(i + 1).literal))

\* parseExpression on token i: three tokens, whatever they are, the last of
\* which is left as the current one.
ParsedExpression(i) ==
  BinaryExpression(Identifier(TokenAt(i).literal), TokenAt(i + 1).literal,
    IF Is(i + 2, "NUMBER") THEN NumberLiteral(TokenAt(i + 2).literal)
                           ELSE Identifier(TokenAt(i + 2).literal))

\* parseColumnOrFunction on token i: an argument and a ")" that are missing are
\* not missed.
IsCall(i)  == Is(i + 1, "LPAREN")
HasArg(i)  == Is(i + 2, "IDENTIFIER") \/ Is(i + 2, "STAR")
AfterArg(i) == IF HasArg(i) THEN i + 3 ELSE i + 2

ParsedColumn(i) ==
  IF IsCall(i)
  THEN FunctionCall(TokenAt(i).literal,
         IF HasArg(i) THEN <<Identifier(TokenAt(i + 2).literal)>> ELSE <<>>)
  ELSE Identifier(TokenAt(i).literal)

AfterColumn(i) ==
  IF ~IsCall(i) THEN i + 1
  ELSE IF Is(AfterArg(i), "RPAREN") THEN AfterArg(i) + 1 ELSE AfterArg(i)

\* parseJoinClause on the JOIN at i: where the ON and the condition are.
OnAt(i)        == IF Is(i + 1, "IDENTIFIER") THEN i + 2 ELSE i + 1
ConditionAt(i) == IF Is(OnAt(i), "ON") THEN OnAt(i) + 1 ELSE OnAt(i)

ParsedJoin(i) ==
  JoinClause(IF Is(i + 1, "IDENTIFIER") THEN TokenAt(i + 1).literal ELSE EmptyString,
             ParsedExpression(ConditionAt(i)))

-----------------------------------------------------------------------------
\* Two tokens that would be read as one without a blank between them.
Solid(t) == t.type \in Keywords \cup {"IDENTIFIER", "NUMBER"}

\* The text of a script: keywords and symbols in the layout's spelling, and a
\* blank between any two tokens, or only where one is needed.
Written(ts, layout) ==
  FoldLeft(\o, "",
    [i \in 1..Len(ts) |->
       (IF i > 1 /\ (~layout.tight \/ (Solid(ts[i - 1]) /\ Solid(ts[i])))
        THEN layout.blank ELSE "")
       \o (IF ts[i].literal \in DOMAIN layout.spelling
           THEN layout.spelling[ts[i].literal] ELSE ts[i].literal)])

WrittenTexts == {Written(WriteScript(s), layout) : s \in Scripts, layout \in Layouts}

\* The literal of a token in a source is its number, which no missing token has.
ASSUME ParserAssumption ==
  /\ Scripts \subseteq Seq(SelectStatements)
  /\ \A text \in WrittenTexts \cup Texts \cup {NoText} : IsText(text)
  /\ Len(NoText) = 0
  /\ Sources \subseteq Seq([type : STRING, literal : Nat])
  /\ \A source \in Sources : \A i \in 1..Len(source) : source[i].literal = i
  /\ EmptyString \notin Nat

\* The three kinds of input: a script in some layout, any text, or a list of
\* tokens that the lexer is taken to have delivered.
Init ==
  /\ \/ /\ script \in Scripts
        /\ \E layout \in Layouts : source_ = Written(WriteScript(script), layout)
        /\ LexInit
     \/ script = <<>> /\ source_ \in Texts /\ LexInit
     \/ /\ script = <<>> /\ source_ = NoText /\ tokens \in Sources
        /\ position_ = 1 /\ starts = tokens /\ lexed = TRUE
  /\ position = 1
  /\ clause = "statement"
  /\ stmt = SelectStatement
  /\ statements = <<>>

ReadToken == Lex /\ UNCHANGED <<script, position, clause, stmt, statements>>

\* parse's loop and parseStatement: EXPLAIN, SELECT, or a token to skip.
ParseStatement ==
  /\ lexed /\ clause = "statement" /\ ~Is(position, "END_OF_FILE")
  /\ \/ /\ Is(position, "SELECT")
        /\ stmt' = SelectStatement
        /\ clause' = "columns" /\ position' = position + 1
     \/ /\ Is(position, "EXPLAIN") /\ Is(position + 1, "SELECT")
        /\ stmt' = ExplainStatement
        /\ clause' = "columns" /\ position' = position + 2
     \/ /\ Is(position, "EXPLAIN") /\ ~Is(position + 1, "SELECT")
        /\ position' = position + 2
        /\ UNCHANGED <<clause, stmt>>
     \/ /\ ~Is(position, "SELECT") /\ ~Is(position, "EXPLAIN")
        /\ position' = position + 1
        /\ UNCHANGED <<clause, stmt>>
  /\ UNCHANGED <<input, statements>>

ParseEnd ==
  /\ lexed /\ clause = "statement" /\ Is(position, "END_OF_FILE")
  /\ clause' = "done"
  /\ UNCHANGED <<input, position, stmt, statements>>

\* Mutant of ParseColumn: the loop looks for FROM only.
ParseColumnPastEnd ==
  /\ clause = "columns" /\ ~Is(position, "FROM")
  /\ IF Is(position, "IDENTIFIER")
     THEN /\ stmt' = [stmt EXCEPT !.columns = Append(@, ParsedColumn(position))]
          /\ position' = AfterColumn(position)
     ELSE position' = position + 1 /\ UNCHANGED stmt
  /\ UNCHANGED <<input, clause, statements>>

\* Mutant of ParseColumn: what is not a column is not skipped.
ParseColumnSticks ==
  /\ clause = "columns" /\ ~Is(position, "FROM") /\ ~Is(position, "END_OF_FILE")
  /\ IF Is(position, "IDENTIFIER")
     THEN /\ stmt' = [stmt EXCEPT !.columns = Append(@, ParsedColumn(position))]
          /\ position' = AfterColumn(position)
     ELSE UNCHANGED <<position, stmt>>
  /\ UNCHANGED <<input, clause, statements>>

\* The loop over the columns: anything that is not a name is skipped.
ParseColumn ==
  /\ clause = "columns" /\ ~Is(position, "FROM") /\ ~Is(position, "END_OF_FILE")
  /\ IF Is(position, "IDENTIFIER")
     THEN /\ stmt' = [stmt EXCEPT !.columns = Append(@, ParsedColumn(position))]
          /\ position' = AfterColumn(position)
     ELSE position' = position + 1 /\ UNCHANGED stmt
  /\ UNCHANGED <<input, clause, statements>>

\* FROM and the table's name; one token is skipped when either is missing.
ParseFrom ==
  /\ clause = "columns" /\ (Is(position, "FROM") \/ Is(position, "END_OF_FILE"))
  /\ IF Is(position, "FROM") /\ Is(position + 1, "IDENTIFIER")
     THEN /\ stmt' = [stmt EXCEPT !.tableName = TokenAt(position + 1).literal]
          /\ position' = position + 2
     ELSE position' = position + 1 /\ UNCHANGED stmt
  /\ clause' = "joins"
  /\ UNCHANGED <<input, statements>>

\* Mutant of ParseJoin: the current token is not moved off the condition.
ParseJoinStays ==
  /\ clause = "joins" /\ Is(position, "JOIN")
  /\ stmt' = [stmt EXCEPT !.joins = Append(@, ParsedJoin(position))]
  /\ position' = ConditionAt(position) + 2
  /\ UNCHANGED <<input, clause, statements>>

\* parseJoinClause, and the nextToken that moves off its condition.
ParseJoin ==
  /\ clause = "joins" /\ Is(position, "JOIN")
  /\ stmt' = [stmt EXCEPT !.joins = Append(@, ParsedJoin(position))]
  /\ position' = ConditionAt(position) + 3
  /\ UNCHANGED <<input, clause, statements>>

\* WHERE, if it is next.  The condition's last token stays the current one.
ParseWhere ==
  /\ clause = "joins" /\ ~Is(position, "JOIN")
  /\ IF Is(position, "WHERE")
     THEN /\ stmt' = [stmt EXCEPT !.whereClause = <<ParsedExpression(position + 1)>>]
          /\ position' = position + 3
     ELSE UNCHANGED <<position, stmt>>
  /\ clause' = "group"
  /\ UNCHANGED <<input, statements>>

\* The first semicolon at or after token i, or the end.
QueryEnd(i) ==
  Min({j \in i..Len(tokens) : Is(j, "SEMICOLON")} \cup {Max({i, Len(tokens) + 1})})

\* The identifiers among the tokens from the first number up to the second.
GroupName(i) ==
  IF Is(i, "IDENTIFIER") THEN <<Identifier(TokenAt(i).literal)>> ELSE <<>>
GroupNames(first, end) == FlattenSeq([k \in 1..end - first |-> GroupName(first + k - 1)])

\* GROUP BY, if it is next: every identifier up to the end of the query.
ParseGroupBy ==
  /\ clause = "group"
  /\ IF Is(position, "GROUP") /\ Is(position + 1, "BY")
     THEN LET end == QueryEnd(position + 2)
          IN  /\ stmt' = [stmt EXCEPT !.groupBy = GroupNames(position + 2, end)]
              /\ position' = end
     ELSE /\ position' = position + (IF Is(position, "GROUP") THEN 1 ELSE 0)
          /\ UNCHANGED stmt
  /\ clause' = "finish"
  /\ UNCHANGED <<input, statements>>

\* Mutant of FinishStatement: parse does not move off a statement's last token.
FinishStatementStays ==
  /\ clause = "finish"
  /\ position' = position + (IF Is(position + 1, "SEMICOLON") THEN 1 ELSE 0)
  /\ statements' = Append(statements, stmt)
  /\ clause' = "statement"
  /\ UNCHANGED <<input, stmt>>

\* The semicolon, if it is the next token, and parse's nextToken.
FinishStatement ==
  /\ clause = "finish"
  /\ position' = position + (IF Is(position + 1, "SEMICOLON") THEN 2 ELSE 1)
  /\ statements' = Append(statements, stmt)
  /\ clause' = "statement"
  /\ UNCHANGED <<input, stmt>>

Next ==
  \/ ReadToken
  \/ ParseStatement \/ ParseEnd
  \/ ParseColumn \/ ParseFrom \/ ParseJoin \/ ParseWhere \/ ParseGroupBy
  \/ FinishStatement

\* parse() is one thread that waits for nothing: it goes on while it can.
Spec == Init /\ [][Next]_vars /\ WF_vars(Next)

-----------------------------------------------------------------------------
Clauses == {"statement", "columns", "joins", "group", "finish", "done"}

\* The parser may look a few tokens past the end, never ever further.
TypeOK ==
  /\ LexTypeOK
  /\ clause \in Clauses
  /\ position \in 1..Len(tokens) + 5
  /\ Len(statements) <= Cardinality({i \in 1..Len(tokens) : Is(i, "SELECT")})

\* The tokens whose spelling the parser takes over.
Named == {"IDENTIFIER", "NUMBER", "STAR", "EQUALS", "ILLEGAL"}

\* However a script is written down, with keywords in any case, blanks of any
\* kind and none where none is needed, the lexer delivers the tokens it was
\* written from (Lexer::nextToken, Lexer::lookupIdentifier).
LexesBack ==
  lexed /\ script # <<>> =>
    LET wanted == WriteScript(script)
    IN  /\ Len(tokens) = Len(wanted)
        /\ \A i \in 1..Len(tokens) :
             /\ tokens[i].type = wanted[i].type
             /\ tokens[i].type \in Named => tokens[i].literal = wanted[i].literal

\* A list of statements written down as README.md shows is read back as just
\* these statements: every clause leaves current_token_ where the next clause,
\* and the next statement, expect it (Parser::parse).
ParsesBack == clause = "done" /\ script # <<>> => statements = script

\* parse() returns, whatever the tokens are: no loop waits for a token that
\* does not come.
Terminates == <>(clause = "done")

\* What there is left to do: the characters to read, and then, for each token
\* and the few that may be asked for beyond the last one, the six clauses.
ClauseNumber ==
  [statement |-> 0, columns |-> 1, joins |-> 2, group |-> 3, finish |-> 4, done |-> 5]
CharsLeft   == Len(source_) + 2 - position_
ClausesLeft == 6 * (Len(tokens) + 5 - position) + 5 - ClauseNumber[clause]

\* No step of the lexer or of a clause leaves as much to do as there was: each
\* moves the cursor, or stays and passes on to a later clause.  So no loop of
\* parse() goes round in place, and the length of the text and of the token list
\* bound its steps (that it does get to its end is what Terminates says).
NearsTheEnd ==
  [][IF lexed THEN ClausesLeft' < ClausesLeft /\ ClausesLeft' >= 0
              ELSE CharsLeft' < CharsLeft /\ CharsLeft' >= 0]_vars

ExpressionLiterals(e) ==
  CASE e.node = "FunctionCall" -> <<e.functionName>> \o MapSeq(LAMBDA a : a.value, e.arguments)
    [] e.node = "BinaryExpression" -> <<e.left.value, e.op, e.right.value>>
    [] OTHER -> <<e.value>>

JoinLiterals(j) == <<j.tableName>> \o ExpressionLiterals(j.condition)

\* The literals a statement is made of, in the order of its clauses.
Literals(s) ==
  FlattenSeq(MapSeq(ExpressionLiterals, s.columns)) \o <<s.tableName>>
  \o FlattenSeq(MapSeq(JoinLiterals, s.joins))
  \o FlattenSeq(MapSeq(ExpressionLiterals, s.whereClause))
  \o FlattenSeq(MapSeq(ExpressionLiterals, s.groupBy))

\* Even from tokens that are no statements, what the parser returns is made of
\* distinct tokens in the order of the source: no token is used twice, not even
\* by two statements, and none is taken before one it follows.  (The sources'
\* literals are their tokens' numbers; a missing token has the empty string.)
SourceOrder ==
  source_ = NoText =>
    LET used == FlattenSeq(MapSeq(Literals, statements))
    IN  \A i, j \in 1..Len(used) :
          i < j /\ used[i] # EmptyString /\ used[j] # EmptyString => used[i] < used[j]
=============================================================================

------------------------------- MODULE Lexer -------------------------------
(***************************************************************************)
(* class Lexer (src/src/lexer/Lexer.cpp): each nextToken skips blanks and  *)
(* reads one token from the text.  A text is a string over printable       *)
(* characters, blanks and line ends: a NUL inside it is left out.          *)
(*                                                                         *)
(* current_char_ and read_position_ follow from position_, which is        *)
(* counted from 1.  The END_OF_FILE token that tokenize puts last is not   *)
(* kept in the list.                                                       *)
(***************************************************************************)
EXTENDS SQLSyntax

VARIABLES
  source_,    \* the text
  position_,  \* the number of current_char_
  tokens,     \* the tokens delivered
  starts,     \* history: where each of them begins
  lexed       \* whether END_OF_FILE was delivered

lexerVars == <<source_, position_, starts, lexed>>

-----------------------------------------------------------------------------
CharOf(text, i) == SubSeq(text, i, i)

CharsOf(text) == {CharOf(text, i) : i \in 1..Len(text)}

Uppercase == "ABCDEFGHIJKLMNOPQRSTUVWXYZ"
Lowercase == "abcdefghijklmnopqrstuvwxyz"
Blanks    == CharsOf(" \t\n\r")
Letters   == CharsOf(Uppercase) \cup CharsOf(Lowercase) \cup CharsOf("_.")
Digits    == CharsOf("0123456789")

\* The empty text, and what current_char_ is beyond the end of a text: the
\* code's '\0'.
NoText == ""
Nul    == ""

\* What every text has: the characters of a part of it are counted from 1.
IsText(text) ==
  /\ Len(text) \in Nat
  /\ \A p \in 1..Len(text) : \A q \in p..Len(text) : Len(SubSeq(text, p, q)) = q - p + 1

\* No character is a letter and a digit, and the end of a text is of no class.
ASSUME CharacterClasses ==
  /\ Letters \cap Digits = {}
  /\ Nul \notin Blanks \cup Letters \cup Digits

\* current_char_ at position p.
CharAt(p) == IF p \in 1..Len(source_) THEN CharOf(source_, p) ELSE Nul

\* The first position from p on whose character is not in the class.
SkipFrom(p, class) ==
  CHOOSE q \in p..p + Len(source_) :
    CharAt(q) \notin class /\ \A r \in p..q - 1 : CharAt(r) \in class

skipWhitespace == SkipFrom(position_, Blanks)

toupper ==
  [ch \in Letters |->
     IF ch \in CharsOf(Lowercase)
     THEN CharOf(Uppercase, CHOOSE i \in 1..26 : CharOf(Lowercase, i) = ch)
     ELSE ch]

Keywords == {"SELECT", "FROM", "WHERE", "JOIN", "ON", "GROUP", "BY", "EXPLAIN"}

\* Mutant of Spells: the word is compared as it is written.
SpellsExactly(word, keyword) == word = keyword

\* Upper and lower case are one in keywords.
Spells(word, keyword) ==
  /\ Len(word) = Len(keyword)
  /\ \A i \in 1..Len(word) : toupper[CharOf(word, i)] = CharOf(keyword, i)

lookupIdentifier(word) ==
  IF \E k \in Keywords : Spells(word, k)
  THEN CHOOSE k \in Keywords : Spells(word, k)
  ELSE "IDENTIFIER"

SymbolType(ch) ==
  CASE ch = "=" -> "EQUALS" [] ch = ";" -> "SEMICOLON" [] ch = "," -> "COMMA"
    [] ch = "(" -> "LPAREN" [] ch = ")" -> "RPAREN"    [] ch = "*" -> "STAR"
    [] OTHER -> "ILLEGAL"

-----------------------------------------------------------------------------
LexInit == position_ = 1 /\ tokens = <<>> /\ starts = <<>> /\ lexed = FALSE

\* The token from p up to q is delivered.
Deliver(type, p, q) ==
  /\ tokens' = Append(tokens, Token(type, SubSeq(source_, p, q - 1)))
  /\ starts' = Append(starts, p)
  /\ position_' = q
  /\ UNCHANGED <<source_, lexed>>

\* A word is read as far as its letters go, then looked up.
ReadIdentifier ==
  /\ ~lexed /\ CharAt(skipWhitespace) \in Letters
  /\ LET p == skipWhitespace
         q == SkipFrom(p, Letters)
     IN  Deliver(lookupIdentifier(SubSeq(source_, p, q - 1)), p, q)

\* Mutant of ReadNumber: the caller's advance is not skipped.
ReadNumberAdvances ==
  /\ ~lexed /\ CharAt(skipWhitespace) \in Digits
  /\ LET p == skipWhitespace
         q == SkipFrom(p, Digits)
     IN  /\ tokens' = Append(tokens, Token("NUMBER", SubSeq(source_, p, q - 1)))
         /\ starts' = Append(starts, p)
         /\ position_' = q + 1
         /\ UNCHANGED <<source_, lexed>>

ReadNumber ==
  /\ ~lexed /\ CharAt(skipWhitespace) \in Digits
  /\ LET p == skipWhitespace IN Deliver("NUMBER", p, SkipFrom(p, Digits))

\* Any other character is a token of its own, ILLEGAL if nothing else.
ReadSymbol ==
  /\ ~lexed /\ skipWhitespace <= Len(source_)
  /\ CharAt(skipWhitespace) \notin Letters \cup Digits
  /\ LET p == skipWhitespace IN Deliver(SymbolType(CharAt(p)), p, p + 1)

\* END_OF_FILE, and the advance after it.
ReadEnd ==
  /\ ~lexed /\ skipWhitespace > Len(source_)
  /\ lexed' = TRUE
  /\ position_' = skipWhitespace + 1
  /\ UNCHANGED <<source_, tokens, starts>>

Lex == ReadIdentifier \/ ReadNumber \/ ReadSymbol \/ ReadEnd

-----------------------------------------------------------------------------
LexTypeOK ==
  /\ position_ \in 1..Len(source_) + 2
  /\ lexed \in BOOLEAN
  /\ Len(starts) = Len(tokens)

\* The character after token i.
EndOf(i) == starts[i] + Len(tokens[i].literal)

\* Every character read so far that is no blank is in just one token, and the
\* tokens are in the order of the text.
CoversText ==
  /\ \A i \in 1..Len(tokens) :
       /\ tokens[i].literal = SubSeq(source_, starts[i], EndOf(i) - 1)
       /\ starts[i] < EndOf(i)
       /\ i > 1 => EndOf(i - 1) <= starts[i]
  /\ \A p \in 1..position_ - 1 :
       \/ CharAt(p) \in Blanks \cup {Nul}
       \/ \E i \in 1..Len(tokens) : p \in starts[i]..EndOf(i) - 1

\* No word and no number stops before its last character or runs past it.
LongestMatch ==
  \A i \in 1..Len(tokens) : \A class \in {Letters, Digits} :
    CharAt(starts[i]) \in class =>
      /\ \A p \in starts[i]..EndOf(i) - 1 : CharAt(p) \in class
      /\ CharAt(EndOf(i)) \notin class

\* nextToken neither drops nor repeats a character, though some of its branches
\* have moved past their token when they return and others have not.  (Without
\* a text, the tokens are given and have no characters.)
LexemesExact == lexed /\ source_ # NoText => CoversText /\ LongestMatch
=============================================================================

---------------------------- MODULE ParserProofs ----------------------------
(***************************************************************************)
(* Theorems about modules Lexer and Parser, for every text, every list of  *)
(* tokens, every script and every layout.  The provers know nothing of     *)
(* strings: IsText and CharacterClasses say what is needed, and TLC        *)
(* evaluates both.                                                         *)
(***************************************************************************)
EXTENDS Parser, SequenceLemmas, FiniteSetTheorems

-----------------------------------------------------------------------------
(* Where a run of characters of one class ends. *)

LEMMA SkipFromIs ==
  ASSUME Len(source_) \in Nat, NEW p \in 1..Len(source_) + 1, NEW class, Nul \notin class
  PROVE  /\ SkipFrom(p, class) \in p..Len(source_) + 1
         /\ CharAt(SkipFrom(p, class)) \notin class
         /\ \A r \in p..SkipFrom(p, class) - 1 : CharAt(r) \in class
<1>. DEFINE len == Len(source_)
            S   == {q \in p..len + 1 : CharAt(q) \notin class}
            Stops(q) == CharAt(q) \notin class /\ \A r \in p..q - 1 : CharAt(r) \in class
<1>1. len + 1 \in S
  BY DEF CharAt
<1>2. PICK m \in S : \A n \in S : m <= n
  <2>1. S \in SUBSET Nat /\ S # {}
    BY <1>1
  <2>. QED
    BY <2>1, LeastNumber
<1>3. m \in p..p + len /\ Stops(m)
  <2>1. m \in p..len + 1 /\ CharAt(m) \notin class
    BY <1>2
  <2>2. ASSUME NEW r \in p..m - 1 PROVE CharAt(r) \in class
    BY <1>2, <2>1
  <2>. QED
    BY <2>1, <2>2
<1>4. SkipFrom(p, class) \in p..p + len /\ Stops(SkipFrom(p, class))
  <2>. DEFINE q == CHOOSE q \in p..p + len : Stops(q)
  <2>1. q \in p..p + len /\ Stops(q)
    BY <1>3
  <2>2. SkipFrom(p, class) = q
    BY DEF SkipFrom
  <2>. QED
    BY <2>1, <2>2
<1>5. SkipFrom(p, class) <= m
  BY <1>2, <1>3, <1>4
<1>. QED
  BY <1>2, <1>4, <1>5

\* Blanks are skipped up to a character or to the end.
LEMMA SkipWhitespaceIs ==
  ASSUME Len(source_) \in Nat, position_ \in 1..Len(source_) + 1
  PROVE  /\ skipWhitespace \in position_..Len(source_) + 1
         /\ \A r \in position_..skipWhitespace - 1 : CharAt(r) \in Blanks
BY SkipFromIs, CharacterClasses DEF skipWhitespace

-----------------------------------------------------------------------------
(* Lists that grow at the end, whatever they hold. *)

IsList(s) == \E S : s \in Seq(S)

LEMMA ListFacts ==
  ASSUME NEW s, IsList(s)
  PROVE  /\ Len(s) \in Nat
         /\ \A x : /\ IsList(Append(s, x))
                  /\ Len(Append(s, x)) = Len(s) + 1
                  /\ Append(s, x)[Len(s) + 1] = x
                  /\ \A i \in 1..Len(s) : Append(s, x)[i] = s[i]
<1>1. PICK S : s \in Seq(S)
  BY DEF IsList
<1>2. ASSUME NEW x
      PROVE  /\ IsList(Append(s, x))
             /\ Len(Append(s, x)) = Len(s) + 1
             /\ Append(s, x)[Len(s) + 1] = x
             /\ \A i \in 1..Len(s) : Append(s, x)[i] = s[i]
  <2>. DEFINE T == S \cup {x}
  <2>1. s \in Seq(T) /\ x \in T
    BY <1>1, SeqMonotonic
  <2>. HIDE DEF T
  <2>2. /\ Append(s, x) \in Seq(T)
        /\ Len(Append(s, x)) = Len(s) + 1
        /\ Append(s, x)[Len(s) + 1] = x
        /\ \A i \in 1..Len(s) : Append(s, x)[i] = s[i]
    BY <2>1, AppendProperties
  <2>. QED
    BY <2>2 DEF IsList
<1>3. Len(s) \in Nat
  BY <1>1, LenProperties
<1>. QED
  BY <1>2, <1>3

-----------------------------------------------------------------------------
(* The invariant of the lexer. *)

\* A token's characters are behind the current one.
TokensBehind ==
  \A i \in 1..Len(tokens) :
    /\ starts[i] \in Nat
    /\ Len(tokens[i].literal) \in Nat
    /\ EndOf(i) <= position_

LexInv ==
  /\ LexTypeOK
  /\ IsText(source_)
  /\ IsList(tokens)
  /\ ~lexed => position_ <= Len(source_) + 1
  /\ source_ # NoText \/ ~lexed =>
       IsList(starts) /\ TokensBehind /\ CoversText /\ LongestMatch

LEMMA LexInitially == LexInit /\ IsText(source_) => LexInv
<1>. SUFFICES ASSUME LexInit, IsText(source_) PROVE LexInv
  OBVIOUS
<1>1. position_ = 1 /\ tokens = <<>> /\ starts = <<>> /\ lexed = FALSE /\ Len(source_) \in Nat
  BY DEF LexInit, IsText
<1>2. IsList(<<>>) /\ Len(<<>>) = 0
  BY EmptySeq DEF IsList
<1>3. TokensBehind /\ CoversText /\ LongestMatch
  BY <1>1, <1>2 DEF TokensBehind, CoversText, LongestMatch
<1>4. LexTypeOK
  <2>1. lexed \in BOOLEAN /\ Len(starts) = Len(tokens)
    BY <1>1
  <2>2. position_ \in 1..Len(source_) + 2
    BY <1>1
  <2>. QED
    BY <2>1, <2>2 DEF LexTypeOK
<1>5. IsList(tokens) /\ IsList(starts)
  BY <1>1, <1>2
<1>6. position_ <= Len(source_) + 1
  BY <1>1
<1>. QED
  BY <1>3, <1>4, <1>5, <1>6 DEF LexInv

\* Any step that leaves the lexer alone keeps it.
LEMMA LexStutters == LexInv /\ UNCHANGED <<tokens, lexerVars>> => LexInv'
<1>. SUFFICES ASSUME LexInv, UNCHANGED <<tokens, lexerVars>> PROVE LexInv'
  OBVIOUS
<1>1. /\ tokens' = tokens /\ starts' = starts /\ source_' = source_
      /\ position_' = position_ /\ lexed' = lexed
  BY DEF lexerVars
<1>2. /\ \A i : EndOf(i)' = EndOf(i)
      /\ \A p : CharAt(p)' = CharAt(p)
  BY <1>1 DEF EndOf, CharAt
<1>3. TokensBehind' <=> TokensBehind
  BY <1>1, <1>2 DEF TokensBehind
<1>4. CoversText' <=> CoversText
  BY <1>1, <1>2 DEF CoversText
<1>5. LongestMatch' <=> LongestMatch
  BY <1>1, <1>2 DEF LongestMatch
<1>. QED
  BY <1>1, <1>3, <1>4, <1>5 DEF LexInv, LexTypeOK

\* One more token, from p up to q, where all blanks before it were skipped and
\* a run of its class ends at q.
LEMMA DeliverKeepsLexInv ==
  ASSUME LexInv, ~lexed, NEW type, NEW p \in position_..Len(source_), NEW q \in p + 1..Len(source_) + 1,
         \A r \in position_..p - 1 : CharAt(r) \in Blanks,
         \A class \in {Letters, Digits} : CharAt(p) \in class =>
           /\ \A r \in p..q - 1 : CharAt(r) \in class
           /\ CharAt(q) \notin class,
         Deliver(type, p, q)
  PROVE  LexInv'
<1>. DEFINE t == Token(type, SubSeq(source_, p, q - 1))
<1>1. /\ tokens' = Append(tokens, t) /\ starts' = Append(starts, p)
      /\ position_' = q /\ source_' = source_ /\ lexed' = lexed
  BY DEF Deliver
<1>2. /\ LexTypeOK /\ IsText(source_) /\ IsList(tokens) /\ IsList(starts)
      /\ TokensBehind /\ CoversText /\ LongestMatch
  BY DEF LexInv
<1>n. PICK n : n = Len(tokens)
  OBVIOUS
<1>3. /\ Len(source_) \in Nat /\ n \in Nat /\ Len(starts) = n
      /\ position_ \in Nat /\ position_ >= 1 /\ p \in Nat /\ q \in Nat
      /\ position_ <= p /\ p < q /\ p <= Len(source_) /\ q <= Len(source_) + 1
  BY <1>2, <1>n, ListFacts DEF LexTypeOK, IsText
<1>4. t.literal = SubSeq(source_, p, q - 1) /\ Len(t.literal) = q - p
  <2>1. p \in 1..Len(source_) /\ q - 1 \in p..Len(source_) /\ q - 1 - p + 1 = q - p
    BY <1>3
  <2>2. Len(SubSeq(source_, p, q - 1)) = q - 1 - p + 1
    BY <1>2, <2>1 DEF IsText
  <2>. QED
    BY <2>1, <2>2 DEF Token
<1>. HIDE DEF t
<1>5. /\ IsList(tokens') /\ IsList(starts')
      /\ Len(tokens') = n + 1 /\ Len(starts') = n + 1
      /\ tokens'[n + 1] = t /\ starts'[n + 1] = p
      /\ \A i \in 1..n : tokens'[i] = tokens[i] /\ starts'[i] = starts[i]
  BY <1>1, <1>2, <1>3, <1>n, ListFacts
<1>6. /\ \A i \in 1..n : EndOf(i)' = EndOf(i)
      /\ EndOf(n + 1)' = q
      /\ \A r : CharAt(r)' = CharAt(r)
  <2>1. \A i \in 1..n : EndOf(i)' = EndOf(i)
    BY <1>5 DEF EndOf
  <2>2. EndOf(n + 1)' = q
    <3>1. EndOf(n + 1)' = p + Len(t.literal)
      BY <1>5 DEF EndOf
    <3>2. p + (q - p) = q
      BY <1>3
    <3>. QED
      BY <3>1, <3>2, <1>4
  <2>3. \A r : CharAt(r)' = CharAt(r)
    BY <1>1 DEF CharAt
  <2>. QED
    BY <2>1, <2>2, <2>3
<1>7. \A i \in 1..n + 1 : i \in 1..n \/ i = n + 1
  BY <1>3
<1>8. \A i \in 1..n : starts[i] \in Nat /\ Len(tokens[i].literal) \in Nat /\ EndOf(i) <= position_
  BY <1>n, <1>2 DEF TokensBehind
<1>9. \A i \in 1..n : EndOf(i) \in Nat
  BY <1>8 DEF EndOf
<1>10. TokensBehind'
  <2>. SUFFICES ASSUME NEW i \in 1..n + 1
                PROVE  starts'[i] \in Nat /\ Len(tokens'[i].literal) \in Nat /\ EndOf(i)' <= q
    BY <1>1, <1>5 DEF TokensBehind
  <2>1. CASE i \in 1..n
    BY <2>1, <1>3, <1>5, <1>6, <1>8, <1>9
  <2>2. CASE i = n + 1
    BY <2>2, <1>3, <1>4, <1>5, <1>6
  <2>. QED
    BY <1>7, <2>1, <2>2
<1>11. CoversText'
  <2>1. ASSUME NEW i \in 1..n + 1
        PROVE  /\ tokens'[i].literal = SubSeq(source_, starts'[i], EndOf(i)' - 1)
               /\ starts'[i] < EndOf(i)'
               /\ i > 1 => EndOf(i - 1)' <= starts'[i]
    <3>1. CASE i \in 1..n
      <4>1. /\ tokens[i].literal = SubSeq(source_, starts[i], EndOf(i) - 1)
            /\ starts[i] < EndOf(i)
            /\ i > 1 => EndOf(i - 1) <= starts[i]
        BY <1>n, <1>2, <3>1 DEF CoversText
      <4>2. i > 1 => i - 1 \in 1..n
        BY <1>3, <3>1
      <4>. QED
        BY <3>1, <4>1, <4>2, <1>5, <1>6
    <3>2. CASE i = n + 1
      <4>1. i > 1 => i - 1 \in 1..n
        BY <1>3, <3>2
      <4>2. i > 1 => EndOf(i - 1)' <= p
        BY <4>1, <1>3, <1>6, <1>8, <1>9
      <4>. QED
        BY <3>2, <4>2, <1>3, <1>4, <1>5, <1>6
    <3>. QED
      BY <1>7, <3>1, <3>2
  <2>2. ASSUME NEW r \in 1..q - 1
        PROVE  \/ CharAt(r) \in Blanks \cup {Nul}
               \/ \E i \in 1..n + 1 : r \in starts'[i]..EndOf(i)' - 1
    <3>1. CASE r < position_
      <4>1. r \in 1..position_ - 1
        BY <1>3, <3>1
      <4>2. \/ CharAt(r) \in Blanks \cup {Nul}
            \/ \E i \in 1..n : r \in starts[i]..EndOf(i) - 1
        BY <1>n, <1>2, <4>1 DEF CoversText
      <4>3. ASSUME NEW i \in 1..n, r \in starts[i]..EndOf(i) - 1
            PROVE  i \in 1..n + 1 /\ r \in starts'[i]..EndOf(i)' - 1
        <5>1. i \in 1..n + 1
          BY <1>3
        <5>. QED
          BY <5>1, <4>3, <1>5, <1>6
      <4>. QED
        BY <4>2, <4>3
    <3>2. CASE position_ <= r /\ r < p
      BY <3>2, <1>3
    <3>3. CASE p <= r
      <4>1. r \in p..q - 1 /\ n + 1 \in 1..n + 1
        BY <1>3, <3>3
      <4>. QED
        BY <4>1, <1>5, <1>6
    <3>. QED
      BY <1>3, <3>1, <3>2, <3>3
  <2>. QED
    BY <1>1, <1>5, <1>6, <2>1, <2>2 DEF CoversText
<1>12. LongestMatch'
  <2>. SUFFICES ASSUME NEW i \in 1..n + 1, NEW class \in {Letters, Digits}, CharAt(starts'[i]) \in class
                PROVE  /\ \A r \in starts'[i]..EndOf(i)' - 1 : CharAt(r) \in class
                       /\ CharAt(EndOf(i)') \notin class
    BY <1>1, <1>5, <1>6 DEF LongestMatch
  <2>1. CASE i \in 1..n
    <3>1. starts'[i] = starts[i] /\ EndOf(i)' = EndOf(i)
      BY <1>5, <1>6, <2>1
    <3>. QED
      BY <1>n, <1>2, <2>1, <3>1 DEF LongestMatch
  <2>2. CASE i = n + 1
    BY <2>2, <1>5, <1>6
  <2>. QED
    BY <1>7, <2>1, <2>2
<1>13. LexTypeOK' /\ IsText(source_')
  BY <1>1, <1>2, <1>3, <1>5 DEF LexTypeOK
<1>. QED
  BY <1>1, <1>3, <1>5, <1>10, <1>11, <1>12, <1>13 DEF LexInv

\* Each branch of nextToken delivers such a token, or ends the text.
LEMMA LexStep == LexInv /\ Lex => LexInv'
<1>. SUFFICES ASSUME LexInv, Lex PROVE LexInv'
  OBVIOUS
<1>. DEFINE p == skipWhitespace
<1>1. /\ ~lexed /\ LexTypeOK /\ IsText(source_) /\ IsList(tokens) /\ IsList(starts)
      /\ TokensBehind /\ CoversText /\ LongestMatch
  BY DEF LexInv, Lex, ReadIdentifier, ReadNumber, ReadSymbol, ReadEnd
<1>2. /\ Len(source_) \in Nat /\ position_ \in 1..Len(source_) + 1
  <2>1. position_ \in 1..Len(source_) + 2 /\ position_ <= Len(source_) + 1 /\ Len(source_) \in Nat
    BY <1>1 DEF LexInv, LexTypeOK, IsText
  <2>. QED
    BY <2>1
<1>3. /\ p \in position_..Len(source_) + 1
      /\ \A r \in position_..p - 1 : CharAt(r) \in Blanks
  BY <1>2, SkipWhitespaceIs
<1>4. p \in 1..Len(source_) + 1
  BY <1>2, <1>3
<1>5. ASSUME NEW class \in {Letters, Digits}, CharAt(p) \in class,
             NEW type, Deliver(type, p, SkipFrom(p, class))
      PROVE  LexInv'
  <2>. DEFINE q == SkipFrom(p, class)
  <2>1. Nul \notin class /\ \A other \in {Letters, Digits} : CharAt(p) \in other => other = class
    BY <1>5, CharacterClasses
  <2>2. /\ q \in p..Len(source_) + 1 /\ CharAt(q) \notin class
        /\ \A r \in p..q - 1 : CharAt(r) \in class
    BY <1>2, <1>4, <2>1, SkipFromIs
  <2>. HIDE DEF p, q
  <2>3. p # q /\ CharAt(Len(source_) + 1) = Nul
    BY <1>2, <1>5, <2>2 DEF CharAt
  <2>4. p # Len(source_) + 1
    BY <1>5, <2>1, <2>3
  <2>5. p \in position_..Len(source_) /\ q \in p + 1..Len(source_) + 1
    BY <1>2, <1>3, <2>2, <2>3, <2>4
  <2>6. Deliver(type, p, q)
    BY <1>5 DEF q
  <2>. QED
    BY <1>1, <1>3, <2>1, <2>2, <2>5, <2>6, DeliverKeepsLexInv
<1>6. CASE ReadIdentifier
  BY <1>5, <1>6 DEF ReadIdentifier
<1>7. CASE ReadNumber
  BY <1>5, <1>7 DEF ReadNumber
<1>8. CASE ReadSymbol
  <2>1. /\ p <= Len(source_) /\ CharAt(p) \notin Letters \cup Digits
        /\ Deliver(SymbolType(CharAt(p)), p, p + 1)
    BY <1>8 DEF ReadSymbol
  <2>. HIDE DEF p
  <2>2. p \in position_..Len(source_) /\ p + 1 \in p + 1..Len(source_) + 1
    BY <1>2, <1>3, <2>1
  <2>. QED
    BY <1>1, <1>3, <2>1, <2>2, DeliverKeepsLexInv
<1>9. CASE ReadEnd
  <2>1. /\ p > Len(source_) /\ lexed' = TRUE /\ position_' = p + 1
        /\ source_' = source_ /\ tokens' = tokens /\ starts' = starts
    BY <1>9 DEF ReadEnd
  <2>2. PICK e : e = p
    OBVIOUS
  <2>3. /\ e = Len(source_) + 1 /\ position_' = e + 1
        /\ e \in position_..Len(source_) + 1
        /\ \A r \in position_..e - 1 : CharAt(r) \in Blanks
    BY <1>2, <1>3, <2>1, <2>2
  <2>. HIDE DEF p
  <2>4. /\ \A i : EndOf(i)' = EndOf(i)
        /\ \A r : CharAt(r)' = CharAt(r)
        /\ CharAt(e) = Nul
    BY <1>2, <2>1, <2>3 DEF EndOf, CharAt
  <2>5. TokensBehind'
    <3>1. \A i \in 1..Len(tokens) : EndOf(i) \in Nat
      BY <1>1 DEF TokensBehind, EndOf
    <3>2. \A k \in Nat : k <= position_ => k <= e + 1
      BY <1>2, <2>3
    <3>. QED
      BY <1>1, <2>1, <2>3, <2>4, <3>1, <3>2 DEF TokensBehind
  <2>6. CoversText'
    <3>1. ASSUME NEW r \in 1..e
          PROVE  \/ CharAt(r) \in Blanks \cup {Nul}
                 \/ \E i \in 1..Len(tokens) : r \in starts[i]..EndOf(i) - 1
      <4>1. CASE r \in 1..position_ - 1
        BY <1>1, <4>1 DEF CoversText
      <4>2. CASE r \in position_..e - 1
        BY <2>3, <4>2
      <4>3. CASE r = e
        BY <2>4, <4>3
      <4>. QED
        BY <1>2, <2>3, <4>1, <4>2, <4>3
    <3>2. e + 1 - 1 = e
      BY <1>2, <2>3
    <3>. QED
      BY <1>1, <2>1, <2>3, <2>4, <3>1, <3>2 DEF CoversText
  <2>7. LongestMatch'
    BY <1>1, <2>1, <2>4 DEF LongestMatch
  <2>8. LexTypeOK'
    <3>1. e + 1 \in 1..Len(source_) + 2
      BY <1>2, <2>3
    <3>. QED
      BY <1>1, <2>1, <2>3, <3>1 DEF LexTypeOK
  <2>. QED
    BY <1>1, <2>1, <2>5, <2>6, <2>7, <2>8 DEF LexInv
<1>. QED
  BY <1>6, <1>7, <1>8, <1>9 DEF Lex

\* Each token, and the end of the text, moves the cursor.
LEMMA LexAdvances == LexInv /\ Lex => position_' > position_
<1>. SUFFICES ASSUME LexInv, Lex PROVE position_' > position_
  OBVIOUS
<1>1. Len(source_) \in Nat /\ position_ \in 1..Len(source_) + 1
  <2>1. position_ \in 1..Len(source_) + 2 /\ position_ <= Len(source_) + 1 /\ Len(source_) \in Nat
    BY DEF LexInv, LexTypeOK, IsText, Lex, ReadIdentifier, ReadNumber, ReadSymbol, ReadEnd
  <2>. QED
    BY <2>1
<1>2. PICK p : p = skipWhitespace
  OBVIOUS
<1>3. p \in position_..Len(source_) + 1 /\ p \in 1..Len(source_) + 1
  BY <1>1, <1>2, SkipWhitespaceIs
<1>4. ASSUME NEW class \in {Letters, Digits}, CharAt(p) \in class, position_' = SkipFrom(p, class)
      PROVE  position_' > position_
  <2>1. Nul \notin class
    BY CharacterClasses
  <2>2. position_' \in p..Len(source_) + 1 /\ CharAt(position_') \notin class
    BY <1>1, <1>3, <1>4, <2>1, SkipFromIs
  <2>3. position_' # p
    BY <1>4, <2>2
  <2>. QED
    BY <1>1, <1>3, <2>2, <2>3
<1>5. CASE ReadIdentifier
  BY <1>2, <1>4, <1>5 DEF ReadIdentifier, Deliver
<1>6. CASE ReadNumber
  BY <1>2, <1>4, <1>6 DEF ReadNumber, Deliver
<1>7. CASE ReadSymbol \/ ReadEnd
  <2>1. position_' = p + 1
    BY <1>2, <1>7 DEF ReadSymbol, ReadEnd, Deliver
  <2>. QED
    BY <1>1, <1>3, <2>1
<1>. QED
  BY <1>5, <1>6, <1>7 DEF Lex

-----------------------------------------------------------------------------
(* The tokens stay what they are while they are parsed. *)

Parse ==
  \/ ParseStatement \/ ParseEnd
  \/ ParseColumn \/ ParseFrom \/ ParseJoin \/ ParseWhere \/ ParseGroupBy
  \/ FinishStatement

ParserLexInv ==
  /\ LexInv
  /\ ~lexed => clause = "statement" /\ position = 1 /\ statements = <<>>

LEMMA ParserLexInitially == Init => ParserLexInv
<1>. SUFFICES ASSUME Init PROVE ParserLexInv
  OBVIOUS
<1>1. clause = "statement" /\ position = 1 /\ statements = <<>>
  BY DEF Init
<1>2. CASE LexInit
  <2>1. IsText(source_)
    BY <1>2, ParserAssumption DEF Init, WrittenTexts, LexInit
  <2>. QED
    BY <1>1, <1>2, <2>1, LexInitially DEF ParserLexInv
<1>3. CASE ~LexInit
  <2>1. source_ = NoText /\ tokens \in Sources /\ position_ = 1 /\ starts = tokens /\ lexed = TRUE
    BY <1>3 DEF Init
  <2>2. IsText(source_) /\ Len(source_) = 0 /\ IsList(tokens)
    BY <2>1, ParserAssumption DEF IsList
  <2>3. LexTypeOK
    <3>1. lexed \in BOOLEAN /\ Len(starts) = Len(tokens)
      BY <2>1
    <3>2. position_ \in 1..Len(source_) + 2
      BY <2>1, <2>2
    <3>. QED
      BY <3>1, <3>2 DEF LexTypeOK
  <2>. QED
    BY <1>1, <2>1, <2>2, <2>3 DEF ParserLexInv, LexInv
<1>. QED
  BY <1>2, <1>3

\* A clause changes no token.
LEMMA ParseKeepsTokens ==
  ASSUME ParserLexInv, Parse
  PROVE  lexed /\ UNCHANGED input
BY DEF ParserLexInv, Parse, ParseStatement, ParseEnd, ParseColumn, ParseFrom, ParseJoin,
       ParseWhere, ParseGroupBy, FinishStatement

LEMMA ParserLexStep == ParserLexInv /\ [Next]_vars => ParserLexInv'
<1>. SUFFICES ASSUME ParserLexInv, [Next]_vars PROVE ParserLexInv'
  OBVIOUS
<1>1. CASE ReadToken
  <2>1. Lex /\ ~lexed /\ UNCHANGED <<position, clause, statements>>
    BY <1>1 DEF ReadToken, Lex, ReadIdentifier, ReadNumber, ReadSymbol, ReadEnd
  <2>2. LexInv'
    BY <2>1, LexStep DEF ParserLexInv
  <2>. QED
    BY <2>1, <2>2 DEF ParserLexInv
<1>2. CASE Parse
  <2>1. lexed /\ UNCHANGED input
    BY <1>2, ParseKeepsTokens
  <2>2. UNCHANGED <<tokens, lexerVars>> /\ lexed' = lexed
    BY <2>1 DEF input, lexerVars
  <2>. QED
    BY <2>1, <2>2, LexStutters DEF ParserLexInv
<1>3. CASE UNCHANGED vars
  <2>1. UNCHANGED <<tokens, lexerVars>> /\ UNCHANGED <<lexed, position, clause, statements>>
    BY <1>3 DEF vars, input, lexerVars
  <2>. QED
    BY <2>1, LexStutters DEF ParserLexInv
<1>. QED
  BY <1>1, <1>2, <1>3 DEF Next, Parse

\* Lexer::nextToken neither drops nor repeats a character of any text, and
\* stops no word and no number early or late.
THEOREM LexemesCorrect == Spec => []LexemesExact
<1>1. ParserLexInv => LexemesExact
  BY DEF ParserLexInv, LexInv, LexemesExact
<1>. QED
  BY <1>1, ParserLexInitially, ParserLexStep, PTL DEF Spec

-----------------------------------------------------------------------------
(* Where each clause leaves the cursor. *)

PositionInv ==
  /\ position \in Nat /\ position >= 1
  /\ clause \in Clauses
  /\ position <= Len(tokens) + 5
  /\ clause = "columns" => position <= Len(tokens) + 1
  /\ clause \in {"joins", "group", "finish"} => position <= Len(tokens) + 4

\* Beyond the tokens there is only END_OF_FILE.
LEMMA TokenWithin ==
  ASSUME Len(tokens) \in Nat, NEW i \in Nat, i >= 1, NEW type, Is(i, type), type # "END_OF_FILE"
  PROVE  i <= Len(tokens)
<1>. SUFFICES ASSUME i > Len(tokens) PROVE FALSE
  OBVIOUS
<1>1. TokenAt(i).type = "END_OF_FILE"
  BY DEF TokenAt, Token
<1>. QED
  BY <1>1 DEF Is

LEMMA NotAtEnd ==
  ASSUME Len(tokens) \in Nat, NEW i \in Nat, i >= 1, ~Is(i, "END_OF_FILE")
  PROVE  i <= Len(tokens)
<1>. SUFFICES ASSUME i > Len(tokens) PROVE FALSE
  OBVIOUS
<1>. QED
  BY DEF Is, TokenAt, Token

\* A column or a call ends at most one token past the last.
LEMMA ColumnWithin ==
  ASSUME Len(tokens) \in Nat, NEW i \in 1..Len(tokens)
  PROVE  AfterColumn(i) \in i + 1..Len(tokens) + 1
<1>1. CASE ~IsCall(i)
  BY <1>1 DEF AfterColumn
<1>2. CASE IsCall(i)
  <2>1. i + 1 <= Len(tokens)
    BY <1>2, TokenWithin DEF IsCall
  <2>2. HasArg(i) => i + 2 <= Len(tokens)
    BY TokenWithin DEF HasArg
  <2>3. AfterArg(i) \in i + 1..Len(tokens) + 1
    BY <2>1, <2>2 DEF AfterArg
  <2>4. Is(AfterArg(i), "RPAREN") => AfterArg(i) <= Len(tokens)
    BY <2>3, TokenWithin
  <2>. QED
    BY <1>2, <2>3, <2>4 DEF AfterColumn
<1>. QED
  BY <1>1, <1>2

\* A join's condition starts at most one token past the last.
LEMMA ConditionWithin ==
  ASSUME Len(tokens) \in Nat, NEW i \in 1..Len(tokens)
  PROVE  ConditionAt(i) \in i + 1..Len(tokens) + 1
<1>1. Is(i + 1, "IDENTIFIER") => i + 1 <= Len(tokens)
  BY TokenWithin
<1>2. OnAt(i) \in i + 1..Len(tokens) + 1
  BY <1>1 DEF OnAt
<1>3. Is(OnAt(i), "ON") => OnAt(i) <= Len(tokens)
  BY <1>2, TokenWithin
<1>. QED
  BY <1>2, <1>3 DEF ConditionAt

\* The query ends at or after any token from which it is looked for.
LEMMA QueryEndWithin ==
  ASSUME Len(tokens) \in Nat, NEW i \in Nat
  PROVE  /\ QueryEnd(i) \in Nat /\ QueryEnd(i) >= i
         /\ QueryEnd(i) <= i \/ QueryEnd(i) <= Len(tokens) + 1
<1>. DEFINE len == Len(tokens) + 1
            S == {j \in i..Len(tokens) : Is(j, "SEMICOLON")}
<1>1. Max({i, len}) \in {i, len} /\ Max({i, len}) >= i /\ Max({i, len}) >= len
  <2>1. \E x \in {i, len} : \A y \in {i, len} : x >= y
    BY i <= len \/ len <= i
  <2>. QED
    BY <2>1 DEF Max
<1>2. PICK last \in Nat : last = Max({i, len})
  BY <1>1
<1>3. \E x \in S \cup {last} : \A y \in S \cup {last} : x <= y
  <2>1. S \cup {last} \in SUBSET Nat /\ S \cup {last} # {}
    OBVIOUS
  <2>. QED
    BY <2>1, LeastNumber
<1>4. Min(S \cup {last}) \in S \cup {last} /\ \A y \in S \cup {last} : Min(S \cup {last}) <= y
  BY <1>3 DEF Min
<1>5. QueryEnd(i) = Min(S \cup {last})
  BY <1>2 DEF QueryEnd
<1>6. \A x \in S \cup {last} : x \in Nat /\ x >= i /\ (x <= i \/ x <= len)
  BY <1>1, <1>2
<1>. QED
  BY <1>4, <1>5, <1>6

LEMMA PositionStep ==
  ASSUME ParserLexInv, PositionInv, Parse
  PROVE  PositionInv'
<1>. DEFINE len == Len(tokens)
<1>1. len \in Nat /\ tokens' = tokens
  BY ParseKeepsTokens, ListFacts DEF ParserLexInv, LexInv, input
<1>2. /\ position \in Nat /\ position >= 1 /\ position <= len + 5
      /\ clause = "columns" => position <= len + 1
      /\ clause \in {"joins", "group", "finish"} => position <= len + 4
  BY DEF PositionInv
<1>3. ASSUME position' \in Nat, position' >= 1, clause' \in Clauses, position' <= len + 5,
             clause' = "columns" => position' <= len + 1,
             clause' \in {"joins", "group", "finish"} => position' <= len + 4
      PROVE  PositionInv'
  BY <1>1, <1>3 DEF PositionInv
<1>4. \A i \in Nat : \A type : i >= 1 /\ type # "END_OF_FILE" /\ Is(i, type) => i <= len
  BY <1>1, TokenWithin
<1>5. ~Is(position, "END_OF_FILE") => position \in 1..len
  BY <1>1, <1>2, NotAtEnd
<1>6. CASE ParseStatement
  <2>1. \/ Is(position, "SELECT") /\ clause' = "columns" /\ position' = position + 1
        \/ Is(position + 1, "SELECT") /\ clause' = "columns" /\ position' = position + 2
        \/ clause' = "statement" /\ position' = position + 2
        \/ clause' = "statement" /\ position' = position + 1
    BY <1>6 DEF ParseStatement
  <2>2. position \in 1..len
    BY <1>5, <1>6 DEF ParseStatement
  <2>3. clause' = "columns" => position' <= len + 1
    BY <1>1, <1>4, <2>1, <2>2
  <2>4. position' \in Nat /\ position' >= 1 /\ position' <= len + 5
    BY <1>1, <2>1, <2>2
  <2>. QED
    BY <1>3, <2>1, <2>3, <2>4 DEF Clauses
<1>7. CASE ParseEnd
  BY <1>2, <1>3, <1>7 DEF ParseEnd, Clauses
<1>8. CASE ParseColumn
  <2>1. position \in 1..len /\ clause = "columns" /\ clause' = clause
    BY <1>5, <1>8 DEF ParseColumn
  <2>2. position' = AfterColumn(position) \/ position' = position + 1
    BY <1>8 DEF ParseColumn
  <2>3. AfterColumn(position) \in position + 1..len + 1
    BY <1>1, <2>1, ColumnWithin
  <2>4. position' \in Nat /\ position' >= 1 /\ position' <= len + 1
    BY <1>1, <2>1, <2>2, <2>3
  <2>. QED
    BY <1>1, <1>3, <2>1, <2>4 DEF Clauses
<1>9. CASE ParseFrom
  <2>1. clause' = "joins" /\ position <= len + 1
    BY <1>2, <1>9 DEF ParseFrom
  <2>2. position' = position + 1 \/ position' = position + 2
    BY <1>9 DEF ParseFrom
  <2>3. position' \in Nat /\ position' >= 1 /\ position' <= len + 4
    BY <1>1, <1>2, <2>1, <2>2
  <2>. QED
    BY <1>1, <1>3, <2>1, <2>3 DEF Clauses
<1>10. CASE ParseJoin
  <2>1. position \in 1..len /\ clause' = "joins" /\ position' = ConditionAt(position) + 3
    BY <1>1, <1>2, <1>4, <1>10 DEF ParseJoin
  <2>2. ConditionAt(position) \in position + 1..len + 1
    BY <1>1, <2>1, ConditionWithin
  <2>3. position' \in Nat /\ position' >= 1 /\ position' <= len + 4
    BY <1>1, <2>1, <2>2
  <2>. QED
    BY <1>1, <1>3, <2>1, <2>3 DEF Clauses
<1>11. CASE ParseWhere
  <2>1. clause = "joins" /\ clause' = "group"
    BY <1>11 DEF ParseWhere
  <2>2. \/ Is(position, "WHERE") /\ position' = position + 3
        \/ position' = position
    BY <1>11 DEF ParseWhere
  <2>3. position' \in Nat /\ position' >= 1 /\ position' <= len + 4
    BY <1>1, <1>2, <1>4, <2>1, <2>2
  <2>. QED
    BY <1>1, <1>3, <2>1, <2>3 DEF Clauses
<1>12. CASE ParseGroupBy
  <2>1. clause = "group" /\ clause' = "finish"
    BY <1>12 DEF ParseGroupBy
  <2>2. \/ Is(position + 1, "BY") /\ position' = QueryEnd(position + 2)
        \/ Is(position, "GROUP") /\ position' = position + 1
        \/ position' = position + 0
    BY <1>12 DEF ParseGroupBy
  <2>3. position' \in Nat /\ position' >= 1 /\ position' <= len + 4
    <3>1. CASE Is(position + 1, "BY") /\ position' = QueryEnd(position + 2)
      <4>1. position + 1 <= len
        BY <1>2, <1>4, <3>1
      <4>2. PICK end : end = QueryEnd(position + 2)
        OBVIOUS
      <4>3. end \in Nat /\ end >= position + 2 /\ (end <= position + 2 \/ end <= len + 1)
        BY <1>1, <1>2, <4>2, QueryEndWithin
      <4>. QED
        BY <1>1, <1>2, <3>1, <4>1, <4>2, <4>3
    <3>2. CASE Is(position, "GROUP") /\ position' = position + 1
      BY <1>1, <1>2, <1>4, <3>2
    <3>3. CASE position' = position + 0
      BY <1>1, <1>2, <2>1, <3>3
    <3>. QED
      BY <2>2, <3>1, <3>2, <3>3
  <2>. QED
    BY <1>1, <1>3, <2>1, <2>3 DEF Clauses
<1>13. CASE FinishStatement
  <2>1. clause = "finish" /\ clause' = "statement"
    BY <1>13 DEF FinishStatement
  <2>2. \/ Is(position + 1, "SEMICOLON") /\ position' = position + 2
        \/ position' = position + 1
    BY <1>13 DEF FinishStatement
  <2>3. position' \in Nat /\ position' >= 1 /\ position' <= len + 5
    BY <1>1, <1>2, <1>4, <2>1, <2>2
  <2>. QED
    BY <1>1, <1>3, <2>1, <2>3 DEF Clauses
<1>. QED
  BY <1>6, <1>7, <1>8, <1>9, <1>10, <1>11, <1>12, <1>13 DEF Parse

-----------------------------------------------------------------------------
(* Each statement has a SELECT of its own. *)

Selects(p) == {i \in 1..p - 1 : Is(i, "SELECT")}

\* The statement being built has its SELECT behind the cursor as well.
Begun == IF clause \in {"statement", "done"} THEN Len(statements) ELSE Len(statements) + 1

SelectsInv ==
  /\ IsList(statements)
  /\ Begun <= Cardinality(Selects(position))

LEMMA SelectsGrow ==
  ASSUME NEW p \in Nat, NEW q \in Nat, p <= q
  PROVE  /\ Cardinality(Selects(p)) \in Nat /\ Cardinality(Selects(q)) \in Nat
         /\ Cardinality(Selects(p)) <= Cardinality(Selects(q))
         /\ \A i \in p..q - 1 : i >= 1 /\ Is(i, "SELECT") =>
              Cardinality(Selects(p)) + 1 <= Cardinality(Selects(q))
<1>1. IsFiniteSet(1..q - 1) /\ Selects(q) \in SUBSET (1..q - 1)
  BY FS_Interval DEF Selects
<1>2. IsFiniteSet(Selects(q)) /\ Selects(p) \in SUBSET Selects(q)
  <2>1. IsFiniteSet(Selects(q))
    BY <1>1, FS_Subset
  <2>2. Selects(p) \in SUBSET Selects(q)
    BY DEF Selects
  <2>. QED
    BY <2>1, <2>2
<1>3. IsFiniteSet(Selects(p)) /\ Cardinality(Selects(p)) <= Cardinality(Selects(q))
  BY <1>2, FS_Subset
<1>4. Cardinality(Selects(p)) \in Nat /\ Cardinality(Selects(q)) \in Nat
  BY <1>2, <1>3, FS_CardinalityType
<1>5. ASSUME NEW i \in p..q - 1, i >= 1, Is(i, "SELECT")
      PROVE  Cardinality(Selects(p)) + 1 <= Cardinality(Selects(q))
  <2>1. i \notin Selects(p) /\ (Selects(p) \cup {i}) \in SUBSET Selects(q)
    BY <1>2, <1>5 DEF Selects
  <2>2. Cardinality(Selects(p) \cup {i}) = Cardinality(Selects(p)) + 1
    BY <1>3, <2>1, FS_AddElement
  <2>3. Cardinality(Selects(p) \cup {i}) <= Cardinality(Selects(q))
    BY <1>2, <2>1, FS_Subset
  <2>. QED
    BY <2>2, <2>3
<1>. QED
  BY <1>3, <1>4, <1>5

\* No clause moves the cursor back.
LEMMA CursorAdvances ==
  ASSUME ParserLexInv, PositionInv, Parse
  PROVE  position' >= position
<1>. DEFINE len == Len(tokens)
<1>1. len \in Nat /\ position \in Nat /\ position >= 1
  BY ListFacts DEF ParserLexInv, LexInv, PositionInv
<1>2. CASE ParseStatement \/ ParseEnd \/ ParseFrom \/ ParseWhere \/ FinishStatement
  BY <1>1, <1>2 DEF ParseStatement, ParseEnd, ParseFrom, ParseWhere, FinishStatement
<1>3. CASE ParseColumn
  <2>1. position \in 1..len
    BY <1>1, <1>3, NotAtEnd DEF ParseColumn
  <2>2. AfterColumn(position) \in position + 1..len + 1
    BY <1>1, <2>1, ColumnWithin
  <2>. QED
    BY <1>1, <1>3, <2>2 DEF ParseColumn
<1>4. CASE ParseJoin
  <2>1. position \in 1..len
    BY <1>1, <1>4, TokenWithin DEF ParseJoin
  <2>2. ConditionAt(position) \in position + 1..len + 1
    BY <1>1, <2>1, ConditionWithin
  <2>. QED
    BY <1>1, <1>4, <2>2 DEF ParseJoin
<1>5. CASE ParseGroupBy
  <2>1. QueryEnd(position + 2) \in Nat /\ QueryEnd(position + 2) >= position + 2
    BY <1>1, QueryEndWithin
  <2>. QED
    BY <1>1, <1>5, <2>1 DEF ParseGroupBy
<1>. QED
  BY <1>2, <1>3, <1>4, <1>5 DEF Parse

LEMMA SelectsStep ==
  ASSUME ParserLexInv, PositionInv, SelectsInv, Parse
  PROVE  SelectsInv'
<1>. DEFINE before == Cardinality(Selects(position))
<1>1. /\ Len(statements) \in Nat /\ IsList(statements) /\ Begun <= before
      /\ position \in Nat /\ position' \in Nat /\ position' >= position /\ position >= 1
      /\ clause \in Clauses
  BY ListFacts, CursorAdvances, PositionStep DEF SelectsInv, PositionInv
<1>2. PICK next, after : next = position' /\ after = Cardinality(Selects(next))
  OBVIOUS
<1>3. Cardinality(Selects(position))' = after
  BY <1>2, ParseKeepsTokens DEF input, Selects, Is, TokenAt
<1>4. /\ before \in Nat /\ after \in Nat /\ before <= after
      /\ \A i \in position..next - 1 : Is(i, "SELECT") => before + 1 <= after
  <2>1. position \in Nat /\ next \in Nat /\ position <= next /\ position >= 1
    BY <1>1, <1>2
  <2>2. /\ before \in Nat /\ after \in Nat /\ before <= after
        /\ \A i \in position..next - 1 : i >= 1 /\ Is(i, "SELECT") => before + 1 <= after
    BY <1>2, <2>1, SelectsGrow
  <2>3. \A i \in position..next - 1 : i >= 1
    BY <2>1
  <2>. QED
    BY <2>2, <2>3
<1>. HIDE DEF before
<1>5. ASSUME IsList(statements'), Begun' <= after PROVE SelectsInv'
  BY <1>3, <1>5 DEF SelectsInv
<1>6. CASE ParseStatement
  <2>1. /\ Begun = Len(statements) /\ statements' = statements
        /\ clause' = "columns" => Begun' = Len(statements) + 1
        /\ clause' = "statement" => Begun' = Len(statements)
    BY <1>6 DEF ParseStatement, Begun
  <2>2. CASE clause' = "columns"
    <3>1. \/ Is(position, "SELECT") /\ position' = position + 1
          \/ Is(position + 1, "SELECT") /\ position' = position + 2
      BY <1>6, <2>2 DEF ParseStatement
    <3>2. /\ next = position + 1 => position \in position..next - 1
          /\ next = position + 2 => position + 1 \in position..next - 1
      BY <1>1
    <3>3. before + 1 <= after
      BY <1>2, <1>4, <3>1, <3>2
    <3>. QED
      BY <1>1, <1>4, <1>5, <2>1, <2>2, <3>3
  <2>3. CASE clause' = "statement"
    BY <1>1, <1>4, <1>5, <2>1, <2>3
  <2>. QED
    BY <1>6, <2>2, <2>3 DEF ParseStatement
<1>7. CASE ParseEnd
  <2>1. Begun' = Begun /\ statements' = statements
    BY <1>7 DEF ParseEnd, Begun
  <2>2. Begun \in Nat
    BY <1>1 DEF Begun
  <2>. QED
    BY <1>1, <1>4, <1>5, <2>1, <2>2
<1>8. CASE ParseColumn \/ ParseFrom \/ ParseJoin \/ ParseWhere \/ ParseGroupBy
  <2>1. Begun' = Begun /\ statements' = statements
    BY <1>8 DEF ParseColumn, ParseFrom, ParseJoin, ParseWhere, ParseGroupBy, Begun
  <2>2. Begun \in Nat
    BY <1>1 DEF Begun
  <2>. QED
    BY <1>1, <1>4, <1>5, <2>1, <2>2
<1>9. CASE FinishStatement
  <2>1. Begun = Len(statements) + 1 /\ statements' = Append(statements, stmt)
    BY <1>9 DEF FinishStatement, Begun
  <2>2. Begun' = Len(statements')
    BY <1>9 DEF FinishStatement, Begun
  <2>3. IsList(statements') /\ Len(statements') = Len(statements) + 1
    BY <1>1, <2>1, ListFacts
  <2>. QED
    BY <1>1, <1>4, <1>5, <2>1, <2>2, <2>3
<1>. QED
  BY <1>6, <1>7, <1>8, <1>9 DEF Parse

-----------------------------------------------------------------------------
ParserInv == ParserLexInv /\ PositionInv /\ SelectsInv

LEMMA ParserInitially == Init => ParserInv
<1>. SUFFICES ASSUME Init PROVE ParserInv
  OBVIOUS
<1>1. ParserLexInv /\ position = 1 /\ clause = "statement" /\ statements = <<>>
  BY ParserLexInitially DEF Init
<1>2. Len(tokens) \in Nat
  BY <1>1, ListFacts DEF ParserLexInv, LexInv
<1>3. PositionInv
  <2>1. clause \in Clauses /\ clause \notin {"columns", "joins", "group", "finish"}
    BY <1>1 DEF Clauses
  <2>2. position \in Nat /\ position >= 1 /\ position <= Len(tokens) + 5
    BY <1>1, <1>2
  <2>. QED
    BY <2>1, <2>2 DEF PositionInv
<1>4. SelectsInv
  <2>1. IsList(statements) /\ Len(statements) = 0
    BY <1>1, EmptySeq DEF IsList
  <2>2. Begun = 0
    BY <1>1, <2>1 DEF Begun
  <2>3. Cardinality(Selects(1)) \in Nat
    BY SelectsGrow
  <2>. QED
    BY <1>1, <2>1, <2>2, <2>3 DEF SelectsInv
<1>. QED
  BY <1>1, <1>3, <1>4 DEF ParserInv

LEMMA ParserStep == ParserInv /\ [Next]_vars => ParserInv'
<1>. SUFFICES ASSUME ParserInv, [Next]_vars PROVE ParserInv'
  OBVIOUS
<1>1. ParserLexInv /\ PositionInv /\ SelectsInv /\ ParserLexInv'
  BY ParserLexStep DEF ParserInv
<1>2. CASE ReadToken
  <2>1. /\ UNCHANGED <<position, clause, statements>>
        /\ clause = "statement" /\ position = 1 /\ statements = <<>>
    BY <1>1, <1>2 DEF ReadToken, Lex, ReadIdentifier, ReadNumber, ReadSymbol, ReadEnd, ParserLexInv
  <2>2. Len(tokens') \in Nat
    BY <1>1, ListFacts DEF ParserLexInv, LexInv
  <2>3. PositionInv'
    <3>1. clause' \in Clauses /\ clause' \notin {"columns", "joins", "group", "finish"}
      BY <2>1 DEF Clauses
    <3>2. position' \in Nat /\ position' >= 1 /\ position' <= Len(tokens') + 5
      BY <2>1, <2>2
    <3>. QED
      BY <3>1, <3>2 DEF PositionInv
  <2>4. SelectsInv'
    <3>1. IsList(statements') /\ Len(statements') = 0
      BY <2>1, EmptySeq DEF IsList
    <3>2. Begun' = 0
      BY <2>1, <3>1 DEF Begun
    <3>3. Selects(1)' = {}
      BY DEF Selects
    <3>4. Selects(position)' = {}
      BY <2>1, <3>3 DEF Selects
    <3>. QED
      BY <3>1, <3>2, <3>4, FS_EmptySet DEF SelectsInv
  <2>. QED
    BY <1>1, <2>3, <2>4 DEF ParserInv
<1>3. CASE Parse
  BY <1>1, <1>3, PositionStep, SelectsStep DEF ParserInv
<1>4. CASE UNCHANGED vars
  <2>1. UNCHANGED <<tokens, position, clause, statements>>
    BY <1>4 DEF vars, input
  <2>. QED
    BY <1>1, <2>1 DEF ParserInv, PositionInv, SelectsInv, Begun, Selects, Is, TokenAt
<1>. QED
  BY <1>2, <1>3, <1>4 DEF Next, Parse

\* parse() never looks more than a few tokens past the end, whatever the tokens
\* are, and makes no two statements of one SELECT.
THEOREM ParserTypeCorrect == Spec => []TypeOK
<1>1. ParserInv => TypeOK
  <2>. SUFFICES ASSUME ParserInv PROVE TypeOK
    OBVIOUS
  <2>1. LexTypeOK /\ Len(tokens) \in Nat /\ Len(statements) \in Nat
    BY ListFacts DEF ParserInv, ParserLexInv, LexInv, SelectsInv
  <2>2. clause \in Clauses /\ position \in 1..Len(tokens) + 5
    <3>1. position \in Nat /\ position >= 1 /\ position <= Len(tokens) + 5 /\ clause \in Clauses
      BY DEF ParserInv, PositionInv
    <3>. QED
      BY <2>1, <3>1
  <2>3. Len(statements) <= Cardinality({i \in 1..Len(tokens) : Is(i, "SELECT")})
    <3>. DEFINE S == {i \in 1..Len(tokens) : Is(i, "SELECT")}
    <3>1. Selects(position) \in SUBSET S
      BY <2>1, <2>2, TokenWithin DEF Selects
    <3>2. IsFiniteSet(1..Len(tokens)) /\ S \in SUBSET (1..Len(tokens))
      BY <2>1, FS_Interval
    <3>3. IsFiniteSet(S)
      BY <3>2, FS_Subset
    <3>. HIDE DEF S
    <3>4. Cardinality(Selects(position)) <= Cardinality(S)
      BY <3>1, <3>3, FS_Subset
    <3>5. Cardinality(S) \in Nat /\ Cardinality(Selects(position)) \in Nat
      BY <3>1, <3>3, FS_Subset, FS_CardinalityType
    <3>6. Begun \in {Len(statements), Len(statements) + 1} /\ Begun <= Cardinality(Selects(position))
      BY DEF ParserInv, SelectsInv, Begun
    <3>7. Len(statements) <= Cardinality(S)
      BY <2>1, <3>4, <3>5, <3>6
    <3>. QED
      BY <3>7 DEF S
  <2>. QED
    BY <2>1, <2>2, <2>3 DEF TypeOK
<1>. QED
  BY <1>1, ParserInitially, ParserStep, PTL DEF Spec

-----------------------------------------------------------------------------
(* No loop goes round in place. *)

\* A clause moves the cursor, or passes on to a later clause.
LEMMA ClauseProgress ==
  ASSUME ParserLexInv, PositionInv, Parse
  PROVE  \/ position' >= position + 1
         \/ position' >= position /\ ClauseNumber[clause'] >= ClauseNumber[clause] + 1
<1>. DEFINE len == Len(tokens)
<1>1. len \in Nat /\ position \in Nat /\ position >= 1
  BY ListFacts DEF ParserLexInv, LexInv, PositionInv
<1>2. /\ ClauseNumber["statement"] = 0 /\ ClauseNumber["joins"] = 2
      /\ ClauseNumber["group"] = 3 /\ ClauseNumber["finish"] = 4 /\ ClauseNumber["done"] = 5
  BY DEF ClauseNumber
<1>3. CASE ParseStatement \/ ParseFrom \/ FinishStatement
  <2>1. position' \in {position + 1, position + 2}
    BY <1>3 DEF ParseStatement, ParseFrom, FinishStatement
  <2>. QED
    BY <1>1, <2>1
<1>4. CASE ParseEnd
  <2>1. position' = position /\ clause = "statement" /\ clause' = "done"
    BY <1>4 DEF ParseEnd
  <2>. QED
    BY <1>1, <1>2, <2>1
<1>5. CASE ParseColumn
  <2>1. position \in 1..len
    BY <1>1, <1>5, NotAtEnd DEF ParseColumn
  <2>2. AfterColumn(position) \in position + 1..len + 1
    BY <1>1, <2>1, ColumnWithin
  <2>. QED
    BY <1>1, <1>5, <2>2 DEF ParseColumn
<1>6. CASE ParseJoin
  <2>1. position \in 1..len
    BY <1>1, <1>6, TokenWithin DEF ParseJoin
  <2>2. ConditionAt(position) \in position + 1..len + 1
    BY <1>1, <2>1, ConditionWithin
  <2>. QED
    BY <1>1, <1>6, <2>2 DEF ParseJoin
<1>7. CASE ParseWhere
  <2>1. position' \in {position, position + 3} /\ clause = "joins" /\ clause' = "group"
    BY <1>7 DEF ParseWhere
  <2>. QED
    BY <1>1, <1>2, <2>1
<1>8. CASE ParseGroupBy
  <2>1. position' >= position
    BY <1>8, CursorAdvances DEF Parse
  <2>2. clause = "group" /\ clause' = "finish"
    BY <1>8 DEF ParseGroupBy
  <2>. QED
    BY <1>2, <2>1, <2>2
<1>. QED
  BY <1>3, <1>4, <1>5, <1>6, <1>7, <1>8 DEF Parse

\* On every text and every list of tokens, each step of nextToken and each clause
\* leaves less to do than there was: no loop of parse() is endless.
THEOREM ParserNearsTheEnd == Spec => NearsTheEnd
<1>1. ASSUME ParserInv, Next
      PROVE  IF lexed THEN ClausesLeft' < ClausesLeft /\ ClausesLeft' >= 0
                      ELSE CharsLeft' < CharsLeft /\ CharsLeft' >= 0
  <2>1. ParserInv'
    BY <1>1, ParserStep
  <2>2. CASE ReadToken
    <3>1. ~lexed /\ Lex /\ source_' = source_
      BY <2>2 DEF ReadToken, Lex, ReadIdentifier, ReadNumber, ReadSymbol, ReadEnd, Deliver
    <3>2. position_' > position_
      BY <1>1, <3>1, LexAdvances DEF ParserInv, ParserLexInv
    <3>3. Len(source_) \in Nat
      BY <1>1 DEF ParserInv, ParserLexInv, LexInv, IsText
    <3>4. position_ \in 1..Len(source_) + 2 /\ position_' \in 1..Len(source_) + 2
      BY <1>1, <2>1, <3>1 DEF ParserInv, ParserLexInv, LexInv, LexTypeOK
    <3>. QED
      BY <3>1, <3>2, <3>3, <3>4 DEF CharsLeft
  <2>3. CASE Parse
    <3>1. lexed /\ tokens' = tokens
      <4>1. lexed /\ UNCHANGED input
        BY <1>1, <2>3, ParseKeepsTokens DEF ParserInv
      <4>. QED
        BY <4>1 DEF input
    <3>2. PICK len \in Nat : len = Len(tokens)
      BY <1>1, ListFacts DEF ParserInv, ParserLexInv, LexInv
    <3>3. PICK p, q, m, n : /\ p = position /\ q = position'
                            /\ m = ClauseNumber[clause] /\ n = ClauseNumber[clause']
      OBVIOUS
    <3>4. /\ p \in Nat /\ q \in Nat /\ q <= len + 5
          /\ clause \in Clauses /\ clause' \in Clauses
      BY <1>1, <2>1, <3>1, <3>2, <3>3 DEF ParserInv, PositionInv
    <3>5. m \in 0..5 /\ n \in 0..5
      BY <3>3, <3>4 DEF Clauses, ClauseNumber
    <3>6. q >= p + 1 \/ (q >= p /\ n >= m + 1)
      BY <1>1, <2>3, <3>3, ClauseProgress DEF ParserInv
    <3>7. /\ ClausesLeft = 6 * (len + 5 - p) + 5 - m
          /\ ClausesLeft' = 6 * (len + 5 - q) + 5 - n
      BY <3>1, <3>2, <3>3 DEF ClausesLeft, ClauseNumber
    <3>8. /\ 6 * (len + 5 - q) + 5 - n < 6 * (len + 5 - p) + 5 - m
          /\ 6 * (len + 5 - q) + 5 - n >= 0
      BY <3>4, <3>5, <3>6
    <3>. QED
      BY <3>1, <3>7, <3>8
  <2>. QED
    BY <1>1, <2>2, <2>3 DEF Next, Parse
<1>2. ASSUME ParserInv, [Next]_vars
      PROVE  [IF lexed THEN ClausesLeft' < ClausesLeft /\ ClausesLeft' >= 0
                       ELSE CharsLeft' < CharsLeft /\ CharsLeft' >= 0]_vars
  BY <1>1, <1>2
<1>. QED
  BY <1>2, ParserInitially, ParserStep, PTL DEF Spec, NearsTheEnd

-----------------------------------------------------------------------------
(* The literals of a source in the order of their tokens. *)

Literal == Nat \cup {EmptyString}

\* A missing literal may be anywhere.
Later ==
  {p \in Literal \X Literal : p[1] = EmptyString \/ p[2] = EmptyString \/ p[1] < p[2]}

\* Literals in order, all of tokens from lo up to hi.
Within(q, lo, hi) ==
  /\ q \in Seq(Literal)
  /\ Ordered(q, Later)
  /\ \A x \in Range(q) : x = EmptyString \/ (lo <= x /\ x < hi)

LEMMA WithinEmpty == \A lo, hi : Within(<<>>, lo, hi)
BY ShortSequences, ShortOrdered DEF Within

LEMMA WithinOne ==
  ASSUME NEW x \in Literal, NEW lo, NEW hi, x = EmptyString \/ (lo <= x /\ x < hi)
  PROVE  Within(<<x>>, lo, hi)
BY ShortSequences, ShortOrdered DEF Within

LEMMA WithinConcat ==
  ASSUME NEW q, NEW r, NEW lo \in Nat, NEW mid \in Nat, NEW hi \in Nat,
         lo <= mid, mid <= hi, Within(q, lo, mid), Within(r, mid, hi)
  PROVE  Within(q \o r, lo, hi)
<1>1. q \in Seq(Literal) /\ r \in Seq(Literal)
  BY DEF Within
<1>2. /\ \A x \in Range(q) : x \in Literal /\ (x = EmptyString \/ (lo <= x /\ x < mid))
      /\ \A y \in Range(r) : y \in Literal /\ (y = EmptyString \/ (mid <= y /\ y < hi))
  <2>1. Range(q) \in SUBSET Literal /\ Range(r) \in SUBSET Literal
    BY <1>1, RangeOfSeq
  <2>. QED
    BY <2>1 DEF Within
<1>3. ASSUME NEW x \in Range(q), NEW y \in Range(r) PROVE <<x, y>> \in Later
  BY <1>2 DEF Later, Literal
<1>4. Ordered(q, Later) /\ Ordered(r, Later)
  BY DEF Within
<1>5. q \o r \in Seq(Literal) /\ Range(q \o r) = Range(q) \cup Range(r)
  BY <1>1, ConcatProperties, RangeConcatenation
<1>6. Ordered(q \o r, Later)
  BY <1>1, <1>3, <1>4, OrderedConcat
<1>7. ASSUME NEW x \in Range(q) \cup Range(r)
      PROVE  x = EmptyString \/ (lo <= x /\ x < hi)
  BY <1>2 DEF Literal
<1>. QED
  BY <1>5, <1>6, <1>7 DEF Within

LEMMA WithinWider ==
  ASSUME NEW q, NEW lo \in Nat, NEW hi \in Nat, NEW lower \in Nat, NEW higher \in Nat,
         lower <= lo, hi <= higher, Within(q, lo, hi)
  PROVE  Within(q, lower, higher)
<1>1. Range(q) \in SUBSET Literal
  BY RangeOfSeq DEF Within
<1>2. ASSUME NEW x \in Range(q) PROVE x = EmptyString \/ (lower <= x /\ x < higher)
  BY <1>1 DEF Within, Literal
<1>. QED
  BY <1>2 DEF Within

-----------------------------------------------------------------------------
(* What is kept of the statements, and of the one being built. *)

ColumnLists(s)    == MapSeq(ExpressionLiterals, s.columns)
JoinLists(s)      == MapSeq(JoinLiterals, s.joins)
StatementLists    == MapSeq(Literals, statements)
ToColumns(s)      == FlattenSeq(ColumnLists(s))
ToTable(s)        == ToColumns(s) \o <<s.tableName>>
ToJoins(s)        == ToTable(s) \o FlattenSeq(JoinLists(s))
ToWhere(s)        == ToJoins(s) \o FlattenSeq(MapSeq(ExpressionLiterals, s.whereClause))

IsStatement(s) ==
  s = [explain |-> s.explain, columns |-> s.columns, tableName |-> s.tableName,
       joins |-> s.joins, whereClause |-> s.whereClause, groupBy |-> s.groupBy]

\* The literals of the statement are those of tokens from its first one on, and
\* the clauses that are still to come are empty.
StatementInv(first) ==
  /\ IsStatement(stmt)
  /\ clause = "columns" =>
       /\ stmt.tableName = EmptyString /\ stmt.joins = <<>>
       /\ stmt.whereClause = <<>> /\ stmt.groupBy = <<>>
       /\ IsList(stmt.columns) /\ Lists(ColumnLists(stmt), Len(stmt.columns), Literal)
       /\ Within(ToColumns(stmt), first, position)
  /\ clause = "joins" =>
       /\ stmt.whereClause = <<>> /\ stmt.groupBy = <<>>
       /\ ToTable(stmt) \in Seq(Literal)
       /\ IsList(stmt.joins) /\ Lists(JoinLists(stmt), Len(stmt.joins), Literal)
       /\ Within(ToJoins(stmt), first, position)
  /\ clause = "group" => stmt.groupBy = <<>> /\ Within(ToWhere(stmt), first, position + 1)
  /\ clause = "finish" => Within(Literals(stmt), first, position + 1)

SourceInv ==
  source_ = NoText =>
    /\ ~lexed => tokens = <<>>
    /\ \A i \in 1..Len(tokens) : tokens[i].literal = i
    /\ Lists(StatementLists, Len(statements), Literal)
    /\ \E first \in 1..position :
         /\ Within(FlattenSeq(StatementLists), 1, first)
         /\ clause \notin {"statement", "done"} => StatementInv(first)

-----------------------------------------------------------------------------
(* What each clause takes from a source. *)

Numbered == Len(tokens) \in Nat /\ \A i \in 1..Len(tokens) : tokens[i].literal = i

LEMMA LiteralAt ==
  ASSUME Numbered, NEW i \in Nat
  PROVE  TokenAt(i).literal \in {i, EmptyString} /\ TokenAt(i).literal \in Literal
BY DEF Numbered, TokenAt, Token, Literal

LEMMA WithinThree ==
  ASSUME NEW i \in Nat, NEW x \in {i, EmptyString}, NEW y \in {i + 1, EmptyString},
         NEW z \in {i + 2, EmptyString}
  PROVE  Within(<<x, y, z>>, i, i + 3)
<1>1. x \in Literal /\ y \in Literal /\ z \in Literal
  BY DEF Literal
<1>2. PICK a, b, c : a = i + 1 /\ b = i + 2 /\ c = i + 3
  OBVIOUS
<1>3. Within(<<x>>, i, a) /\ Within(<<y>>, a, b) /\ Within(<<z>>, b, c)
  <2>1. x = EmptyString \/ (i <= x /\ x < a)
    BY <1>2
  <2>2. y = EmptyString \/ (a <= y /\ y < b)
    BY <1>2
  <2>3. z = EmptyString \/ (b <= z /\ z < c)
    BY <1>2
  <2>. QED
    BY <1>1, <2>1, <2>2, <2>3, WithinOne
<1>4. a \in Nat /\ b \in Nat /\ c \in Nat /\ i <= a /\ a <= b /\ b <= c /\ i <= b
  BY <1>2
<1>5. Within(<<x>> \o <<y>>, i, b)
  BY <1>3, <1>4, WithinConcat
<1>6. Within((<<x>> \o <<y>>) \o <<z>>, i, c)
  BY <1>3, <1>4, <1>5, WithinConcat
<1>7. (<<x>> \o <<y>>) \o <<z>> = <<x, y, z>>
  <2>1. <<x>> \in Seq(Literal) /\ <<y>> \in Seq(Literal) /\ <<z>> \in Seq(Literal)
    BY <1>1
  <2>2. PICK u \in Seq(Literal) : u = <<x>> \o <<y>>
    BY <2>1, ConcatProperties
  <2>3. Len(u) = 2 /\ u[1] = x /\ u[2] = y
    BY <2>1, <2>2, ConcatElements
  <2>4. PICK v \in Seq(Literal) : v = u \o <<z>>
    BY <2>1, <2>2, ConcatProperties
  <2>5. Len(v) = 3 /\ v[1] = x /\ v[2] = y /\ v[3] = z
    <3>1. PICK w \in Seq(Literal) : w = <<z>> /\ Len(w) = 1 /\ w[1] = z
      BY <2>1
    <3>2. /\ Len(v) = Len(u) + Len(w)
          /\ \A k \in 1..Len(u) + Len(w) : v[k] = IF k <= Len(u) THEN u[k] ELSE w[k - Len(u)]
      BY <2>4, <3>1, ConcatProperties
    <3>3. /\ Len(v) = 3
          /\ \A k \in 1..3 : v[k] = IF k <= 2 THEN u[k] ELSE w[k - 2]
      BY <2>3, <3>1, <3>2
    <3>. QED
      BY <2>3, <3>1, <3>3
  <2>6. v = <<x, y, z>>
    BY <2>5
  <2>. QED
    BY <2>2, <2>4, <2>6
<1>. QED
  BY <1>2, <1>6, <1>7

LEMMA ExpressionOrder ==
  ASSUME Numbered, NEW i \in Nat
  PROVE  Within(ExpressionLiterals(ParsedExpression(i)), i, i + 3)
<1>1. ExpressionLiterals(ParsedExpression(i)) =
        <<TokenAt(i).literal, TokenAt(i + 1).literal, TokenAt(i + 2).literal>>
  BY DEF ExpressionLiterals, ParsedExpression, BinaryExpression, Identifier, NumberLiteral
<1>2. /\ TokenAt(i).literal \in {i, EmptyString}
      /\ TokenAt(i + 1).literal \in {i + 1, EmptyString}
      /\ TokenAt(i + 2).literal \in {i + 2, EmptyString}
  BY LiteralAt
<1>. QED
  BY <1>1, <1>2, WithinThree

LEMMA ColumnOrder ==
  ASSUME Numbered, NEW i \in 1..Len(tokens)
  PROVE  Within(ExpressionLiterals(ParsedColumn(i)), i, AfterColumn(i))
<1>. DEFINE name == TokenAt(i).literal
            arg  == TokenAt(i + 2).literal
<1>1. /\ name \in Literal /\ arg \in Literal
      /\ name \in {i, EmptyString} /\ arg \in {i + 2, EmptyString}
  BY LiteralAt DEF Numbered
<1>2. PICK after : after = AfterColumn(i)
  OBVIOUS
<1>3. after \in i + 1..Len(tokens) + 1 /\ Len(tokens) \in Nat
  BY <1>2, ColumnWithin DEF Numbered
<1>4. CASE ~IsCall(i)
  <2>1. ExpressionLiterals(ParsedColumn(i)) = <<name>>
    BY <1>4 DEF ExpressionLiterals, ParsedColumn, Identifier
  <2>2. name = EmptyString \/ (i <= name /\ name < after)
    BY <1>1, <1>3
  <2>. QED
    BY <1>1, <1>2, <2>1, <2>2, WithinOne
<1>5. CASE IsCall(i) /\ ~HasArg(i)
  <2>1. ExpressionLiterals(ParsedColumn(i)) = <<name>> \o <<>>
    BY <1>5 DEF ExpressionLiterals, ParsedColumn, FunctionCall, MapSeq
  <2>2. <<name>> \o <<>> = <<name>>
    BY <1>1, ShortSequences, ConcatEmptySeq
  <2>3. name = EmptyString \/ (i <= name /\ name < after)
    BY <1>1, <1>3
  <2>. QED
    BY <1>1, <1>2, <2>1, <2>2, <2>3, WithinOne
<1>6. CASE IsCall(i) /\ HasArg(i)
  <2>1. ExpressionLiterals(ParsedColumn(i)) = <<name>> \o <<arg>>
    BY <1>6 DEF ExpressionLiterals, ParsedColumn, FunctionCall, Identifier, MapSeq
  <2>2. after >= i + 3
    BY <1>2, <1>6 DEF AfterColumn, AfterArg
  <2>3. PICK mid : mid = i + 1
    OBVIOUS
  <2>4. Within(<<name>>, i, mid) /\ Within(<<arg>>, mid, after)
    <3>1. name = EmptyString \/ (i <= name /\ name < mid)
      BY <1>1, <2>3
    <3>2. arg = EmptyString \/ (mid <= arg /\ arg < after)
      BY <1>1, <1>3, <2>2, <2>3
    <3>. QED
      BY <1>1, <3>1, <3>2, WithinOne
  <2>5. i \in Nat /\ mid \in Nat /\ after \in Nat /\ i <= mid /\ mid <= after
    BY <1>3, <2>3
  <2>. QED
    BY <1>2, <2>1, <2>4, <2>5, WithinConcat
<1>. QED
  BY <1>4, <1>5, <1>6

LEMMA JoinOrder ==
  ASSUME Numbered, NEW i \in 1..Len(tokens)
  PROVE  Within(JoinLiterals(ParsedJoin(i)), i, ConditionAt(i) + 3)
<1>1. PICK cond : cond = ConditionAt(i)
  OBVIOUS
<1>2. cond \in Nat /\ cond >= i + 1
  BY <1>1, ConditionWithin DEF Numbered
<1>3. PICK table : table = IF Is(i + 1, "IDENTIFIER") THEN TokenAt(i + 1).literal ELSE EmptyString
  OBVIOUS
<1>4. JoinLiterals(ParsedJoin(i)) = <<table>> \o ExpressionLiterals(ParsedExpression(cond))
  BY <1>1, <1>3 DEF JoinLiterals, ParsedJoin, JoinClause
<1>5. Within(ExpressionLiterals(ParsedExpression(cond)), cond, cond + 3)
  BY <1>2, ExpressionOrder
<1>6. table \in Literal /\ (table = EmptyString \/ (i <= table /\ table < cond))
  <2>1. CASE Is(i + 1, "IDENTIFIER")
    <3>1. cond >= i + 2
      BY <1>1, <2>1 DEF ConditionAt, OnAt
    <3>2. table \in {i + 1, EmptyString} /\ table \in Literal
      BY <1>3, <2>1, LiteralAt
    <3>. QED
      BY <1>2, <3>1, <3>2
  <2>2. CASE ~Is(i + 1, "IDENTIFIER")
    BY <1>3, <2>2 DEF Literal
  <2>. QED
    BY <2>1, <2>2
<1>7. Within(<<table>>, i, cond)
  BY <1>6, WithinOne
<1>8. PICK end : end = cond + 3
  OBVIOUS
<1>9. i \in Nat /\ end \in Nat /\ i <= cond /\ cond <= end
  BY <1>2, <1>8
<1>. QED
  BY <1>1, <1>2, <1>4, <1>5, <1>7, <1>8, <1>9, WithinConcat

\* The names of GROUP BY are one literal each.
LEMMA GroupOrder ==
  ASSUME Numbered, NEW first \in Nat, NEW end \in Nat, first <= end
  PROVE  Within(FlattenSeq(MapSeq(ExpressionLiterals, GroupNames(first, end))), first, end)
<1>. DEFINE Names  == {Identifier(x) : x \in Literal}
            Before == {p \in Names \X Names : <<p[1].value, p[2].value>> \in Later}
            Here   == {e \in Names : e.value = EmptyString \/ (first <= e.value /\ e.value < end)}
            names  == GroupNames(first, end)
<1>1. PICK n \in Nat : n = end - first
  OBVIOUS
<1>2. PICK pieces : pieces = [k \in 1..n |-> GroupName(first + k - 1)]
  OBVIOUS
<1>3. names = FlattenSeq(pieces)
  BY <1>1, <1>2 DEF GroupNames
<1>4. ASSUME NEW k \in 1..n
      PROVE  /\ pieces[k] \in Seq(Names)
             /\ Ordered(pieces[k], Before)
             /\ \A e \in Range(pieces[k]) : e \in Names /\ e.value \in {first + k - 1, EmptyString}
  <2>1. PICK i \in Nat : i = first + k - 1
    OBVIOUS
  <2>2. PICK e : e = Identifier(TokenAt(i).literal)
    OBVIOUS
  <2>3. e \in Names /\ e.value \in {i, EmptyString}
    BY <2>2, LiteralAt DEF Identifier
  <2>4. pieces[k] = <<e>> \/ pieces[k] = <<>>
    BY <1>2, <2>1, <2>2 DEF GroupName
  <2>. HIDE DEF Names, Before
  <2>5. CASE pieces[k] = <<e>>
    <3>1. <<e>> \in Seq(Names) /\ Range(<<e>>) = {e}
      BY <2>3, ShortSequences
    <3>2. Ordered(<<e>>, Before)
      BY ShortOrdered
    <3>. QED
      BY <2>1, <2>3, <2>5, <3>1, <3>2
  <2>6. CASE pieces[k] = <<>>
    <3>1. <<>> \in Seq(Names) /\ Range(<<>>) = {}
      BY ShortSequences
    <3>2. Ordered(<<>>, Before)
      BY ShortOrdered
    <3>. QED
      BY <2>6, <3>1, <3>2
  <2>. QED
    BY <2>4, <2>5, <2>6
<1>5. pieces \in [1..n -> Seq(Names)]
  BY <1>2, <1>4
<1>6. \A k, l \in 1..n : k < l =>
        \A x \in Range(pieces[k]), y \in Range(pieces[l]) : <<x, y>> \in Before
  <2>. SUFFICES ASSUME NEW k \in 1..n, NEW l \in 1..n, k < l,
                       NEW x \in Range(pieces[k]), NEW y \in Range(pieces[l])
                PROVE  <<x, y>> \in Before
    OBVIOUS
  <2>1. /\ x \in Names /\ x.value \in {first + k - 1, EmptyString}
        /\ y \in Names /\ y.value \in {first + l - 1, EmptyString}
    BY <1>4
  <2>2. first + k - 1 \in Nat /\ first + l - 1 \in Nat /\ first + k - 1 < first + l - 1
    OBVIOUS
  <2>3. <<x.value, y.value>> \in Later
    BY <2>1, <2>2 DEF Later, Literal
  <2>. QED
    BY <2>1, <2>3
<1>7. Ordered(names, Before) /\ names \in Seq(Names)
  <2>. HIDE DEF Before, Names, names
  <2>. QED
    BY <1>3, <1>4, <1>5, <1>6, FlattenOrdered, FlattenRange
<1>8. \A e \in Range(names) : e \in Here
  <2>. SUFFICES ASSUME NEW e \in Range(names) PROVE e \in Here
    OBVIOUS
  <2>1. PICK k \in 1..n : e \in Range(pieces[k])
    <3>. HIDE DEF Names, names
    <3>. QED
      BY <1>3, <1>5, FlattenRange
  <2>2. e \in Names /\ e.value \in {first + k - 1, EmptyString}
    BY <1>4, <2>1
  <2>3. first <= first + k - 1 /\ first + k - 1 < end
    BY <1>1
  <2>. QED
    BY <2>2, <2>3
<1>9. PICK m \in Nat : m = Len(names)
  BY <1>7, LenProperties
<1>10. PICK lists : lists = MapSeq(ExpressionLiterals, names)
  OBVIOUS
<1>. HIDE DEF names
<1>11. ASSUME NEW k \in 1..m
       PROVE  /\ names[k] \in Here /\ names[k].value \in Literal
              /\ lists[k] = <<names[k].value>>
  <2>1. names[k] \in Names /\ names[k] \in Range(names)
    BY <1>7, <1>9, RangeEquality
  <2>2. names[k].node = "Identifier" /\ names[k].value \in Literal
    BY <2>1 DEF Identifier
  <2>3. lists[k] = ExpressionLiterals(names[k])
    BY <1>9, <1>10 DEF MapSeq
  <2>. QED
    BY <1>8, <2>1, <2>2, <2>3 DEF ExpressionLiterals
<1>12. lists \in [1..m -> Seq(Literal)]
  <2>1. lists = [k \in 1..m |-> lists[k]]
    BY <1>9, <1>10 DEF MapSeq
  <2>2. ASSUME NEW k \in 1..m PROVE lists[k] \in Seq(Literal)
    <3>1. PICK x \in Literal : lists[k] = <<x>>
      BY <1>11
    <3>2. <<x>> \in Seq(Literal)
      BY ShortSequences
    <3>. QED
      BY <3>1, <3>2
  <2>. QED
    BY <2>1, <2>2
<1>13. /\ \A k \in 1..m : Ordered(lists[k], Later) /\ Range(lists[k]) = {names[k].value}
       /\ \A k, l \in 1..m : k < l => <<names[k].value, names[l].value>> \in Later
  <2>1. ASSUME NEW k \in 1..m
        PROVE  Ordered(lists[k], Later) /\ Range(lists[k]) = {names[k].value}
    <3>1. PICK x : x = names[k].value /\ lists[k] = <<x>>
      BY <1>11
    <3>2. Ordered(<<x>>, Later)
      BY ShortOrdered
    <3>3. Range(<<x>>) = {x}
      BY ShortSequences
    <3>. QED
      BY <3>1, <3>2, <3>3
  <2>2. \A k, l \in 1..m : k < l => <<names[k], names[l]>> \in Before
    <3>. HIDE DEF Before
    <3>. QED
      BY <1>7, <1>9 DEF Ordered
  <2>. QED
    BY <2>1, <2>2
<1>14. Ordered(FlattenSeq(lists), Later)
  <2>1. \A k, l \in 1..m : k < l =>
          \A x \in Range(lists[k]), y \in Range(lists[l]) : <<x, y>> \in Later
    BY <1>13
  <2>2. \A k \in 1..m : Ordered(lists[k], Later)
    BY <1>13
  <2>. HIDE DEF Names, Before, Here
  <2>. QED
    BY <1>12, <2>1, <2>2, FlattenOrdered
<1>15. /\ FlattenSeq(lists) \in Seq(Literal)
       /\ \A x \in Range(FlattenSeq(lists)) : x = EmptyString \/ (first <= x /\ x < end)
  <2>1. /\ FlattenSeq(lists) \in Seq(Literal)
        /\ \A x \in Range(FlattenSeq(lists)) : \E k \in 1..m : x \in Range(lists[k])
    BY <1>12, FlattenRange
  <2>. QED
    BY <1>11, <1>13, <2>1, ZenonT(60)
<1>. QED
  BY <1>10, <1>14, <1>15 DEF Within, names

-----------------------------------------------------------------------------
(* One more element of a list of the statement. *)

LEMMA ColumnsGrow ==
  ASSUME NEW s, IsList(s.columns), Lists(ColumnLists(s), Len(s.columns), Literal),
         NEW c, ExpressionLiterals(c) \in Seq(Literal),
         NEW t, t.columns = Append(s.columns, c)
  PROVE  /\ IsList(t.columns) /\ Lists(ColumnLists(t), Len(t.columns), Literal)
         /\ ToColumns(t) = ToColumns(s) \o ExpressionLiterals(c)
<1>1. PICK n \in Nat : n = Len(s.columns)
  BY ListFacts
<1>2. /\ IsList(t.columns) /\ Len(t.columns) = n + 1 /\ t.columns[n + 1] = c
      /\ \A k \in 1..n : t.columns[k] = s.columns[k]
  BY <1>1, ListFacts
<1>3. PICK f, g : f = ColumnLists(s) /\ g = ColumnLists(t)
  OBVIOUS
<1>4. /\ g = [k \in 1..n + 1 |-> ExpressionLiterals(t.columns[k])]
      /\ \A k \in 1..n : f[k] = ExpressionLiterals(s.columns[k])
  BY <1>1, <1>2, <1>3 DEF ColumnLists, MapSeq
<1>5. n + 1 \in 1..n + 1 /\ \A k \in 1..n : k \in 1..n + 1
  BY <1>1
<1>6. Grown(g, f, n, ExpressionLiterals(c))
  <2>1. g = [k \in 1..n + 1 |-> g[k]]
    BY <1>4
  <2>2. g[n + 1] = ExpressionLiterals(c)
    BY <1>2, <1>4, <1>5
  <2>3. \A k \in 1..n : g[k] = f[k]
    BY <1>2, <1>4, <1>5
  <2>. QED
    BY <2>1, <2>2, <2>3 DEF Grown
<1>7. PICK q : q = ExpressionLiterals(c)
  OBVIOUS
<1>8. n \in Nat /\ Lists(f, n, Literal) /\ q \in Seq(Literal) /\ Grown(g, f, n, q)
  BY <1>1, <1>3, <1>6, <1>7
<1>9. Lists(g, n + 1, Literal) /\ FlattenSeq(g) = FlattenSeq(f) \o q
  BY <1>8, FlattenGrows
<1>10. Lists(ColumnLists(t), Len(t.columns), Literal)
  BY <1>2, <1>3, <1>9
<1>11. FlattenSeq(ColumnLists(t)) = FlattenSeq(ColumnLists(s)) \o ExpressionLiterals(c)
  BY <1>3, <1>7, <1>9
<1>. QED
  BY <1>2, <1>10, <1>11 DEF ToColumns

LEMMA JoinsGrow ==
  ASSUME NEW s, IsList(s.joins), Lists(JoinLists(s), Len(s.joins), Literal),
         NEW j, JoinLiterals(j) \in Seq(Literal),
         NEW t, t.joins = Append(s.joins, j)
  PROVE  /\ IsList(t.joins) /\ Lists(JoinLists(t), Len(t.joins), Literal)
         /\ FlattenSeq(JoinLists(t)) = FlattenSeq(JoinLists(s)) \o JoinLiterals(j)
<1>1. PICK n \in Nat : n = Len(s.joins)
  BY ListFacts
<1>2. /\ IsList(t.joins) /\ Len(t.joins) = n + 1 /\ t.joins[n + 1] = j
      /\ \A k \in 1..n : t.joins[k] = s.joins[k]
  BY <1>1, ListFacts
<1>3. PICK f, g : f = JoinLists(s) /\ g = JoinLists(t)
  OBVIOUS
<1>4. /\ g = [k \in 1..n + 1 |-> JoinLiterals(t.joins[k])]
      /\ \A k \in 1..n : f[k] = JoinLiterals(s.joins[k])
  BY <1>1, <1>2, <1>3 DEF JoinLists, MapSeq
<1>5. n + 1 \in 1..n + 1 /\ \A k \in 1..n : k \in 1..n + 1
  BY <1>1
<1>6. Grown(g, f, n, JoinLiterals(j))
  <2>1. g = [k \in 1..n + 1 |-> g[k]]
    BY <1>4
  <2>2. g[n + 1] = JoinLiterals(j)
    BY <1>2, <1>4, <1>5
  <2>3. \A k \in 1..n : g[k] = f[k]
    BY <1>2, <1>4, <1>5
  <2>. QED
    BY <2>1, <2>2, <2>3 DEF Grown
<1>7. PICK q : q = JoinLiterals(j)
  OBVIOUS
<1>8. n \in Nat /\ Lists(f, n, Literal) /\ q \in Seq(Literal) /\ Grown(g, f, n, q)
  BY <1>1, <1>3, <1>6, <1>7
<1>9. Lists(g, n + 1, Literal) /\ FlattenSeq(g) = FlattenSeq(f) \o q
  BY <1>8, FlattenGrows
<1>10. Lists(JoinLists(t), Len(t.joins), Literal)
  BY <1>2, <1>3, <1>9
<1>11. FlattenSeq(JoinLists(t)) = FlattenSeq(JoinLists(s)) \o JoinLiterals(j)
  BY <1>3, <1>7, <1>9
<1>. QED
  BY <1>2, <1>10, <1>11

LEMMA StatementsGrow ==
  ASSUME IsList(statements), Lists(StatementLists, Len(statements), Literal),
         Literals(stmt) \in Seq(Literal), statements' = Append(statements, stmt)
  PROVE  /\ Lists(StatementLists', Len(statements'), Literal)
         /\ FlattenSeq(StatementLists') = FlattenSeq(StatementLists) \o Literals(stmt)
<1>1. PICK n \in Nat : n = Len(statements)
  BY ListFacts
<1>2. /\ Len(statements') = n + 1 /\ statements'[n + 1] = stmt
      /\ \A k \in 1..n : statements'[k] = statements[k]
  BY <1>1, ListFacts
<1>3. PICK f, g : f = StatementLists /\ g = StatementLists'
  OBVIOUS
<1>4. /\ g = [k \in 1..n + 1 |-> Literals(statements'[k])]
      /\ \A k \in 1..n : f[k] = Literals(statements[k])
  BY <1>1, <1>2, <1>3 DEF StatementLists, MapSeq
<1>5. n + 1 \in 1..n + 1 /\ \A k \in 1..n : k \in 1..n + 1
  BY <1>1
<1>6. Grown(g, f, n, Literals(stmt))
  <2>1. g = [k \in 1..n + 1 |-> g[k]]
    BY <1>4
  <2>2. g[n + 1] = Literals(stmt)
    BY <1>2, <1>4, <1>5
  <2>3. \A k \in 1..n : g[k] = f[k]
    BY <1>2, <1>4, <1>5
  <2>. QED
    BY <2>1, <2>2, <2>3 DEF Grown
<1>7. Lists(g, n + 1, Literal) /\ FlattenSeq(g) = FlattenSeq(f) \o Literals(stmt)
  BY <1>1, <1>3, <1>6, FlattenGrows
<1>. QED
  BY <1>2, <1>3, <1>7

LEMMA StatementExcept ==
  ASSUME NEW s, IsStatement(s), NEW x
  PROVE  /\ \A t : t = [s EXCEPT !.columns = x] =>
              /\ IsStatement(t) /\ t.columns = x /\ t.tableName = s.tableName
              /\ t.joins = s.joins /\ t.whereClause = s.whereClause /\ t.groupBy = s.groupBy
         /\ \A t : t = [s EXCEPT !.tableName = x] =>
              /\ IsStatement(t) /\ t.columns = s.columns /\ t.tableName = x
              /\ t.joins = s.joins /\ t.whereClause = s.whereClause /\ t.groupBy = s.groupBy
         /\ \A t : t = [s EXCEPT !.joins = x] =>
              /\ IsStatement(t) /\ t.columns = s.columns /\ t.tableName = s.tableName
              /\ t.joins = x /\ t.whereClause = s.whereClause /\ t.groupBy = s.groupBy
         /\ \A t : t = [s EXCEPT !.whereClause = x] =>
              /\ IsStatement(t) /\ t.columns = s.columns /\ t.tableName = s.tableName
              /\ t.joins = s.joins /\ t.whereClause = x /\ t.groupBy = s.groupBy
         /\ \A t : t = [s EXCEPT !.groupBy = x] =>
              /\ IsStatement(t) /\ t.columns = s.columns /\ t.tableName = s.tableName
              /\ t.joins = s.joins /\ t.whereClause = s.whereClause /\ t.groupBy = x
BY DEF IsStatement

-----------------------------------------------------------------------------
(* Each clause takes literals of tokens behind those that were taken. *)

\* What the lemmas about the clauses start from.
BeforeClause(first) ==
  /\ Numbered /\ first \in Nat /\ position \in Nat /\ position' \in Nat
  /\ 1 <= first /\ first <= position /\ position <= position'
  /\ StatementInv(first)

LEMMA ColumnKeepsOrder ==
  ASSUME NEW first, BeforeClause(first), ParseColumn
  PROVE  StatementInv(first)'
<1>1. /\ clause = "columns" /\ clause' = "columns"
      /\ first \in Nat /\ position \in Nat /\ position' \in Nat
      /\ first <= position /\ position <= position'
      /\ position \in 1..Len(tokens)
  <2>1. Len(tokens) \in Nat /\ position \in Nat /\ position >= 1 /\ ~Is(position, "END_OF_FILE")
    BY DEF BeforeClause, Numbered, ParseColumn
  <2>2. position \in 1..Len(tokens)
    BY <2>1, NotAtEnd
  <2>. QED
    BY <2>2 DEF BeforeClause, ParseColumn
<1>2. /\ IsStatement(stmt)
      /\ stmt.tableName = EmptyString /\ stmt.joins = <<>>
      /\ stmt.whereClause = <<>> /\ stmt.groupBy = <<>>
      /\ IsList(stmt.columns) /\ Lists(ColumnLists(stmt), Len(stmt.columns), Literal)
      /\ Within(ToColumns(stmt), first, position)
  BY <1>1 DEF BeforeClause, StatementInv
<1>3. ASSUME NEW t, t = stmt', IsStatement(t),
             t.tableName = EmptyString, t.joins = <<>>, t.whereClause = <<>>, t.groupBy = <<>>,
             IsList(t.columns), Lists(ColumnLists(t), Len(t.columns), Literal),
             Within(ToColumns(t), first, position')
      PROVE  StatementInv(first)'
  <2>1. ColumnLists(t) = ColumnLists(stmt)' /\ ToColumns(t) = ToColumns(stmt)'
    BY <1>3 DEF ColumnLists, ToColumns
  <2>. QED
    BY <1>1, <1>3, <2>1 DEF StatementInv
<1>4. CASE Is(position, "IDENTIFIER")
  <2>1. PICK c : c = ParsedColumn(position)
    OBVIOUS
  <2>2. /\ stmt' = [stmt EXCEPT !.columns = Append(stmt.columns, c)]
        /\ position' = AfterColumn(position)
    BY <1>4, <2>1 DEF ParseColumn
  <2>3. Within(ExpressionLiterals(c), position, position')
    BY <1>1, <2>1, <2>2, ColumnOrder DEF BeforeClause
  <2>4. PICK t : t = stmt'
    OBVIOUS
  <2>5. /\ IsStatement(t) /\ t.columns = Append(stmt.columns, c)
        /\ t.tableName = EmptyString /\ t.joins = <<>> /\ t.whereClause = <<>> /\ t.groupBy = <<>>
    <3>1. PICK x : x = Append(stmt.columns, c)
      OBVIOUS
    <3>2. t = [stmt EXCEPT !.columns = x] /\ IsStatement(stmt)
      BY <1>2, <2>2, <2>4, <3>1
    <3>3. /\ IsStatement(t) /\ t.columns = x /\ t.tableName = stmt.tableName
          /\ t.joins = stmt.joins /\ t.whereClause = stmt.whereClause /\ t.groupBy = stmt.groupBy
      BY <3>2, StatementExcept
    <3>. QED
      BY <1>2, <3>1, <3>3
  <2>6. ExpressionLiterals(c) \in Seq(Literal)
    BY <2>3 DEF Within
  <2>7. /\ IsList(t.columns) /\ Lists(ColumnLists(t), Len(t.columns), Literal)
        /\ ToColumns(t) = ToColumns(stmt) \o ExpressionLiterals(c)
    BY <1>2, <2>5, <2>6, ColumnsGrow
  <2>8. Within(ToColumns(t), first, position')
    BY <1>1, <1>2, <2>3, <2>7, WithinConcat
  <2>. QED
    BY <1>3, <2>4, <2>5, <2>7, <2>8
<1>5. CASE ~Is(position, "IDENTIFIER")
  <2>1. stmt' = stmt
    BY <1>5 DEF ParseColumn
  <2>2. Within(ToColumns(stmt), first, position')
    BY <1>1, <1>2, WithinWider
  <2>. QED
    BY <1>2, <1>3, <2>1, <2>2
<1>. QED
  BY <1>4, <1>5

LEMMA FromKeepsOrder ==
  ASSUME NEW first, BeforeClause(first), ParseFrom
  PROVE  StatementInv(first)'
<1>1. /\ clause = "columns" /\ clause' = "joins"
      /\ first \in Nat /\ position \in Nat /\ position' \in Nat
      /\ first <= position /\ position <= position'
  BY DEF BeforeClause, ParseFrom
<1>2. /\ IsStatement(stmt)
      /\ stmt.tableName = EmptyString /\ stmt.joins = <<>>
      /\ stmt.whereClause = <<>> /\ stmt.groupBy = <<>>
      /\ Within(ToColumns(stmt), first, position)
  BY <1>1 DEF BeforeClause, StatementInv
<1>3. PICK t : t = stmt'
  OBVIOUS
<1>4. /\ IsStatement(t) /\ t.columns = stmt.columns /\ t.joins = <<>>
      /\ t.whereClause = <<>> /\ t.groupBy = <<>>
      /\ t.tableName \in Literal
      /\ t.tableName = EmptyString \/ (position <= t.tableName /\ t.tableName < position')
  <2>1. CASE Is(position, "FROM") /\ Is(position + 1, "IDENTIFIER")
    <3>1. PICK x : x = TokenAt(position + 1).literal
      OBVIOUS
    <3>2. t = [stmt EXCEPT !.tableName = x] /\ position' = position + 2
      BY <1>3, <2>1, <3>1 DEF ParseFrom
    <3>3. x \in {position + 1, EmptyString} /\ x \in Literal
      BY <1>1, <3>1, LiteralAt DEF BeforeClause
    <3>4. /\ IsStatement(t) /\ t.columns = stmt.columns /\ t.joins = <<>> /\ t.tableName = x
          /\ t.whereClause = <<>> /\ t.groupBy = <<>>
      BY <1>2, <3>2, StatementExcept, SMTT(30)
    <3>. QED
      BY <1>1, <3>2, <3>3, <3>4
  <2>2. CASE ~(Is(position, "FROM") /\ Is(position + 1, "IDENTIFIER"))
    <3>1. t = stmt
      BY <1>3, <2>2 DEF ParseFrom
    <3>. QED
      BY <1>2, <3>1 DEF Literal
  <2>. QED
    BY <2>1, <2>2
<1>5. Within(<<t.tableName>>, position, position')
  BY <1>4, WithinOne
<1>6. ToColumns(t) = ToColumns(stmt)
  BY <1>4 DEF ToColumns, ColumnLists
<1>7. Within(ToTable(t), first, position')
  BY <1>1, <1>2, <1>5, <1>6, WithinConcat DEF ToTable
<1>8. JoinLists(t) = <<>> /\ IsList(t.joins) /\ Len(t.joins) = 0
  BY <1>4, EmptySeq DEF JoinLists, MapSeq, IsList
<1>9. Lists(JoinLists(t), Len(t.joins), Literal)
  BY <1>8 DEF Lists
<1>10. ToTable(t) \in Seq(Literal) /\ ToJoins(t) = ToTable(t)
  <2>1. ToTable(t) \in Seq(Literal)
    BY <1>7 DEF Within
  <2>2. ToJoins(t) = ToTable(t) \o <<>>
    BY <1>8, FlattenEmpty DEF ToJoins
  <2>. QED
    BY <2>1, <2>2, ConcatEmptySeq
<1>11. /\ JoinLists(t) = JoinLists(stmt)' /\ ToTable(t) = ToTable(stmt)'
       /\ ToJoins(t) = ToJoins(stmt)'
  BY <1>3 DEF JoinLists, ToTable, ToJoins, ToColumns, ColumnLists
<1>. QED
  BY <1>1, <1>3, <1>4, <1>7, <1>8, <1>9, <1>10, <1>11 DEF StatementInv

LEMMA JoinKeepsOrder ==
  ASSUME NEW first, BeforeClause(first), ParseJoin
  PROVE  StatementInv(first)'
<1>1. /\ clause = "joins" /\ clause' = "joins"
      /\ first \in Nat /\ position \in Nat /\ position' \in Nat
      /\ first <= position /\ position <= position'
      /\ position \in 1..Len(tokens)
  <2>1. Len(tokens) \in Nat /\ position \in Nat /\ position >= 1 /\ Is(position, "JOIN")
    BY DEF BeforeClause, Numbered, ParseJoin
  <2>2. position \in 1..Len(tokens)
    BY <2>1, TokenWithin
  <2>. QED
    BY <2>2 DEF BeforeClause, ParseJoin
<1>2. /\ IsStatement(stmt) /\ stmt.whereClause = <<>> /\ stmt.groupBy = <<>>
      /\ ToTable(stmt) \in Seq(Literal)
      /\ IsList(stmt.joins) /\ Lists(JoinLists(stmt), Len(stmt.joins), Literal)
      /\ Within(ToJoins(stmt), first, position)
  BY <1>1 DEF BeforeClause, StatementInv
<1>3. PICK j : j = ParsedJoin(position)
  OBVIOUS
<1>4. PICK x, t : x = Append(stmt.joins, j) /\ t = stmt'
  OBVIOUS
<1>5. t = [stmt EXCEPT !.joins = x] /\ position' = ConditionAt(position) + 3 /\ IsStatement(stmt)
  BY <1>2, <1>3, <1>4 DEF ParseJoin
<1>6. /\ IsStatement(t) /\ t.columns = stmt.columns /\ t.tableName = stmt.tableName
      /\ t.joins = x /\ t.whereClause = stmt.whereClause /\ t.groupBy = stmt.groupBy
  BY <1>5, StatementExcept
<1>7. Within(JoinLiterals(j), position, position')
  BY <1>1, <1>3, <1>5, JoinOrder DEF BeforeClause
<1>8. JoinLiterals(j) \in Seq(Literal)
  BY <1>7 DEF Within
<1>9. /\ IsList(t.joins) /\ Lists(JoinLists(t), Len(t.joins), Literal)
      /\ FlattenSeq(JoinLists(t)) = FlattenSeq(JoinLists(stmt)) \o JoinLiterals(j)
  BY <1>2, <1>4, <1>6, <1>8, JoinsGrow
<1>10. ToTable(t) = ToTable(stmt)
  BY <1>6 DEF ToTable, ToColumns, ColumnLists
<1>11. ToJoins(t) = ToJoins(stmt) \o JoinLiterals(j)
  <2>1. PICK old : old = FlattenSeq(JoinLists(stmt))
    OBVIOUS
  <2>2. old \in Seq(Literal)
    <3>1. PICK n \in Nat : n = Len(stmt.joins)
      BY <1>2, ListFacts
    <3>2. JoinLists(stmt) \in [1..n -> Seq(Literal)]
      BY <1>2, <3>1 DEF Lists
    <3>. QED
      BY <2>1, <3>2, FlattenRange
  <2>3. (ToTable(stmt) \o old) \o JoinLiterals(j) = ToTable(stmt) \o (old \o JoinLiterals(j))
    BY <1>2, <1>8, <2>2, ConcatAssociative, SMTT(30)
  <2>. QED
    BY <1>9, <1>10, <2>1, <2>3 DEF ToJoins
<1>12. Within(ToJoins(t), first, position')
  BY <1>1, <1>2, <1>7, <1>11, WithinConcat
<1>13. /\ JoinLists(t) = JoinLists(stmt)' /\ ToTable(t) = ToTable(stmt)'
       /\ ToJoins(t) = ToJoins(stmt)'
  BY <1>4 DEF JoinLists, ToTable, ToJoins, ToColumns, ColumnLists
<1>. QED
  BY <1>1, <1>2, <1>4, <1>6, <1>9, <1>10, <1>12, <1>13 DEF StatementInv

LEMMA WhereKeepsOrder ==
  ASSUME NEW first, BeforeClause(first), ParseWhere
  PROVE  StatementInv(first)'
<1>1. /\ clause = "joins" /\ clause' = "group"
      /\ first \in Nat /\ position \in Nat /\ position' \in Nat
      /\ first <= position /\ position <= position'
  BY DEF BeforeClause, ParseWhere
<1>2. /\ IsStatement(stmt) /\ stmt.whereClause = <<>> /\ stmt.groupBy = <<>>
      /\ Within(ToJoins(stmt), first, position)
  BY <1>1 DEF BeforeClause, StatementInv
<1>3. PICK t, end : t = stmt' /\ end = position' + 1
  OBVIOUS
<1>4. end \in Nat /\ position <= end
  <2>1. \A p, q \in Nat : p <= q => q + 1 \in Nat /\ p <= q + 1
    OBVIOUS
  <2>. QED
    BY <1>1, <1>3, <2>1
<1>5. ASSUME IsStatement(t), t.groupBy = <<>>, Within(ToWhere(t), first, end)
      PROVE  StatementInv(first)'
  <2>1. ToWhere(t) = ToWhere(stmt)'
    BY <1>3 DEF ToWhere, ToJoins, ToTable, ToColumns, ColumnLists, JoinLists
  <2>. QED
    BY <1>1, <1>3, <1>5, <2>1 DEF StatementInv
<1>6. CASE Is(position, "WHERE")
  <2>1. PICK e : e = ParsedExpression(position + 1)
    OBVIOUS
  <2>2. t = [stmt EXCEPT !.whereClause = <<e>>] /\ position' = position + 3
    BY <1>3, <1>6, <2>1 DEF ParseWhere
  <2>3. PICK x : x = <<e>>
    OBVIOUS
  <2>4. /\ IsStatement(t) /\ t.columns = stmt.columns /\ t.tableName = stmt.tableName
        /\ t.joins = stmt.joins /\ t.whereClause = x /\ t.groupBy = stmt.groupBy
    <3>1. t = [stmt EXCEPT !.whereClause = x] /\ IsStatement(stmt)
      BY <1>2, <2>2, <2>3
    <3>. QED
      BY <3>1, StatementExcept
  <2>5. PICK q : q = ExpressionLiterals(e)
    OBVIOUS
  <2>6. Within(q, position, end)
    <3>1. PICK i : i = position + 1
      OBVIOUS
    <3>2. i \in Nat /\ i + 3 = end /\ position <= i
      BY <1>1, <1>3, <2>2, <3>1
    <3>3. Within(q, i, i + 3)
      BY <2>1, <2>5, <3>1, <3>2, ExpressionOrder DEF BeforeClause
    <3>4. Within(q, i, end) /\ end <= end
      BY <1>4, <3>2, <3>3
    <3>. QED
      BY <1>1, <1>4, <3>2, <3>4, WithinWider
  <2>7. ToJoins(t) = ToJoins(stmt)
    BY <2>4 DEF ToJoins, ToTable, ToColumns, ColumnLists, JoinLists
  <2>8. FlattenSeq(MapSeq(ExpressionLiterals, x)) = q
    <3>1. q \in Seq(Literal)
      BY <2>6 DEF Within
    <3>2. MapSeq(ExpressionLiterals, x) = <<q>>
      BY <2>3, <2>5 DEF MapSeq
    <3>3. PICK none, one : none = <<>> /\ one = <<q>>
      OBVIOUS
    <3>4. Lists(none, 0, Literal) /\ Grown(one, none, 0, q)
      BY <3>3 DEF Lists, Grown
    <3>5. FlattenSeq(one) = FlattenSeq(none) \o q
      BY <3>1, <3>4, FlattenGrows
    <3>. QED
      BY <3>1, <3>2, <3>3, <3>5, FlattenEmpty, ConcatEmptySeq
  <2>9. ToWhere(t) = ToJoins(stmt) \o q
    BY <2>4, <2>7, <2>8 DEF ToWhere
  <2>10. Within(ToWhere(t), first, end)
    BY <1>1, <1>2, <1>4, <2>6, <2>9, WithinConcat
  <2>. QED
    BY <1>2, <1>5, <2>4, <2>10
<1>7. CASE ~Is(position, "WHERE")
  <2>1. t = stmt
    BY <1>3, <1>7 DEF ParseWhere
  <2>2. ToJoins(t) \in Seq(Literal)
    BY <1>2, <2>1 DEF Within
  <2>3. MapSeq(ExpressionLiterals, t.whereClause) = <<>>
    BY <1>2, <2>1 DEF MapSeq
  <2>4. ToWhere(t) = ToJoins(t)
    <3>1. ToWhere(t) = ToJoins(t) \o <<>>
      BY <2>3, FlattenEmpty DEF ToWhere
    <3>. QED
      BY <2>2, <3>1, ConcatEmptySeq
  <2>5. Within(ToWhere(t), first, end)
    BY <1>1, <1>2, <1>4, <2>1, <2>4, WithinWider
  <2>. QED
    BY <1>2, <1>5, <2>1, <2>5
<1>. QED
  BY <1>6, <1>7

LEMMA GroupKeepsOrder ==
  ASSUME NEW first, BeforeClause(first), ParseGroupBy
  PROVE  StatementInv(first)'
<1>1. /\ clause = "group" /\ clause' = "finish"
      /\ first \in Nat /\ position \in Nat /\ position' \in Nat
      /\ first <= position /\ position <= position'
  BY DEF BeforeClause, ParseGroupBy
<1>2. IsStatement(stmt) /\ stmt.groupBy = <<>> /\ Within(ToWhere(stmt), first, position + 1)
  BY <1>1 DEF BeforeClause, StatementInv
<1>3. PICK t, from, end : t = stmt' /\ from = position + 1 /\ end = position' + 1
  OBVIOUS
<1>4. from \in Nat /\ end \in Nat /\ first <= from /\ from <= end
  <2>1. PICK p, q : p = position /\ q = position'
    OBVIOUS
  <2>2. p \in Nat /\ q \in Nat /\ p <= q /\ from = p + 1 /\ end = q + 1 /\ first <= p
    BY <1>1, <1>3, <2>1
  <2>. QED
    BY <1>1, <2>2
<1>5. Within(ToWhere(stmt), first, from)
  BY <1>2, <1>3
<1>6. ASSUME IsStatement(t), Within(Literals(t), first, end)
      PROVE  StatementInv(first)'
  <2>1. Literals(t) = Literals(stmt)'
    BY <1>3 DEF Literals
  <2>. QED
    BY <1>1, <1>3, <1>6, <2>1 DEF StatementInv
<1>7. \A s : Literals(s) = ToWhere(s) \o FlattenSeq(MapSeq(ExpressionLiterals, s.groupBy))
  BY DEF Literals, ToWhere, ToJoins, ToTable, ToColumns, ColumnLists, JoinLists
<1>8. CASE Is(position, "GROUP") /\ Is(position + 1, "BY")
  <2>1. PICK names, q, i : /\ i = position + 2 /\ names = GroupNames(i, QueryEnd(i))
                           /\ q = FlattenSeq(MapSeq(ExpressionLiterals, names))
    OBVIOUS
  <2>2. t = [stmt EXCEPT !.groupBy = names] /\ position' = QueryEnd(i)
    BY <1>3, <1>8, <2>1 DEF ParseGroupBy
  <2>3. /\ IsStatement(t) /\ t.columns = stmt.columns /\ t.tableName = stmt.tableName
        /\ t.joins = stmt.joins /\ t.whereClause = stmt.whereClause /\ t.groupBy = names
    BY <1>2, <2>2, StatementExcept
  <2>4. ToWhere(t) = ToWhere(stmt)
    BY <2>3 DEF ToWhere, ToJoins, ToTable, ToColumns, ColumnLists, JoinLists
  <2>5. PICK stop \in Nat : stop = position' /\ i \in Nat /\ i <= stop /\ from <= i /\ stop <= end
    <3>1. i \in Nat
      BY <1>1, <2>1
    <3>2. Len(tokens) \in Nat
      BY DEF BeforeClause, Numbered
    <3>3. QueryEnd(i) \in Nat /\ QueryEnd(i) >= i
      BY <3>1, <3>2, QueryEndWithin
    <3>4. PICK stop : stop = QueryEnd(i)
      OBVIOUS
    <3>5. stop = position' /\ stop \in Nat /\ i <= stop
      BY <2>2, <3>1, <3>3, <3>4
    <3>6. from <= i
      BY <1>1, <1>3, <2>1
    <3>7. \A p \in Nat : p <= p + 1
      OBVIOUS
    <3>8. stop <= end
      BY <1>3, <3>5, <3>7
    <3>. QED
      BY <3>1, <3>5, <3>6, <3>8
  <2>6. Within(q, i, stop)
    <3>1. q = FlattenSeq(MapSeq(ExpressionLiterals, GroupNames(i, stop)))
      BY <2>1, <2>2, <2>5
    <3>. QED
      BY <2>5, <3>1, GroupOrder DEF BeforeClause
  <2>7. Within(q, from, end)
    BY <1>4, <2>5, <2>6, WithinWider
  <2>8. Literals(t) = ToWhere(stmt) \o q
    BY <1>7, <2>1, <2>3, <2>4
  <2>9. Within(Literals(t), first, end)
    BY <1>1, <1>4, <1>5, <2>7, <2>8, WithinConcat
  <2>. QED
    BY <1>6, <2>3, <2>9
<1>9. CASE ~(Is(position, "GROUP") /\ Is(position + 1, "BY"))
  <2>1. t = stmt
    BY <1>3, <1>9 DEF ParseGroupBy
  <2>2. MapSeq(ExpressionLiterals, t.groupBy) = <<>>
    BY <1>2, <2>1 DEF MapSeq
  <2>3. Literals(t) = ToWhere(t) \o <<>>
    BY <1>7, <2>2, FlattenEmpty
  <2>4. ToWhere(t) \in Seq(Literal)
    BY <1>5, <2>1 DEF Within
  <2>5. Literals(t) = ToWhere(t)
    BY <2>3, <2>4, ConcatEmptySeq
  <2>6. Within(Literals(t), first, end)
    BY <1>1, <1>4, <1>5, <2>1, <2>5, WithinWider
  <2>. QED
    BY <1>2, <1>6, <2>1, <2>6
<1>. QED
  BY <1>8, <1>9

-----------------------------------------------------------------------------
(* What is kept, from a source on to the last of its statements. *)

\* A statement that begins has no literals yet.
LEMMA StatementBegins ==
  ASSUME NEW first, clause' = "columns", stmt' \in {SelectStatement, ExplainStatement}
  PROVE  StatementInv(first)'
<1>1. PICK t : t = stmt'
  OBVIOUS
<1>2. /\ IsStatement(t) /\ t.columns = <<>> /\ t.tableName = EmptyString
      /\ t.joins = <<>> /\ t.whereClause = <<>> /\ t.groupBy = <<>>
  BY <1>1 DEF SelectStatement, ExplainStatement, IsStatement
<1>3. ColumnLists(t) = <<>> /\ IsList(t.columns) /\ Len(t.columns) = 0
  BY <1>2, EmptySeq DEF ColumnLists, MapSeq, IsList
<1>4. Lists(ColumnLists(t), Len(t.columns), Literal)
  BY <1>3 DEF Lists
<1>5. ToColumns(t) = <<>>
  BY <1>3, FlattenEmpty DEF ToColumns
<1>6. Within(ToColumns(t), first, position')
  BY <1>5, WithinEmpty
<1>7. ColumnLists(t) = ColumnLists(stmt)' /\ ToColumns(t) = ToColumns(stmt)'
  BY <1>1 DEF ColumnLists, ToColumns
<1>. QED
  BY <1>1, <1>2, <1>3, <1>4, <1>6, <1>7 DEF StatementInv

LEMMA ClauseKeepsOrder ==
  ASSUME NEW first, BeforeClause(first),
         ParseColumn \/ ParseFrom \/ ParseJoin \/ ParseWhere \/ ParseGroupBy
  PROVE  StatementInv(first)'
BY ColumnKeepsOrder, FromKeepsOrder, JoinKeepsOrder, WhereKeepsOrder, GroupKeepsOrder

\* No statement has a literal yet.
LEMMA NoStatements ==
  ASSUME statements = <<>>
  PROVE  Lists(StatementLists, Len(statements), Literal) /\ StatementLists = <<>>
<1>1. StatementLists = <<>> /\ Len(statements) = 0
  BY EmptySeq DEF StatementLists, MapSeq
<1>. QED
  BY <1>1 DEF Lists

\* From the empty text nothing is read.
LEMMA NothingRead ==
  ASSUME ParserInv, source_ = NoText, ~lexed, Lex
  PROVE  tokens' = tokens
<1>1. Len(source_) = 0 /\ position_ >= 1 /\ position_ <= 1 /\ position_ \in Int
  <2>1. Len(source_) = 0
    BY ParserAssumption
  <2>2. LexTypeOK /\ position_ <= Len(source_) + 1
    BY DEF ParserInv, ParserLexInv, LexInv
  <2>. QED
    BY <2>1, <2>2 DEF LexTypeOK
<1>2. skipWhitespace = 1
  BY <1>1, SkipWhitespaceIs
<1>3. CharAt(1) = Nul
  BY <1>1 DEF CharAt
<1>. QED
  BY <1>1, <1>2, <1>3, CharacterClasses DEF Lex, ReadIdentifier, ReadNumber, ReadSymbol, ReadEnd

LEMMA SourceInitially == Init => SourceInv
<1>. SUFFICES ASSUME Init, source_ = NoText PROVE SourceInv
  BY DEF SourceInv
<1>1. position = 1 /\ clause = "statement" /\ statements = <<>>
  BY DEF Init
<1>2. ~lexed => tokens = <<>>
  BY DEF Init, LexInit
<1>3. \A i \in 1..Len(tokens) : tokens[i].literal = i
  <2>1. tokens = <<>> \/ tokens \in Sources
    BY DEF Init, LexInit
  <2>. QED
    BY <2>1, ParserAssumption, EmptySeq
<1>4. Lists(StatementLists, Len(statements), Literal) /\ FlattenSeq(StatementLists) = <<>>
  BY <1>1, NoStatements, FlattenEmpty
<1>5. 1 \in 1..position /\ Within(FlattenSeq(StatementLists), 1, 1)
  BY <1>1, <1>4, WithinEmpty
<1>. QED
  BY <1>1, <1>2, <1>3, <1>4, <1>5 DEF SourceInv

LEMMA SourceStep ==
  ASSUME ParserInv, SourceInv, Parse, source_ = NoText
  PROVE  SourceInv'
<1>1. lexed' /\ tokens' = tokens
  <2>1. lexed /\ UNCHANGED input
    BY ParseKeepsTokens DEF ParserInv
  <2>. QED
    BY <2>1 DEF input, lexerVars
<1>2. /\ Numbered
      /\ Lists(StatementLists, Len(statements), Literal)
      /\ IsList(statements)
  BY ListFacts DEF SourceInv, Numbered, ParserInv, ParserLexInv, LexInv, SelectsInv
<1>3. PICK first \in 1..position :
        /\ Within(FlattenSeq(StatementLists), 1, first)
        /\ clause \notin {"statement", "done"} => StatementInv(first)
  BY DEF SourceInv
<1>4. /\ position \in Nat /\ position' \in Nat /\ position <= position'
      /\ first \in Nat /\ 1 <= first /\ first <= position
  <2>1. position \in Nat /\ position' \in Nat /\ position' >= position
    BY CursorAdvances, PositionStep DEF ParserInv, PositionInv
  <2>. QED
    BY <2>1
<1>5. \A i \in 1..Len(tokens') : tokens'[i].literal = i
  BY <1>1, <1>2 DEF Numbered
<1>6. ASSUME Lists(StatementLists', Len(statements'), Literal),
             NEW from \in Nat, 1 <= from, from <= position',
             Within(FlattenSeq(StatementLists'), 1, from),
             clause' \notin {"statement", "done"} => StatementInv(from)'
      PROVE  SourceInv'
  <2>1. from \in 1..position'
    BY <1>4, <1>6
  <2>. QED
    BY <1>1, <1>5, <1>6, <2>1 DEF SourceInv
<1>7. CASE ~FinishStatement
  <2>1. statements' = statements
    BY <1>7 DEF Parse, ParseStatement, ParseEnd, ParseColumn, ParseFrom, ParseJoin, ParseWhere,
                ParseGroupBy
  <2>2. StatementLists' = StatementLists
    BY <2>1 DEF StatementLists
  <2>3. clause' \notin {"statement", "done"} => StatementInv(first)'
    <3>1. CASE ParseStatement \/ ParseEnd
      <4>1. \/ clause' \in {"statement", "done"}
            \/ clause' = "columns" /\ stmt' \in {SelectStatement, ExplainStatement}
        BY <3>1 DEF ParseStatement, ParseEnd
      <4>. QED
        BY <4>1, StatementBegins
    <3>2. CASE ParseColumn \/ ParseFrom \/ ParseJoin \/ ParseWhere \/ ParseGroupBy
      <4>1. clause \notin {"statement", "done"}
        BY <3>2 DEF ParseColumn, ParseFrom, ParseJoin, ParseWhere, ParseGroupBy
      <4>2. BeforeClause(first)
        BY <1>2, <1>3, <1>4, <4>1 DEF BeforeClause
      <4>. QED
        BY <3>2, <4>2, ClauseKeepsOrder
    <3>. QED
      BY <1>7, <3>1, <3>2 DEF Parse
  <2>4. first <= position'
    BY <1>4
  <2>. QED
    BY <1>2, <1>3, <1>4, <1>6, <2>1, <2>2, <2>3, <2>4
<1>8. CASE FinishStatement
  <2>1. /\ clause = "finish" /\ clause' = "statement" /\ statements' = Append(statements, stmt)
        /\ position' \in {position + 1, position + 2}
    BY <1>8 DEF FinishStatement
  <2>2. PICK mid, end : mid = position + 1 /\ end = position'
    OBVIOUS
  <2>3. mid \in Nat /\ end \in Nat /\ first <= mid /\ mid <= end /\ 1 <= end
    BY <1>4, <2>1, <2>2
  <2>4. Within(Literals(stmt), first, mid)
    BY <1>3, <2>1, <2>2 DEF StatementInv
  <2>5. Literals(stmt) \in Seq(Literal)
    BY <2>4 DEF Within
  <2>6. /\ Lists(StatementLists', Len(statements'), Literal)
        /\ FlattenSeq(StatementLists') = FlattenSeq(StatementLists) \o Literals(stmt)
    BY <1>2, <2>1, <2>5, StatementsGrow
  <2>7. PICK none : none = 1 /\ none \in Nat /\ none <= first /\ none <= none
    BY <1>4
  <2>8. Within(FlattenSeq(StatementLists'), none, mid)
    BY <1>3, <1>4, <2>3, <2>4, <2>6, <2>7, WithinConcat
  <2>9. Within(FlattenSeq(StatementLists'), 1, end)
    BY <2>3, <2>7, <2>8, WithinWider
  <2>10. end <= position'
    BY <2>2, <2>3
  <2>. QED
    BY <1>6, <2>1, <2>3, <2>6, <2>9, <2>10
<1>. QED
  BY <1>7, <1>8

\* No token of a source is used twice or out of order, whatever the tokens are.
THEOREM SourceOrderCorrect == Spec => []SourceOrder
<1>1. ASSUME ParserInv, SourceInv, [Next]_vars PROVE SourceInv'
  <2>. SUFFICES ASSUME source_' = NoText PROVE SourceInv'
    BY DEF SourceInv
  <2>1. source_ = NoText
    BY <1>1, ParseKeepsTokens
       DEF Next, Parse, ReadToken, Lex, ReadIdentifier, ReadNumber, ReadSymbol, ReadEnd, Deliver,
           ParserInv, vars, input, lexerVars
  <2>2. CASE ReadToken
    <3>1. ~lexed /\ Lex /\ UNCHANGED <<position, clause, statements>> /\ clause = "statement"
      BY <1>1, <2>2 DEF ReadToken, Lex, ReadIdentifier, ReadNumber, ReadSymbol, ReadEnd,
                        ParserInv, ParserLexInv
    <3>2. tokens' = tokens /\ tokens = <<>>
      BY <1>1, <2>1, <3>1, NothingRead DEF SourceInv
    <3>3. StatementLists' = StatementLists
      BY <3>1 DEF StatementLists
    <3>. QED
      BY <1>1, <2>1, <3>1, <3>2, <3>3 DEF SourceInv
  <2>3. CASE Parse
    BY <1>1, <2>1, <2>3, SourceStep
  <2>4. CASE UNCHANGED vars
    <3>1. UNCHANGED <<lexed, tokens, position, clause, stmt, statements>>
      BY <2>4 DEF vars, input, lexerVars
    <3>2. StatementLists' = StatementLists
      BY <3>1 DEF StatementLists
    <3>3. /\ ColumnLists(stmt)' = ColumnLists(stmt) /\ JoinLists(stmt)' = JoinLists(stmt)
          /\ ToColumns(stmt)' = ToColumns(stmt) /\ ToTable(stmt)' = ToTable(stmt)
          /\ ToJoins(stmt)' = ToJoins(stmt) /\ ToWhere(stmt)' = ToWhere(stmt)
          /\ Literals(stmt)' = Literals(stmt) /\ IsStatement(stmt)' = IsStatement(stmt)
      BY <3>1 DEF IsStatement, ColumnLists, JoinLists, ToColumns, ToTable, ToJoins, ToWhere, Literals
    <3>4. ASSUME NEW first, StatementInv(first) PROVE StatementInv(first)'
      BY <3>1, <3>3, <3>4 DEF StatementInv
    <3>. QED
      BY <1>1, <2>1, <3>1, <3>2, <3>4 DEF SourceInv
  <2>. QED
    BY <1>1, <2>2, <2>3, <2>4 DEF Next, Parse
<1>2. SourceInv => SourceOrder
  <2>. SUFFICES ASSUME SourceInv, source_ = NoText PROVE SourceOrder
    BY DEF SourceOrder
  <2>1. PICK used : used = FlattenSeq(StatementLists)
    OBVIOUS
  <2>2. used \in Seq(Literal) /\ Ordered(used, Later)
    BY <2>1 DEF SourceInv, Within
  <2>3. ASSUME NEW i \in 1..Len(used), NEW j \in 1..Len(used),
               i < j, used[i] # EmptyString, used[j] # EmptyString
        PROVE  used[i] < used[j]
    BY <2>2, <2>3 DEF Ordered, Later
  <2>. QED
    BY <2>1, <2>3 DEF SourceOrder, StatementLists
<1>. QED
  BY <1>1, <1>2, ParserInitially, ParserStep, SourceInitially, PTL DEF Spec

-----------------------------------------------------------------------------
(***************************************************************************)
(* The rest of the module proves ParsesBackCorrect: a script whose tokens  *)
(* the lexer delivers is read back as the statements it was written from.  *)
(*                                                                         *)
(* First what each clause finds when the tokens that write it are ahead,   *)
(* then where each clause of each statement is, then the invariant: how    *)
(* many statements have been read, and how far the next one has.           *)
(***************************************************************************)

(* What is ahead of the cursor. *)

Delivers(t, w) == t.type = w.type /\ (w.type \in Named => t.literal = w.literal)

\* The tokens from number p on are the ones that write ws.
Ahead(p, ws) == \A k \in 1..Len(ws) : Delivers(TokenAt(p + k - 1), ws[k])

\* What a token's type or literal may be.
Spellings ==
  STRING \cup Named \cup Keywords \cup {"LPAREN", "RPAREN", "COMMA", "SEMICOLON"}

Tokens == [type : Spellings, literal : Spellings]

LEMMA AheadConcat ==
  ASSUME NEW p \in Nat, NEW S, NEW s \in Seq(S), NEW t \in Seq(S), Ahead(p, s \o t)
  PROVE  Ahead(p, s) /\ Ahead(p + Len(s), t) /\ s \o t \in Seq(S) /\ Len(s \o t) = Len(s) + Len(t)
<1>. DEFINE u == s \o t
<1>1. /\ Len(s) \in Nat /\ Len(t) \in Nat /\ u \in Seq(S)
      /\ Len(u) = Len(s) + Len(t)
      /\ \A i \in 1..Len(s) : i \in 1..Len(u) /\ u[i] = s[i]
      /\ \A i \in 1..Len(t) : Len(s) + i \in 1..Len(u) /\ u[Len(s) + i] = t[i]
  BY ConcatElements
<1>2. PICK l \in Nat, m \in Nat : l = Len(s) /\ m = Len(t)
  BY <1>1
<1>3. \A k \in 1..Len(u) : Delivers(TokenAt(p + k - 1), u[k])
  BY DEF Ahead
<1>. HIDE DEF u
<1>4. Ahead(p, s)
  BY <1>1, <1>3 DEF Ahead
<1>5. ASSUME NEW i \in 1..Len(t) PROVE Delivers(TokenAt(p + Len(s) + i - 1), t[i])
  <2>1. l + i \in 1..Len(u) /\ u[l + i] = t[i] /\ i \in Nat
    BY <1>1, <1>2, <1>5
  <2>2. Delivers(TokenAt(p + (l + i) - 1), u[l + i])
    BY <1>3, <2>1
  <2>3. p + (l + i) - 1 = p + Len(s) + i - 1
    BY <1>2, <2>1
  <2>. QED
    BY <2>1, <2>2, <2>3
<1>. QED
  BY <1>1, <1>4, <1>5 DEF Ahead, u

\* Short lists, token by token.
LEMMA AheadShort ==
  ASSUME NEW p \in Nat
  PROVE  /\ \A w : Ahead(p, <<w>>) <=> Delivers(TokenAt(p), w)
         /\ \A w, x : Ahead(p, <<w, x>>) <=> Delivers(TokenAt(p), w) /\ Delivers(TokenAt(p + 1), x)
         /\ \A w, x, y : Ahead(p, <<w, x, y>>) <=>
              Delivers(TokenAt(p), w) /\ Delivers(TokenAt(p + 1), x) /\ Delivers(TokenAt(p + 2), y)
<1>0. p + 1 - 1 = p /\ p + 2 - 1 = p + 1 /\ p + 3 - 1 = p + 2
  OBVIOUS
<1>1. ASSUME NEW w PROVE Ahead(p, <<w>>) <=> Delivers(TokenAt(p), w)
  <2>1. Len(<<w>>) = 1 /\ 1..1 = {1} /\ <<w>>[1] = w
    OBVIOUS
  <2>. QED
    BY ONLY <1>0, <2>1 DEF Ahead
<1>2. ASSUME NEW w, NEW x
      PROVE Ahead(p, <<w, x>>) <=> Delivers(TokenAt(p), w) /\ Delivers(TokenAt(p + 1), x)
  <2>1. Len(<<w, x>>) = 2 /\ 1..2 = {1, 2} /\ <<w, x>>[1] = w /\ <<w, x>>[2] = x
    OBVIOUS
  <2>. QED
    BY ONLY <1>0, <2>1 DEF Ahead
<1>3. ASSUME NEW w, NEW x, NEW y
      PROVE Ahead(p, <<w, x, y>>) <=>
              Delivers(TokenAt(p), w) /\ Delivers(TokenAt(p + 1), x) /\ Delivers(TokenAt(p + 2), y)
  <2>1. /\ Len(<<w, x, y>>) = 3 /\ 1..3 = {1, 2, 3}
        /\ <<w, x, y>>[1] = w /\ <<w, x, y>>[2] = x /\ <<w, x, y>>[3] = y
    OBVIOUS
  <2>. QED
    BY ONLY <1>0, <2>1 DEF Ahead
<1>. QED
  BY <1>1, <1>2, <1>3

\* Where each of n lists begins when they are written one after the other.
Places(place, p, seqs, n) ==
  /\ place \in [0..n -> Nat]
  /\ place[0] = p
  /\ \A j \in 0..n - 1 : place[j + 1] = place[j] + Len(seqs[j + 1])

LEMMA PlacesExist ==
  ASSUME NEW p \in Nat, NEW S, NEW n \in Nat, NEW seqs, Lists(seqs, n, S)
  PROVE  \E place : Places(place, p, seqs, n)
<1>1. PICK f : IsFlattening(f, n, seqs, S)
  BY FlatteningExists DEF Lists
<1>2. \A j \in 0..n : f[j] \in Seq(S) /\ Len(f[j]) \in Nat
  <2>1. \A j \in 0..n : f[j] \in Seq(S)
    BY <1>1 DEF IsFlattening
  <2>. QED
    BY <2>1, LenProperties
<1>3. ASSUME NEW j \in 0..n - 1 PROVE Len(f[j + 1]) = Len(f[j]) + Len(seqs[j + 1])
  <2>1. j \in 0..n /\ j + 1 \in 1..n /\ j + 1 \in 0..n
    BY <1>3
  <2>2. f[j] \in Seq(S) /\ seqs[j + 1] \in Seq(S)
    BY <1>2, <2>1 DEF Lists
  <2>3. f[j + 1] = f[j] \o seqs[j + 1]
    BY <1>1 DEF IsFlattening
  <2>. QED
    BY <2>2, <2>3, ConcatElements
<1>4. f[0] = <<>> /\ Len(f[0]) = 0
  BY <1>1, ShortSequences DEF IsFlattening
<1>. DEFINE len == [j \in 0..n |-> Len(f[j])]
<1>5. len \in [0..n -> Nat] /\ len[0] = 0
  BY <1>2, <1>4
<1>6. ASSUME NEW j \in 0..n - 1 PROVE len[j + 1] = len[j] + Len(seqs[j + 1])
  <2>1. j \in 0..n /\ j + 1 \in 0..n
    BY <1>6
  <2>2. len[j] = Len(f[j]) /\ len[j + 1] = Len(f[j + 1])
    BY <2>1
  <2>. QED
    BY <1>3, <2>2
<1>. DEFINE place == [j \in 0..n |-> p + len[j]]
<1>. HIDE DEF len
<1>7. place \in [0..n -> Nat] /\ place[0] = p
  BY <1>5
<1>8. ASSUME NEW j \in 0..n - 1 PROVE place[j + 1] = place[j] + Len(seqs[j + 1])
  <2>1. j \in 0..n /\ j + 1 \in 1..n /\ j + 1 \in 0..n
    BY <1>8
  <2>2. Len(seqs[j + 1]) \in Nat /\ len[j] \in Nat
    BY <1>5, <2>1, LenProperties DEF Lists
  <2>. QED
    BY <1>6, <2>1, <2>2
<1>. QED
  BY <1>7, <1>8 DEF Places

LEMMA PlacesFollow ==
  ASSUME NEW p \in Nat, NEW S, NEW n \in Nat, NEW seqs, Lists(seqs, n, S),
         NEW place, Places(place, p, seqs, n), NEW f, IsFlattening(f, n, seqs, S)
  PROVE  /\ \A j \in 0..n : f[j] \in Seq(S) /\ place[j] = p + Len(f[j])
         /\ \A j \in 0..n - 1 : f[j + 1] = f[j] \o seqs[j + 1] /\ seqs[j + 1] \in Seq(S)
<1>1. \A j \in 0..n : f[j] \in Seq(S) /\ Len(f[j]) \in Nat
  <2>1. \A j \in 0..n : f[j] \in Seq(S)
    BY DEF IsFlattening
  <2>. QED
    BY <2>1, LenProperties
<1>2. ASSUME NEW j \in 0..n - 1
      PROVE /\ f[j + 1] = f[j] \o seqs[j + 1] /\ seqs[j + 1] \in Seq(S)
            /\ Len(f[j + 1]) = Len(f[j]) + Len(seqs[j + 1])
  <2>1. j \in 0..n /\ j + 1 \in 1..n
    BY <1>2
  <2>2. f[j] \in Seq(S) /\ seqs[j + 1] \in Seq(S)
    BY <1>1, <2>1 DEF Lists
  <2>3. f[j + 1] = f[j] \o seqs[j + 1]
    BY DEF IsFlattening
  <2>. QED
    BY <2>2, <2>3, ConcatElements
<1>. DEFINE U == {j \in Nat : j <= n => place[j] = p + Len(f[j])}
<1>3. 0 \in U
  <2>1. Len(f[0]) = 0 /\ place[0] = p /\ p + 0 = p
    BY ShortSequences DEF IsFlattening, Places
  <2>. QED
    BY <2>1
<1>4. ASSUME NEW j \in Nat, j \in U PROVE j + 1 \in U
  <2>. SUFFICES ASSUME j + 1 <= n PROVE place[j + 1] = p + Len(f[j + 1])
    OBVIOUS
  <2>1. j \in 0..n - 1 /\ j \in 0..n /\ place[j] = p + Len(f[j]) /\ j + 1 \in 1..n
    BY <1>4
  <2>2. place[j + 1] = place[j] + Len(seqs[j + 1])
    BY <2>1 DEF Places
  <2>3. PICK l \in Nat, m \in Nat : l = Len(f[j]) /\ m = Len(seqs[j + 1])
    BY <1>1, <2>1, LenProperties DEF Lists
  <2>4. Len(f[j + 1]) = l + m
    BY <1>2, <2>1, <2>3
  <2>5. place[j + 1] = (p + l) + m
    BY <2>1, <2>2, <2>3
  <2>6. (p + l) + m = p + (l + m)
    OBVIOUS
  <2>. QED
    BY ONLY <2>4, <2>5, <2>6
<1>5. \A j \in Nat : j \in U
  <2>. HIDE DEF U
  <2>. QED
    BY <1>3, <1>4, Induction
<1>6. \A j \in 0..n : place[j] = p + Len(f[j])
  BY <1>5
<1>. QED
  BY <1>1, <1>2, <1>6

LEMMA PlacesEnd ==
  ASSUME NEW p \in Nat, NEW S, NEW n \in Nat, NEW seqs, Lists(seqs, n, S),
         NEW place, Places(place, p, seqs, n)
  PROVE  /\ FlattenSeq(seqs) \in Seq(S)
         /\ place[n] = p + Len(FlattenSeq(seqs))
<1>1. PICK f : IsFlattening(f, n, seqs, S)
  BY FlatteningExists DEF Lists
<1>2. /\ \A j \in 0..n : f[j] \in Seq(S) /\ place[j] = p + Len(f[j])
      /\ \A j \in 0..n - 1 : f[j + 1] = f[j] \o seqs[j + 1] /\ seqs[j + 1] \in Seq(S)
  BY <1>1, PlacesFollow
<1>3. n \in 0..n /\ FlattenSeq(seqs) = f[n]
  BY <1>1 DEF IsFlattening
<1>. QED
  BY <1>2, <1>3

LEMMA AheadPlaces ==
  ASSUME NEW p \in Nat, NEW S, NEW n \in Nat, NEW seqs, Lists(seqs, n, S),
         NEW place, Places(place, p, seqs, n), Ahead(p, FlattenSeq(seqs))
  PROVE  \A j \in 0..n - 1 : Ahead(place[j], seqs[j + 1])
<1>1. PICK f : IsFlattening(f, n, seqs, S)
  BY FlatteningExists DEF Lists
<1>2. /\ \A j \in 0..n : f[j] \in Seq(S) /\ place[j] = p + Len(f[j])
      /\ \A j \in 0..n - 1 : f[j + 1] = f[j] \o seqs[j + 1] /\ seqs[j + 1] \in Seq(S)
  BY <1>1, PlacesFollow
<1>. DEFINE T == {k \in Nat : k <= n => Ahead(p, f[n - k])}
<1>3. 0 \in T
  BY <1>1 DEF IsFlattening
<1>4. ASSUME NEW k \in Nat, k \in T PROVE k + 1 \in T
  <2>. SUFFICES ASSUME k + 1 <= n PROVE Ahead(p, f[n - (k + 1)])
    OBVIOUS
  <2>. DEFINE j == n - (k + 1)
  <2>1. j \in 0..n - 1 /\ j + 1 = n - k /\ j \in 0..n
    BY <1>4
  <2>2. Ahead(p, f[j + 1])
    BY <1>4, <2>1
  <2>. HIDE DEF j
  <2>3. Ahead(p, f[j] \o seqs[j + 1]) /\ f[j] \in Seq(S) /\ seqs[j + 1] \in Seq(S)
    BY <1>2, <2>1, <2>2
  <2>4. Ahead(p, f[j])
    BY ONLY <2>3, AheadConcat, p \in Nat
  <2>. QED
    BY <2>4 DEF j
<1>5. \A k \in Nat : k \in T
  <2>. HIDE DEF T
  <2>. QED
    BY <1>3, <1>4, Induction
<1>6. ASSUME NEW j \in 0..n PROVE Ahead(p, f[j])
  <2>1. n - j \in Nat /\ n - j <= n /\ n - (n - j) = j
    BY <1>6
  <2>. QED
    BY <1>5, <2>1
<1>7. ASSUME NEW j \in 0..n - 1 PROVE Ahead(place[j], seqs[j + 1])
  <2>1. j \in 0..n /\ j + 1 \in 0..n
    BY <1>7
  <2>2. Ahead(p, f[j] \o seqs[j + 1]) /\ f[j] \in Seq(S) /\ seqs[j + 1] \in Seq(S)
    BY <1>2, <1>6, <2>1
  <2>3. Ahead(p + Len(f[j]), seqs[j + 1])
    BY ONLY <2>2, AheadConcat, p \in Nat
  <2>. QED
    BY <1>2, <2>1, <2>3
<1>. QED
  BY <1>7

-----------------------------------------------------------------------------
(* A column, a condition and a join are read as they were written. *)

\* Lists of tokens, kept from the provers' own notion of sequences.
TokenList(s, n) == s \in Seq(Tokens) /\ Len(s) = n
Joined(u, s, t) == u = s \o t

LEMMA JoinedList ==
  ASSUME NEW s, NEW t, NEW u, NEW n \in Nat, NEW m \in Nat,
         TokenList(s, n), TokenList(t, m), Joined(u, s, t)
  PROVE  TokenList(u, n + m)
BY ConcatElements DEF TokenList, Joined

LEMMA AheadJoined ==
  ASSUME NEW s, NEW t, NEW u, NEW n \in Nat, NEW m \in Nat,
         TokenList(s, n), TokenList(t, m), Joined(u, s, t), NEW p \in Nat, Ahead(p, u)
  PROVE  Ahead(p, s) /\ Ahead(p + n, t)
<1>1. s \in Seq(Tokens) /\ t \in Seq(Tokens) /\ Ahead(p, s \o t) /\ Len(s) = n
  BY DEF TokenList, Joined
<1>. QED
  BY ONLY <1>1, AheadConcat, p \in Nat

LEMMA ShortJoined ==
  /\ \A w, x : <<w>> \o <<x>> = <<w, x>>
  /\ \A w, x, y : <<w, x>> \o <<y>> = <<w, x, y>>
<1>1. ASSUME NEW w, NEW x PROVE <<w>> \o <<x>> = <<w, x>>
  <2>. DEFINE S == {w, x}
  <2>1. <<w>> \in Seq(S) /\ <<x>> \in Seq(S)
    OBVIOUS
  <2>2. PICK u : u = <<w>> \o <<x>>
    OBVIOUS
  <2>3. u \in Seq(S) /\ Len(u) = 2 /\ u[1] = w /\ u[2] = x
    BY <2>1, <2>2
  <2>4. PICK v : v = <<w, x>>
    OBVIOUS
  <2>5. v \in Seq(S) /\ Len(v) = 2 /\ v[1] = w /\ v[2] = x
    BY <2>4
  <2>6. \A i \in 1..2 : u[i] = v[i]
    BY <2>3, <2>5
  <2>. HIDE DEF S
  <2>7. u = v
    BY ONLY <2>3, <2>5, <2>6, SeqEqual
  <2>. QED
    BY <2>2, <2>4, <2>7
<1>2. \A w, x, y : <<w, x, y>> = <<w, x>> \o <<y>>
  OBVIOUS
<1>3. \A w, x, y : <<w, x>> \o <<y>> = <<w, x, y>>
  BY <1>2, Zenon
<1>. QED
  BY <1>1, <1>3, Zenon

LEMMA TypesAreSpellings ==
  /\ "IDENTIFIER" \in Spellings /\ "NUMBER" \in Spellings /\ "STAR" \in Spellings
  /\ "EQUALS" \in Spellings /\ "ILLEGAL" \in Spellings
  /\ "LPAREN" \in Spellings /\ "RPAREN" \in Spellings /\ "COMMA" \in Spellings
  /\ "SELECT" \in Spellings /\ "EXPLAIN" \in Spellings /\ "FROM" \in Spellings
  /\ "JOIN" \in Spellings /\ "ON" \in Spellings /\ "WHERE" \in Spellings
  /\ "GROUP" \in Spellings /\ "BY" \in Spellings /\ "SEMICOLON" \in Spellings
BY DEF Spellings, Keywords, Named

LEMMA TokensWritten ==
  /\ \A type, literal : type \in Spellings /\ literal \in Spellings => Token(type, literal) \in Tokens
  /\ \A type : type \in Spellings => Keyword(type) \in Tokens
BY DEF Token, Keyword, Tokens

LEMMA ShortTokens ==
  /\ TokenList(<<>>, 0)
  /\ \A w \in Tokens : TokenList(<<w>>, 1)
  /\ \A w, x \in Tokens : TokenList(<<w, x>>, 2)
  /\ \A w, x, y \in Tokens : TokenList(<<w, x, y>>, 3)
BY DEF TokenList

ColumnLength(e) == IF e.node = "Identifier" THEN 1 ELSE 4

LEMMA IdentifierIs ==
  ASSUME NEW e \in Identifiers
  PROVE  e = Identifier(e.value) /\ e.node = "Identifier" /\ e.value \in Spellings
BY DEF Identifiers, Identifier, Spellings

LEMMA CallIs ==
  ASSUME NEW e \in FunctionCalls
  PROVE  /\ e.node = "FunctionCall" /\ e.functionName \in Spellings
         /\ e.arguments[1] \in Identifiers
         /\ e = FunctionCall(e.functionName, <<e.arguments[1]>>)
<1>1. /\ e.arguments \in [1..1 -> Identifiers] /\ e.node = "FunctionCall"
      /\ e.functionName \in Spellings
      /\ e = FunctionCall(e.functionName, e.arguments)
  BY DEF FunctionCalls, FunctionCall, Spellings
<1>2. PICK args \in [1..1 -> Identifiers] : args = e.arguments
  BY <1>1
<1>3. args[1] \in Identifiers
  OBVIOUS
<1>4. args = <<args[1]>>
  <2>1. 1..1 = {1}
    OBVIOUS
  <2>. QED
    BY <2>1
<1>. QED
  BY <1>1, <1>2, <1>3, <1>4

CallTokens(e) ==
  <<Token("IDENTIFIER", e.functionName), Keyword("LPAREN"),
    Token(IF e.arguments[1].value = "*" THEN "STAR" ELSE "IDENTIFIER", e.arguments[1].value)>>

LEMMA ColumnTokens ==
  ASSUME NEW e \in Identifiers \cup FunctionCalls
  PROVE  /\ TokenList(WriteColumn(e), ColumnLength(e)) /\ ColumnLength(e) \in {1, 4}
         /\ e.node = "Identifier" => WriteColumn(e) = <<Token("IDENTIFIER", e.value)>>
         /\ e.node # "Identifier" =>
              /\ Joined(WriteColumn(e), CallTokens(e), <<Keyword("RPAREN")>>)
              /\ TokenList(CallTokens(e), 3) /\ TokenList(<<Keyword("RPAREN")>>, 1)
<1>1. CASE e \in Identifiers
  <2>1. WriteColumn(e) = <<Token("IDENTIFIER", e.value)>> /\ e.node = "Identifier"
    BY <1>1, IdentifierIs DEF WriteColumn, WriteIdentifier
  <2>2. Token("IDENTIFIER", e.value) \in Tokens
    BY <1>1, IdentifierIs, TypesAreSpellings, TokensWritten
  <2>. QED
    BY <2>1, <2>2, ShortTokens DEF ColumnLength
<1>2. CASE e \in FunctionCalls
  <2>1. e.node # "Identifier"
    BY <1>2, CallIs
  <2>2. Joined(WriteColumn(e), CallTokens(e), <<Keyword("RPAREN")>>)
    BY <2>1, ShortJoined DEF WriteColumn, CallTokens, Joined
  <2>3. e.functionName \in Spellings /\ e.arguments[1].value \in Spellings
    BY <1>2, CallIs, IdentifierIs
  <2>4. /\ Token("IDENTIFIER", e.functionName) \in Tokens
        /\ Keyword("LPAREN") \in Tokens /\ Keyword("RPAREN") \in Tokens
        /\ Token(IF e.arguments[1].value = "*" THEN "STAR" ELSE "IDENTIFIER",
                 e.arguments[1].value) \in Tokens
    BY ONLY <2>3, TypesAreSpellings, TokensWritten
  <2>5. TokenList(CallTokens(e), 3) /\ TokenList(<<Keyword("RPAREN")>>, 1)
    BY <2>4, ShortTokens DEF CallTokens
  <2>6. TokenList(WriteColumn(e), 3 + 1)
    BY <2>2, <2>5, JoinedList
  <2>. QED
    BY <2>1, <2>2, <2>5, <2>6 DEF ColumnLength
<1>. QED
  BY <1>1, <1>2

LEMMA ColumnReadsBack ==
  ASSUME NEW e \in Identifiers \cup FunctionCalls, NEW p \in Nat,
         Ahead(p, WriteColumn(e)), ~Is(p + ColumnLength(e), "LPAREN")
  PROVE  /\ Is(p, "IDENTIFIER")
         /\ ParsedColumn(p) = e
         /\ AfterColumn(p) = p + ColumnLength(e)
<1>1. CASE e \in Identifiers
  <2>1. e.node = "Identifier" /\ e = Identifier(e.value)
    BY <1>1, IdentifierIs
  <2>2. Delivers(TokenAt(p), Token("IDENTIFIER", e.value))
    BY <2>1, ColumnTokens, AheadShort
  <2>3. TokenAt(p).type = "IDENTIFIER" /\ TokenAt(p).literal = e.value
    BY <2>2 DEF Delivers, Token, Named
  <2>4. ~IsCall(p)
    BY <2>1 DEF IsCall, ColumnLength
  <2>. QED
    BY <2>1, <2>3, <2>4 DEF ParsedColumn, AfterColumn, Is, ColumnLength
<1>2. CASE e \in FunctionCalls
  <2>1. /\ e.node # "Identifier" /\ e = FunctionCall(e.functionName, <<e.arguments[1]>>)
        /\ e.arguments[1] = Identifier(e.arguments[1].value)
    BY <1>2, CallIs, IdentifierIs
  <2>2. Ahead(p, CallTokens(e)) /\ Ahead(p + 3, <<Keyword("RPAREN")>>)
    BY <2>1, ColumnTokens, AheadJoined
  <2>3. /\ Delivers(TokenAt(p), Token("IDENTIFIER", e.functionName))
        /\ Delivers(TokenAt(p + 1), Keyword("LPAREN"))
        /\ Delivers(TokenAt(p + 2), Token(IF e.arguments[1].value = "*" THEN "STAR" ELSE "IDENTIFIER",
                                         e.arguments[1].value))
    BY <2>2, AheadShort DEF CallTokens
  <2>4. Delivers(TokenAt(p + 3), Keyword("RPAREN"))
    BY <2>2, AheadShort
  <2>5. /\ Is(p, "IDENTIFIER") /\ TokenAt(p).literal = e.functionName
        /\ IsCall(p) /\ HasArg(p) /\ TokenAt(p + 2).literal = e.arguments[1].value
        /\ Is(p + 3, "RPAREN")
    BY <2>3, <2>4 DEF Delivers, Token, Keyword, Named, Is, IsCall, HasArg
  <2>. QED
    BY <2>1, <2>5 DEF ParsedColumn, AfterColumn, AfterArg, ColumnLength
<1>. QED
  BY <1>1, <1>2

ConditionTokens(e) ==
  <<Token("IDENTIFIER", e.left.value), Token(IF e.op = "=" THEN "EQUALS" ELSE "ILLEGAL", e.op),
    Token(IF e.right.node = "NumberLiteral" THEN "NUMBER" ELSE "IDENTIFIER", e.right.value)>>

LEMMA ConditionTokensWritten ==
  ASSUME NEW e \in BinaryExpressions
  PROVE  WriteCondition(e) = ConditionTokens(e) /\ TokenList(WriteCondition(e), 3)
<1>. DEFINE a == Token("IDENTIFIER", e.left.value)
            o == Token(IF e.op = "=" THEN "EQUALS" ELSE "ILLEGAL", e.op)
            b == Token(IF e.right.node = "NumberLiteral" THEN "NUMBER" ELSE "IDENTIFIER",
                       e.right.value)
<1>1. WriteCondition(e) = ConditionTokens(e)
  <2>1. WriteCondition(e) = (<<a>> \o <<o>>) \o <<b>> /\ ConditionTokens(e) = <<a, o, b>>
    BY DEF WriteCondition, WriteIdentifier, ConditionTokens
  <2>. HIDE DEF a, o, b
  <2>2. <<a>> \o <<o>> = <<a, o>>
    BY ShortJoined, Zenon
  <2>3. <<a, o>> \o <<b>> = <<a, o, b>>
    BY ShortJoined, Zenon
  <2>. QED
    BY ONLY <2>1, <2>2, <2>3, Zenon
<1>2. e.left.value \in Spellings /\ e.op \in Spellings /\ e.right.value \in Spellings
  BY DEF BinaryExpressions, Identifiers, NumberLiterals, Spellings
<1>3. /\ Token("IDENTIFIER", e.left.value) \in Tokens
      /\ Token(IF e.op = "=" THEN "EQUALS" ELSE "ILLEGAL", e.op) \in Tokens
      /\ Token(IF e.right.node = "NumberLiteral" THEN "NUMBER" ELSE "IDENTIFIER",
               e.right.value) \in Tokens
  BY ONLY <1>2, TypesAreSpellings, TokensWritten
<1>4. TokenList(ConditionTokens(e), 3)
  BY <1>3, ShortTokens DEF ConditionTokens
<1>. QED
  BY <1>1, <1>4

LEMMA ConditionReadsBack ==
  ASSUME NEW e \in BinaryExpressions, NEW p \in Nat, Ahead(p, WriteCondition(e))
  PROVE  /\ ParsedExpression(p) = e
         /\ TokenAt(p + 2).type \in {"IDENTIFIER", "NUMBER"}
<1>1. /\ e.left = Identifier(e.left.value)
      /\ e.right = IF e.right.node = "NumberLiteral" THEN NumberLiteral(e.right.value)
                                                  ELSE Identifier(e.right.value)
      /\ e = BinaryExpression(e.left, e.op, e.right)
  BY DEF BinaryExpressions, Identifiers, NumberLiterals, Identifier, NumberLiteral, BinaryExpression
<1>2. /\ Delivers(TokenAt(p), Token("IDENTIFIER", e.left.value))
      /\ Delivers(TokenAt(p + 1), Token(IF e.op = "=" THEN "EQUALS" ELSE "ILLEGAL", e.op))
      /\ Delivers(TokenAt(p + 2), Token(IF e.right.node = "NumberLiteral" THEN "NUMBER" ELSE "IDENTIFIER",
                                       e.right.value))
  BY ConditionTokensWritten, AheadShort DEF ConditionTokens
<1>3. /\ TokenAt(p).literal = e.left.value /\ TokenAt(p + 1).literal = e.op
      /\ TokenAt(p + 2).literal = e.right.value
      /\ TokenAt(p + 2).type = IF e.right.node = "NumberLiteral" THEN "NUMBER" ELSE "IDENTIFIER"
  BY <1>2 DEF Delivers, Token, Named
<1>4. Is(p + 2, "NUMBER") <=> e.right.node = "NumberLiteral"
  BY <1>3 DEF Is
<1>. QED
  BY <1>1, <1>3, <1>4 DEF ParsedExpression

JoinTokens(j) == <<Keyword("JOIN"), Token("IDENTIFIER", j.tableName), Keyword("ON")>>

LEMMA JoinTokensWritten ==
  ASSUME NEW j \in JoinClauses
  PROVE  /\ Joined(WriteJoin(j), JoinTokens(j), WriteCondition(j.condition))
         /\ TokenList(JoinTokens(j), 3) /\ TokenList(WriteCondition(j.condition), 3)
         /\ TokenList(WriteJoin(j), 6)
<1>1. j.condition \in BinaryExpressions /\ j.tableName \in Spellings
  BY DEF JoinClauses, Spellings
<1>2. /\ Keyword("JOIN") \in Tokens /\ Keyword("ON") \in Tokens
      /\ Token("IDENTIFIER", j.tableName) \in Tokens
  BY ONLY <1>1, TypesAreSpellings, TokensWritten
<1>3. TokenList(JoinTokens(j), 3)
  BY <1>2, ShortTokens DEF JoinTokens
<1>4. Joined(WriteJoin(j), JoinTokens(j), WriteCondition(j.condition))
  BY DEF WriteJoin, JoinTokens, Joined
<1>5. TokenList(WriteCondition(j.condition), 3)
  BY <1>1, ConditionTokensWritten
<1>6. TokenList(WriteJoin(j), 3 + 3)
  BY <1>3, <1>4, <1>5, JoinedList
<1>. QED
  BY <1>3, <1>4, <1>5, <1>6

LEMMA JoinReadsBack ==
  ASSUME NEW j \in JoinClauses, NEW p \in Nat, Ahead(p, WriteJoin(j))
  PROVE  Is(p, "JOIN") /\ ParsedJoin(p) = j /\ ConditionAt(p) + 3 = p + 6
<1>1. j.condition \in BinaryExpressions /\ j = JoinClause(j.tableName, j.condition)
  BY DEF JoinClauses, JoinClause
<1>2. Ahead(p, JoinTokens(j)) /\ Ahead(p + 3, WriteCondition(j.condition))
  BY JoinTokensWritten, AheadJoined
<1>3. /\ Delivers(TokenAt(p), Keyword("JOIN"))
      /\ Delivers(TokenAt(p + 1), Token("IDENTIFIER", j.tableName))
      /\ Delivers(TokenAt(p + 2), Keyword("ON"))
  BY <1>2, AheadShort DEF JoinTokens
<1>4. /\ Is(p, "JOIN") /\ Is(p + 1, "IDENTIFIER") /\ Is(p + 2, "ON")
      /\ TokenAt(p + 1).literal = j.tableName
  BY <1>3 DEF Delivers, Token, Keyword, Named, Is
<1>5. ConditionAt(p) = p + 3
  BY <1>4 DEF ConditionAt, OnAt
<1>6. ParsedExpression(p + 3) = j.condition
  BY <1>1, <1>2, ConditionReadsBack
<1>. QED
  BY <1>1, <1>4, <1>5, <1>6 DEF ParsedJoin

-----------------------------------------------------------------------------
(* Lists of columns, joins and groups. *)

\* What CommaSeparated puts together: each list but the first behind a comma.
CommaBefore(i) == IF i = 1 THEN 0 ELSE 1

Words(lists) ==
  [i \in 1..Len(lists) |-> IF i = 1 THEN lists[i] ELSE <<Keyword("COMMA")>> \o lists[i]]

LEMMA WordsWritten ==
  ASSUME NEW lists, NEW n \in Nat, Len(lists) = n, NEW len \in [1..n -> Nat],
         \A i \in 1..n : TokenList(lists[i], len[i])
  PROVE  /\ CommaSeparated(lists) = FlattenSeq(Words(lists))
         /\ Lists(Words(lists), n, Tokens)
         /\ \A i \in 1..n : Len(Words(lists)[i]) = CommaBefore(i) + len[i]
<1>1. TokenList(<<Keyword("COMMA")>>, 1)
  BY TypesAreSpellings, TokensWritten, ShortTokens
<1>2. ASSUME NEW i \in 1..n PROVE TokenList(Words(lists)[i], CommaBefore(i) + len[i])
  <2>1. CASE i = 1
    <3>1. Words(lists)[i] = lists[i] /\ CommaBefore(i) + len[i] = len[i]
      BY <2>1 DEF Words, CommaBefore
    <3>. QED
      BY <3>1
  <2>2. CASE i # 1
    <3>1. Joined(Words(lists)[i], <<Keyword("COMMA")>>, lists[i])
      BY <2>2 DEF Words, Joined
    <3>2. TokenList(Words(lists)[i], 1 + len[i])
      BY <1>1, <3>1, JoinedList
    <3>. QED
      BY <2>2, <3>2 DEF CommaBefore
  <2>. QED
    BY <2>1, <2>2
<1>3. \A i \in 1..n : Words(lists)[i] \in Seq(Tokens) /\ Len(Words(lists)[i]) = CommaBefore(i) + len[i]
  BY <1>2 DEF TokenList
<1>4. Words(lists) = [i \in 1..n |-> Words(lists)[i]]
  BY DEF Words
<1>5. Lists(Words(lists), n, Tokens)
  BY <1>3, <1>4 DEF Lists
<1>. QED
  BY <1>3, <1>5 DEF CommaSeparated, Words

LEMMA WordsAhead ==
  ASSUME NEW lists, NEW n \in Nat, Len(lists) = n, NEW len \in [1..n -> Nat],
         \A i \in 1..n : TokenList(lists[i], len[i]),
         NEW i \in 1..n, NEW p \in Nat, Ahead(p, Words(lists)[i])
  PROVE  /\ i # 1 => Is(p, "COMMA")
         /\ Ahead(p + CommaBefore(i), lists[i])
<1>1. TokenList(<<Keyword("COMMA")>>, 1)
  BY TypesAreSpellings, TokensWritten, ShortTokens
<1>2. CASE i = 1
  <2>1. Words(lists)[i] = lists[i] /\ p + CommaBefore(i) = p
    BY <1>2 DEF Words, CommaBefore
  <2>. QED
    BY <1>2, <2>1
<1>3. CASE i # 1
  <2>1. Joined(Words(lists)[i], <<Keyword("COMMA")>>, lists[i])
    BY <1>3 DEF Words, Joined
  <2>2. Ahead(p, <<Keyword("COMMA")>>) /\ Ahead(p + 1, lists[i])
    BY <1>1, <2>1, AheadJoined
  <2>3. Is(p, "COMMA")
    BY <2>2, AheadShort DEF Delivers, Keyword, Token, Is
  <2>. QED
    BY <1>3, <2>2, <2>3 DEF CommaBefore
<1>. QED
  BY <1>2, <1>3

ColumnWords(columns) == Words(MapSeq(WriteColumn, columns))

\* The lists of a list of columns, and their lengths.
ColumnsAre(columns, n, lists, len) ==
  /\ lists = MapSeq(WriteColumn, columns) /\ Len(lists) = n
  /\ len \in [1..n -> Nat]
  /\ \A i \in 1..n : /\ columns[i] \in Identifiers \cup FunctionCalls
                   /\ lists[i] = WriteColumn(columns[i])
                   /\ len[i] = ColumnLength(columns[i])
                   /\ TokenList(lists[i], len[i])

LEMMA ColumnWordsWritten ==
  ASSUME NEW columns \in Seq(Identifiers \cup FunctionCalls), NEW n \in Nat, n = Len(columns)
  PROVE  \E lists, len : ColumnsAre(columns, n, lists, len)
<1>1. PICK lists : lists = MapSeq(WriteColumn, columns)
  OBVIOUS
<1>2. Len(lists) = n /\ \A i \in 1..n : lists[i] = WriteColumn(columns[i])
  BY <1>1 DEF MapSeq
<1>3. \A i \in 1..n : columns[i] \in Identifiers \cup FunctionCalls
  BY ElementOfSeq
<1>4. PICK len : len = [i \in 1..n |-> ColumnLength(columns[i])]
  OBVIOUS
<1>5. len \in [1..n -> Nat] /\ \A i \in 1..n : len[i] = ColumnLength(columns[i])
  BY <1>4 DEF ColumnLength
<1>6. \A i \in 1..n : TokenList(lists[i], len[i])
  BY <1>2, <1>3, <1>5, ColumnTokens
<1>. QED
  BY <1>1, <1>2, <1>3, <1>5, <1>6 DEF ColumnsAre

LEMMA ColumnsWritten ==
  ASSUME NEW columns \in Seq(Identifiers \cup FunctionCalls), NEW n \in Nat, n = Len(columns)
  PROVE  /\ CommaSeparated(MapSeq(WriteColumn, columns)) = FlattenSeq(ColumnWords(columns))
         /\ Lists(ColumnWords(columns), n, Tokens)
<1>0. PICK lists, len : ColumnsAre(columns, n, lists, len)
  BY ColumnWordsWritten
<1>1. /\ lists = MapSeq(WriteColumn, columns) /\ Len(lists) = n
      /\ len \in [1..n -> Nat]
      /\ \A i \in 1..n : TokenList(lists[i], len[i])
  BY <1>0 DEF ColumnsAre
<1>2. CommaSeparated(lists) = FlattenSeq(Words(lists)) /\ Lists(Words(lists), n, Tokens)
  BY <1>1, WordsWritten
<1>. QED
  BY <1>1, <1>2 DEF ColumnWords

\* A column is read from token i on, and leaves the cursor on token after.
ColumnAt(i, e, after) ==
  Is(i, "IDENTIFIER") /\ ParsedColumn(i) = e /\ AfterColumn(i) = after

LEMMA ColumnsReadBack ==
  ASSUME NEW columns \in Seq(Identifiers \cup FunctionCalls), NEW n \in Nat, n = Len(columns),
         NEW p \in Nat, Ahead(p, CommaSeparated(MapSeq(WriteColumn, columns))),
         NEW c, Places(c, p, ColumnWords(columns), n), Is(c[n], "FROM")
  PROVE  \A j \in 0..n - 1 :
           /\ j > 0 => Is(c[j], "COMMA")
           /\ ColumnAt(c[j] + CommaBefore(j + 1), columns[j + 1], c[j + 1])
<1>0. PICK lists, len : ColumnsAre(columns, n, lists, len)
  BY ColumnWordsWritten
<1>1. /\ lists = MapSeq(WriteColumn, columns) /\ Len(lists) = n
      /\ len \in [1..n -> Nat]
      /\ \A i \in 1..n : /\ columns[i] \in Identifiers \cup FunctionCalls
                       /\ lists[i] = WriteColumn(columns[i])
                       /\ len[i] = ColumnLength(columns[i])
                       /\ TokenList(lists[i], len[i])
  BY <1>0 DEF ColumnsAre
<1>2. PICK words : words = Words(lists) /\ words = ColumnWords(columns)
  BY <1>1 DEF ColumnWords
<1>3. /\ CommaSeparated(lists) = FlattenSeq(words) /\ Lists(words, n, Tokens)
      /\ \A i \in 1..n : Len(words[i]) = CommaBefore(i) + len[i]
  BY <1>1, <1>2, WordsWritten, ZenonT(60)
<1>4. \A j \in 0..n - 1 : Ahead(c[j], words[j + 1])
  <2>1. Ahead(p, FlattenSeq(words)) /\ Places(c, p, words, n)
    BY <1>1, <1>2, <1>3
  <2>. QED
    BY ONLY <1>3, <2>1, AheadPlaces, p \in Nat, n \in Nat
<1>5. \A j \in 0..n - 1 : c[j] \in Nat /\ c[j + 1] = c[j] + Len(words[j + 1])
  <2>1. Places(c, p, words, n) /\ n \in Nat
    BY <1>2
  <2>2. c \in [0..n -> Nat] /\ \A j \in 0..n - 1 : j \in 0..n
    BY ONLY <2>1 DEF Places
  <2>. QED
    BY ONLY <2>1, <2>2 DEF Places
<1>6. ASSUME NEW j \in 0..n - 1
      PROVE  /\ j > 0 => Is(c[j], "COMMA")
             /\ Ahead(c[j] + CommaBefore(j + 1), lists[j + 1])
  <2>1. j + 1 \in 1..n /\ (j > 0 => j + 1 # 1) /\ c[j] \in Nat /\ Ahead(c[j], words[j + 1])
    BY <1>4, <1>5, <1>6
  <2>. QED
    BY <1>1, <1>2, <2>1, WordsAhead
<1>7. ASSUME NEW j \in 0..n - 1
      PROVE  ColumnAt(c[j] + CommaBefore(j + 1), columns[j + 1], c[j + 1])
  <2>1. j + 1 \in 1..n /\ c[j] \in Nat /\ CommaBefore(j + 1) \in Nat /\ len[j + 1] \in Nat
    BY <1>1, <1>5, <1>7 DEF CommaBefore
  <2>2. PICK q \in Nat : q = c[j] + CommaBefore(j + 1)
    BY <2>1
  <2>3. c[j + 1] = c[j] + (CommaBefore(j + 1) + len[j + 1])
    BY <1>3, <1>5, <1>7, <2>1
  <2>4. c[j + 1] = q + len[j + 1]
    BY <2>1, <2>2, <2>3
  <2>5. ~Is(c[j + 1], "LPAREN")
    <3>1. CASE j + 1 = n
      BY <3>1 DEF Is
    <3>2. CASE j + 1 # n
      <4>1. j + 1 \in 0..n - 1 /\ j + 1 > 0
        BY <1>7, <3>2
      <4>2. Is(c[j + 1], "COMMA")
        BY <1>6, <4>1
      <4>. QED
        BY <4>2 DEF Is
    <3>. QED
      BY <3>1, <3>2
  <2>6. PICK e \in Identifiers \cup FunctionCalls : e = columns[j + 1]
    BY <1>1, <2>1
  <2>7. Ahead(q, WriteColumn(e)) /\ len[j + 1] = ColumnLength(e)
    BY <1>1, <1>6, <1>7, <2>1, <2>2, <2>6
  <2>8. Is(q, "IDENTIFIER") /\ ParsedColumn(q) = e /\ AfterColumn(q) = q + ColumnLength(e)
    BY <2>4, <2>5, <2>7, ColumnReadsBack
  <2>. QED
    BY <2>2, <2>4, <2>6, <2>7, <2>8 DEF ColumnAt
<1>. QED
  BY <1>6, <1>7

\* Joins take six tokens each.
LEMMA JoinsWritten ==
  ASSUME NEW joins \in Seq(JoinClauses), NEW n \in Nat, n = Len(joins), NEW p \in Nat
  PROVE  /\ Lists(MapSeq(WriteJoin, joins), n, Tokens)
         /\ Places([j \in 0..n |-> p + 6 * j], p, MapSeq(WriteJoin, joins), n)
<1>1. PICK lists : lists = MapSeq(WriteJoin, joins)
  OBVIOUS
<1>2. lists = [i \in 1..n |-> WriteJoin(joins[i])]
  BY <1>1 DEF MapSeq
<1>3. ASSUME NEW i \in 1..n PROVE TokenList(lists[i], 6)
  <2>1. joins[i] \in JoinClauses
    BY ElementOfSeq
  <2>2. TokenList(WriteJoin(joins[i]), 6)
    BY ONLY <2>1, JoinTokensWritten
  <2>. QED
    BY <1>2, <2>2
<1>4. \A i \in 1..n : lists[i] \in Seq(Tokens) /\ Len(lists[i]) = 6
  BY <1>3 DEF TokenList
<1>5. Lists(lists, n, Tokens)
  BY <1>2, <1>4 DEF Lists
<1>. DEFINE place == [j \in 0..n |-> p + 6 * j]
<1>6. place \in [0..n -> Nat] /\ place[0] = p
  OBVIOUS
<1>7. ASSUME NEW j \in 0..n - 1 PROVE place[j + 1] = place[j] + Len(lists[j + 1])
  <2>1. j + 1 \in 1..n /\ j \in 0..n /\ j + 1 \in 0..n
    BY <1>7
  <2>2. place[j] = p + 6 * j /\ place[j + 1] = p + 6 * (j + 1) /\ Len(lists[j + 1]) = 6
    BY <1>4, <2>1
  <2>. QED
    BY <1>7, <2>2
<1>8. Places(place, p, lists, n)
  BY <1>6, <1>7 DEF Places
<1>. QED
  BY <1>1, <1>5, <1>8

LEMMA JoinsReadBack ==
  ASSUME NEW joins \in Seq(JoinClauses), NEW n \in Nat, n = Len(joins), NEW p \in Nat,
         Ahead(p, FlattenSeq(MapSeq(WriteJoin, joins)))
  PROVE  \A j \in 0..n - 1 :
           /\ Is(p + 6 * j, "JOIN") /\ ParsedJoin(p + 6 * j) = joins[j + 1]
           /\ ConditionAt(p + 6 * j) + 3 = p + 6 * (j + 1)
<1>1. PICK lists, place : lists = MapSeq(WriteJoin, joins) /\ place = [j \in 0..n |-> p + 6 * j]
  OBVIOUS
<1>2. Lists(lists, n, Tokens) /\ Places(place, p, lists, n) /\ Ahead(p, FlattenSeq(lists))
  BY <1>1, JoinsWritten
<1>3. \A j \in 0..n - 1 : Ahead(place[j], lists[j + 1])
  BY ONLY <1>2, AheadPlaces, p \in Nat, n \in Nat
<1>4. ASSUME NEW j \in 0..n - 1
      PROVE  /\ Is(p + 6 * j, "JOIN") /\ ParsedJoin(p + 6 * j) = joins[j + 1]
             /\ ConditionAt(p + 6 * j) + 3 = p + 6 * (j + 1)
  <2>1. j + 1 \in 1..n /\ j \in 0..n /\ p + 6 * j \in Nat /\ p + 6 * (j + 1) = (p + 6 * j) + 6
    BY <1>4
  <2>2. PICK q \in Nat : q = p + 6 * j
    BY <2>1
  <2>3. joins[j + 1] \in JoinClauses
    BY <2>1, ElementOfSeq
  <2>4. lists[j + 1] = WriteJoin(joins[j + 1])
    BY <1>1, <2>1 DEF MapSeq
  <2>5. Ahead(q, WriteJoin(joins[j + 1]))
    BY <1>1, <1>3, <1>4, <2>1, <2>2, <2>4
  <2>6. Is(q, "JOIN") /\ ParsedJoin(q) = joins[j + 1] /\ ConditionAt(q) + 3 = q + 6
    BY ONLY <2>2, <2>3, <2>5, JoinReadsBack
  <2>. QED
    BY <2>1, <2>2, <2>6
<1>. QED
  BY <1>4

\* The names of a GROUP BY stand two tokens apart.
GroupWords(names) == Words(MapSeq(WriteIdentifier, names))

GroupPlaces(p, n) == [j \in 0..n |-> IF j = 0 THEN p ELSE p + 2 * j - 1]

GroupsAre(names, n, lists, len) ==
  /\ lists = MapSeq(WriteIdentifier, names) /\ Len(lists) = n
  /\ len = [i \in 1..n |-> 1]
  /\ \A i \in 1..n : /\ names[i] \in Identifiers
                   /\ lists[i] = <<Token("IDENTIFIER", names[i].value)>>
                   /\ TokenList(lists[i], 1)

LEMMA GroupWordsWritten ==
  ASSUME NEW names \in Seq(Identifiers), NEW n \in Nat, n = Len(names)
  PROVE  \E lists, len : GroupsAre(names, n, lists, len)
<1>1. PICK lists, len : lists = MapSeq(WriteIdentifier, names) /\ len = [i \in 1..n |-> 1]
  OBVIOUS
<1>2. /\ Len(lists) = n
      /\ \A i \in 1..n : lists[i] = <<Token("IDENTIFIER", names[i].value)>>
  BY <1>1 DEF MapSeq, WriteIdentifier
<1>3. \A i \in 1..n : names[i] \in Identifiers
  BY ElementOfSeq
<1>4. \A i \in 1..n : Token("IDENTIFIER", names[i].value) \in Tokens
  BY <1>3, IdentifierIs, TypesAreSpellings, TokensWritten
<1>5. \A i \in 1..n : TokenList(lists[i], 1)
  BY <1>2, <1>4, ShortTokens
<1>. QED
  BY <1>1, <1>2, <1>3, <1>5 DEF GroupsAre

LEMMA GroupWritten ==
  ASSUME NEW names \in Seq(Identifiers), NEW n \in Nat, n = Len(names), NEW p \in Nat
  PROVE  /\ CommaSeparated(MapSeq(WriteIdentifier, names)) = FlattenSeq(GroupWords(names))
         /\ Lists(GroupWords(names), n, Tokens)
         /\ Places(GroupPlaces(p, n), p, GroupWords(names), n)
<1>1. PICK lists, len : GroupsAre(names, n, lists, len)
  BY GroupWordsWritten
<1>2. /\ lists = MapSeq(WriteIdentifier, names) /\ Len(lists) = n
      /\ len \in [1..n -> Nat] /\ \A i \in 1..n : len[i] = 1
      /\ \A i \in 1..n : TokenList(lists[i], len[i])
  BY <1>1 DEF GroupsAre
<1>3. PICK words : words = Words(lists) /\ words = GroupWords(names)
  BY <1>2 DEF GroupWords
<1>4. /\ CommaSeparated(lists) = FlattenSeq(words) /\ Lists(words, n, Tokens)
      /\ \A i \in 1..n : Len(words[i]) = CommaBefore(i) + len[i]
  <2>1. Len(lists) = n /\ len \in [1..n -> Nat] /\ \A i \in 1..n : TokenList(lists[i], len[i])
    BY <1>2
  <2>2. /\ CommaSeparated(lists) = FlattenSeq(Words(lists)) /\ Lists(Words(lists), n, Tokens)
        /\ \A i \in 1..n : Len(Words(lists)[i]) = CommaBefore(i) + len[i]
    BY ONLY <2>1, WordsWritten, n \in Nat, ZenonT(60)
  <2>. QED
    BY <1>3, <2>2
<1>5. PICK place : place = GroupPlaces(p, n)
  OBVIOUS
<1>6. place \in [0..n -> Nat] /\ place[0] = p
  BY ONLY <1>5, p \in Nat, n \in Nat DEF GroupPlaces
<1>7. ASSUME NEW j \in 0..n - 1 PROVE place[j + 1] = place[j] + Len(words[j + 1])
  <2>1. j + 1 \in 1..n /\ j \in 0..n /\ j + 1 \in 0..n /\ j + 1 # 0
    BY <1>7
  <2>2. Len(words[j + 1]) = IF j = 0 THEN 1 ELSE 2
    BY <1>2, <1>4, <1>7, <2>1 DEF CommaBefore
  <2>3. place[j + 1] = p + 2 * (j + 1) - 1 /\ place[j] = IF j = 0 THEN p ELSE p + 2 * j - 1
    BY ONLY <1>5, <2>1 DEF GroupPlaces
  <2>. QED
    BY ONLY <1>7, <2>2, <2>3, p \in Nat, n \in Nat
<1>8. Places(place, p, words, n)
  BY <1>6, <1>7 DEF Places
<1>. QED
  BY <1>2, <1>3, <1>4, <1>5, <1>8

LEMMA GroupTokens ==
  ASSUME NEW names \in Seq(Identifiers), NEW n \in Nat, n = Len(names), NEW p \in Nat,
         Ahead(p, CommaSeparated(MapSeq(WriteIdentifier, names)))
  PROVE  /\ \A j \in 0..n - 1 : GroupName(p + 2 * j) = <<names[j + 1]>> /\ Is(p + 2 * j, "IDENTIFIER")
         /\ \A j \in 1..n - 1 : GroupName(p + 2 * j - 1) = <<>> /\ Is(p + 2 * j - 1, "COMMA")
<1>1. PICK lists, len : GroupsAre(names, n, lists, len)
  BY GroupWordsWritten
<1>2. /\ lists = MapSeq(WriteIdentifier, names) /\ Len(lists) = n
      /\ len \in [1..n -> Nat] /\ \A i \in 1..n : len[i] = 1
      /\ \A i \in 1..n : TokenList(lists[i], len[i])
  BY <1>1 DEF GroupsAre
<1>3. PICK words, place : words = Words(lists) /\ words = GroupWords(names) /\ place = GroupPlaces(p, n)
  BY <1>2 DEF GroupWords
<1>4. /\ Lists(words, n, Tokens) /\ Ahead(p, FlattenSeq(words))
      /\ Places(place, p, words, n)
  BY <1>2, <1>3, GroupWritten
<1>5. \A j \in 0..n - 1 : Ahead(place[j], words[j + 1])
  BY ONLY <1>4, AheadPlaces, p \in Nat, n \in Nat
<1>6. ASSUME NEW j \in 0..n - 1
      PROVE  /\ j # 0 => Is(p + 2 * j - 1, "COMMA")
             /\ Ahead(p + 2 * j, lists[j + 1])
  <2>1. j + 1 \in 1..n /\ j \in 0..n /\ (j # 0 <=> j + 1 # 1)
    BY <1>6
  <2>2. PICK q \in Nat : q = place[j] /\ q = IF j = 0 THEN p ELSE p + 2 * j - 1
    BY ONLY <1>3, <2>1, p \in Nat DEF GroupPlaces
  <2>3. Ahead(q, words[j + 1])
    BY <1>5, <1>6, <2>2
  <2>4. (j + 1 # 1 => Is(q, "COMMA")) /\ Ahead(q + CommaBefore(j + 1), lists[j + 1])
    BY <1>2, <1>3, <2>1, <2>3, WordsAhead, ZenonT(60)
  <2>5. q + CommaBefore(j + 1) = p + 2 * j
    BY <2>1, <2>2 DEF CommaBefore
  <2>. QED
    BY <2>1, <2>2, <2>4, <2>5
<1>7. ASSUME NEW j \in 0..n - 1
      PROVE  GroupName(p + 2 * j) = <<names[j + 1]>> /\ Is(p + 2 * j, "IDENTIFIER")
  <2>1. j + 1 \in 1..n /\ p + 2 * j \in Nat
    BY <1>7
  <2>2. PICK e \in Identifiers : e = names[j + 1] /\ lists[j + 1] = <<Token("IDENTIFIER", e.value)>>
    BY <1>1, <2>1 DEF GroupsAre
  <2>3. PICK q \in Nat : q = p + 2 * j
    BY <2>1
  <2>4. Ahead(q, <<Token("IDENTIFIER", e.value)>>)
    BY <1>6, <1>7, <2>2, <2>3
  <2>5. Delivers(TokenAt(q), Token("IDENTIFIER", e.value))
    BY <2>4, AheadShort
  <2>6. Is(q, "IDENTIFIER") /\ TokenAt(q).literal = e.value
    BY <2>5 DEF Delivers, Token, Named, Is
  <2>7. GroupName(q) = <<e>>
    BY <2>6, IdentifierIs DEF GroupName
  <2>. QED
    BY <2>2, <2>3, <2>6, <2>7
<1>8. ASSUME NEW j \in 1..n - 1
      PROVE  GroupName(p + 2 * j - 1) = <<>> /\ Is(p + 2 * j - 1, "COMMA")
  <2>1. j \in 0..n - 1 /\ j # 0
    BY <1>8
  <2>2. Is(p + 2 * j - 1, "COMMA")
    BY <1>6, <2>1
  <2>. QED
    BY <2>2 DEF GroupName, Is
<1>. QED
  BY <1>7, <1>8

LEMMA QueryEndIs ==
  ASSUME Len(tokens) \in Nat, NEW i \in Nat, i >= 1, NEW end \in Nat, i <= end,
         Is(end, "SEMICOLON"), \A j \in i..end - 1 : ~Is(j, "SEMICOLON")
  PROVE  QueryEnd(i) = end
<1>. DEFINE len == Len(tokens) + 1
            S == {j \in i..Len(tokens) : Is(j, "SEMICOLON")}
<1>1. Max({i, len}) \in {i, len} /\ Max({i, len}) >= i /\ Max({i, len}) >= len
  <2>1. \E x \in {i, len} : \A y \in {i, len} : x >= y
    BY i <= len \/ len <= i
  <2>. QED
    BY <2>1 DEF Max
<1>2. PICK last \in Nat : last = Max({i, len})
  BY <1>1
<1>3. end <= Len(tokens)
  BY TokenWithin
<1>4. end \in S \cup {last} /\ \A y \in S \cup {last} : y \in Nat /\ end <= y
  <2>1. last \in Nat /\ end <= last
    BY <1>1, <1>2, <1>3
  <2>2. end \in S
    BY <1>3
  <2>3. ASSUME NEW y \in S PROVE y \in Nat /\ end <= y
    <3>1. y \in Nat /\ y >= i /\ Is(y, "SEMICOLON")
      BY <2>3
    <3>2. ~(y <= end - 1)
      BY <3>1
    <3>. QED
      BY <3>1, <3>2
  <2>. QED
    BY <2>1, <2>2, <2>3
<1>5. \A x \in S \cup {last} : (\A y \in S \cup {last} : x <= y) => x = end
  BY <1>4
<1>6. Min(S \cup {last}) = end
  BY <1>4, <1>5 DEF Min
<1>. QED
  BY <1>2, <1>6 DEF QueryEnd

-----------------------------------------------------------------------------
(* A list that begins another. *)

Begins(u, v, n) ==
  /\ IsList(u) /\ Len(u) = n /\ n <= Len(v)
  /\ \A i \in 1..n : u[i] = v[i]

LEMMA BeginsGrows ==
  ASSUME NEW u, NEW v, NEW n \in Nat, Begins(u, v, n), IsList(v), n < Len(v),
         NEW x, x = v[n + 1], NEW w, w = Append(u, x)
  PROVE  Begins(w, v, n + 1)
<1>1. PICK m \in Nat : m = Len(v)
  BY ListFacts
<1>2. /\ IsList(w) /\ Len(w) = n + 1 /\ w[n + 1] = x
      /\ \A i \in 1..n : w[i] = u[i]
  BY ListFacts DEF Begins
<1>3. \A i \in 1..n + 1 : w[i] = v[i]
  BY <1>2 DEF Begins
<1>. QED
  BY <1>1, <1>2, <1>3 DEF Begins

LEMMA BeginsWhole ==
  ASSUME NEW u, NEW v, NEW n \in Nat, Begins(u, v, n), IsList(v), n = Len(v)
  PROVE  u = v
BY ListFacts DEF Begins, IsList

LEMMA EvenOrOdd == \A k \in Nat : \E j \in Nat : k = 2 * j \/ k = 2 * j + 1
<1>1. ASSUME NEW k \in Nat PROVE \E j \in Nat : k = 2 * j \/ k = 2 * j + 1
  <2>1. /\ k \div 2 \in Nat
        /\ k = 2 * (k \div 2) \/ k = 2 * (k \div 2) + 1
    OBVIOUS
  <2>. QED
    BY <2>1
<1>. QED
  BY <1>1

LEMMA GroupReadsBack ==
  ASSUME Len(tokens) \in Nat, NEW names \in Seq(Identifiers), NEW n \in Nat, n = Len(names), n >= 1,
         NEW p \in Nat, p >= 1, Ahead(p, CommaSeparated(MapSeq(WriteIdentifier, names))),
         NEW end \in Nat, end = p + 2 * n - 1, Is(end, "SEMICOLON")
  PROVE  QueryEnd(p) = end /\ GroupNames(p, end) = names
<1>1. /\ \A j \in 0..n - 1 : GroupName(p + 2 * j) = <<names[j + 1]>> /\ Is(p + 2 * j, "IDENTIFIER")
      /\ \A j \in 1..n - 1 : GroupName(p + 2 * j - 1) = <<>> /\ Is(p + 2 * j - 1, "COMMA")
  BY GroupTokens
<1>2. PICK m \in Nat : m = 2 * n - 1
  <2>1. 2 * n - 1 \in Nat
    BY ONLY n \in Nat, n >= 1
  <2>. QED
    BY ONLY <2>1
<1>3. ASSUME NEW q \in p..end - 1 PROVE ~Is(q, "SEMICOLON")
  <2>1. PICK j \in Nat : q - p = 2 * j \/ q - p = 2 * j + 1
    <3>1. q - p \in Nat
      BY <1>3
    <3>. QED
      BY <3>1, EvenOrOdd
  <2>2. CASE q - p = 2 * j
    <3>1. j \in 0..n - 1 /\ q = p + 2 * j
      BY <1>3, <2>2
    <3>. QED
      BY <1>1, <3>1 DEF Is
  <2>3. CASE q - p = 2 * j + 1
    <3>1. j + 1 \in 1..n - 1 /\ q = p + 2 * (j + 1) - 1
      BY <1>3, <2>3
    <3>. QED
      BY <1>1, <3>1 DEF Is
  <2>. QED
    BY <2>1, <2>2, <2>3
<1>4. QueryEnd(p) = end
  BY <1>3, QueryEndIs
<1>. DEFINE S == Identifiers \cup {Identifier(TokenAt(i).literal) : i \in Nat}
<1>5. PICK g : g = [k \in 1..m |-> GroupName(p + k - 1)]
  OBVIOUS
<1>6. GroupNames(p, end) = FlattenSeq(g)
  <2>1. end - p = m
    BY <1>2
  <2>. QED
    BY <1>5, <2>1 DEF GroupNames
<1>7. g \in [1..m -> Seq(S)]
  <2>1. ASSUME NEW k \in 1..m PROVE GroupName(p + k - 1) \in Seq(S)
    <3>1. p + k - 1 \in Nat
      BY <1>2, <2>1
    <3>2. Identifier(TokenAt(p + k - 1).literal) \in S
      BY <3>1
    <3>. HIDE DEF S
    <3>. QED
      BY <3>2, ShortSequences DEF GroupName
  <2>. HIDE DEF S
  <2>. QED
    BY <1>5, <2>1
<1>. HIDE DEF S
<1>8. PICK f : IsFlattening(f, m, g, S)
  BY <1>7, FlatteningExists
<1>9. \A j \in 0..n - 1 : g[2 * j + 1] = <<names[j + 1]>>
  <2>1. ASSUME NEW j \in 0..n - 1 PROVE g[2 * j + 1] = <<names[j + 1]>>
    <3>1. 2 * j + 1 \in 1..m /\ p + (2 * j + 1) - 1 = p + 2 * j
      BY <1>2, <2>1
    <3>. QED
      BY <1>1, <1>5, <2>1, <3>1
  <2>. QED
    BY <2>1
<1>10. \A j \in 1..n - 1 : g[2 * j] = <<>>
  <2>1. ASSUME NEW j \in 1..n - 1 PROVE g[2 * j] = <<>>
    <3>1. 2 * j \in 1..m /\ p + (2 * j) - 1 = p + 2 * j - 1
      BY <1>2, <2>1
    <3>. QED
      BY <1>1, <1>5, <2>1, <3>1
  <2>. QED
    BY <2>1
<1>11. \A i \in 1..n : names[i] \in S
  BY ElementOfSeq DEF S
<1>12. IsList(names)
  BY DEF IsList
<1>. DEFINE T == {j \in Nat : j <= n - 1 => Begins(f[2 * j + 1], names, j + 1)}
<1>13. 0 \in T
  <2>1. f[1] = <<>> \o <<names[1]>>
    <3>1. 0 \in 0..m - 1 /\ 0 \in 0..n - 1 /\ 2 * 0 + 1 = 1 /\ 0 + 1 = 1
      BY <1>2
    <3>2. f[0] = <<>> /\ f[0 + 1] = f[0] \o g[0 + 1]
      BY <1>8, <3>1 DEF IsFlattening
    <3>3. g[1] = <<names[1]>>
      BY <1>9, <3>1
    <3>. QED
      BY <3>1, <3>2, <3>3
  <2>2. names[1] \in S
    BY <1>11
  <2>3. f[1] = <<names[1]>> /\ <<names[1]>> \in Seq(S)
    BY <2>1, <2>2, ShortSequences, ConcatEmptySeq
  <2>4. Len(<<names[1]>>) = 1 /\ <<names[1]>>[1] = names[1]
    BY ShortSequences
  <2>5. \A i \in 1..0 + 1 : i = 1
    OBVIOUS
  <2>6. Begins(f[1], names, 0 + 1)
    BY <2>3, <2>4, <2>5 DEF Begins, IsList
  <2>. QED
    BY <2>6
<1>14. ASSUME NEW j \in Nat, j \in T PROVE j + 1 \in T
  <2>. SUFFICES ASSUME j + 1 <= n - 1 PROVE Begins(f[2 * (j + 1) + 1], names, (j + 1) + 1)
    OBVIOUS
  <2>1. /\ Begins(f[2 * j + 1], names, j + 1)
        /\ j + 1 \in 0..n - 1 /\ j + 1 \in 1..n - 1
    BY <1>14
  <2>2. /\ 2 * j + 1 \in 0..m - 1 /\ 2 * (j + 1) \in 0..m - 1
        /\ (2 * j + 1) + 1 = 2 * (j + 1)
    BY <1>2, <2>1
  <2>3. PICK a \in Nat, b \in Nat, c \in Nat : a = 2 * j + 1 /\ b = 2 * (j + 1) /\ c = b + 1
    OBVIOUS
  <2>4. a \in 0..m - 1 /\ b \in 0..m - 1 /\ a + 1 = b
    BY <2>2, <2>3
  <2>5. f[b] = f[a] \o g[b] /\ f[c] = f[b] \o g[c] /\ f[a] \in Seq(S)
    <3>1. f[a + 1] = f[a] \o g[a + 1] /\ f[b + 1] = f[b] \o g[b + 1] /\ f[a] \in Seq(S)
      BY ONLY <1>8, <2>4, a \in Nat DEF IsFlattening
    <3>. QED
      BY <2>3, <2>4, <3>1
  <2>6. g[b] = <<>> /\ g[c] = <<names[(j + 1) + 1]>>
    <3>1. g[2 * (j + 1)] = <<>> /\ g[2 * (j + 1) + 1] = <<names[(j + 1) + 1]>>
      BY ONLY <1>9, <1>10, <2>1
    <3>. QED
      BY ONLY <2>3, <3>1
  <2>7. PICK x : x = names[(j + 1) + 1]
    OBVIOUS
  <2>8. x \in S
    <3>1. (j + 1) + 1 \in 1..n
      BY <2>1
    <3>. QED
      BY <1>11, <2>7, <3>1
  <2>9. f[c] = Append(f[a], x)
    <3>1. f[b] = f[a]
      BY ONLY <2>5, <2>6, ConcatEmptySeq
    <3>2. f[c] = f[a] \o <<x>>
      BY ONLY <2>5, <2>6, <2>7, <3>1
    <3>. QED
      BY ONLY <2>5, <2>8, <3>2, AppendIsConcat
  <2>10. Begins(f[a], names, j + 1) /\ j + 1 \in Nat /\ j + 1 < Len(names)
    BY <2>1, <2>3
  <2>11. Begins(f[c], names, (j + 1) + 1)
    BY ONLY <1>12, <2>7, <2>9, <2>10, BeginsGrows
  <2>. QED
    BY <2>3, <2>11
<1>15. \A j \in Nat : j \in T
  <2>. HIDE DEF T
  <2>. QED
    BY <1>13, <1>14, Induction
<1>16. GroupNames(p, end) = names
  <2>1. n - 1 \in Nat /\ n - 1 <= n - 1 /\ 2 * (n - 1) + 1 = m /\ (n - 1) + 1 = n
    BY <1>2
  <2>2. Begins(f[m], names, n)
    BY <1>15, <2>1
  <2>3. f[m] = names
    BY <1>12, <2>2, BeginsWhole
  <2>4. FlattenSeq(g) = f[m]
    BY <1>8 DEF IsFlattening
  <2>. QED
    BY <1>6, <2>3, <2>4
<1>. QED
  BY <1>4, <1>16

-----------------------------------------------------------------------------
(* The parts of a statement. *)

Explaining(s) == IF s.explain THEN <<Keyword("EXPLAIN")>> ELSE <<>>

Selecting(s) == CommaSeparated(MapSeq(WriteColumn, s.columns))

From(s) == <<Keyword("FROM"), Token("IDENTIFIER", s.tableName)>>

Joining(s) == FlattenSeq(MapSeq(WriteJoin, s.joins))

Filtering(s) ==
  IF s.whereClause = <<>> THEN <<>>
  ELSE <<Keyword("WHERE")>> \o WriteCondition(s.whereClause[1])

Names(s) == CommaSeparated(MapSeq(WriteIdentifier, s.groupBy))

Grouping(s) ==
  IF s.groupBy = <<>> THEN <<>> ELSE <<Keyword("GROUP"), Keyword("BY")>> \o Names(s)

ExplainLength(s) == IF s.explain THEN 1 ELSE 0
WhereLength(s)   == IF s.whereClause = <<>> THEN 0 ELSE 4
GroupLength(s)   == IF s.groupBy = <<>> THEN 0 ELSE 1 + 2 * Len(s.groupBy)

LEMMA StatementFields ==
  ASSUME NEW s \in SelectStatements
  PROVE  /\ s.explain \in BOOLEAN /\ s.tableName \in Spellings
         /\ s.columns \in Seq(Identifiers \cup FunctionCalls) /\ Len(s.columns) \in Nat
         /\ s.joins \in Seq(JoinClauses) /\ Len(s.joins) \in Nat
         /\ s.groupBy \in Seq(Identifiers) /\ Len(s.groupBy) \in Nat
         /\ s.groupBy # <<>> => Len(s.groupBy) >= 1
         /\ s.whereClause # <<>> =>
              s.whereClause[1] \in BinaryExpressions /\ s.whereClause = <<s.whereClause[1]>>
<1>1. /\ s.explain \in BOOLEAN /\ s.tableName \in STRING
      /\ s.columns \in Seq(Identifiers \cup FunctionCalls)
      /\ s.joins \in Seq(JoinClauses) /\ s.groupBy \in Seq(Identifiers)
      /\ s.whereClause \in {<<>>} \cup [1..1 -> BinaryExpressions]
  BY DEF SelectStatements
<1>2. /\ Len(s.columns) \in Nat /\ Len(s.joins) \in Nat /\ Len(s.groupBy) \in Nat
      /\ s.groupBy # <<>> => Len(s.groupBy) # 0
  BY <1>1, LenProperties, EmptySeq
<1>3. ASSUME NEW w \in [1..1 -> BinaryExpressions]
      PROVE  w[1] \in BinaryExpressions /\ w = <<w[1]>>
  <2>1. 1..1 = {1}
    OBVIOUS
  <2>. QED
    BY <2>1
<1>. QED
  BY <1>1, <1>2, <1>3 DEF Spellings

LEMMA FilteringWritten ==
  ASSUME NEW s \in SelectStatements
  PROVE  /\ TokenList(Filtering(s), WhereLength(s)) /\ WhereLength(s) \in Nat
         /\ s.whereClause # <<>> =>
              /\ Joined(Filtering(s), <<Keyword("WHERE")>>, WriteCondition(s.whereClause[1]))
              /\ TokenList(<<Keyword("WHERE")>>, 1)
              /\ TokenList(WriteCondition(s.whereClause[1]), 3)
<1>1. CASE s.whereClause = <<>>
  BY <1>1, ShortTokens DEF Filtering, WhereLength
<1>2. CASE s.whereClause # <<>>
  <2>1. Joined(Filtering(s), <<Keyword("WHERE")>>, WriteCondition(s.whereClause[1]))
    BY <1>2 DEF Filtering, Joined
  <2>2. TokenList(<<Keyword("WHERE")>>, 1)
    BY TypesAreSpellings, TokensWritten, ShortTokens
  <2>3. TokenList(WriteCondition(s.whereClause[1]), 3)
    BY <1>2, StatementFields, ConditionTokensWritten
  <2>4. TokenList(Filtering(s), 1 + 3)
    BY <2>1, <2>2, <2>3, JoinedList
  <2>. QED
    BY <1>2, <2>1, <2>2, <2>3, <2>4 DEF WhereLength
<1>. QED
  BY <1>1, <1>2

LEMMA NamesWritten ==
  ASSUME NEW names \in Seq(Identifiers), NEW n \in Nat, n = Len(names), n >= 1
  PROVE  TokenList(CommaSeparated(MapSeq(WriteIdentifier, names)), 2 * n - 1)
<1>1. /\ CommaSeparated(MapSeq(WriteIdentifier, names)) = FlattenSeq(GroupWords(names))
      /\ Lists(GroupWords(names), n, Tokens)
      /\ Places(GroupPlaces(1, n), 1, GroupWords(names), n)
  BY GroupWritten
<1>2. PICK words, place : words = GroupWords(names) /\ place = GroupPlaces(1, n)
  OBVIOUS
<1>3. FlattenSeq(words) \in Seq(Tokens) /\ place[n] = 1 + Len(FlattenSeq(words))
  <2>1. Lists(words, n, Tokens) /\ Places(place, 1, words, n) /\ 1 \in Nat
    BY <1>1, <1>2
  <2>. QED
    BY ONLY <2>1, PlacesEnd, n \in Nat
<1>4. place[n] = 1 + 2 * n - 1
  BY ONLY <1>2, n \in Nat, n >= 1 DEF GroupPlaces
<1>5. Len(FlattenSeq(words)) = 2 * n - 1
  <2>1. Len(FlattenSeq(words)) \in Nat
    BY ONLY <1>3, LenProperties
  <2>. QED
    BY ONLY <1>3, <1>4, <2>1, n \in Nat
<1>. QED
  BY <1>1, <1>2, <1>3, <1>5 DEF TokenList

LEMMA GroupingWritten ==
  ASSUME NEW s \in SelectStatements
  PROVE  /\ TokenList(Grouping(s), GroupLength(s)) /\ GroupLength(s) \in Nat
         /\ s.groupBy # <<>> =>
              /\ Joined(Grouping(s), <<Keyword("GROUP"), Keyword("BY")>>, Names(s))
              /\ TokenList(<<Keyword("GROUP"), Keyword("BY")>>, 2)
              /\ TokenList(Names(s), 2 * Len(s.groupBy) - 1) /\ 2 * Len(s.groupBy) - 1 \in Nat
<1>1. CASE s.groupBy = <<>>
  BY <1>1, ShortTokens DEF Grouping, GroupLength
<1>2. CASE s.groupBy # <<>>
  <2>1. Joined(Grouping(s), <<Keyword("GROUP"), Keyword("BY")>>, Names(s))
    BY <1>2 DEF Grouping, Joined
  <2>2. TokenList(<<Keyword("GROUP"), Keyword("BY")>>, 2)
    BY TypesAreSpellings, TokensWritten, ShortTokens
  <2>3. PICK n \in Nat : n = Len(s.groupBy) /\ n >= 1
    BY <1>2, StatementFields
  <2>4. TokenList(Names(s), 2 * n - 1) /\ 2 * n - 1 \in Nat
    <3>1. s.groupBy \in Seq(Identifiers)
      BY StatementFields
    <3>2. TokenList(CommaSeparated(MapSeq(WriteIdentifier, s.groupBy)), 2 * n - 1)
      BY ONLY <2>3, <3>1, NamesWritten, n \in Nat
    <3>3. 2 * n - 1 \in Nat
      BY ONLY <2>3, n \in Nat
    <3>. QED
      BY <3>2, <3>3 DEF Names
  <2>5. TokenList(Grouping(s), 2 + (2 * n - 1))
    BY <2>1, <2>2, <2>4, JoinedList
  <2>6. GroupLength(s) = 2 + (2 * n - 1)
    BY <1>2, <2>3 DEF GroupLength
  <2>. QED
    BY <1>2, <2>1, <2>2, <2>3, <2>4, <2>5, <2>6
<1>. QED
  BY <1>1, <1>2

\* Where the clauses of a statement begin whose columns are at c.
JoinsAt(s, c) == c[Len(s.columns)] + 2
WhereAt(s, c) == JoinsAt(s, c) + 6 * Len(s.joins)
GroupAt(s, c) == WhereAt(s, c) + WhereLength(s)
EndAt(s, c)   == GroupAt(s, c) + GroupLength(s)

\* The columns of a statement at number b.
ColumnsAt(s, b) == b + ExplainLength(s) + 1

ColumnPlaces(s, b, c) ==
  Places(c, ColumnsAt(s, b), ColumnWords(s.columns), Len(s.columns))

LEMMA PartsWritten ==
  ASSUME NEW s \in SelectStatements, NEW b \in Nat, NEW c, ColumnPlaces(s, b, c)
  PROVE  /\ TokenList(Explaining(s), ExplainLength(s)) /\ ExplainLength(s) \in Nat
         /\ TokenList(<<Keyword("SELECT")>>, 1)
         /\ TokenList(Selecting(s), c[Len(s.columns)] - ColumnsAt(s, b))
         /\ c[Len(s.columns)] - ColumnsAt(s, b) \in Nat
         /\ TokenList(From(s), 2)
         /\ TokenList(Joining(s), 6 * Len(s.joins)) /\ 6 * Len(s.joins) \in Nat
         /\ TokenList(Filtering(s), WhereLength(s)) /\ WhereLength(s) \in Nat
         /\ TokenList(Grouping(s), GroupLength(s)) /\ GroupLength(s) \in Nat
         /\ TokenList(<<Keyword("SEMICOLON")>>, 1)
<1>1. TokenList(Explaining(s), ExplainLength(s)) /\ ExplainLength(s) \in Nat
  BY TypesAreSpellings, TokensWritten, ShortTokens DEF Explaining, ExplainLength
<1>2. TokenList(<<Keyword("SELECT")>>, 1) /\ TokenList(<<Keyword("SEMICOLON")>>, 1)
  BY TypesAreSpellings, TokensWritten, ShortTokens
<1>3. TokenList(From(s), 2)
  BY StatementFields, TypesAreSpellings, TokensWritten, ShortTokens DEF From
<1>4. /\ TokenList(Selecting(s), c[Len(s.columns)] - ColumnsAt(s, b))
      /\ c[Len(s.columns)] - ColumnsAt(s, b) \in Nat
  <2>1. PICK n \in Nat, p \in Nat : n = Len(s.columns) /\ p = ColumnsAt(s, b)
    BY <1>1, StatementFields DEF ColumnsAt
  <2>2. PICK words : words = ColumnWords(s.columns)
    OBVIOUS
  <2>3. s.columns \in Seq(Identifiers \cup FunctionCalls)
    BY StatementFields
  <2>4. /\ CommaSeparated(MapSeq(WriteColumn, s.columns)) = FlattenSeq(words)
        /\ Lists(words, n, Tokens)
    BY ONLY <2>1, <2>2, <2>3, ColumnsWritten
  <2>5. Places(c, p, words, n)
    BY <2>1, <2>2 DEF ColumnPlaces
  <2>6. FlattenSeq(words) \in Seq(Tokens) /\ c[n] = p + Len(FlattenSeq(words))
    BY ONLY <2>4, <2>5, PlacesEnd, n \in Nat, p \in Nat
  <2>7. Len(FlattenSeq(words)) \in Nat
    BY ONLY <2>6, LenProperties
  <2>8. Len(FlattenSeq(words)) = c[n] - p
    BY ONLY <2>1, <2>2, <2>6, <2>7
  <2>. QED
    BY <2>1, <2>2, <2>4, <2>6, <2>7, <2>8 DEF TokenList, Selecting
<1>5. TokenList(Joining(s), 6 * Len(s.joins)) /\ 6 * Len(s.joins) \in Nat
  <2>1. PICK n \in Nat, p \in Nat : n = Len(s.joins)
    BY StatementFields
  <2>2. PICK lists, place :
          lists = MapSeq(WriteJoin, s.joins) /\ place = [j \in 0..n |-> p + 6 * j]
    OBVIOUS
  <2>3. s.joins \in Seq(JoinClauses)
    BY StatementFields
  <2>4. Lists(lists, n, Tokens) /\ Places(place, p, lists, n)
    BY ONLY <2>1, <2>2, <2>3, JoinsWritten, n \in Nat, p \in Nat
  <2>5. FlattenSeq(lists) \in Seq(Tokens) /\ place[n] = p + Len(FlattenSeq(lists))
    BY ONLY <2>4, PlacesEnd, n \in Nat, p \in Nat
  <2>6. Len(FlattenSeq(lists)) \in Nat
    BY ONLY <2>5, LenProperties
  <2>7. place[n] = p + 6 * n
    BY ONLY <2>1, <2>2, n \in Nat, p \in Nat
  <2>8. Len(FlattenSeq(lists)) = 6 * n
    BY ONLY <2>5, <2>6, <2>7, n \in Nat, p \in Nat
  <2>. QED
    BY <2>1, <2>2, <2>5, <2>8 DEF TokenList, Joining
<1>. QED
  BY <1>1, <1>2, <1>3, <1>4, <1>5, FilteringWritten, GroupingWritten

\* The statement's tokens from number b on, part by part.
LEMMA StatementParts ==
  ASSUME NEW s \in SelectStatements, NEW b \in Nat, NEW c, ColumnPlaces(s, b, c)
  PROVE  /\ TokenList(WriteStatement(s), EndAt(s, c) + 1 - b) /\ EndAt(s, c) \in Nat
         /\ EndAt(s, c) >= b
         /\ Ahead(b, WriteStatement(s)) =>
              /\ Ahead(b, Explaining(s))
              /\ Ahead(b + ExplainLength(s), <<Keyword("SELECT")>>)
              /\ Ahead(ColumnsAt(s, b), Selecting(s))
              /\ Ahead(c[Len(s.columns)], From(s))
              /\ Ahead(JoinsAt(s, c), Joining(s))
              /\ Ahead(WhereAt(s, c), Filtering(s))
              /\ Ahead(GroupAt(s, c), Grouping(s))
              /\ Ahead(EndAt(s, c), <<Keyword("SEMICOLON")>>)
<1>1. PICK p1, p2, p3, p4, p5, p6, p7, p8 :
        /\ p1 = Explaining(s) /\ p2 = <<Keyword("SELECT")>> /\ p3 = Selecting(s) /\ p4 = From(s)
        /\ p5 = Joining(s) /\ p6 = Filtering(s) /\ p7 = Grouping(s) /\ p8 = <<Keyword("SEMICOLON")>>
  OBVIOUS
<1>2. PICK u2, u3, u4, u5, u6, u7, u8 :
        /\ u2 = p1 \o p2 /\ u3 = u2 \o p3 /\ u4 = u3 \o p4 /\ u5 = u4 \o p5
        /\ u6 = u5 \o p6 /\ u7 = u6 \o p7 /\ u8 = u7 \o p8
  OBVIOUS
<1>3. WriteStatement(s) = u8
  BY ONLY <1>1, <1>2, Zenon
     DEF WriteStatement, Explaining, Selecting, From, Joining, Filtering, Grouping, Names
<1>4. /\ Joined(u2, p1, p2) /\ Joined(u3, u2, p3) /\ Joined(u4, u3, p4) /\ Joined(u5, u4, p5)
      /\ Joined(u6, u5, p6) /\ Joined(u7, u6, p7) /\ Joined(u8, u7, p8)
  BY ONLY <1>2 DEF Joined
<1>5. PICK l1 \in Nat, l3 \in Nat, l5 \in Nat, l6 \in Nat, l7 \in Nat :
        /\ l1 = ExplainLength(s) /\ l3 = c[Len(s.columns)] - ColumnsAt(s, b)
        /\ l5 = 6 * Len(s.joins) /\ l6 = WhereLength(s) /\ l7 = GroupLength(s)
  BY PartsWritten
<1>6. /\ TokenList(p1, l1) /\ TokenList(p2, 1) /\ TokenList(p3, l3) /\ TokenList(p4, 2)
      /\ TokenList(p5, l5) /\ TokenList(p6, l6) /\ TokenList(p7, l7) /\ TokenList(p8, 1)
  BY ONLY <1>1, <1>5, PartsWritten, s \in SelectStatements, b \in Nat, ColumnPlaces(s, b, c)
<1>7. PICK m2 \in Nat, m3 \in Nat, m4 \in Nat, m5 \in Nat, m6 \in Nat, m7 \in Nat, m8 \in Nat :
        /\ m2 = l1 + 1 /\ m3 = m2 + l3 /\ m4 = m3 + 2 /\ m5 = m4 + l5
        /\ m6 = m5 + l6 /\ m7 = m6 + l7 /\ m8 = m7 + 1
  OBVIOUS
<1>8. /\ TokenList(u2, m2) /\ TokenList(u3, m3) /\ TokenList(u4, m4) /\ TokenList(u5, m5)
      /\ TokenList(u6, m6) /\ TokenList(u7, m7) /\ TokenList(u8, m8)
  <2>1. TokenList(u2, m2)
    BY ONLY <1>4, <1>6, <1>7, JoinedList, l1 \in Nat
  <2>2. TokenList(u3, m3)
    BY ONLY <1>4, <1>6, <1>7, <2>1, JoinedList, l3 \in Nat, m2 \in Nat
  <2>3. TokenList(u4, m4)
    BY ONLY <1>4, <1>6, <1>7, <2>2, JoinedList, m3 \in Nat
  <2>4. TokenList(u5, m5)
    BY ONLY <1>4, <1>6, <1>7, <2>3, JoinedList, l5 \in Nat, m4 \in Nat
  <2>5. TokenList(u6, m6)
    BY ONLY <1>4, <1>6, <1>7, <2>4, JoinedList, l6 \in Nat, m5 \in Nat
  <2>6. TokenList(u7, m7)
    BY ONLY <1>4, <1>6, <1>7, <2>5, JoinedList, l7 \in Nat, m6 \in Nat
  <2>7. TokenList(u8, m8)
    BY ONLY <1>4, <1>6, <1>7, <2>6, JoinedList, m7 \in Nat
  <2>. QED
    BY <2>1, <2>2, <2>3, <2>4, <2>5, <2>6, <2>7
<1>9. PICK cn \in Nat : cn = c[Len(s.columns)] /\ cn = b + l1 + 1 + l3
  <2>1. c[Len(s.columns)] \in Nat
    <3>1. PICK n \in Nat : n = Len(s.columns)
      BY StatementFields
    <3>2. c \in [0..n -> Nat] /\ n \in 0..n
      BY <3>1 DEF ColumnPlaces, Places
    <3>. QED
      BY ONLY <3>1, <3>2
  <2>2. PICK cn \in Nat : cn = c[Len(s.columns)]
    BY <2>1
  <2>3. l3 = cn - (b + l1 + 1)
    BY ONLY <1>5, <2>2 DEF ColumnsAt
  <2>4. cn = b + l1 + 1 + l3
    BY ONLY <2>3, cn \in Nat, b \in Nat, l1 \in Nat, l3 \in Nat
  <2>. QED
    BY ONLY <2>2, <2>4
<1>10. /\ b + l1 = b + ExplainLength(s) /\ b + m2 = ColumnsAt(s, b)
       /\ b + m3 = c[Len(s.columns)] /\ b + m4 = JoinsAt(s, c) /\ b + m5 = WhereAt(s, c)
       /\ b + m6 = GroupAt(s, c) /\ b + m7 = EndAt(s, c)
  <2>1. /\ ColumnsAt(s, b) = b + l1 + 1 /\ JoinsAt(s, c) = cn + 2 /\ WhereAt(s, c) = cn + 2 + l5
        /\ GroupAt(s, c) = cn + 2 + l5 + l6 /\ EndAt(s, c) = cn + 2 + l5 + l6 + l7
    BY ONLY <1>5, <1>9 DEF ColumnsAt, JoinsAt, WhereAt, GroupAt, EndAt
  <2>2. /\ b + m2 = b + l1 + 1 /\ b + m3 = cn /\ b + m4 = cn + 2 /\ b + m5 = cn + 2 + l5
        /\ b + m6 = cn + 2 + l5 + l6 /\ b + m7 = cn + 2 + l5 + l6 + l7
    BY ONLY <1>7, <1>9, b \in Nat, cn \in Nat, l1 \in Nat, l3 \in Nat, l5 \in Nat, l6 \in Nat,
            l7 \in Nat, m2 \in Nat, m3 \in Nat, m4 \in Nat, m5 \in Nat, m6 \in Nat, m7 \in Nat
  <2>. QED
    BY ONLY <1>5, <1>9, <2>1, <2>2
<1>11. EndAt(s, c) \in Nat /\ EndAt(s, c) >= b /\ m8 = EndAt(s, c) + 1 - b
  BY ONLY <1>7, <1>10, b \in Nat, m7 \in Nat, m8 \in Nat
<1>12. ASSUME Ahead(b, u8)
       PROVE  /\ Ahead(b, p1) /\ Ahead(b + l1, p2) /\ Ahead(b + m2, p3) /\ Ahead(b + m3, p4)
              /\ Ahead(b + m4, p5) /\ Ahead(b + m5, p6) /\ Ahead(b + m6, p7) /\ Ahead(b + m7, p8)
  <2>1. Ahead(b, u7) /\ Ahead(b + m7, p8)
    BY ONLY <1>4, <1>6, <1>8, <1>12, AheadJoined, b \in Nat, m7 \in Nat
  <2>2. Ahead(b, u6) /\ Ahead(b + m6, p7)
    BY ONLY <1>4, <1>6, <1>8, <2>1, AheadJoined, b \in Nat, m6 \in Nat, l7 \in Nat
  <2>3. Ahead(b, u5) /\ Ahead(b + m5, p6)
    BY ONLY <1>4, <1>6, <1>8, <2>2, AheadJoined, b \in Nat, m5 \in Nat, l6 \in Nat
  <2>4. Ahead(b, u4) /\ Ahead(b + m4, p5)
    BY ONLY <1>4, <1>6, <1>8, <2>3, AheadJoined, b \in Nat, m4 \in Nat, l5 \in Nat
  <2>5. Ahead(b, u3) /\ Ahead(b + m3, p4)
    BY ONLY <1>4, <1>6, <1>8, <2>4, AheadJoined, b \in Nat, m3 \in Nat
  <2>6. Ahead(b, u2) /\ Ahead(b + m2, p3)
    BY ONLY <1>4, <1>6, <1>8, <2>5, AheadJoined, b \in Nat, m2 \in Nat, l3 \in Nat
  <2>7. Ahead(b, p1) /\ Ahead(b + l1, p2)
    BY ONLY <1>4, <1>6, <1>8, <2>6, AheadJoined, b \in Nat, l1 \in Nat
  <2>. QED
    BY <2>1, <2>2, <2>3, <2>4, <2>5, <2>6, <2>7
<1>. QED
  BY ONLY <1>1, <1>3, <1>8, <1>10, <1>11, <1>12

-----------------------------------------------------------------------------
(* What the parser finds in a statement that is ahead. *)

HeadRead(s, b) ==
  IF s.explain THEN Is(b, "EXPLAIN") /\ Is(b + 1, "SELECT") ELSE Is(b, "SELECT")

ColumnsRead(s, c) ==
  /\ \A j \in 0..Len(s.columns) - 1 :
       /\ j > 0 => Is(c[j], "COMMA")
       /\ ColumnAt(c[j] + CommaBefore(j + 1), s.columns[j + 1], c[j + 1])

FromRead(s, i) ==
  Is(i, "FROM") /\ Is(i + 1, "IDENTIFIER") /\ TokenAt(i + 1).literal = s.tableName

JoinsRead(s, i) ==
  \A j \in 0..Len(s.joins) - 1 :
    /\ Is(i + 6 * j, "JOIN") /\ ParsedJoin(i + 6 * j) = s.joins[j + 1]
    /\ ConditionAt(i + 6 * j) + 3 = i + 6 * (j + 1)

WhereRead(s, i) ==
  /\ ~Is(i, "JOIN")
  /\ IF s.whereClause = <<>> THEN ~Is(i, "WHERE")
     ELSE /\ Is(i, "WHERE") /\ s.whereClause = <<ParsedExpression(i + 1)>>
          /\ ~Is(i + 3, "GROUP")

GroupRead(s, i) ==
  IF s.groupBy = <<>> THEN ~Is(i, "GROUP")
  ELSE /\ Is(i, "GROUP") /\ Is(i + 1, "BY")
       /\ QueryEnd(i + 2) = i + GroupLength(s)
       /\ GroupNames(i + 2, i + GroupLength(s)) = s.groupBy

StatementRead(s, b, c) ==
  /\ HeadRead(s, b) /\ ColumnsRead(s, c) /\ FromRead(s, c[Len(s.columns)])
  /\ JoinsRead(s, JoinsAt(s, c)) /\ WhereRead(s, WhereAt(s, c)) /\ GroupRead(s, GroupAt(s, c))
  /\ Is(EndAt(s, c), "SEMICOLON")

LEMMA KeywordAhead ==
  ASSUME NEW p \in Nat, NEW type, Ahead(p, <<Keyword(type)>>)
  PROVE  Is(p, type)
BY AheadShort DEF Delivers, Keyword, Token, Is

LEMMA KeywordsAhead ==
  ASSUME NEW p \in Nat, NEW type, NEW next, Ahead(p, <<Keyword(type), Keyword(next)>>)
  PROVE  Is(p, type) /\ Is(p + 1, next)
BY AheadShort DEF Delivers, Keyword, Token, Is

LEMMA WhereIsRead ==
  ASSUME NEW s \in SelectStatements, s.whereClause # <<>>, NEW p \in Nat, Ahead(p, Filtering(s))
  PROVE  /\ Is(p, "WHERE") /\ s.whereClause = <<ParsedExpression(p + 1)>>
         /\ ~Is(p + 3, "GROUP")
<1>1. Ahead(p, <<Keyword("WHERE")>>) /\ Ahead(p + 1, WriteCondition(s.whereClause[1]))
  BY FilteringWritten, AheadJoined
<1>2. Is(p, "WHERE")
  BY <1>1, KeywordAhead
<1>3. PICK e \in BinaryExpressions : e = s.whereClause[1] /\ s.whereClause = <<e>>
  BY StatementFields
<1>4. PICK q \in Nat : q = p + 1 /\ q + 2 = p + 3
  OBVIOUS
<1>5. ParsedExpression(q) = e /\ TokenAt(q + 2).type \in {"IDENTIFIER", "NUMBER"}
  BY <1>1, <1>3, <1>4, ConditionReadsBack
<1>. QED
  BY <1>2, <1>3, <1>4, <1>5 DEF Is

LEMMA GroupIsRead ==
  ASSUME Len(tokens) \in Nat, NEW s \in SelectStatements, s.groupBy # <<>>,
         NEW p \in Nat, Ahead(p, Grouping(s)), Is(p + GroupLength(s), "SEMICOLON")
  PROVE  GroupRead(s, p)
<1>1. PICK n \in Nat : n = Len(s.groupBy) /\ n >= 1
  BY StatementFields
<1>2. PICK end \in Nat, q \in Nat : end = p + GroupLength(s) /\ q = p + 2 /\ end = q + 2 * n - 1 /\ q >= 1
  BY <1>1 DEF GroupLength
<1>3. Ahead(p, <<Keyword("GROUP"), Keyword("BY")>>) /\ Ahead(q, Names(s))
  BY <1>2, GroupingWritten, AheadJoined, SMTT(30)
<1>4. Is(p, "GROUP") /\ Is(p + 1, "BY")
  BY <1>3, KeywordsAhead
<1>5. PICK names \in Seq(Identifiers) : names = s.groupBy
  BY StatementFields
<1>6. QueryEnd(q) = end /\ GroupNames(q, end) = names
  <2>1. /\ Len(tokens) \in Nat /\ n = Len(names) /\ Is(end, "SEMICOLON")
        /\ Ahead(q, CommaSeparated(MapSeq(WriteIdentifier, names)))
    BY <1>1, <1>2, <1>3, <1>5 DEF Names
  <2>. QED
    BY ONLY <1>1, <1>2, <2>1, GroupReadsBack, n \in Nat, end \in Nat, q \in Nat, names \in Seq(Identifiers), SMTT(30)
<1>. QED
  BY <1>2, <1>4, <1>5, <1>6 DEF GroupRead

LEMMA StatementReadsBack ==
  ASSUME Len(tokens) \in Nat, NEW s \in SelectStatements, NEW b \in Nat, NEW c,
         ColumnPlaces(s, b, c), Ahead(b, WriteStatement(s))
  PROVE  StatementRead(s, b, c)
<1>1. PICK cn, j, w, g, e :
        /\ cn = c[Len(s.columns)] /\ j = JoinsAt(s, c) /\ w = WhereAt(s, c) /\ g = GroupAt(s, c)
        /\ e = EndAt(s, c)
  OBVIOUS
<1>2. /\ Ahead(b, Explaining(s)) /\ Ahead(b + ExplainLength(s), <<Keyword("SELECT")>>)
      /\ Ahead(ColumnsAt(s, b), Selecting(s)) /\ Ahead(cn, From(s)) /\ Ahead(j, Joining(s))
      /\ Ahead(w, Filtering(s)) /\ Ahead(g, Grouping(s)) /\ Ahead(e, <<Keyword("SEMICOLON")>>)
  BY <1>1, StatementParts
<1>3. /\ cn \in Nat /\ j \in Nat /\ w \in Nat /\ g \in Nat /\ e \in Nat
      /\ j = cn + 2 /\ w = j + 6 * Len(s.joins) /\ g = w + WhereLength(s) /\ e = g + GroupLength(s)
  <2>1. PICK n \in Nat : n = Len(s.columns)
    BY StatementFields
  <2>2. c \in [0..n -> Nat] /\ n \in 0..n
    BY <2>1 DEF ColumnPlaces, Places
  <2>3. cn \in Nat
    BY ONLY <1>1, <2>1, <2>2
  <2>4. PICK l5 \in Nat, l6 \in Nat, l7 \in Nat :
          l5 = 6 * Len(s.joins) /\ l6 = WhereLength(s) /\ l7 = GroupLength(s)
    BY PartsWritten
  <2>5. j = cn + 2 /\ w = j + 6 * Len(s.joins) /\ g = w + WhereLength(s) /\ e = g + GroupLength(s)
    BY ONLY <1>1 DEF JoinsAt, WhereAt, GroupAt, EndAt
  <2>6. /\ cn + 2 \in Nat /\ cn + 2 + l5 \in Nat /\ cn + 2 + l5 + l6 \in Nat
        /\ cn + 2 + l5 + l6 + l7 \in Nat
    BY ONLY <2>3, l5 \in Nat, l6 \in Nat, l7 \in Nat
  <2>7. j = cn + 2 /\ w = cn + 2 + l5 /\ g = cn + 2 + l5 + l6 /\ e = cn + 2 + l5 + l6 + l7
    BY ONLY <2>4, <2>5
  <2>. QED
    BY ONLY <2>3, <2>5, <2>6, <2>7
<1>4. HeadRead(s, b)
  <2>1. CASE s.explain
    <3>1. Ahead(b, <<Keyword("EXPLAIN")>>) /\ Ahead(b + 1, <<Keyword("SELECT")>>)
      BY <1>2, <2>1 DEF Explaining, ExplainLength
    <3>. QED
      BY <2>1, <3>1, KeywordAhead DEF HeadRead
  <2>2. CASE ~s.explain
    <3>1. Ahead(b, <<Keyword("SELECT")>>)
      BY <1>2, <2>2 DEF ExplainLength
    <3>. QED
      BY <2>2, <3>1, KeywordAhead DEF HeadRead
  <2>. QED
    BY <2>1, <2>2
<1>5. FromRead(s, cn)
  BY <1>2, <1>3, AheadShort DEF From, FromRead, Delivers, Keyword, Token, Named, Is
<1>6. ColumnsRead(s, c)
  <2>1. PICK n \in Nat, p \in Nat, columns \in Seq(Identifiers \cup FunctionCalls) :
          n = Len(s.columns) /\ p = ColumnsAt(s, b) /\ columns = s.columns
    BY StatementFields DEF ColumnsAt, ExplainLength
  <2>2. Places(c, p, ColumnWords(columns), n) /\ Is(c[n], "FROM") /\ n = Len(columns)
    BY <1>1, <1>5, <2>1 DEF ColumnPlaces, FromRead
  <2>3. Ahead(p, CommaSeparated(MapSeq(WriteColumn, columns)))
    BY <1>2, <2>1 DEF Selecting
  <2>4. \A k \in 0..n - 1 :
           /\ k > 0 => Is(c[k], "COMMA")
           /\ ColumnAt(c[k] + CommaBefore(k + 1), columns[k + 1], c[k + 1])
    BY ONLY <2>2, <2>3, ColumnsReadBack, n \in Nat, p \in Nat, columns \in Seq(Identifiers \cup FunctionCalls)
  <2>. QED
    BY ONLY <2>1, <2>4 DEF ColumnsRead
<1>7. JoinsRead(s, j)
  <2>1. PICK n \in Nat, joins \in Seq(JoinClauses) : n = Len(s.joins) /\ joins = s.joins
    BY StatementFields
  <2>2. Ahead(j, FlattenSeq(MapSeq(WriteJoin, joins))) /\ n = Len(joins)
    BY <1>2, <2>1 DEF Joining
  <2>3. \A k \in 0..n - 1 :
           /\ Is(j + 6 * k, "JOIN") /\ ParsedJoin(j + 6 * k) = joins[k + 1]
           /\ ConditionAt(j + 6 * k) + 3 = j + 6 * (k + 1)
    BY ONLY <1>3, <2>2, JoinsReadBack, n \in Nat, joins \in Seq(JoinClauses)
  <2>. QED
    BY ONLY <2>1, <2>3 DEF JoinsRead
<1>8. Is(e, "SEMICOLON")
  BY <1>2, <1>3, KeywordAhead
<1>9. GroupRead(s, g) /\ (Is(g, "GROUP") \/ Is(g, "SEMICOLON"))
  <2>1. CASE s.groupBy = <<>>
    <3>1. e = g
      <4>1. GroupLength(s) = 0
        BY <2>1 DEF GroupLength
      <4>2. e = g + GroupLength(s) /\ g \in Nat
        BY ONLY <1>3, Zenon
      <4>. QED
        BY ONLY <4>1, <4>2
    <3>. QED
      BY <1>8, <2>1, <3>1 DEF GroupRead, Is
  <2>2. CASE s.groupBy # <<>>
    <3>1. GroupRead(s, g)
      BY <1>2, <1>3, <1>8, <2>2, GroupIsRead
    <3>. QED
      BY <2>2, <3>1 DEF GroupRead
  <2>. QED
    BY <2>1, <2>2
<1>10. WhereRead(s, w)
  <2>1. CASE s.whereClause = <<>>
    <3>1. g = w
      BY <1>3, <2>1 DEF WhereLength
    <3>. QED
      BY <1>9, <2>1, <3>1 DEF WhereRead, Is
  <2>2. CASE s.whereClause # <<>>
    <3>1. /\ Is(w, "WHERE") /\ s.whereClause = <<ParsedExpression(w + 1)>>
          /\ ~Is(w + 3, "GROUP")
      BY <1>2, <1>3, <2>2, WhereIsRead
    <3>. QED
      BY <2>2, <3>1 DEF WhereRead, Is
  <2>. QED
    BY <2>1, <2>2
<1>. QED
  BY <1>1, <1>4, <1>5, <1>6, <1>7, <1>8, <1>9, <1>10 DEF StatementRead

-----------------------------------------------------------------------------
(* The statements of a script, one after the other. *)

ScriptPlaces(base) == Places(base, 1, MapSeq(WriteStatement, script), Len(script))

LEMMA ColumnPlacesExist ==
  ASSUME NEW s \in SelectStatements, NEW b \in Nat
  PROVE  \E c : ColumnPlaces(s, b, c)
<1>1. PICK n \in Nat, p \in Nat, columns \in Seq(Identifiers \cup FunctionCalls) :
        n = Len(s.columns) /\ p = ColumnsAt(s, b) /\ columns = s.columns
  BY StatementFields DEF ColumnsAt, ExplainLength
<1>2. PICK words : words = ColumnWords(columns)
  OBVIOUS
<1>3. Lists(words, n, Tokens)
  BY ONLY <1>1, <1>2, ColumnsWritten, n \in Nat, columns \in Seq(Identifiers \cup FunctionCalls)
<1>4. PICK c : Places(c, p, words, n)
  BY ONLY <1>3, PlacesExist, n \in Nat, p \in Nat
<1>. QED
  BY <1>1, <1>2, <1>4 DEF ColumnPlaces

LEMMA StatementWritten ==
  ASSUME NEW s \in SelectStatements
  PROVE  WriteStatement(s) \in Seq(Tokens)
<1>1. PICK b \in Nat : b = 1
  OBVIOUS
<1>2. PICK c : ColumnPlaces(s, b, c)
  BY ColumnPlacesExist
<1>. QED
  BY <1>2, StatementParts DEF TokenList

LEMMA ScriptWritten ==
  ASSUME script \in Seq(SelectStatements)
  PROVE  /\ Len(script) \in Nat
         /\ Lists(MapSeq(WriteStatement, script), Len(script), Tokens)
         /\ \E base : ScriptPlaces(base)
<1>1. PICK n \in Nat : n = Len(script)
  BY LenProperties
<1>2. PICK lists : lists = MapSeq(WriteStatement, script)
  OBVIOUS
<1>3. lists = [i \in 1..n |-> WriteStatement(script[i])]
  BY <1>1, <1>2 DEF MapSeq
<1>4. ASSUME NEW i \in 1..n PROVE WriteStatement(script[i]) \in Seq(Tokens)
  <2>1. script[i] \in SelectStatements
    BY <1>1, ElementOfSeq
  <2>. QED
    BY ONLY <2>1, StatementWritten
<1>5. Lists(lists, n, Tokens)
  BY ONLY <1>3, <1>4 DEF Lists
<1>6. PICK p \in Nat : p = 1
  OBVIOUS
<1>7. PICK base : Places(base, p, lists, n)
  BY ONLY <1>5, PlacesExist, n \in Nat, p \in Nat
<1>. QED
  BY <1>1, <1>2, <1>5, <1>6, <1>7 DEF ScriptPlaces

\* The lexer has delivered the tokens of the script.
Delivered ==
  /\ lexed /\ script # <<>> /\ LexesBack
  /\ Len(tokens) \in Nat
  /\ script \in Seq(SelectStatements)

LEMMA ScriptReadsBack ==
  ASSUME Delivered, NEW base, ScriptPlaces(base)
  PROVE  /\ base \in [0..Len(script) -> Nat] /\ base[0] = 1
         /\ \A k \in 0..Len(script) - 1 : \A c :
              ColumnPlaces(script[k + 1], base[k], c) =>
                /\ StatementRead(script[k + 1], base[k], c)
                /\ base[k + 1] = EndAt(script[k + 1], c) + 1
         /\ Is(base[Len(script)], "END_OF_FILE")
<1>1. PICK n \in Nat, p \in Nat : n = Len(script) /\ p = 1
  BY ScriptWritten DEF Delivered
<1>2. PICK lists : lists = MapSeq(WriteStatement, script)
  OBVIOUS
<1>3. Lists(lists, n, Tokens) /\ Places(base, p, lists, n)
  BY <1>1, <1>2, ScriptWritten DEF Delivered, ScriptPlaces
<1>4. base \in [0..n -> Nat] /\ base[0] = 1
  BY ONLY <1>1, <1>2, <1>3 DEF Places
<1>5. PICK wanted : wanted = WriteScript(script) /\ wanted = FlattenSeq(lists)
  BY <1>1, <1>2 DEF WriteScript
<1>6. /\ Len(tokens) = Len(wanted)
      /\ \A i \in 1..Len(tokens) : Delivers(tokens[i], wanted[i])
  BY <1>5 DEF Delivered, LexesBack, Delivers
<1>7. Ahead(p, wanted)
  <2>1. ASSUME NEW k \in 1..Len(wanted) PROVE Delivers(TokenAt(p + k - 1), wanted[k])
    <3>1. p + k - 1 = k /\ k \in 1..Len(tokens)
      BY <1>1, <1>2, <1>6, <2>1
    <3>. QED
      BY <1>6, <3>1 DEF TokenAt
  <2>. QED
    BY <2>1 DEF Ahead
<1>8. \A k \in 0..n - 1 : Ahead(base[k], lists[k + 1])
  <2>1. Ahead(p, FlattenSeq(lists))
    BY <1>5, <1>7
  <2>. QED
    BY ONLY <1>3, <2>1, AheadPlaces, n \in Nat, p \in Nat
<1>9. ASSUME NEW k \in 0..n - 1, NEW c, ColumnPlaces(script[k + 1], base[k], c)
      PROVE  /\ StatementRead(script[k + 1], base[k], c)
             /\ base[k + 1] = EndAt(script[k + 1], c) + 1
  <2>1. k \in 0..n /\ k + 1 \in 1..n
    BY <1>9
  <2>2. PICK s \in SelectStatements, b \in Nat : s = script[k + 1] /\ b = base[k]
    <3>1. script[k + 1] \in SelectStatements
      BY <1>1, <1>2, <2>1, ElementOfSeq DEF Delivered
    <3>2. base[k] \in Nat
      BY ONLY <1>4, <2>1
    <3>. QED
      BY <3>1, <3>2
  <2>3. lists[k + 1] = WriteStatement(s)
    BY <1>1, <1>2, <2>1, <2>2 DEF MapSeq
  <2>4. Ahead(b, WriteStatement(s)) /\ ColumnPlaces(s, b, c) /\ Len(tokens) \in Nat
    BY <1>8, <1>9, <2>2, <2>3 DEF Delivered
  <2>5. StatementRead(s, b, c)
    BY ONLY <2>4, StatementReadsBack, s \in SelectStatements, b \in Nat
  <2>6. TokenList(WriteStatement(s), EndAt(s, c) + 1 - b) /\ EndAt(s, c) \in Nat /\ EndAt(s, c) >= b
    BY ONLY <2>4, StatementParts, s \in SelectStatements, b \in Nat
  <2>7. base[k + 1] = b + Len(WriteStatement(s))
    BY <1>3, <1>9, <2>2, <2>3 DEF Places
  <2>8. base[k + 1] = EndAt(s, c) + 1
    <3>1. Len(WriteStatement(s)) = EndAt(s, c) + 1 - b
      BY <2>6 DEF TokenList
    <3>. QED
      BY ONLY <2>6, <2>7, <3>1, b \in Nat
  <2>. QED
    BY <2>2, <2>5, <2>8
<1>10. Is(base[n], "END_OF_FILE")
  <2>1. FlattenSeq(lists) \in Seq(Tokens) /\ base[n] = p + Len(FlattenSeq(lists))
    BY ONLY <1>3, PlacesEnd, n \in Nat, p \in Nat
  <2>2. base[n] = 1 + Len(tokens)
    BY <1>1, <1>2, <1>5, <1>6, <2>1
  <2>3. Len(tokens) \in Nat
    BY DEF Delivered
  <2>4. base[n] \notin 1..Len(tokens)
    BY ONLY <2>2, <2>3
  <2>. QED
    BY <2>4 DEF Is, TokenAt, Token
<1>. QED
  BY <1>1, <1>2, <1>4, <1>9, <1>10

-----------------------------------------------------------------------------
(* How far the statement s has been read. *)

Statement(e, c, t, j, w, g) ==
  [explain |-> e, columns |-> c, tableName |-> t, joins |-> j, whereClause |-> w, groupBy |-> g]

LEMMA StatementIs ==
  ASSUME NEW s \in SelectStatements
  PROVE  s = Statement(s.explain, s.columns, s.tableName, s.joins, s.whereClause, s.groupBy)
BY DEF SelectStatements, Statement

\* j of its columns have been read, and perhaps a comma.
InColumns(s, c) ==
  /\ clause = "columns"
  /\ \E j \in 0..Len(s.columns) : \E u :
       /\ Begins(u, s.columns, j)
       /\ stmt = Statement(s.explain, u, EmptyString, <<>>, <<>>, <<>>)
       /\ \/ position = c[j]
          \/ j > 0 /\ j < Len(s.columns) /\ position = c[j] + 1

InJoins(s, c) ==
  /\ clause = "joins"
  /\ \E j \in 0..Len(s.joins) : \E u :
       /\ Begins(u, s.joins, j)
       /\ stmt = Statement(s.explain, s.columns, s.tableName, u, <<>>, <<>>)
       /\ position = JoinsAt(s, c) + 6 * j

\* The last token of a WHERE is the current one still.
InGroup(s, c) ==
  /\ clause = "group"
  /\ stmt = Statement(s.explain, s.columns, s.tableName, s.joins, s.whereClause, <<>>)
  /\ position = WhereAt(s, c) + (IF s.whereClause = <<>> THEN 0 ELSE 3)

InFinish(s, c) ==
  /\ clause = "finish" /\ stmt = s
  /\ position + (IF s.whereClause = <<>> THEN 0 ELSE 1) = EndAt(s, c)

InStatement(s, c) == InColumns(s, c) \/ InJoins(s, c) \/ InGroup(s, c) \/ InFinish(s, c)

\* What the lemmas about the clauses start from.
StatementIsAhead(s, b, c) ==
  /\ s \in SelectStatements /\ b \in Nat
  /\ ColumnPlaces(s, b, c) /\ StatementRead(s, b, c)
  /\ position \in Nat

LEMMA ColumnsBegin ==
  ASSUME NEW s, NEW b, NEW c, StatementIsAhead(s, b, c), clause = "statement", position = b, ParseStatement
  PROVE  InColumns(s, c)'
<1>1. HeadRead(s, b) /\ s \in SelectStatements
  BY DEF StatementIsAhead, StatementRead
<1>2. /\ clause' = "columns" /\ position' = ColumnsAt(s, b)
      /\ stmt' = Statement(s.explain, <<>>, EmptyString, <<>>, <<>>, <<>>)
  <2>1. CASE s.explain
    <3>1. Is(position, "EXPLAIN") /\ Is(position + 1, "SELECT") /\ ~Is(position, "SELECT")
      BY <1>1, <2>1 DEF HeadRead, Is
    <3>2. stmt' = ExplainStatement /\ clause' = "columns" /\ position' = position + 2
      BY <3>1 DEF ParseStatement
    <3>3. ExplainStatement = Statement(TRUE, <<>>, EmptyString, <<>>, <<>>, <<>>)
      <4>1. PICK e, r : e = TRUE /\ r = SelectStatement
        OBVIOUS
      <4>2. r = Statement(FALSE, <<>>, EmptyString, <<>>, <<>>, <<>>)
        BY ONLY <4>1 DEF SelectStatement, Statement
      <4>3. [r EXCEPT !.explain = e] = Statement(e, <<>>, EmptyString, <<>>, <<>>, <<>>)
        BY ONLY <4>2 DEF Statement
      <4>. QED
        BY ONLY <4>1, <4>3, Zenon DEF ExplainStatement
    <3>4. s.explain = TRUE
      BY <1>1, <2>1, StatementFields
    <3>5. ColumnsAt(s, b) = b + 1 + 1 /\ b \in Nat
      BY <2>1 DEF ColumnsAt, ExplainLength, StatementIsAhead
    <3>6. position' = ColumnsAt(s, b)
      BY <3>2, <3>5
    <3>. QED
      BY <3>2, <3>3, <3>4, <3>6
  <2>2. CASE ~s.explain
    <3>1. Is(position, "SELECT") /\ ~Is(position, "EXPLAIN")
      BY <1>1, <2>2 DEF HeadRead, Is
    <3>2. stmt' = SelectStatement /\ clause' = "columns" /\ position' = position + 1
      BY <3>1 DEF ParseStatement
    <3>3. SelectStatement = Statement(FALSE, <<>>, EmptyString, <<>>, <<>>, <<>>)
      BY DEF SelectStatement, Statement
    <3>4. s.explain = FALSE
      BY <1>1, <2>2, StatementFields
    <3>5. ColumnsAt(s, b) = b + 0 + 1 /\ b \in Nat
      BY <2>2 DEF ColumnsAt, ExplainLength, StatementIsAhead
    <3>6. position' = ColumnsAt(s, b)
      BY <3>2, <3>5
    <3>. QED
      BY <3>2, <3>3, <3>4, <3>6
  <2>. QED
    BY <2>1, <2>2
<1>3. PICK n \in Nat : n = Len(s.columns)
  BY <1>1, StatementFields
<1>4. Begins(<<>>, s.columns, 0)
  <2>1. IsList(<<>>) /\ Len(<<>>) = 0
    BY ShortSequences, EmptySeq DEF IsList
  <2>2. 0 <= Len(s.columns)
    BY ONLY <1>3, n \in Nat
  <2>. QED
    BY ONLY <2>1, <2>2 DEF Begins
<1>5. c[0] = ColumnsAt(s, b)
  BY DEF StatementIsAhead, ColumnPlaces, Places
<1>6. 0 \in 0..Len(s.columns)
  BY ONLY <1>3, n \in Nat
<1>. QED
  BY <1>2, <1>4, <1>5, <1>6 DEF InColumns

LEMMA ColumnReads ==
  ASSUME NEW s, NEW b, NEW c, StatementIsAhead(s, b, c), InColumns(s, c), ParseColumn
  PROVE  InColumns(s, c)'
<1>1. /\ s \in SelectStatements /\ ColumnsRead(s, c) /\ Is(c[Len(s.columns)], "FROM")
      /\ position \in Nat
  BY DEF StatementIsAhead, StatementRead, FromRead
<1>2. PICK n \in Nat : n = Len(s.columns)
  BY <1>1, StatementFields
<1>3. PICK j \in 0..n : \E u :
        /\ Begins(u, s.columns, j)
        /\ stmt = Statement(s.explain, u, EmptyString, <<>>, <<>>, <<>>)
        /\ position = c[j] \/ (j > 0 /\ j < n /\ position = c[j] + 1)
  BY <1>2 DEF InColumns
<1>4. PICK u :
        /\ Begins(u, s.columns, j)
        /\ stmt = Statement(s.explain, u, EmptyString, <<>>, <<>>, <<>>)
        /\ position = c[j] \/ (j > 0 /\ j < n /\ position = c[j] + 1)
  BY <1>3
<1>5. j < n
  <2>1. ~Is(position, "FROM")
    BY DEF ParseColumn
  <2>2. j # n
    BY <1>1, <1>2, <1>3, <1>4, <2>1
  <2>. QED
    BY <1>3, <1>4, <2>2
<1>6. PICK q : q = c[j] + CommaBefore(j + 1)
  OBVIOUS
<1>7. /\ j > 0 => Is(c[j], "COMMA")
      /\ Is(q, "IDENTIFIER") /\ ParsedColumn(q) = s.columns[j + 1] /\ AfterColumn(q) = c[j + 1]
  <2>1. j \in 0..n - 1
    BY <1>3, <1>4, <1>5
  <2>. QED
    BY <1>1, <1>2, <1>6, <2>1 DEF ColumnsRead, ColumnAt
<1>8. c[j] \in Nat
  <2>1. c \in [0..n -> Nat]
    BY <1>2 DEF StatementIsAhead, ColumnPlaces, Places
  <2>. QED
    BY ONLY <1>3, <1>4, <2>1
<1>9. clause' = "columns" /\ j \in Nat
  BY DEF ParseColumn, InColumns
<1>10. CASE position = c[j] /\ j > 0
  <2>1. ~Is(position, "IDENTIFIER")
    BY <1>7, <1>10 DEF Is
  <2>2. position' = c[j] + 1 /\ stmt' = stmt
    BY <1>10, <2>1 DEF ParseColumn
  <2>3. /\ j \in 0..Len(s.columns)
        /\ j > 0 /\ j < Len(s.columns)
    BY <1>2, <1>3, <1>4, <1>5, <1>10
  <2>. QED
    BY <1>3, <1>4, <1>9, <2>2, <2>3 DEF InColumns
<1>11. CASE ~(position = c[j] /\ j > 0)
  <2>1. position = q
    <3>1. CASE j = 0
      BY <1>3, <1>4, <1>6, <1>8, <3>1 DEF CommaBefore
    <3>2. CASE j # 0
      <4>1. position = c[j] + 1 /\ j + 1 # 1
        BY <1>3, <1>4, <1>11, <3>2
      <4>. QED
        BY <1>6, <4>1 DEF CommaBefore
    <3>. QED
      BY <3>1, <3>2
  <2>2. PICK x, w : x = s.columns[j + 1] /\ w = Append(u, x)
    OBVIOUS
  <2>3. position' = c[j + 1] /\ stmt' = [stmt EXCEPT !.columns = Append(stmt.columns, x)]
    BY <1>7, <2>1, <2>2 DEF ParseColumn
  <2>4. stmt' = Statement(s.explain, w, EmptyString, <<>>, <<>>, <<>>)
    <3>1. PICK e, r : r = stmt /\ e = s.explain
      OBVIOUS
    <3>2. r = Statement(e, u, EmptyString, <<>>, <<>>, <<>>)
      BY ONLY <1>3, <1>4, <3>1
    <3>3. /\ r.columns = u
          /\ [r EXCEPT !.columns = w] = Statement(e, w, EmptyString, <<>>, <<>>, <<>>)
      BY ONLY <3>2 DEF Statement
    <3>. QED
      BY ONLY <2>2, <2>3, <3>1, <3>3
  <2>5. Begins(w, s.columns, j + 1)
    <3>1. IsList(s.columns) /\ j < Len(s.columns)
      BY <1>1, <1>2, <1>5, StatementFields DEF IsList
    <3>. QED
      BY ONLY <1>3, <1>4, <1>9, <2>2, <3>1, BeginsGrows
  <2>6. j + 1 \in 0..Len(s.columns)
    BY ONLY <1>2, <1>5, <1>9, n \in Nat
  <2>. QED
    BY <1>9, <2>3, <2>4, <2>5, <2>6 DEF InColumns
<1>. QED
  BY <1>10, <1>11

LEMMA FromReads ==
  ASSUME NEW s, NEW b, NEW c, StatementIsAhead(s, b, c), InColumns(s, c), ParseFrom
  PROVE  InJoins(s, c)'
<1>1. /\ s \in SelectStatements /\ ColumnsRead(s, c) /\ FromRead(s, c[Len(s.columns)])
      /\ position \in Nat
  BY DEF StatementIsAhead, StatementRead
<1>2. PICK n \in Nat : n = Len(s.columns)
  BY <1>1, StatementFields
<1>3. PICK j \in 0..n : \E u :
        /\ Begins(u, s.columns, j)
        /\ stmt = Statement(s.explain, u, EmptyString, <<>>, <<>>, <<>>)
        /\ position = c[j] \/ (j > 0 /\ j < n /\ position = c[j] + 1)
  BY <1>2 DEF InColumns
<1>4. PICK u :
        /\ Begins(u, s.columns, j)
        /\ stmt = Statement(s.explain, u, EmptyString, <<>>, <<>>, <<>>)
        /\ position = c[j] \/ (j > 0 /\ j < n /\ position = c[j] + 1)
  BY <1>3
<1>5. j = n
  <2>. SUFFICES ASSUME j # n PROVE FALSE
    OBVIOUS
  <2>1. j \in 0..n - 1 /\ j \in Nat
    BY <1>3, <1>4
  <2>2. (j > 0 => Is(c[j], "COMMA")) /\ Is(c[j] + CommaBefore(j + 1), "IDENTIFIER")
    BY <1>1, <1>2, <2>1 DEF ColumnsRead, ColumnAt
  <2>3. c[j] \in Nat
    <3>1. c \in [0..n -> Nat]
      BY <1>2 DEF StatementIsAhead, ColumnPlaces, Places
    <3>. QED
      BY ONLY <1>3, <1>4, <3>1
  <2>4. Is(position, "COMMA") \/ Is(position, "IDENTIFIER")
    <3>1. CASE j = 0
      BY <1>3, <1>4, <2>2, <2>3, <3>1 DEF CommaBefore
    <3>2. CASE j # 0
      <4>1. j > 0 /\ j + 1 # 1
        BY <2>1, <3>2
      <4>. QED
        BY <1>3, <1>4, <2>2, <4>1 DEF CommaBefore
    <3>. QED
      BY <3>1, <3>2
  <2>. QED
    BY <2>4 DEF ParseFrom, Is
<1>6. u = s.columns
  <2>1. IsList(s.columns) /\ n = Len(s.columns) /\ Begins(u, s.columns, n)
    BY <1>1, <1>2, <1>3, <1>4, <1>5, StatementFields DEF IsList
  <2>. QED
    BY ONLY <2>1, BeginsWhole, n \in Nat
<1>7. position = c[n]
  BY <1>3, <1>4, <1>5
<1>8. /\ position' = c[n] + 2 /\ clause' = "joins"
      /\ stmt' = [stmt EXCEPT !.tableName = s.tableName]
  BY <1>1, <1>2, <1>7 DEF ParseFrom, FromRead
<1>9. stmt' = Statement(s.explain, s.columns, s.tableName, <<>>, <<>>, <<>>)
  <2>1. PICK e, x, r : r = stmt /\ e = s.explain /\ x = s.tableName
    OBVIOUS
  <2>2. r = Statement(e, u, EmptyString, <<>>, <<>>, <<>>)
    BY ONLY <1>3, <1>4, <2>1
  <2>3. [r EXCEPT !.tableName = x] = Statement(e, u, x, <<>>, <<>>, <<>>)
    BY ONLY <2>2 DEF Statement
  <2>. QED
    BY ONLY <1>6, <1>8, <2>1, <2>3
<1>10. PICK m \in Nat : m = Len(s.joins)
  BY <1>1, StatementFields
<1>11. Begins(<<>>, s.joins, 0) /\ 0 \in 0..Len(s.joins)
  <2>1. IsList(<<>>) /\ Len(<<>>) = 0
    BY ShortSequences, EmptySeq DEF IsList
  <2>2. 0 <= Len(s.joins) /\ 0 \in 0..Len(s.joins)
    BY ONLY <1>10, m \in Nat
  <2>. QED
    BY ONLY <2>1, <2>2 DEF Begins
<1>12. position' = JoinsAt(s, c) + 6 * 0
  <2>1. JoinsAt(s, c) = c[n] + 2 /\ c[n] \in Nat
    BY <1>1, <1>2, <1>7 DEF JoinsAt
  <2>. QED
    BY <1>8, <2>1
<1>. QED
  BY <1>8, <1>9, <1>11, <1>12 DEF InJoins

LEMMA JoinReads ==
  ASSUME NEW s, NEW b, NEW c, StatementIsAhead(s, b, c), InJoins(s, c), ParseJoin
  PROVE  InJoins(s, c)'
<1>1. /\ s \in SelectStatements /\ JoinsRead(s, JoinsAt(s, c)) /\ ~Is(WhereAt(s, c), "JOIN")
      /\ position \in Nat
  BY DEF StatementIsAhead, StatementRead, WhereRead
<1>2. PICK n \in Nat : n = Len(s.joins)
  BY <1>1, StatementFields
<1>3. PICK at : at = JoinsAt(s, c)
  OBVIOUS
<1>4. PICK j \in 0..n : \E u :
        /\ Begins(u, s.joins, j)
        /\ stmt = Statement(s.explain, s.columns, s.tableName, u, <<>>, <<>>)
        /\ position = at + 6 * j
  BY <1>2, <1>3 DEF InJoins
<1>5. PICK u :
        /\ Begins(u, s.joins, j)
        /\ stmt = Statement(s.explain, s.columns, s.tableName, u, <<>>, <<>>)
        /\ position = at + 6 * j
  BY <1>4
<1>6. j < n /\ j \in Nat /\ j \in 0..n - 1
  <2>1. Is(position, "JOIN")
    BY DEF ParseJoin
  <2>2. WhereAt(s, c) = at + 6 * n
    BY <1>2, <1>3 DEF WhereAt
  <2>3. j # n
    BY <1>1, <1>4, <1>5, <2>1, <2>2
  <2>. QED
    BY ONLY <2>3, n \in Nat, j \in 0..n
<1>7. PICK x, w : x = s.joins[j + 1] /\ w = Append(u, x)
  OBVIOUS
<1>8. ParsedJoin(position) = x /\ ConditionAt(position) + 3 = at + 6 * (j + 1)
  BY <1>1, <1>2, <1>3, <1>4, <1>5, <1>6, <1>7 DEF JoinsRead
<1>9. /\ clause' = "joins" /\ position' = at + 6 * (j + 1)
      /\ stmt' = [stmt EXCEPT !.joins = Append(stmt.joins, x)]
  BY <1>8 DEF ParseJoin, InJoins
<1>10. stmt' = Statement(s.explain, s.columns, s.tableName, w, <<>>, <<>>)
  <2>1. PICK e, k, t, r : r = stmt /\ e = s.explain /\ k = s.columns /\ t = s.tableName
    OBVIOUS
  <2>2. r = Statement(e, k, t, u, <<>>, <<>>)
    BY ONLY <1>4, <1>5, <2>1
  <2>3. r.joins = u /\ [r EXCEPT !.joins = w] = Statement(e, k, t, w, <<>>, <<>>)
    BY ONLY <2>2 DEF Statement
  <2>. QED
    BY ONLY <1>7, <1>9, <2>1, <2>3
<1>11. Begins(w, s.joins, j + 1)
  <2>1. IsList(s.joins) /\ j < Len(s.joins)
    BY <1>1, <1>2, <1>3, <1>6, StatementFields DEF IsList
  <2>. QED
    BY ONLY <1>4, <1>5, <1>6, <1>7, <2>1, BeginsGrows
<1>12. j + 1 \in 0..Len(s.joins)
  BY ONLY <1>2, <1>3, <1>6, n \in Nat
<1>13. position' = JoinsAt(s, c) + 6 * (j + 1)
  BY <1>2, <1>3, <1>9
<1>. QED
  BY <1>9, <1>10, <1>11, <1>12, <1>13 DEF InJoins

LEMMA WhereReads ==
  ASSUME NEW s, NEW b, NEW c, StatementIsAhead(s, b, c), InJoins(s, c), ParseWhere
  PROVE  InGroup(s, c)'
<1>1. /\ s \in SelectStatements /\ JoinsRead(s, JoinsAt(s, c)) /\ WhereRead(s, WhereAt(s, c))
      /\ position \in Nat
  BY DEF StatementIsAhead, StatementRead
<1>2. PICK n \in Nat : n = Len(s.joins)
  BY <1>1, StatementFields
<1>3. PICK at : at = JoinsAt(s, c)
  OBVIOUS
<1>4. PICK j \in 0..n : \E u :
        /\ Begins(u, s.joins, j)
        /\ stmt = Statement(s.explain, s.columns, s.tableName, u, <<>>, <<>>)
        /\ position = at + 6 * j
  BY <1>2, <1>3 DEF InJoins
<1>5. PICK u :
        /\ Begins(u, s.joins, j)
        /\ stmt = Statement(s.explain, s.columns, s.tableName, u, <<>>, <<>>)
        /\ position = at + 6 * j
  BY <1>4
<1>6. j = n
  <2>1. ~Is(position, "JOIN")
    BY DEF ParseWhere
  <2>2. j \notin 0..n - 1
    BY <1>1, <1>2, <1>3, <1>4, <1>5, <2>1 DEF JoinsRead
  <2>. QED
    BY ONLY <2>2, n \in Nat, j \in 0..n
<1>7. u = s.joins
  <2>1. IsList(s.joins) /\ n = Len(s.joins) /\ Begins(u, s.joins, n)
    BY <1>1, <1>2, <1>3, <1>4, <1>5, <1>6, StatementFields DEF IsList
  <2>. QED
    BY ONLY <2>1, BeginsWhole, n \in Nat
<1>8. position = WhereAt(s, c) /\ clause' = "group"
  BY <1>2, <1>3, <1>4, <1>5, <1>6 DEF WhereAt, ParseWhere
<1>9. CASE s.whereClause = <<>>
  <2>1. ~Is(position, "WHERE")
    BY <1>1, <1>8, <1>9 DEF WhereRead
  <2>2. position' = position /\ stmt' = stmt
    BY <2>1 DEF ParseWhere
  <2>3. position' = WhereAt(s, c) + 0
    BY <1>1, <1>8, <2>2
  <2>. QED
    BY <1>4, <1>5, <1>7, <1>8, <1>9, <2>2, <2>3 DEF InGroup
<1>10. CASE s.whereClause # <<>>
  <2>1. Is(position, "WHERE") /\ s.whereClause = <<ParsedExpression(position + 1)>>
    BY <1>1, <1>8, <1>10 DEF WhereRead
  <2>2. position' = position + 3 /\ stmt' = [stmt EXCEPT !.whereClause = s.whereClause]
    BY <2>1 DEF ParseWhere
  <2>3. stmt' = Statement(s.explain, s.columns, s.tableName, s.joins, s.whereClause, <<>>)
    <3>1. PICK e, k, t, w, r :
            r = stmt /\ e = s.explain /\ k = s.columns /\ t = s.tableName /\ w = s.whereClause
      OBVIOUS
    <3>2. r = Statement(e, k, t, u, <<>>, <<>>)
      BY ONLY <1>4, <1>5, <3>1
    <3>3. [r EXCEPT !.whereClause = w] = Statement(e, k, t, u, w, <<>>)
      BY ONLY <3>2 DEF Statement
    <3>. QED
      BY ONLY <1>7, <2>2, <3>1, <3>3
  <2>. QED
    BY <1>8, <1>10, <2>2, <2>3 DEF InGroup
<1>. QED
  BY <1>9, <1>10

\* A statement with a WHERE has no GROUP BY: its WHERE leaves the cursor where
\* a GROUP BY would not be seen.
LEMMA GroupReads ==
  ASSUME NEW s, NEW b, NEW c, StatementIsAhead(s, b, c), InGroup(s, c), ParseGroupBy,
         s.whereClause = <<>> \/ s.groupBy = <<>>
  PROVE  InFinish(s, c)'
<1>1. /\ s \in SelectStatements /\ WhereRead(s, WhereAt(s, c)) /\ GroupRead(s, GroupAt(s, c))
      /\ position \in Nat
  BY DEF StatementIsAhead, StatementRead
<1>2. PICK at, g : /\ at = WhereAt(s, c) /\ g = GroupAt(s, c) /\ g = at + WhereLength(s)
                  /\ EndAt(s, c) = g + GroupLength(s)
  BY DEF GroupAt, EndAt
<1>3. /\ stmt = Statement(s.explain, s.columns, s.tableName, s.joins, s.whereClause, <<>>)
      /\ position = at + (IF s.whereClause = <<>> THEN 0 ELSE 3) /\ clause' = "finish"
  BY <1>2 DEF InGroup, ParseGroupBy
<1>4. s = Statement(s.explain, s.columns, s.tableName, s.joins, s.whereClause, s.groupBy)
  BY <1>1, StatementIs
<1>5. at \in Nat
  <2>1. JoinsAt(s, c) + 6 * Len(s.joins) = at
    BY <1>2 DEF WhereAt
  <2>2. PICK n \in Nat, m \in Nat : n = Len(s.columns) /\ m = Len(s.joins)
    BY <1>1, StatementFields
  <2>3. c \in [0..n -> Nat] /\ n \in 0..n
    BY <2>2 DEF StatementIsAhead, ColumnPlaces, Places
  <2>4. c[n] \in Nat
    BY ONLY <2>3
  <2>5. at = c[n] + 2 + 6 * m
    BY <2>1, <2>2 DEF JoinsAt
  <2>. QED
    BY ONLY <2>4, <2>5, m \in Nat
<1>6. CASE s.groupBy = <<>>
  <2>1. ~Is(position, "GROUP")
    <3>1. CASE s.whereClause = <<>>
      <4>1. position = g
        BY <1>2, <1>3, <1>5, <3>1 DEF WhereLength
      <4>. QED
        BY <1>1, <1>2, <1>6, <4>1 DEF GroupRead
    <3>2. CASE s.whereClause # <<>>
      BY <1>1, <1>2, <1>3, <3>2 DEF WhereRead
    <3>. QED
      BY <3>1, <3>2
  <2>2. stmt' = stmt /\ position' = position + 0
    BY <2>1 DEF ParseGroupBy
  <2>3. stmt' = s
    BY ONLY <1>3, <1>4, <1>6, <2>2
  <2>4. position' + (IF s.whereClause = <<>> THEN 0 ELSE 1) = EndAt(s, c)
    BY <1>2, <1>3, <1>5, <1>6, <2>2 DEF WhereLength, GroupLength
  <2>. QED
    BY <1>3, <2>3, <2>4 DEF InFinish
<1>7. CASE s.groupBy # <<>>
  <2>1. s.whereClause = <<>>
    BY <1>7
  <2>2. position = g
    BY <1>2, <1>3, <1>5, <2>1 DEF WhereLength
  <2>3. /\ Is(position, "GROUP") /\ Is(position + 1, "BY")
        /\ QueryEnd(position + 2) = EndAt(s, c)
        /\ GroupNames(position + 2, EndAt(s, c)) = s.groupBy
    BY <1>1, <1>2, <1>7, <2>2 DEF GroupRead
  <2>4. position' = EndAt(s, c) /\ stmt' = [stmt EXCEPT !.groupBy = s.groupBy]
    BY <2>3 DEF ParseGroupBy
  <2>5. stmt' = s
    <3>1. PICK e, k, t, j, w, g2, r :
            /\ r = stmt /\ e = s.explain /\ k = s.columns /\ t = s.tableName /\ j = s.joins
            /\ w = s.whereClause /\ g2 = s.groupBy
      OBVIOUS
    <3>2. r = Statement(e, k, t, j, w, <<>>)
      BY ONLY <1>3, <3>1
    <3>3. [r EXCEPT !.groupBy = g2] = Statement(e, k, t, j, w, g2)
      BY ONLY <3>2 DEF Statement
    <3>. QED
      BY ONLY <1>4, <2>4, <3>1, <3>3
  <2>6. EndAt(s, c) \in Nat
    <3>1. EndAt(s, c) = g + GroupLength(s) /\ g \in Nat /\ GroupLength(s) \in Nat
      BY <1>1, <1>2, <2>2, GroupingWritten
    <3>. QED
      BY ONLY <3>1
  <2>7. position' + 0 = EndAt(s, c)
    BY <2>4, <2>6
  <2>. QED
    BY <1>3, <2>1, <2>5, <2>7 DEF InFinish
<1>. QED
  BY <1>6, <1>7

-----------------------------------------------------------------------------
(* A script of which k statements have been read. *)

Progress(base, k) ==
  /\ ScriptPlaces(base) /\ k \in 0..Len(script) /\ Begins(statements, script, k)
  /\ \/ clause = "statement" /\ position = base[k]
     \/ clause = "done" /\ k = Len(script)
     \/ /\ k < Len(script)
        /\ \E s, c : s = script[k + 1] /\ ColumnPlaces(s, base[k], c) /\ InStatement(s, c)

\* No statement of the script has both a WHERE and a GROUP BY.
OneTailEach ==
  \A i \in 1..Len(script) : script[i].whereClause = <<>> \/ script[i].groupBy = <<>>

ReadsInv ==
  /\ script # <<>> => script \in Seq(SelectStatements)
  /\ lexed /\ script # <<>> /\ LexesBack /\ OneTailEach => \E base, k : Progress(base, k)

LEMMA ReadsInitially == Init => ReadsInv
<1>. SUFFICES ASSUME Init PROVE ReadsInv
  OBVIOUS
<1>1. script # <<>> => script \in Seq(SelectStatements)
  BY ParserAssumption DEF Init
<1>2. script # <<>> => ~lexed
  BY DEF Init, LexInit
<1>. QED
  BY <1>1, <1>2 DEF ReadsInv

\* Before the first statement.
LEMMA NothingYet ==
  ASSUME script \in Seq(SelectStatements), clause = "statement", position = 1, statements = <<>>
  PROVE  \E base, k : Progress(base, k)
<1>1. PICK base : ScriptPlaces(base)
  BY ScriptWritten
<1>2. base[0] = 1
  BY <1>1 DEF ScriptPlaces, Places
<1>3. 0 \in 0..Len(script) /\ 0 <= Len(script)
  <2>1. Len(script) \in Nat
    BY ScriptWritten
  <2>. QED
    BY ONLY <2>1
<1>4. Begins(statements, script, 0)
  <2>1. IsList(<<>>) /\ Len(<<>>) = 0
    BY ShortSequences, EmptySeq DEF IsList
  <2>. QED
    BY ONLY <1>3, <2>1, statements = <<>> DEF Begins
<1>5. Progress(base, 0)
  BY <1>1, <1>2, <1>3, <1>4 DEF Progress
<1>. QED
  BY <1>5

\* The clauses of statement k + 1.
LEMMA StatementClauses ==
  ASSUME Delivered, position \in Nat, NEW base, ScriptPlaces(base), NEW k \in 0..Len(script) - 1,
         NEW s, s = script[k + 1], NEW c, ColumnPlaces(s, base[k], c)
  PROVE  /\ s \in SelectStatements /\ base[k] \in Nat /\ base[k + 1] \in Nat
         /\ StatementIsAhead(s, base[k], c) /\ base[k + 1] = EndAt(s, c) + 1
         /\ EndAt(s, c) \in Nat /\ Is(EndAt(s, c), "SEMICOLON")
<1>1. PICK n \in Nat : n = Len(script)
  BY ScriptWritten DEF Delivered
<1>2. k \in 0..n /\ k + 1 \in 0..n /\ k + 1 \in 1..n
  BY <1>1
<1>3. s \in SelectStatements
  BY <1>1, <1>2, ElementOfSeq DEF Delivered
<1>4. base \in [0..n -> Nat]
  BY <1>1, ScriptReadsBack
<1>5. base[k] \in Nat /\ base[k + 1] \in Nat
  BY ONLY <1>2, <1>4
<1>6. StatementRead(s, base[k], c) /\ base[k + 1] = EndAt(s, c) + 1
  BY ScriptReadsBack
<1>7. EndAt(s, c) \in Nat
  BY <1>3, <1>5, StatementParts
<1>. QED
  BY <1>3, <1>5, <1>6, <1>7 DEF StatementIsAhead, StatementRead

\* Between two statements the parser is on the first token of the next, or at the end.
LEMMA BetweenStatements ==
  ASSUME Delivered, position \in Nat, NEW base, ScriptPlaces(base), NEW k \in 0..Len(script)
  PROVE  /\ k = Len(script) => Is(base[k], "END_OF_FILE")
         /\ k < Len(script) => Is(base[k], "EXPLAIN") \/ Is(base[k], "SELECT")
<1>1. k = Len(script) => Is(base[k], "END_OF_FILE")
  BY ScriptReadsBack
<1>2. ASSUME k < Len(script) PROVE Is(base[k], "EXPLAIN") \/ Is(base[k], "SELECT")
  <2>1. PICK n \in Nat : n = Len(script)
    BY ScriptWritten DEF Delivered
  <2>2. k \in 0..Len(script) - 1 /\ k + 1 \in 1..n
    BY <1>2, <2>1
  <2>3. PICK s : s = script[k + 1] /\ s \in SelectStatements
    BY <2>1, <2>2, ElementOfSeq DEF Delivered
  <2>4. base[k] \in Nat
    <3>1. base \in [0..n -> Nat]
      BY <2>1, ScriptReadsBack
    <3>. QED
      BY ONLY <2>1, <3>1, k \in 0..Len(script)
  <2>5. PICK c : ColumnPlaces(s, base[k], c)
    BY <2>3, <2>4, ColumnPlacesExist
  <2>6. StatementIsAhead(s, base[k], c)
    BY <2>2, <2>3, <2>5, StatementClauses
  <2>. QED
    BY <2>6 DEF StatementIsAhead, StatementRead, HeadRead
<1>. QED
  BY <1>1, <1>2

LEMMA ReadsStep ==
  ASSUME OneTailEach, Delivered, position \in Nat, position' \in Nat,
         NEW base, NEW k, Progress(base, k), Parse, UNCHANGED input
  PROVE  \E l : Progress(base, l)'
<1>0. /\ ScriptPlaces(base) /\ k \in 0..Len(script) /\ Begins(statements, script, k)
      /\ script' = script /\ ScriptPlaces(base)' /\ Len(script) \in Nat
  BY ScriptWritten DEF Progress, input, ScriptPlaces, Delivered
<1>1. CASE clause = "statement" /\ position = base[k]
  <2>1. ParseStatement \/ ParseEnd
    BY <1>1 DEF Parse, ParseColumn, ParseFrom, ParseJoin, ParseWhere, ParseGroupBy, FinishStatement
  <2>2. CASE ParseEnd
    <3>1. k = Len(script)
      <4>1. Is(base[k], "END_OF_FILE")
        BY <1>1, <2>2 DEF ParseEnd
      <4>2. ~(k < Len(script))
        BY <1>0, <4>1, BetweenStatements DEF Is
      <4>. QED
        BY ONLY <1>0, <4>2
    <3>2. clause' = "done" /\ statements' = statements
      BY <2>2 DEF ParseEnd
    <3>3. Progress(base, k)'
      BY <1>0, <3>1, <3>2 DEF Progress
    <3>. QED
      BY <3>3
  <2>3. CASE ParseStatement
    <3>1. k < Len(script) /\ k \in 0..Len(script) - 1
      <4>1. ~Is(base[k], "END_OF_FILE")
        BY <1>1, <2>3 DEF ParseStatement
      <4>2. k # Len(script)
        BY <1>0, <4>1, BetweenStatements
      <4>. QED
        BY ONLY <1>0, <4>2
    <3>2. PICK s : s = script[k + 1]
      OBVIOUS
    <3>3. s \in SelectStatements /\ base[k] \in Nat
      <4>1. k + 1 \in 1..Len(script) /\ k \in 0..Len(script)
        BY ONLY <1>0, <3>1
      <4>2. s \in SelectStatements
        BY <3>2, <4>1, ElementOfSeq DEF Delivered
      <4>3. base \in [0..Len(script) -> Nat]
        BY <1>0, ScriptReadsBack
      <4>. QED
        BY ONLY <4>1, <4>2, <4>3
    <3>4. PICK c : ColumnPlaces(s, base[k], c)
      BY <3>3, ColumnPlacesExist
    <3>5. StatementIsAhead(s, base[k], c)
      BY <1>0, <3>1, <3>2, <3>4, StatementClauses
    <3>6. InColumns(s, c)'
      BY <1>1, <2>3, <3>5, ColumnsBegin
    <3>7. statements' = statements
      BY <2>3 DEF ParseStatement
    <3>8. Progress(base, k)'
      BY <1>0, <3>1, <3>2, <3>4, <3>6, <3>7 DEF Progress, InStatement
    <3>. QED
      BY <3>8
  <2>. QED
    BY <2>1, <2>2, <2>3
<1>2. CASE clause = "done"
  BY <1>2 DEF Parse, ParseStatement, ParseEnd, ParseColumn, ParseFrom, ParseJoin, ParseWhere,
              ParseGroupBy, FinishStatement
<1>3. ASSUME k < Len(script), NEW s, NEW c, s = script[k + 1], ColumnPlaces(s, base[k], c),
             InStatement(s, c)
      PROVE  \E l : Progress(base, l)'
  <2>1. k \in 0..Len(script) - 1 /\ k + 1 \in 1..Len(script) /\ k + 1 \in 0..Len(script) /\ k \in Nat
    BY ONLY <1>0, <1>3
  <2>2. /\ s \in SelectStatements /\ base[k + 1] \in Nat
        /\ StatementIsAhead(s, base[k], c) /\ base[k + 1] = EndAt(s, c) + 1
        /\ EndAt(s, c) \in Nat /\ Is(EndAt(s, c), "SEMICOLON")
    <3>1. Delivered /\ position \in Nat /\ ScriptPlaces(base)
      BY <1>0
    <3>2. k \in 0..Len(script) - 1 /\ s = script[k + 1] /\ ColumnPlaces(s, base[k], c)
      BY <1>3, <2>1
    <3>3. StatementIsAhead(s, base[k], c) /\ base[k + 1] = EndAt(s, c) + 1
      <4>1. StatementIsAhead(s, base[k], c)
        BY <3>1, <3>2, StatementClauses
      <4>2. base[k + 1] = EndAt(s, c) + 1
        BY <3>1, <3>2, ScriptReadsBack
      <4>. QED
        BY <4>1, <4>2
    <3>4. EndAt(s, c) \in Nat /\ Is(EndAt(s, c), "SEMICOLON")
      <4>1. PICK b : b = base[k] /\ StatementIsAhead(s, b, c)
        BY ONLY <3>3
      <4>2. EndAt(s, c) \in Nat
        BY ONLY <4>1, StatementParts DEF StatementIsAhead
      <4>. QED
        BY ONLY <4>1, <4>2 DEF StatementIsAhead, StatementRead
    <3>5. s \in SelectStatements /\ base[k + 1] \in Nat
      BY ONLY <3>3, <3>4 DEF StatementIsAhead
    <3>. QED
      BY ONLY <3>3, <3>4, <3>5
  <2>3. ASSUME InStatement(s, c)', statements' = statements PROVE \E l : Progress(base, l)'
    <3>1. Progress(base, k)'
      BY <1>0, <1>3, <2>3 DEF Progress
    <3>. QED
      BY <3>1
  <2>4. CASE ParseColumn \/ ParseFrom
    <3>1. InColumns(s, c) /\ statements' = statements
      BY <1>3, <2>4 DEF InStatement, InJoins, InGroup, InFinish, ParseColumn, ParseFrom
    <3>2. InColumns(s, c)' \/ InJoins(s, c)'
      BY <2>2, <2>4, <3>1, ColumnReads, FromReads
    <3>. QED
      BY <2>3, <3>1, <3>2 DEF InStatement
  <2>5. CASE ParseJoin \/ ParseWhere
    <3>1. InJoins(s, c) /\ statements' = statements
      BY <1>3, <2>5 DEF InStatement, InColumns, InGroup, InFinish, ParseJoin, ParseWhere
    <3>2. InJoins(s, c)' \/ InGroup(s, c)'
      BY <2>2, <2>5, <3>1, JoinReads, WhereReads
    <3>. QED
      BY <2>3, <3>1, <3>2 DEF InStatement
  <2>6. CASE ParseGroupBy
    <3>1. InGroup(s, c) /\ statements' = statements
      BY <1>3, <2>6 DEF InStatement, InColumns, InJoins, InFinish, ParseGroupBy
    <3>2. s.whereClause = <<>> \/ s.groupBy = <<>>
      BY <1>3, <2>1 DEF OneTailEach
    <3>3. InFinish(s, c)'
      BY <2>2, <2>6, <3>1, <3>2, GroupReads
    <3>. QED
      BY <2>3, <3>1, <3>3 DEF InStatement
  <2>7. CASE FinishStatement
    <3>1. InFinish(s, c)
      BY <1>3, <2>7 DEF InStatement, InColumns, InJoins, InGroup, FinishStatement
    <3>2. PICK end \in Nat : end = EndAt(s, c)
      BY <2>2
    <3>3. ~Is(end + 1, "SEMICOLON")
      <4>1. Is(base[k + 1], "END_OF_FILE") \/ Is(base[k + 1], "EXPLAIN") \/ Is(base[k + 1], "SELECT")
        <5>1. k + 1 = Len(script) \/ k + 1 < Len(script)
          BY ONLY <1>0, <2>1
        <5>. QED
          BY <1>0, <2>1, <5>1, BetweenStatements
      <4>. QED
        BY <2>2, <3>2, <4>1 DEF Is
    <3>4. position' = end + 1
      <4>1. CASE s.whereClause = <<>>
        <5>1. position + 0 = end
          BY <3>1, <3>2, <4>1 DEF InFinish
        <5>2. position = end
          BY <5>1
        <5>. QED
          BY <2>7, <3>3, <5>2 DEF FinishStatement
      <4>2. CASE s.whereClause # <<>>
        <5>1. position + 1 = end
          BY <3>1, <3>2, <4>2 DEF InFinish
        <5>2. Is(position + 1, "SEMICOLON")
          BY <2>2, <3>2, <5>1
        <5>3. position' = position + 2
          BY <2>7, <5>2 DEF FinishStatement
        <5>. QED
          BY <5>1, <5>3
      <4>. QED
        BY <4>1, <4>2
    <3>5. statements' = Append(statements, s) /\ clause' = "statement"
      BY <2>7, <3>1 DEF FinishStatement, InFinish
    <3>6. PICK v, w : v = statements /\ w = Append(v, s)
      OBVIOUS
    <3>7. Begins(w, script, k + 1)
      <4>1. Begins(v, script, k) /\ IsList(script)
        BY <1>0, <3>6 DEF Delivered, IsList
      <4>. QED
        BY ONLY <1>3, <2>1, <3>6, <4>1, BeginsGrows
    <3>8. Begins(statements', script, k + 1)
      BY ONLY <3>5, <3>6, <3>7
    <3>9. position' = base[k + 1]
      BY <2>2, <3>2, <3>4
    <3>10. Progress(base, k + 1)'
      BY <1>0, <2>1, <3>5, <3>8, <3>9 DEF Progress
    <3>. QED
      BY <3>10
  <2>8. CASE ParseStatement \/ ParseEnd
    BY <1>3, <2>8 DEF InStatement, InColumns, InJoins, InGroup, InFinish, ParseStatement, ParseEnd
  <2>. QED
    BY <2>4, <2>5, <2>6, <2>7, <2>8 DEF Parse
<1>. QED
  BY <1>1, <1>2, <1>3 DEF Progress

LEMMA ReadsKept ==
  ASSUME ParserInv, ReadsInv, [Next]_vars
  PROVE  ReadsInv'
<1>1. ParserInv' /\ script' = script
  <2>1. script' = script
    BY DEF Next, vars, input, ReadToken, ParseStatement, ParseEnd, ParseColumn, ParseFrom,
           ParseJoin, ParseWhere, ParseGroupBy, FinishStatement
  <2>. QED
    BY <2>1, ParserStep
<1>2. script # <<>> => script \in Seq(SelectStatements)
  BY DEF ReadsInv
<1>. SUFFICES ASSUME lexed', script # <<>>, LexesBack', OneTailEach PROVE \E base, k : Progress(base, k)'
  BY <1>1, <1>2 DEF ReadsInv, OneTailEach
<1>3. position \in Nat /\ position' \in Nat /\ Len(tokens) \in Nat
  BY <1>1, ListFacts DEF ParserInv, PositionInv, ParserLexInv, LexInv
<1>4. CASE ReadToken
  <2>1. /\ clause' = "statement" /\ position' = 1 /\ statements' = <<>>
    BY <1>4 DEF ReadToken, Lex, ReadIdentifier, ReadNumber, ReadSymbol, ReadEnd,
                ParserInv, ParserLexInv
  <2>2. PICK base, k : Progress(base, k)
    <3>1. clause = "statement" /\ position = 1 /\ statements = <<>>
      BY <1>4 DEF ReadToken, Lex, ReadIdentifier, ReadNumber, ReadSymbol, ReadEnd,
                  ParserInv, ParserLexInv
    <3>. QED
      BY <1>2, <3>1, NothingYet
  <2>3. UNCHANGED <<script, position, clause, stmt, statements>>
    BY <1>4 DEF ReadToken
  <2>4. Progress(base, k)'
    BY <2>2, <2>3 DEF Progress, ScriptPlaces, InStatement, InColumns, InJoins, InGroup, InFinish
  <2>. QED
    BY <2>4
<1>5. CASE Parse
  <2>1. lexed /\ UNCHANGED input
    BY <1>5, ParseKeepsTokens DEF ParserInv
  <2>2. LexesBack
    BY <2>1 DEF LexesBack, input, lexerVars
  <2>3. Delivered
    BY <1>2, <1>3, <2>1, <2>2 DEF Delivered
  <2>4. PICK base, k : Progress(base, k)
    BY <2>1, <2>2 DEF ReadsInv
  <2>5. \E l : Progress(base, l)'
    BY <1>3, <1>5, <2>1, <2>3, <2>4, ReadsStep
  <2>. QED
    BY <2>5
<1>6. CASE UNCHANGED vars
  <2>1. UNCHANGED <<script, tokens, lexed, position, clause, stmt, statements>>
    BY <1>6 DEF vars, input, lexerVars
  <2>2. lexed /\ LexesBack
    BY <2>1 DEF LexesBack
  <2>3. PICK base, k : Progress(base, k)
    BY <2>2 DEF ReadsInv
  <2>4. Progress(base, k)'
    BY <2>1, <2>3 DEF Progress, ScriptPlaces, InStatement, InColumns, InJoins, InGroup, InFinish
  <2>. QED
    BY <2>4
<1>. QED
  BY <1>4, <1>5, <1>6 DEF Next, Parse

\* Whatever its columns, joins and conditions, and however many of each, a script
\* whose tokens the lexer delivers (LexesBack) is read back as just its statements:
\* every clause of parse() leaves current_token_ where the next clause, and the
\* next statement, expect it.  Excepted are scripts with a statement that has a
\* WHERE and a GROUP BY, which the code does not read back.
THEOREM ParsesBackCorrect == Spec => [](LexesBack /\ OneTailEach => ParsesBack)
<1>. DEFINE Inv == ParserInv /\ ReadsInv
<1>1. Init => Inv
  BY ParserInitially, ReadsInitially
<1>2. Inv /\ [Next]_vars => Inv'
  BY ParserStep, ReadsKept
<1>3. Inv => (LexesBack /\ OneTailEach => ParsesBack)
  <2>. SUFFICES ASSUME Inv, LexesBack, OneTailEach, clause = "done", script # <<>>
                PROVE  statements = script
    BY DEF ParsesBack
  <2>1. lexed
    BY DEF ParserInv, ParserLexInv
  <2>2. PICK base, k : Progress(base, k)
    BY <2>1 DEF ReadsInv
  <2>3. k = Len(script) /\ Begins(statements, script, k)
    BY <2>2 DEF Progress, InStatement, InColumns, InJoins, InGroup, InFinish
  <2>4. IsList(script) /\ Len(script) \in Nat
    BY ListFacts DEF ReadsInv, IsList
  <2>. QED
    BY <2>3, <2>4, BeginsWhole
<1>. QED
  BY <1>1, <1>2, <1>3, PTL DEF Spec

=============================================================================

--------------------------- MODULE SequenceLemmas ---------------------------
(***************************************************************************)
(* Lemmas about numbers, recursive functions and sequences that the proof  *)
(* modules share.  The provers cannot instantiate an induction rule whose  *)
(* predicate is an operator, so induction is stated here over a set of     *)
(* numbers, and recursion over a step that is a function.                  *)
(***************************************************************************)
EXTENDS SequencesExt, SequenceTheorems, WellFoundedInduction, TLAPS

-----------------------------------------------------------------------------
(* Induction and recursion. *)

\* A set of numbers that is not empty has a least one.
LEMMA LeastNumber ==
  ASSUME NEW S \in SUBSET Nat, S # {}
  PROVE  \E m \in S : \A n \in S : m <= n
<1>1. PICK m \in S : \A n \in S : ~(<<n, m>> \in OpToRel(<, Nat))
  BY NatLessThanWellFounded, WFMin
<1>2. \A n \in S : ~(n < m)
  BY <1>1 DEF OpToRel
<1>. QED
  BY <1>2

\* A set that holds 0, and with each number the next one, holds all numbers.
LEMMA Induction ==
  ASSUME NEW S, 0 \in S, \A n \in Nat : n \in S => n + 1 \in S
  PROVE  \A n \in Nat : n \in S
<1>. DEFINE Others == Nat \ S
<1>1. SUFFICES ASSUME Others # {} PROVE FALSE
  OBVIOUS
<1>2. PICK m \in Others : \A n \in Others : m <= n
  BY <1>1, LeastNumber
<1>3. m \in Nat /\ m # 0
  BY <1>2
<1>4. m - 1 \in Nat /\ m - 1 \notin Others
  BY <1>2, <1>3
<1>. QED
  BY <1>2, <1>3, <1>4

\* The same up to a bound.
LEMMA InductionUpTo ==
  ASSUME NEW m \in Nat, NEW S, 0 \in S, \A n \in 0..m - 1 : n \in S => n + 1 \in S
  PROVE  \A n \in 0..m : n \in S
<1>. DEFINE T == {n \in Nat : n <= m => n \in S}
<1>1. 0 \in T
  OBVIOUS
<1>2. ASSUME NEW n \in Nat, n \in T PROVE n + 1 \in T
  <2>. SUFFICES ASSUME n + 1 <= m PROVE n + 1 \in S
    OBVIOUS
  <2>1. n \in 0..m - 1 /\ n \in S
    BY <1>2
  <2>. QED
    BY <2>1
<1>. HIDE DEF T
<1>3. \A n \in Nat : n \in T
  BY <1>1, <1>2, Induction
<1>. QED
  BY <1>3 DEF T

LEMMA NextInterval == \A n \in Nat : 1..n + 1 = (1..n) \cup {n + 1}
OBVIOUS

\* The functions that follow a recursive definition up to n.
Follows(f, n, D, base, step) ==
  /\ f \in [0..n -> D]
  /\ f[0] = base
  /\ \A i \in 0..n - 1 : f[i + 1] = step[<<i, f[i]>>]

\* There is exactly one such function for each n.
LEMMA RecursionUnique ==
  ASSUME NEW D, NEW base \in D, NEW step \in [Nat \X D -> D],
         NEW n \in Nat, NEW f, NEW g,
         Follows(f, n, D, base, step), Follows(g, n, D, base, step)
  PROVE  f = g
<1>. DEFINE S == {i \in Nat : i <= n => f[i] = g[i]}
<1>1. 0 \in S
  BY DEF Follows
<1>2. ASSUME NEW i \in Nat, i \in S PROVE i + 1 \in S
  <2>. SUFFICES ASSUME i + 1 <= n PROVE f[i + 1] = g[i + 1]
    OBVIOUS
  <2>1. i \in 0..n - 1 /\ f[i] = g[i]
    BY <1>2
  <2>. QED
    BY <2>1 DEF Follows
<1>3. \A i \in Nat : i \in S
  <2>. HIDE DEF S
  <2>. QED
    BY <1>1, <1>2, Induction
<1>4. \A i \in 0..n : f[i] = g[i]
  BY <1>3
<1>. QED
  BY <1>4 DEF Follows

LEMMA RecursionUpTo ==
  ASSUME NEW D, NEW base \in D, NEW step \in [Nat \X D -> D]
  PROVE  \A n \in Nat : \E f : Follows(f, n, D, base, step)
<1>. DEFINE S == {n \in Nat : \E f : Follows(f, n, D, base, step)}
<1>1. 0 \in S
  <2>. DEFINE f == [i \in 0..0 |-> base]
  <2>1. Follows(f, 0, D, base, step)
    BY DEF Follows
  <2>. QED
    BY <2>1
<1>2. ASSUME NEW n \in Nat, n \in S PROVE n + 1 \in S
  <2>1. PICK f : Follows(f, n, D, base, step)
    BY <1>2
  <2>. DEFINE g == [i \in 0..n + 1 |-> IF i <= n THEN f[i] ELSE step[<<n, f[n]>>]]
  <2>2. f \in [0..n -> D] /\ f[n] \in D
    BY <2>1 DEF Follows
  <2>3. step[<<n, f[n]>>] \in D
    BY <2>2
  <2>4. g \in [0..n + 1 -> D]
    BY <2>2, <2>3
  <2>5. g[0] = base
    BY <2>1 DEF Follows
  <2>6. \A i \in 0..n : g[i] = f[i]
    OBVIOUS
  <2>7. g[n + 1] = step[<<n, f[n]>>]
    OBVIOUS
  <2>8. ASSUME NEW i \in 0..(n + 1) - 1 PROVE g[i + 1] = step[<<i, g[i]>>]
    <3>1. CASE i = n
      <4>1. n \in 0..n
        OBVIOUS
      <4>. HIDE DEF g
      <4>. QED
        BY <2>6, <2>7, <3>1, <4>1
    <3>2. CASE i # n
      <4>1. i \in 0..n - 1 /\ i \in 0..n /\ i + 1 \in 0..n
        BY <3>2
      <4>2. f[i + 1] = step[<<i, f[i]>>]
        BY <2>1, <4>1 DEF Follows
      <4>. HIDE DEF g
      <4>. QED
        BY <2>6, <4>1, <4>2
    <3>. QED
      BY <3>1, <3>2
  <2>9. Follows(g, n + 1, D, base, step)
    <3>. HIDE DEF g
    <3>. QED
      BY <2>4, <2>5, <2>8 DEF Follows
  <2>. QED
    BY <2>9
<1>. HIDE DEF S
<1>3. \A n \in Nat : n \in S
  BY <1>1, <1>2, Induction
<1>. QED
  BY <1>3 DEF S

\* A step function and a start determine a function on all numbers.
FollowsAlways(g, D, base, step) ==
  /\ g \in [Nat -> D]
  /\ g[0] = base
  /\ \A n \in Nat : g[n + 1] = step[<<n, g[n]>>]

LEMMA Recursion ==
  ASSUME NEW D, NEW base \in D, NEW step \in [Nat \X D -> D]
  PROVE  \E g : FollowsAlways(g, D, base, step)
<1>. DEFINE upTo(n) == CHOOSE f : Follows(f, n, D, base, step)
<1>. DEFINE g == [n \in Nat |-> upTo(n)[n]]
<1>1. \A n \in Nat : Follows(upTo(n), n, D, base, step)
  BY RecursionUpTo
<1>. HIDE DEF upTo
<1>2. g \in [Nat -> D]
  BY <1>1 DEF Follows
<1>3. g[0] = base
  BY <1>1 DEF Follows
<1>4. ASSUME NEW n \in Nat PROVE g[n + 1] = step[<<n, g[n]>>]
  <2>. DEFINE long == upTo(n + 1)
  <2>. DEFINE short == [i \in 0..n |-> long[i]]
  <2>1. Follows(long, n + 1, D, base, step)
    BY <1>1
  <2>. HIDE DEF long
  <2>2. short \in [0..n -> D]
    BY <2>1 DEF Follows
  <2>3. short[0] = base
    BY <2>1 DEF Follows
  <2>4. \A i \in 0..n - 1 : short[i + 1] = step[<<i, short[i]>>]
    BY <2>1 DEF Follows
  <2>5. Follows(short, n, D, base, step)
    <3>. HIDE DEF short
    <3>. QED
      BY <2>2, <2>3, <2>4 DEF Follows
  <2>6. short = upTo(n)
    <3>. HIDE DEF short
    <3>. QED
      BY <1>1, <2>5, RecursionUnique
  <2>7. long[n + 1] = step[<<n, long[n]>>]
    BY <2>1 DEF Follows
  <2>8. g[n] = long[n] /\ g[n + 1] = long[n + 1]
    BY <2>6 DEF long
  <2>. QED
    BY <2>7, <2>8
<1>. HIDE DEF g
<1>5. FollowsAlways(g, D, base, step)
  BY <1>2, <1>3, <1>4 DEF FollowsAlways
<1>. QED
  BY <1>5

\* A recursive function over 0..n, defined from its value one below, exists.
Solves(h, n, D, base, step) ==
  /\ h \in [0..n -> D]
  /\ h = [r \in 0..n |-> IF r = 0 THEN base ELSE step[<<r, h[r - 1]>>]]

LEMMA RecursiveFunction ==
  ASSUME NEW D, NEW base \in D, NEW step \in [Nat \X D -> D], NEW n \in Nat
  PROVE  \E h : Solves(h, n, D, base, step)
<1>. DEFINE up == [p \in Nat \X D |-> step[<<p[1] + 1, p[2]>>]]
<1>1. up \in [Nat \X D -> D]
  OBVIOUS
<1>2. \A i \in Nat, d \in D : up[<<i, d>>] = step[<<i + 1, d>>]
  OBVIOUS
<1>. HIDE DEF up
<1>3. PICK g : FollowsAlways(g, D, base, up)
  BY <1>1, Recursion
<1>. DEFINE h == [r \in 0..n |-> g[r]]
<1>4. \A r \in 0..n : r \in Nat /\ g[r] \in D
  BY <1>3 DEF FollowsAlways
<1>5. ASSUME NEW r \in 0..n
      PROVE  g[r] = IF r = 0 THEN base ELSE step[<<r, h[r - 1]>>]
  <2>1. CASE r = 0
    BY <1>3, <2>1 DEF FollowsAlways
  <2>2. CASE r # 0
    <3>1. r - 1 \in Nat /\ (r - 1) + 1 = r /\ r - 1 \in 0..n
      BY <2>2
    <3>2. g[(r - 1) + 1] = up[<<r - 1, g[r - 1]>>]
      BY <1>3, <3>1 DEF FollowsAlways
    <3>3. up[<<r - 1, g[r - 1]>>] = step[<<(r - 1) + 1, g[r - 1]>>]
      BY <1>2, <1>4, <3>1
    <3>4. h[r - 1] = g[r - 1]
      BY <3>1
    <3>. QED
      BY <2>2, <3>1, <3>2, <3>3, <3>4
  <2>. QED
    BY <2>1, <2>2
<1>6. h = [r \in 0..n |-> IF r = 0 THEN base ELSE step[<<r, h[r - 1]>>]]
  BY <1>5
<1>7. h \in [0..n -> D]
  BY <1>4
<1>. QED
  BY <1>6, <1>7 DEF Solves

-----------------------------------------------------------------------------
(* Concatenation. *)

\* The elements of a concatenation, by place.
LEMMA ConcatElements ==
  ASSUME NEW S, NEW s \in Seq(S), NEW t \in Seq(S)
  PROVE  /\ s \o t \in Seq(S)
         /\ Len(s) \in Nat /\ Len(t) \in Nat
         /\ Len(s \o t) = Len(s) + Len(t)
         /\ \A i \in 1..Len(s) : i \in 1..Len(s \o t) /\ (s \o t)[i] = s[i]
         /\ \A i \in 1..Len(t) :
              Len(s) + i \in 1..Len(s \o t) /\ (s \o t)[Len(s) + i] = t[i]
         /\ \A i \in 1..Len(s \o t) : i \notin 1..Len(s) =>
              i - Len(s) \in 1..Len(t) /\ (s \o t)[i] = t[i - Len(s)]
<1>. DEFINE u == s \o t
<1>1. Len(s) \in Nat /\ Len(t) \in Nat
  BY LenProperties
<1>2. /\ u \in Seq(S) /\ Len(u) = Len(s) + Len(t)
      /\ \A i \in 1..Len(s) + Len(t) :
           u[i] = IF i <= Len(s) THEN s[i] ELSE t[i - Len(s)]
  BY ConcatProperties
<1>. HIDE DEF u
<1>3. ASSUME NEW i \in 1..Len(s)
      PROVE  i \in 1..Len(u) /\ u[i] = s[i]
  <2>1. i \in 1..Len(s) + Len(t) /\ i <= Len(s)
    BY <1>1
  <2>. QED
    BY <1>2, <2>1
<1>4. ASSUME NEW i \in 1..Len(t)
      PROVE  Len(s) + i \in 1..Len(u) /\ u[Len(s) + i] = t[i]
  <2>1. /\ Len(s) + i \in 1..Len(s) + Len(t) /\ ~(Len(s) + i <= Len(s))
        /\ (Len(s) + i) - Len(s) = i
    BY <1>1
  <2>. QED
    BY <1>2, <2>1
<1>5. ASSUME NEW i \in 1..Len(u), i \notin 1..Len(s)
      PROVE  i - Len(s) \in 1..Len(t) /\ u[i] = t[i - Len(s)]
  <2>1. i \in 1..Len(s) + Len(t)
    BY <1>2
  <2>2. ~(i <= Len(s)) /\ i - Len(s) \in 1..Len(t)
    BY <1>1, <1>5, <2>1
  <2>. QED
    BY <1>2, <2>1, <2>2
<1>. QED
  BY <1>1, <1>2, <1>3, <1>4, <1>5 DEF u

\* A sequence whose elements are all in T is a sequence over T.
LEMMA SeqByRange ==
  ASSUME NEW S, NEW T, NEW s \in Seq(S), Range(s) \subseteq T
  PROVE  s \in Seq(T)
BY SeqOfRange, SeqMonotonic

LEMMA FunctionIsSeq ==
  ASSUME NEW S, NEW n \in Nat, NEW s \in [1..n -> S]
  PROVE  s \in Seq(S) /\ Len(s) = n
OBVIOUS

LEMMA ShortSequences ==
  /\ \A S : <<>> \in Seq(S)
  /\ Len(<<>>) = 0 /\ Range(<<>>) = {}
  /\ \A S : \A x \in S : <<x>> \in Seq(S)
  /\ \A x : Len(<<x>>) = 1 /\ Range(<<x>>) = {x}
BY EmptySeq DEF Range

-----------------------------------------------------------------------------
(* Sequences in an order.  An order is a set of pairs. *)

Ordered(s, R) == \A i, j \in 1..Len(s) : i < j => <<s[i], s[j]>> \in R

LEMMA ShortOrdered == \A R : Ordered(<<>>, R) /\ \A x : Ordered(<<x>>, R)
BY ShortSequences DEF Ordered

\* A sequence of larger elements extends an ordered one.
LEMMA OrderedConcat ==
  ASSUME NEW S, NEW s \in Seq(S), NEW t \in Seq(S), NEW R,
         Ordered(s, R), Ordered(t, R),
         \A x \in Range(s), y \in Range(t) : <<x, y>> \in R
  PROVE  Ordered(s \o t, R)
<1>. DEFINE u == s \o t
<1>1. /\ u \in Seq(S) /\ Len(s) \in Nat /\ Len(t) \in Nat
      /\ \A i \in 1..Len(s) : u[i] = s[i]
      /\ \A i \in 1..Len(u) : i \notin 1..Len(s) =>
           i - Len(s) \in 1..Len(t) /\ u[i] = t[i - Len(s)]
  BY ConcatElements
<1>. HIDE DEF u
<1>2. /\ \A i \in 1..Len(s) : s[i] \in Range(s)
      /\ \A i \in 1..Len(t) : t[i] \in Range(t)
  BY RangeEquality
<1>. SUFFICES ASSUME NEW i \in 1..Len(u), NEW j \in 1..Len(u), i < j
              PROVE  <<u[i], u[j]>> \in R
  BY DEF Ordered, u
<1>3. i \in Int /\ j \in Int
  OBVIOUS
<1>4. CASE i \in 1..Len(s) /\ j \in 1..Len(s)
  BY <1>1, <1>4 DEF Ordered
<1>5. CASE i \in 1..Len(s) /\ j \notin 1..Len(s)
  BY <1>1, <1>2, <1>5
<1>6. CASE i \notin 1..Len(s)
  <2>1. j \notin 1..Len(s)
    BY <1>1, <1>3, <1>6
  <2>2. /\ i - Len(s) \in 1..Len(t) /\ u[i] = t[i - Len(s)]
        /\ j - Len(s) \in 1..Len(t) /\ u[j] = t[j - Len(s)]
    BY <1>1, <1>6, <2>1
  <2>3. i - Len(s) < j - Len(s)
    BY <1>1, <1>3
  <2>. QED
    BY <2>2, <2>3 DEF Ordered
<1>. QED
  BY <1>4, <1>5, <1>6

\* Half of the next lemma: as long as the two sequences last, they agree.
LEMMA OrderedAgree ==
  ASSUME NEW S, NEW s \in Seq(S), NEW t \in Seq(S), NEW R,
         \A x, y \in S : ~(<<x, y>> \in R /\ <<y, x>> \in R),
         Ordered(s, R), Ordered(t, R), Range(s) = Range(t)
  PROVE  \A n \in Nat : n <= Len(s) =>
           n <= Len(t) /\ \A i \in 1..n : s[i] = t[i]
<1>. DEFINE Agree == {n \in Nat : n <= Len(s) =>
                        n <= Len(t) /\ \A i \in 1..n : s[i] = t[i]}
<1>1. /\ Len(s) \in Nat /\ Len(t) \in Nat
      /\ \A i \in 1..Len(s) : s[i] \in S /\ \E j \in 1..Len(t) : s[i] = t[j]
      /\ \A i \in 1..Len(t) : t[i] \in S /\ \E j \in 1..Len(s) : t[i] = s[j]
  <2>1. /\ Range(s) = {s[i] : i \in 1..Len(s)} /\ Range(s) \subseteq S
        /\ Range(t) = {t[i] : i \in 1..Len(t)} /\ Range(t) \subseteq S
    BY RangeEquality
  <2>2. Len(s) \in Nat /\ Len(t) \in Nat
    BY LenProperties
  <2>. QED
    BY <2>1, <2>2
<1>2. 0 \in Agree
  BY <1>1
<1>3. ASSUME NEW n \in Nat, n \in Agree PROVE n + 1 \in Agree
  <2>. SUFFICES ASSUME n + 1 <= Len(s)
                PROVE  n + 1 <= Len(t) /\ \A i \in 1..n + 1 : s[i] = t[i]
    OBVIOUS
  <2>1. n <= Len(t) /\ n < Len(s) /\ \A i \in 1..n : s[i] = t[i]
    BY <1>1, <1>3
  <2>2. n + 1 \in 1..Len(s)
    BY <1>1
  <2>3. PICK j \in 1..Len(t) : s[n + 1] = t[j]
    BY <1>1, <2>2
  <2>4. j > n
    <3>. SUFFICES ASSUME j \in 1..n PROVE FALSE
      OBVIOUS
    <3>1. s[j] = s[n + 1]
      BY <2>1, <2>3
    <3>2. j \in 1..Len(s) /\ j < n + 1
      BY <1>1, <2>1
    <3>3. <<s[j], s[n + 1]>> \in R
      BY <2>2, <3>2 DEF Ordered
    <3>. QED
      BY <1>1, <2>2, <3>1, <3>3
  <2>5. n + 1 \in 1..Len(t)
    BY <1>1, <2>4
  <2>6. PICK k \in 1..Len(s) : t[n + 1] = s[k]
    BY <1>1, <2>5
  <2>7. k > n
    <3>. SUFFICES ASSUME k \in 1..n PROVE FALSE
      OBVIOUS
    <3>1. t[k] = t[n + 1]
      BY <2>1, <2>6
    <3>2. k \in 1..Len(t) /\ k < n + 1
      BY <1>1, <2>1
    <3>3. <<t[k], t[n + 1]>> \in R
      BY <2>5, <3>2 DEF Ordered
    <3>. QED
      BY <1>1, <2>5, <3>1, <3>3
  <2>8. s[n + 1] = t[n + 1]
    <3>. SUFFICES ASSUME s[n + 1] # t[n + 1] PROVE FALSE
      OBVIOUS
    <3>1. n + 1 < k /\ n + 1 < j
      BY <2>3, <2>4, <2>6, <2>7
    <3>2. <<s[n + 1], s[k]>> \in R
      BY <2>2, <3>1 DEF Ordered
    <3>3. <<t[n + 1], t[j]>> \in R
      BY <2>5, <3>1 DEF Ordered
    <3>. QED
      BY <1>1, <2>2, <2>3, <2>5, <2>6, <3>2, <3>3
  <2>. QED
    BY <2>1, <2>5, <2>8
<1>. HIDE DEF Agree
<1>4. \A n \in Nat : n \in Agree
  BY <1>2, <1>3, Induction
<1>. QED
  BY <1>4 DEF Agree

\* Two sequences with the same elements in the same order are the same sequence.
LEMMA OrderedUnique ==
  ASSUME NEW S, NEW s \in Seq(S), NEW t \in Seq(S), NEW R,
         \A x, y \in S : ~(<<x, y>> \in R /\ <<y, x>> \in R),
         Ordered(s, R), Ordered(t, R), Range(s) = Range(t)
  PROVE  s = t
<1>1. Len(s) \in Nat /\ Len(t) \in Nat
  BY LenProperties
<1>2. Len(s) <= Len(t) /\ \A i \in 1..Len(s) : s[i] = t[i]
  BY <1>1, OrderedAgree
<1>3. Len(t) <= Len(s)
  BY <1>1, OrderedAgree
<1>. QED
  BY <1>1, <1>2, <1>3, SeqEqual

-----------------------------------------------------------------------------
(* Flattening. *)

\* FlattenSeq concatenates its arguments one after the other.
LEMMA FlattenIs ==
  ASSUME NEW S, NEW m \in Nat, NEW seqs \in [1..m -> Seq(S)]
  PROVE  \E f \in [Nat -> Seq(S)] :
           /\ f[0] = <<>>
           /\ \A n \in 0..m - 1 : f[n + 1] = f[n] \o seqs[n + 1]
           /\ FlattenSeq(seqs) = f[m]
<1>. DEFINE step == [p \in Nat \X Seq(S) |->
                       IF p[1] + 1 \in 1..m THEN p[2] \o seqs[p[1] + 1] ELSE p[2]]
<1>1. /\ Len(seqs) = m
      /\ \A k \in 1..m : seqs[k] \in Seq(S)
      /\ <<>> \in Seq(S)
  BY EmptySeq
<1>2. step \in [Nat \X Seq(S) -> Seq(S)]
  <2>. SUFFICES ASSUME NEW n \in Nat, NEW q \in Seq(S)
                PROVE  (IF n + 1 \in 1..m THEN q \o seqs[n + 1] ELSE q) \in Seq(S)
    OBVIOUS
  <2>. QED
    BY <1>1, ConcatProperties
<1>3. \A n \in Nat, q \in Seq(S) : n + 1 \in 1..m => step[<<n, q>>] = q \o seqs[n + 1]
  OBVIOUS
<1>. HIDE DEF step
<1>4. PICK f \in [Nat -> Seq(S)] :
        f[0] = <<>> /\ \A n \in Nat : f[n + 1] = step[<<n, f[n]>>]
  <2>. DEFINE D == Seq(S)
  <2>1. PICK e \in D : e = <<>>
    BY <1>1
  <2>2. step \in [Nat \X D -> D]
    BY <1>2
  <2>. HIDE DEF D
  <2>3. PICK g : FollowsAlways(g, D, e, step)
    BY <2>2, Recursion
  <2>. QED
    BY <2>1, <2>3 DEF D, FollowsAlways
<1>5. ASSUME NEW n \in 0..m - 1 PROVE f[n + 1] = f[n] \o seqs[n + 1]
  <2>1. n \in Nat /\ n + 1 \in 1..m /\ f[n] \in Seq(S)
    BY <1>1
  <2>2. f[n + 1] = step[<<n, f[n]>>]
    BY <1>4, <2>1
  <2>. QED
    BY <1>3, <2>1, <2>2
<1>6. FlattenSeq(seqs) = f[m]
  <2>1. CASE m = 0
    <3>1. seqs = <<>>
      BY <2>1, EmptySeq
    <3>. QED
      BY <1>4, <2>1, <3>1 DEF FlattenSeq
  <2>2. CASE m # 0
    <3>. DEFINE Def(g) == g = [i \in 1..m |->
                                 IF i = 1 THEN seqs[i] ELSE g[i - 1] \o seqs[i]]
    <3>. DEFINE flatten == CHOOSE g : Def(g)
    <3>. DEFINE h == [i \in 1..m |-> f[i]]
    <3>1. Def(h)
      <4>1. ASSUME NEW i \in 1..m
            PROVE  h[i] = IF i = 1 THEN seqs[i] ELSE h[i - 1] \o seqs[i]
        <5>1. i - 1 \in 0..m - 1 /\ (i - 1) + 1 = i
          BY <1>1
        <5>2. f[i] = f[i - 1] \o seqs[i]
          BY <1>5, <5>1
        <5>3. CASE i = 1
          <6>1. f[i - 1] = <<>> /\ seqs[i] \in Seq(S)
            BY <1>1, <1>4, <5>3
          <6>. QED
            BY <5>2, <5>3, <6>1, ConcatEmptySeq
        <5>4. CASE i # 1
          <6>1. i - 1 \in 1..m
            BY <1>1, <5>4
          <6>. QED
            BY <5>2, <5>4, <6>1
        <5>. QED
          BY <5>3, <5>4
      <4>. QED
        BY <4>1
    <3>2. Def(flatten)
      <4>. HIDE DEF Def, h
      <4>. QED
        BY <3>1
    <3>. HIDE DEF flatten
    <3>. DEFINE Same == {i \in Nat : i \in 1..m => flatten[i] = f[i]}
    <3>3. 0 \in Same
      OBVIOUS
    <3>4. ASSUME NEW i \in Nat, i \in Same PROVE i + 1 \in Same
      <4>. SUFFICES ASSUME i + 1 \in 1..m PROVE flatten[i + 1] = f[i + 1]
        OBVIOUS
      <4>1. flatten[i + 1] = IF i + 1 = 1 THEN seqs[i + 1]
                                          ELSE flatten[(i + 1) - 1] \o seqs[i + 1]
        BY <3>2
      <4>2. f[i + 1] = f[i] \o seqs[i + 1] /\ seqs[i + 1] \in Seq(S)
        <5>1. i \in 0..m - 1
          BY <1>1
        <5>. QED
          BY <1>1, <1>5, <5>1
      <4>3. CASE i = 0
        <5>1. f[i] = <<>>
          BY <1>4, <4>3
        <5>. QED
          BY <4>1, <4>2, <4>3, <5>1, ConcatEmptySeq
      <4>4. CASE i # 0
        <5>1. i \in 1..m /\ (i + 1) - 1 = i /\ i + 1 # 1
          BY <1>1, <4>4
        <5>2. flatten[i] = f[i]
          BY <3>4, <5>1
        <5>. QED
          BY <4>1, <4>2, <5>1, <5>2
      <4>. QED
        BY <4>3, <4>4
    <3>. HIDE DEF Same
    <3>5. \A i \in Nat : i \in Same
      BY <3>3, <3>4, Induction
    <3>6. FlattenSeq(seqs) = flatten[m]
      BY <1>1, <2>2 DEF FlattenSeq, flatten
    <3>7. m \in 1..m
      BY <1>1, <2>2
    <3>. QED
      BY <1>1, <3>5, <3>6, <3>7 DEF Same
  <2>. QED
    BY <2>1, <2>2
<1>. QED
  BY <1>4, <1>5, <1>6

\* What flattening yields: a sequence of the same elements.
LEMMA FlattenRange ==
  ASSUME NEW S, NEW m \in Nat, NEW seqs \in [1..m -> Seq(S)]
  PROVE  /\ FlattenSeq(seqs) \in Seq(S)
         /\ \A x : x \in Range(FlattenSeq(seqs)) <=> \E k \in 1..m : x \in Range(seqs[k])
<1>1. PICK f \in [Nat -> Seq(S)] :
        /\ f[0] = <<>>
        /\ \A n \in 0..m - 1 : f[n + 1] = f[n] \o seqs[n + 1]
        /\ FlattenSeq(seqs) = f[m]
  BY FlattenIs, ZenonT(60)
<1>2. /\ \A k \in 1..m : seqs[k] \in Seq(S)
      /\ \A a, b \in Seq(S) : Range(a \o b) = Range(a) \cup Range(b)
  BY RangeConcatenation
<1>. DEFINE P(n) == Range(f[n]) = UNION {Range(seqs[k]) : k \in 1..n}
<1>3. P(0)
  BY <1>1 DEF Range
<1>4. ASSUME NEW n \in 0..m - 1, P(n) PROVE P(n + 1)
  <2>1. f[n + 1] = f[n] \o seqs[n + 1]
    BY <1>1
  <2>2. n \in Nat /\ f[n] \in Seq(S) /\ seqs[n + 1] \in Seq(S)
    BY <1>2
  <2>3. Range(f[n + 1]) = Range(f[n]) \cup Range(seqs[n + 1])
    BY <1>2, <2>1, <2>2
  <2>4. 1..n + 1 = (1..n) \cup {n + 1}
    BY <2>2, NextInterval
  <2>. QED
    BY <1>4, <2>3, <2>4, ZenonT(60)
<1>5. \A n \in 0..m : P(n)
  <2>. DEFINE Good == {n \in 0..m : P(n)}
  <2>. HIDE DEF P
  <2>1. 0 \in Good /\ \A n \in 0..m - 1 : n \in Good => n + 1 \in Good
    BY <1>2, <1>3, <1>4
  <2>. HIDE DEF Good
  <2>2. \A n \in 0..m : n \in Good
    BY <1>2, <2>1, InductionUpTo
  <2>. QED
    BY <2>2 DEF Good
<1>6. P(m)
  <2>1. m \in 0..m
    OBVIOUS
  <2>. HIDE DEF P
  <2>. QED
    BY <1>5, <2>1
<1>7. f[m] \in Seq(S)
  OBVIOUS
<1>. QED
  BY <1>1, <1>6, <1>7, SMTT(40)

\* Ordered pieces, each before the next ones, give an ordered sequence.
LEMMA FlattenOrdered ==
  ASSUME NEW S, NEW m \in Nat, NEW seqs \in [1..m -> Seq(S)], NEW R,
         \A k \in 1..m : Ordered(seqs[k], R),
         \A k, l \in 1..m : k < l =>
           \A x \in Range(seqs[k]), y \in Range(seqs[l]) : <<x, y>> \in R
  PROVE  Ordered(FlattenSeq(seqs), R)
<1>1. PICK f \in [Nat -> Seq(S)] :
        /\ f[0] = <<>>
        /\ \A n \in 0..m - 1 : f[n + 1] = f[n] \o seqs[n + 1]
        /\ FlattenSeq(seqs) = f[m]
  BY FlattenIs, ZenonT(60)
<1>2. /\ \A k \in 1..m : seqs[k] \in Seq(S)
      /\ \A a, b \in Seq(S) : Range(a \o b) = Range(a) \cup Range(b)
  BY RangeConcatenation
<1>. DEFINE P(n) == /\ Ordered(f[n], R)
                    /\ Range(f[n]) = UNION {Range(seqs[k]) : k \in 1..n}
<1>3. P(0)
  BY <1>1 DEF Range, Ordered
<1>4. ASSUME NEW n \in 0..m - 1, P(n) PROVE P(n + 1)
  <2>1. f[n + 1] = f[n] \o seqs[n + 1]
    BY <1>1
  <2>2. /\ n \in Nat /\ n + 1 \in 1..m
        /\ f[n] \in Seq(S) /\ seqs[n + 1] \in Seq(S)
    BY <1>2
  <2>3. Range(f[n + 1]) = Range(f[n]) \cup Range(seqs[n + 1])
    BY <1>2, <2>1, <2>2
  <2>4. 1..n + 1 = (1..n) \cup {n + 1}
    BY <2>2, NextInterval
  <2>5. ASSUME NEW x \in Range(f[n]), NEW y \in Range(seqs[n + 1])
        PROVE  <<x, y>> \in R
    <3>1. PICK k \in 1..n : x \in Range(seqs[k])
      BY <1>4
    <3>2. k \in 1..m /\ k < n + 1
      BY <1>2
    <3>. QED
      BY <2>2, <3>1, <3>2
  <2>6. Ordered(f[n + 1], R)
    BY <1>4, <2>1, <2>2, <2>5, OrderedConcat
  <2>. QED
    BY <1>4, <2>3, <2>4, <2>6
<1>5. \A n \in 0..m : P(n)
  <2>. DEFINE Good == {n \in 0..m : P(n)}
  <2>. HIDE DEF P
  <2>1. 0 \in Good /\ \A n \in 0..m - 1 : n \in Good => n + 1 \in Good
    BY <1>2, <1>3, <1>4
  <2>. HIDE DEF Good
  <2>2. \A n \in 0..m : n \in Good
    BY <1>2, <2>1, InductionUpTo
  <2>. QED
    BY <2>2 DEF Good
<1>6. P(m)
  <2>1. m \in 0..m
    OBVIOUS
  <2>. HIDE DEF P
  <2>. QED
    BY <1>5, <2>1
<1>7. f[m] \in Seq(S)
  OBVIOUS
<1>. QED
  BY <1>1, <1>6, <1>7

LEMMA FlattenEmpty == FlattenSeq(<<>>) = <<>>
<1>. DEFINE none == [k \in 1..0 |-> <<>>]
<1>1. none \in [1..0 -> Seq({})] /\ none = <<>>
  OBVIOUS
<1>2. PICK f \in [Nat -> Seq({})] : f[0] = <<>> /\ FlattenSeq(none) = f[0]
  <2>. HIDE DEF none
  <2>1. 0 \in Nat
    OBVIOUS
  <2>2. \E f \in [Nat -> Seq({})] :
          /\ f[0] = <<>>
          /\ \A n \in 0..0 - 1 : f[n + 1] = f[n] \o none[n + 1]
          /\ FlattenSeq(none) = f[0]
    BY <1>1, <2>1, FlattenIs
  <2>. QED
    BY <2>2
<1>. QED
  BY <1>1, <1>2

\* What FlattenSeq concatenates, as far as it has come.
IsFlattening(f, m, seqs, S) ==
  /\ f \in [Nat -> Seq(S)]
  /\ f[0] = <<>>
  /\ \A n \in 0..m - 1 : f[n + 1] = f[n] \o seqs[n + 1]
  /\ FlattenSeq(seqs) = f[m]

LEMMA FlatteningExists ==
  ASSUME NEW S, NEW m \in Nat, NEW seqs \in [1..m -> Seq(S)]
  PROVE  \E f : IsFlattening(f, m, seqs, S)
<1>1. PICK f \in [Nat -> Seq(S)] :
        /\ f[0] = <<>>
        /\ \A n \in 0..m - 1 : f[n + 1] = f[n] \o seqs[n + 1]
        /\ FlattenSeq(seqs) = f[m]
  BY FlattenIs
<1>. QED
  BY <1>1 DEF IsFlattening

\* n sequences over S.
Lists(seqs, n, S) == seqs \in [1..n -> Seq(S)]

\* more is these n sequences and then q.
Grown(more, seqs, n, q) ==
  /\ more = [k \in 1..n + 1 |-> more[k]]
  /\ \A k \in 1..n : more[k] = seqs[k]
  /\ more[n + 1] = q

\* One more sequence comes last.
LEMMA FlattenGrows ==
  ASSUME NEW S, NEW n \in Nat, NEW seqs, Lists(seqs, n, S), NEW q \in Seq(S),
         NEW more, Grown(more, seqs, n, q)
  PROVE  Lists(more, n + 1, S) /\ FlattenSeq(more) = FlattenSeq(seqs) \o q
<1>1. PICK l \in Nat : l = n + 1
  OBVIOUS
<1>2. seqs \in [1..n -> Seq(S)] /\ (\A k \in 1..n : more[k] = seqs[k]) /\ more[l] = q
  BY <1>1 DEF Lists, Grown
<1>3. \A k \in 1..n : seqs[k] \in Seq(S)
  BY <1>2
<1>4. \A k \in 1..l : more[k] \in Seq(S)
  <2>1. \A k \in 1..l : k \in 1..n \/ k = l
    BY <1>1
  <2>. QED
    BY <1>2, <1>3, <2>1
<1>5. more \in [1..l -> Seq(S)]
  <2>1. more = [k \in 1..l |-> more[k]]
    BY <1>1 DEF Grown
  <2>. QED
    BY <1>4, <2>1
<1>6. PICK f : IsFlattening(f, n, seqs, S)
  BY <1>2, FlatteningExists
<1>7. PICK g : IsFlattening(g, l, more, S)
  BY <1>5, FlatteningExists
<1>8. \A i \in 0..n : g[i] = f[i]
  <2>. DEFINE Good == {i \in 0..n : g[i] = f[i]}
  <2>1. 0 \in Good
    BY <1>6, <1>7 DEF IsFlattening
  <2>2. ASSUME NEW i \in 0..n - 1, i \in Good PROVE i + 1 \in Good
    <3>1. i + 1 \in 1..n /\ i \in 0..l - 1 /\ i + 1 \in 0..n
      BY <1>1
    <3>2. more[i + 1] = seqs[i + 1] /\ g[i] = f[i]
      BY <1>2, <2>2, <3>1
    <3>. QED
      BY <1>6, <1>7, <3>1, <3>2 DEF IsFlattening
  <2>. HIDE DEF Good
  <2>3. \A i \in 0..n : i \in Good
    BY <2>1, <2>2, InductionUpTo
  <2>. QED
    BY <2>3 DEF Good
<1>9. FlattenSeq(more) = FlattenSeq(seqs) \o q
  <2>1. n \in 0..l - 1 /\ n \in 0..n
    BY <1>1
  <2>. QED
    BY <1>1, <1>2, <1>6, <1>7, <1>8, <2>1 DEF IsFlattening
<1>. QED
  BY <1>1, <1>5, <1>9 DEF Lists
=============================================================================

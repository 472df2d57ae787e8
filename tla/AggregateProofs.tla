-------------------------- MODULE AggregateProofs --------------------------
(***************************************************************************)
(* Proofs about module Aggregate, for every set of groups and amounts,     *)
(* every width of an int, bound and batch size: type correctness, and that *)
(* a client that pulls until false has each group once with its sum, if no *)
(* total overflowed on the way.                                            *)
(***************************************************************************)
EXTENDS Aggregate, SequenceLemmas, FiniteSetTheorems

Numbers == Groups \X Amounts   \* the rows std::stoi does not throw on

-----------------------------------------------------------------------------
(* The sums of some rows. *)

LEMMA RowFacts ==
  ASSUME NEW rs \in Seq(Numbers)
  PROVE  /\ Len(rs) \in Nat
         /\ GroupsOf(rs) = {rs[i][1] : i \in 1..Len(rs)}
         /\ \A i \in 1..Len(rs) : /\ rs[i][1] \in Groups /\ rs[i][1] \in GroupsOf(rs)
                                  /\ rs[i][2] \in Int
<1>1. /\ Len(rs) \in Nat
      /\ Range(rs) = {rs[i] : i \in 1..Len(rs)}
  BY LenProperties, RangeEquality
<1>2. \A i \in 1..Len(rs) : rs[i] \in Numbers
  BY ElementOfSeq
<1>3. Amounts \subseteq Int
  BY AggregateAssumption
<1>4. GroupsOf(rs) = {rs[i][1] : i \in 1..Len(rs)}
  BY <1>1 DEF GroupsOf
<1>. QED
  BY <1>1, <1>2, <1>3, <1>4 DEF Numbers

\* The sum of a group is what adding up row by row arrives at.
SumsUp(f, g, rs) ==
  /\ f \in [0..Len(rs) -> Int]
  /\ f[0] = 0
  /\ \A i \in 1..Len(rs) :
       f[i] = IF rs[i][1] = g THEN f[i - 1] + rs[i][2] ELSE f[i - 1]
  /\ SumOf(g, rs) = f[Len(rs)]

LEMMA SumOfFacts ==
  ASSUME NEW rs \in Seq(Numbers), NEW g
  PROVE  \E f : SumsUp(f, g, rs)
<1>. DEFINE n == Len(rs)
<1>. DEFINE Def(f) == f = [i \in 0..n |-> IF i = 0 THEN 0
                             ELSE IF rs[i][1] = g THEN f[i - 1] + rs[i][2] ELSE f[i - 1]]
<1>. DEFINE sum == CHOOSE f : Def(f)
<1>1. n \in Nat /\ \A i \in 1..n : rs[i][2] \in Int
  BY RowFacts
<1>2. Def(sum)
  <2>. DEFINE step == [p \in Nat \X Int |->
                         IF p[1] \in 1..n /\ rs[p[1]][1] = g THEN p[2] + rs[p[1]][2]
                                                            ELSE p[2]]
  <2>1. step \in [Nat \X Int -> Int]
    BY <1>1
  <2>2. \A i \in 1..n, x \in Int :
          step[<<i, x>>] = IF rs[i][1] = g THEN x + rs[i][2] ELSE x
    BY <1>1
  <2>. HIDE DEF step
  <2>3. PICK h : Solves(h, n, Int, 0, step)
    <3>. HIDE DEF n
    <3>1. 0 \in Int /\ n \in Nat
      BY <1>1
    <3>. QED
      BY <2>1, <3>1, RecursiveFunction
  <2>4. ASSUME NEW i \in 0..n, i # 0
        PROVE  step[<<i, h[i - 1]>>] =
                 IF rs[i][1] = g THEN h[i - 1] + rs[i][2] ELSE h[i - 1]
    <3>1. i \in 1..n /\ i - 1 \in 0..n
      BY <1>1, <2>4
    <3>2. h[i - 1] \in Int
      BY <2>3, <3>1 DEF Solves
    <3>. QED
      BY <2>2, <3>1, <3>2
  <2>5. Def(h)
    BY <2>3, <2>4 DEF Solves
  <2>. HIDE DEF Def
  <2>. QED
    BY <2>5
<1>3. SumOf(g, rs) = sum[n]
  BY DEF SumOf
<1>. HIDE DEF sum
<1>4. /\ sum[0] = 0
      /\ \A i \in 1..n :
           sum[i] = IF rs[i][1] = g THEN sum[i - 1] + rs[i][2] ELSE sum[i - 1]
  <2>1. 0 \in 0..n /\ \A i \in 1..n : i \in 0..n /\ i # 0
    BY <1>1
  <2>. QED
    BY <1>2, <2>1
<1>. DEFINE Good == {i \in 0..n : sum[i] \in Int}
<1>5. 0 \in Good
  BY <1>1, <1>4
<1>6. ASSUME NEW i \in 0..n - 1, i \in Good PROVE i + 1 \in Good
  <2>1. i + 1 \in 1..n /\ (i + 1) - 1 = i /\ i + 1 \in 0..n
    BY <1>1
  <2>. QED
    BY <1>1, <1>4, <1>6, <2>1
<1>. HIDE DEF Good
<1>7. \A i \in 0..n : i \in Good
  BY <1>1, <1>5, <1>6, InductionUpTo
<1>8. sum \in [0..n -> Int]
  BY <1>2, <1>7 DEF Good
<1>. QED
  BY <1>3, <1>4, <1>8 DEF SumsUp

\* The map that init builds goes through the rows one by one.
MapsUp(m, rs) ==
  /\ m[0] = [g \in GroupsOf(rs) |-> 0]
  /\ \A i \in 1..Len(rs) : m[i] = Add(m[i - 1], rs[i])
  /\ HashMaps(rs) = m

LEMMA AddFacts ==
  ASSUME NEW rs \in Seq(Numbers), NEW i \in 1..Len(rs),
         NEW map \in [GroupsOf(rs) -> Int]
  PROVE  Add(map, rs[i]) = [g \in GroupsOf(rs) |->
           IF rs[i][1] = g THEN map[g] + rs[i][2] ELSE map[g]]
BY RowFacts DEF Add

LEMMA HashMapSteps ==
  ASSUME NEW rs \in Seq(Numbers)
  PROVE  \E m : MapsUp(m, rs)
<1>. DEFINE n == Len(rs)
<1>. DEFINE D == [GroupsOf(rs) -> Int]
<1>. DEFINE zero == [g \in GroupsOf(rs) |-> 0]
<1>. DEFINE Def(m) == m = [i \in 0..n |-> IF i = 0 THEN zero ELSE Add(m[i - 1], rs[i])]
<1>. DEFINE map == CHOOSE m : Def(m)
<1>. DEFINE step == [p \in Nat \X D |-> IF p[1] \in 1..n THEN Add(p[2], rs[p[1]]) ELSE p[2]]
<1>1. n \in Nat /\ \A i \in 1..n : rs[i][2] \in Int
  BY RowFacts
<1>2. zero \in D
  OBVIOUS
<1>3. \A i \in 1..n, d \in D : Add(d, rs[i]) \in D
  <2>. SUFFICES ASSUME NEW i \in 1..n, NEW d \in D PROVE Add(d, rs[i]) \in D
    OBVIOUS
  <2>1. \A g \in GroupsOf(rs) : d[g] + rs[i][2] \in Int
    BY <1>1
  <2>2. Add(d, rs[i]) = [g \in GroupsOf(rs) |->
          IF rs[i][1] = g THEN d[g] + rs[i][2] ELSE d[g]]
    BY AddFacts
  <2>3. \A g \in GroupsOf(rs) :
          (IF rs[i][1] = g THEN d[g] + rs[i][2] ELSE d[g]) \in Int
    BY <2>1
  <2>. QED
    BY <2>2, <2>3
<1>4. step \in [Nat \X D -> D]
  BY <1>3
<1>5. \A i \in 1..n, d \in D : step[<<i, d>>] = Add(d, rs[i])
  BY <1>1
<1>6. HashMaps(rs) = map
  BY DEF HashMaps
<1>. HIDE DEF step, D, zero
<1>7. Def(map)
  <2>1. PICK h : Solves(h, n, D, zero, step)
    BY <1>1, <1>2, <1>4, RecursiveFunction
  <2>2. ASSUME NEW i \in 0..n, i # 0 PROVE step[<<i, h[i - 1]>>] = Add(h[i - 1], rs[i])
    <3>1. i \in 1..n /\ i - 1 \in 0..n
      BY <1>1, <2>2
    <3>2. h[i - 1] \in D
      BY <2>1, <3>1 DEF Solves
    <3>. QED
      BY <1>5, <3>1, <3>2
  <2>3. Def(h)
    BY <2>1, <2>2 DEF Solves
  <2>. HIDE DEF Def
  <2>. QED
    BY <2>3
<1>. HIDE DEF map
<1>8. map[0] = zero /\ \A i \in 1..n : map[i] = Add(map[i - 1], rs[i])
  <2>1. 0 \in 0..n /\ \A i \in 1..n : i \in 0..n /\ i # 0
    BY <1>1
  <2>. QED
    BY <1>7, <2>1
<1>. QED
  BY <1>6, <1>8 DEF MapsUp, zero

\* Each group's entry is its sum, and an int if none before it overflowed.
LEMMA HashMapFacts ==
  ASSUME NEW rs \in Seq(Numbers), NEW g \in GroupsOf(rs)
  PROVE  /\ HashMap(rs)[g] = SumOf(g, rs)
         /\ Fits(rs) => HashMap(rs)[g] \in Ints
<1>. DEFINE n == Len(rs)
<1>. DEFINE G == GroupsOf(rs)
<1>1. PICK f : SumsUp(f, g, rs)
  BY SumOfFacts
<1>2. PICK m : MapsUp(m, rs)
  BY HashMapSteps
<1>3. n \in Nat /\ \A i \in 1..n : rs[i][2] \in Int
  BY RowFacts
<1>. DEFINE Good == {i \in 0..n : m[i] \in [G -> Int] /\ m[i][g] = f[i]}
<1>4. 0 \in Good
  <2>1. m[0] \in [G -> Int] /\ m[0][g] = 0 /\ f[0] = 0
    BY <1>1, <1>2 DEF MapsUp, SumsUp
  <2>. QED
    BY <1>3, <2>1
<1>5. ASSUME NEW i \in 0..n - 1, i \in Good PROVE i + 1 \in Good
  <2>1. i + 1 \in 1..n /\ (i + 1) - 1 = i /\ i + 1 \in 0..n /\ i \in 0..n
    BY <1>3
  <2>2. PICK a \in Int : a = rs[i + 1][2]
    BY <1>3, <2>1
  <2>3. m[i] \in [G -> Int] /\ m[i][g] = f[i]
    BY <1>5
  <2>4. m[i + 1] = [h \in G |-> IF rs[i + 1][1] = h THEN m[i][h] + a ELSE m[i][h]]
    <3>1. m[i + 1] = Add(m[i], rs[i + 1])
      BY <1>2, <2>1 DEF MapsUp
    <3>2. PICK j \in 1..n : j = i + 1
      BY <2>1
    <3>3. PICK map \in [G -> Int] : map = m[i]
      BY <2>3
    <3>4. Add(map, rs[j]) = [h \in G |-> IF rs[j][1] = h THEN map[h] + rs[j][2] ELSE map[h]]
      BY ONLY rs \in Seq(Numbers), j \in 1..n, map \in [G -> Int], AddFacts
    <3>. QED
      BY ONLY <2>2, <3>1, <3>2, <3>3, <3>4, ZenonT(60)
  <2>5. \A h \in G : m[i][h] \in Int /\ m[i][h] + a \in Int
    BY <2>3
  <2>6. m[i + 1] \in [G -> Int]
    BY <2>4, <2>5
  <2>7. f[i + 1] = IF rs[i + 1][1] = g THEN f[i] + a ELSE f[i]
    BY <1>1, <2>1, <2>2 DEF SumsUp
  <2>8. m[i + 1][g] = f[i + 1]
    BY <2>3, <2>4, <2>7
  <2>. QED
    BY <2>1, <2>6, <2>8
<1>. HIDE DEF Good
<1>6. \A i \in 0..n : i \in Good
  BY <1>3, <1>4, <1>5, InductionUpTo
<1>7. n \in 0..n
  BY <1>3
<1>8. HashMap(rs)[g] = SumOf(g, rs)
  BY <1>1, <1>2, <1>6, <1>7 DEF Good, HashMap, MapsUp, SumsUp
<1>9. ASSUME Fits(rs) PROVE HashMap(rs)[g] \in Ints
  <2>1. \A i \in 0..Len(rs) : \A h \in GroupsOf(rs) : HashMaps(rs)[i][h] \in Ints
    BY <1>9 DEF Fits
  <2>. HIDE DEF n
  <2>2. HashMaps(rs)[Len(rs)][g] \in Ints
    BY ONLY <1>7, <2>1, g \in GroupsOf(rs), ZenonT(60) DEF n
  <2>. QED
    BY <2>2 DEF HashMap
<1>. QED
  BY <1>8, <1>9

-----------------------------------------------------------------------------
(* The list of groups. *)

\* A list holds each group of the rows rs once, with its sum.
Results(res, rs) ==
  /\ {res[i][1] : i \in 1..Len(res)} = GroupsOf(rs)
  /\ \A i, j \in 1..Len(res) : res[i][1] = res[j][1] => i = j
  /\ \A i \in 1..Len(res) : res[i][2] = SumOf(res[i][1], rs)

LEMMA GroupsFinite ==
  ASSUME NEW rs \in Seq(Numbers)
  PROVE  IsFiniteSet(GroupsOf(rs))
<1>. DEFINE f == [i \in 1..Len(rs) |-> rs[i][1]]
<1>1. Len(rs) \in Nat /\ f \in Surjection(1..Len(rs), GroupsOf(rs))
  <2>1. /\ Len(rs) \in Nat
        /\ GroupsOf(rs) = {rs[i][1] : i \in 1..Len(rs)}
    BY RowFacts
  <2>2. /\ f \in [1..Len(rs) -> GroupsOf(rs)]
        /\ \A g \in GroupsOf(rs) : \E i \in 1..Len(rs) : f[i] = g
    BY ONLY <2>1, ZenonT(60)
  <2>. QED
    BY ONLY <2>1, <2>2, Zenon DEF Surjection
<1>2. IsFiniteSet(1..Len(rs))
  BY <1>1, FS_Interval
<1>. QED
  BY <1>1, <1>2, FS_Surjection

\* However the hash map is walked, each of its keys comes once.
LEMMA WalkFacts ==
  ASSUME NEW rs \in Seq(Numbers), NEW order \in SetToSeqs(GroupsOf(rs))
  PROVE  /\ Len(order) \in Nat
         /\ \A i \in 1..Len(order) : order[i] \in GroupsOf(rs)
         /\ \A i, j \in 1..Len(order) : order[i] = order[j] => i = j
         /\ \A g \in GroupsOf(rs) : \E i \in 1..Len(order) : order[i] = g
<1>. DEFINE G == GroupsOf(rs)
<1>. DEFINE c == Cardinality(G)
<1>1. IsFiniteSet(G) /\ c \in Nat
  BY GroupsFinite, FS_CardinalityType
<1>2. /\ order \in [1..c -> G]
      /\ \A i, j \in 1..c : i # j => order[i] # order[j]
  BY DEF SetToSeqs
<1>3. Len(order) = c
  BY <1>1, <1>2
<1>4. order \in Injection(1..c, G)
  BY <1>2 DEF Injection, IsInjective
<1>5. Cardinality(1..c) = c
  BY <1>1, FS_Interval
<1>6. order \in Surjection(1..c, G)
  BY <1>1, <1>4, <1>5, FS_Injection
<1>. QED
  BY <1>1, <1>2, <1>3, <1>6 DEF Surjection

LEMMA ResultsFacts ==
  ASSUME NEW rs \in Seq(Numbers), Fits(rs), NEW order \in SetToSeqs(GroupsOf(rs))
  PROVE  LET res == [i \in 1..Len(order) |-> <<order[i], HashMap(rs)[order[i]]>>]
         IN  res \in Seq(Groups \X Ints) /\ Results(res, rs)
<1>. DEFINE n == Len(order)
<1>. DEFINE sums == HashMap(rs)
<1>. DEFINE res == [i \in 1..n |-> <<order[i], sums[order[i]]>>]
<1>1. /\ n \in Nat
      /\ \A i \in 1..n : order[i] \in GroupsOf(rs)
      /\ \A i, j \in 1..n : order[i] = order[j] => i = j
      /\ \A g \in GroupsOf(rs) : \E i \in 1..n : order[i] = g
  BY WalkFacts
<1>2. \A g \in GroupsOf(rs) : g \in Groups /\ sums[g] \in Ints /\ sums[g] = SumOf(g, rs)
  BY HashMapFacts, RowFacts
<1>. HIDE DEF sums
<1>3. res \in [1..n -> Groups \X Ints]
  BY <1>1, <1>2
<1>4. res \in Seq(Groups \X Ints) /\ Len(res) = n
  <2>1. n \in Nat
    BY <1>1
  <2>. HIDE DEF res, n
  <2>. QED
    BY <1>3, <2>1, FunctionIsSeq
<1>5. \A i \in 1..n : res[i][1] = order[i] /\ res[i][2] = sums[order[i]]
  OBVIOUS
<1>. HIDE DEF res, n
<1>6. Results(res, rs)
  <2>1. {res[i][1] : i \in 1..Len(res)} = GroupsOf(rs)
    <3>. DEFINE first(i) == res[i][1]
    <3>1. Len(res) = n /\ \A i \in 1..n : first(i) = order[i]
      BY <1>4, <1>5
    <3>. HIDE DEF first
    <3>2. \A x : (\E i \in 1..n : x = first(i)) <=> x \in GroupsOf(rs)
      BY <1>1, <3>1
    <3>3. {first(i) : i \in 1..Len(res)} = GroupsOf(rs)
      BY <3>1, <3>2
    <3>. QED
      BY <3>3 DEF first
  <2>2. \A i, j \in 1..Len(res) : res[i][1] = res[j][1] => i = j
    BY <1>1, <1>4, <1>5
  <2>3. \A i \in 1..Len(res) : res[i][2] = SumOf(res[i][1], rs)
    BY <1>1, <1>2, <1>4, <1>5
  <2>. QED
    BY <2>1, <2>2, <2>3 DEF Results
<1>. QED
  BY <1>4, <1>6 DEF res, n, sums

\* A list without repeated groups is as long as there are groups.
LEMMA ResultsLength ==
  ASSUME NEW rs \in Seq(Numbers), NEW res \in Seq(Groups \X Ints), Results(res, rs)
  PROVE  Len(res) = Cardinality(GroupsOf(rs))
<1>. DEFINE f == [i \in 1..Len(res) |-> res[i][1]]
<1>1. Len(res) \in Nat
  BY LenProperties
<1>2. f \in Bijection(1..Len(res), GroupsOf(rs))
  BY DEF Results, Bijection, Injection, Surjection, IsInjective
<1>. QED
  BY <1>1, <1>2, FS_CountingElements DEF ExistsBijection

LEMMA MinFacts ==
  ASSUME NEW a \in Int, NEW b \in Int
  PROVE  Min({a, b}) = IF a <= b THEN a ELSE b
<1>. DEFINE m == IF a <= b THEN a ELSE b
<1>1. m \in {a, b} /\ \A y \in {a, b} : m <= y
  OBVIOUS
<1>2. \A x \in {a, b} : (\A y \in {a, b} : x <= y) => x = m
  OBVIOUS
<1>3. Min({a, b}) \in {a, b} /\ \A y \in {a, b} : Min({a, b}) <= y
  <2>. HIDE DEF m
  <2>. QED
    BY <1>1 DEF Min
<1>. HIDE DEF m
<1>4. Min({a, b}) = m
  BY <1>2, <1>3
<1>. QED
  BY <1>4 DEF m

-----------------------------------------------------------------------------
(* The invariant. *)

\* The rows there were at the last init that returned.
Seen == SubSeq(rows, 1, opened)

AggregateInv ==
  /\ TypeOK
  /\ Seen \in Seq(Numbers)
  /\ outcome = "threw" => final_results_ = <<>>
  /\ outcome = "returned" => Results(final_results_, Seen)
  /\ delivered = SubSeq(final_results_, 1, current_row_)
  /\ ended => current_row_ = Len(final_results_)

LEMMA AggregateInvExact == AggregateInv => AggregateExact
<1>. SUFFICES ASSUME AggregateInv, ended, outcome = "returned"
              PROVE  /\ {row[1] : row \in Range(delivered)} = GroupsOf(Seen)
                     /\ Len(delivered) = Cardinality(GroupsOf(Seen))
                     /\ \A row \in Range(delivered) : row[2] = SumOf(row[1], Seen)
  BY DEF AggregateExact, Seen
<1>1. /\ Seen \in Seq(Numbers)
      /\ delivered \in Seq(Groups \X Ints)
      /\ final_results_ \in Seq(Groups \X Ints)
      /\ Results(final_results_, Seen)
  BY DEF AggregateInv, TypeOK
<1>2. delivered = final_results_
  BY <1>1, SubSeqFull DEF AggregateInv
<1>. DEFINE n == Len(delivered)
<1>3. Results(delivered, Seen)
  BY <1>1, <1>2
<1>4. /\ Range(delivered) = {delivered[i] : i \in 1..n}
      /\ \A i \in 1..n : delivered[i] \in Groups \X Ints
  BY <1>1, RangeEquality, ElementOfSeq
<1>5. {row[1] : row \in Range(delivered)} = GroupsOf(Seen)
  BY <1>3, <1>4 DEF Results
<1>6. Len(delivered) = Cardinality(GroupsOf(Seen))
  BY <1>1, <1>3, ResultsLength
<1>7. \A row \in Range(delivered) : row[2] = SumOf(row[1], Seen)
  BY <1>3, <1>4 DEF Results
<1>. QED
  BY <1>5, <1>6, <1>7

LEMMA AggregateInvInit == Init => AggregateInv
<1>. SUFFICES ASSUME Init PROVE AggregateInv
  OBVIOUS
<1>1. /\ rows = <<>> /\ final_results_ = <<>> /\ delivered = <<>>
      /\ opened = 0 /\ current_row_ = 0 /\ outcome = "returned" /\ ended = FALSE
  BY DEF Init
<1>2. Len(<<>>) = 0 /\ Range(<<>>) = {} /\ \A S : <<>> \in Seq(S)
  BY ShortSequences
<1>3. TypeOK
  <2>1. /\ rows \in Seq(Groups \X (Amounts \cup {NotANumber}))
        /\ final_results_ \in Seq(Groups \X Ints)
        /\ delivered \in Seq(Groups \X Ints)
    BY <1>1, <1>2
  <2>2. Len(rows) <= MaxRows /\ current_row_ \in 0..Len(final_results_)
        /\ opened \in 0..Len(rows)
    BY <1>1, <1>2, AggregateAssumption
  <2>3. outcome \in {"returned", "threw", "undefined"} /\ ended \in BOOLEAN
    BY <1>1
  <2>. QED
    BY <2>1, <2>2, <2>3 DEF TypeOK
<1>4. Seen = <<>> /\ SubSeq(final_results_, 1, current_row_) = <<>>
  BY <1>1, <1>2, SubSeqEmpty DEF Seen
<1>5. Results(final_results_, Seen)
  BY <1>1, <1>2, <1>4 DEF Results, GroupsOf
<1>. QED
  BY <1>1, <1>2, <1>3, <1>4, <1>5 DEF AggregateInv

\* An inserted row is behind those that were there at init.
LEMMA AggregateInvInsert ==
  ASSUME AggregateInv, NEW g \in Groups, NEW a \in Amounts \cup {NotANumber},
         Insert(<<g, a>>)
  PROVE  AggregateInv'
<1>. DEFINE R == Groups \X (Amounts \cup {NotANumber})
<1>1. /\ rows \in Seq(R) /\ Len(rows) \in Nat /\ opened \in 0..Len(rows)
      /\ Len(rows) < MaxRows
      /\ rows' = Append(rows, <<g, a>>) /\ <<g, a>> \in R
      /\ UNCHANGED <<final_results_, current_row_, opened, outcome, delivered, ended>>
  BY LenProperties DEF AggregateInv, TypeOK, Insert
<1>. HIDE DEF R
<1>2. /\ rows' \in Seq(R) /\ Len(rows') = Len(rows) + 1
      /\ \A i \in 1..Len(rows) : rows'[i] = rows[i]
  BY <1>1, AppendProperties
<1>3. Seen' = Seen
  <2>1. /\ Seen = [i \in 1..opened |-> rows[i]]
        /\ Seen' = [i \in 1..opened |-> rows'[i]]
    BY <1>1, <1>2 DEF Seen
  <2>2. \A i \in 1..opened : rows'[i] = rows[i]
    BY <1>1, <1>2
  <2>. QED
    BY <2>1, <2>2
<1>4. TypeOK'
  <2>1. Len(rows') <= MaxRows /\ opened' \in 0..Len(rows')
    BY <1>1, <1>2, AggregateAssumption
  <2>. QED
    BY <1>1, <1>2, <2>1 DEF AggregateInv, TypeOK, R
<1>5. Results(final_results_, Seen)' <=> Results(final_results_, Seen)
  BY <1>1, <1>3 DEF Results
<1>. QED
  BY <1>1, <1>3, <1>4, <1>5 DEF AggregateInv

LEMMA AggregateInvInitStep == ASSUME AggregateInv, AggregateInit PROVE AggregateInv'
<1>1. /\ TypeOK /\ Numeric(rows) /\ Fits(rows)
      /\ rows \in Seq(Groups \X (Amounts \cup {NotANumber}))
      /\ current_row_' = 0 /\ opened' = Len(rows) /\ outcome' = "returned"
      /\ delivered' = <<>> /\ ended' = FALSE /\ rows' = rows
  BY DEF AggregateInv, TypeOK, AggregateInit
<1>2. rows \in Seq(Numbers) /\ Len(rows) \in Nat
  <2>1. \A i \in 1..Len(rows) : rows[i] \in Numbers
    BY <1>1, ElementOfSeq DEF Numeric, Numbers
  <2>2. Range(rows) \subseteq Numbers
    BY <1>1, <2>1, RangeEquality
  <2>. QED
    BY <1>1, <2>2, SeqByRange, LenProperties
<1>3. Seen' = rows
  BY <1>1, <1>2, SubSeqFull DEF Seen
<1>4. final_results_' \in Seq(Groups \X Ints) /\ Results(final_results_', rows)
  <2>1. PICK order \in SetToSeqs(GroupsOf(rows)) :
          final_results_' = [i \in 1..Len(order) |-> <<order[i], HashMap(rows)[order[i]]>>]
    BY DEF AggregateInit
  <2>. QED
    BY <1>1, <1>2, <2>1, ResultsFacts
<1>5. Len(final_results_') \in Nat /\ <<>> \in Seq(Groups \X Ints)
  BY <1>4, LenProperties, ShortSequences
<1>6. TypeOK'
  <2>1. current_row_' \in 0..Len(final_results_') /\ opened' \in 0..Len(rows')
    BY <1>1, <1>2, <1>5
  <2>2. outcome' \in {"returned", "threw", "undefined"} /\ ended' \in BOOLEAN
    BY <1>1
  <2>. QED
    BY <1>1, <1>4, <1>5, <2>1, <2>2 DEF TypeOK
<1>7. SubSeq(final_results_', 1, current_row_') = <<>>
  BY <1>1, SubSeqEmpty
<1>. QED
  BY <1>1, <1>2, <1>3, <1>4, <1>6, <1>7 DEF AggregateInv, Results

LEMMA AggregateInvThrows == ASSUME AggregateInv, AggregateInitThrows PROVE AggregateInv'
<1>1. /\ TypeOK /\ Seen \in Seq(Numbers)
      /\ final_results_' = <<>> /\ current_row_' = 0 /\ outcome' = "threw"
      /\ delivered' = <<>> /\ ended' = FALSE
      /\ rows' = rows /\ opened' = opened
  BY DEF AggregateInv, AggregateInitThrows
<1>2. Len(<<>>) = 0 /\ \A S : <<>> \in Seq(S)
  BY ShortSequences
<1>3. TypeOK'
  <2>1. outcome' \in {"returned", "threw", "undefined"} /\ ended' \in BOOLEAN
    BY <1>1
  <2>2. current_row_' \in 0..Len(final_results_')
    BY <1>1, <1>2
  <2>. QED
    BY <1>1, <1>2, <2>1, <2>2 DEF TypeOK
<1>4. Seen' = Seen /\ SubSeq(final_results_', 1, current_row_') = <<>>
  BY <1>1, SubSeqEmpty DEF Seen
<1>. QED
  BY <1>1, <1>3, <1>4 DEF AggregateInv

\* A batch is the next stretch of the list.
LEMMA AggregateInvNext == ASSUME AggregateInv, AggregateNext PROVE AggregateInv'
<1>. DEFINE n == Len(final_results_)
<1>. DEFINE k == Min({BATCH_SIZE, n - current_row_})
<1>. DEFINE S == Groups \X Ints
<1>1. /\ TypeOK /\ final_results_ \in Seq(S) /\ delivered \in Seq(S)
      /\ n \in Nat /\ current_row_ \in 0..n /\ current_row_ < n
      /\ delivered = SubSeq(final_results_, 1, current_row_)
      /\ delivered' = delivered \o
           SubSeq(final_results_, current_row_ + 1, current_row_ + k)
      /\ current_row_' = current_row_ + k
      /\ ended' = FALSE
      /\ UNCHANGED <<rows, final_results_, opened, outcome>>
  BY LenProperties DEF AggregateInv, TypeOK, AggregateNext
<1>. HIDE DEF S
<1>2. k \in Nat /\ current_row_ + k \in current_row_..n
  <2>1. BATCH_SIZE \in Nat /\ n - current_row_ \in Nat
    BY <1>1, AggregateAssumption
  <2>2. k = IF BATCH_SIZE <= n - current_row_ THEN BATCH_SIZE ELSE n - current_row_
    <3>. HIDE DEF n
    <3>. QED
      BY <2>1, MinFacts
  <2>. HIDE DEF k
  <2>. QED
    BY <1>1, <2>1, <2>2
<1>. HIDE DEF k
<1>3. delivered' = SubSeq(final_results_, 1, current_row_ + k)
  <2>1. 1 \in 1..n + 1 /\ current_row_ \in 1 - 1..n /\ current_row_ + k \in current_row_..n
    BY <1>1, <1>2
  <2>. QED
    BY <1>1, <2>1, ConcatAdjacentSubSeq
<1>4. delivered' \in Seq(S)
  <2>1. \A i \in 1..current_row_ + k : final_results_[i] \in S
    BY <1>1, <1>2, ElementOfSeq
  <2>2. 1 \in Int /\ current_row_ + k \in Int
    BY <1>1, <1>2
  <2>. QED
    BY <1>3, <2>1, <2>2, SubSeqProperties
<1>5. TypeOK'
  <2>1. current_row_' \in 0..n
    BY <1>1, <1>2
  <2>2. ended' \in BOOLEAN
    BY <1>1
  <2>. QED
    BY <1>1, <1>4, <2>1, <2>2 DEF TypeOK, S
<1>6. Seen' = Seen
  BY <1>1 DEF Seen
<1>7. delivered' = SubSeq(final_results_', 1, current_row_')
  BY <1>1, <1>3
<1>. HIDE DEF n
<1>8. Results(final_results_, Seen)' <=> Results(final_results_, Seen)
  BY <1>1, <1>6 DEF Results
<1>. QED
  BY <1>1, <1>5, <1>6, <1>7, <1>8 DEF AggregateInv

LEMMA AggregateInvEnd == ASSUME AggregateInv, AggregateEnd PROVE AggregateInv'
<1>1. /\ TypeOK /\ Len(final_results_) \in Nat
      /\ current_row_ \in 0..Len(final_results_) /\ current_row_ >= Len(final_results_)
      /\ ended' = TRUE
      /\ UNCHANGED <<rows, final_results_, current_row_, opened, outcome, delivered>>
  BY LenProperties DEF AggregateInv, TypeOK, AggregateEnd
<1>2. current_row_ = Len(final_results_)
  BY <1>1
<1>3. TypeOK'
  <2>1. ended' \in BOOLEAN
    BY <1>1
  <2>. QED
    BY <1>1, <2>1 DEF TypeOK
<1>4. Seen' = Seen
  BY <1>1 DEF Seen
<1>. QED
  BY <1>1, <1>2, <1>3, <1>4 DEF AggregateInv, Results

LEMMA AggregateInvHolds == Spec => []AggregateInv
<1>1. AggregateInv /\ [Next]_vars => AggregateInv'
  <2>. SUFFICES ASSUME AggregateInv, [Next]_vars PROVE AggregateInv'
    OBVIOUS
  <2>1. ASSUME NEW g \in Groups, NEW a \in Amounts \cup {NotANumber}, Insert(<<g, a>>)
        PROVE  AggregateInv'
    BY <2>1, AggregateInvInsert
  <2>2. CASE AggregateInit
    BY <2>2, AggregateInvInitStep
  <2>3. CASE AggregateInitThrows
    BY <2>3, AggregateInvThrows
  <2>4. CASE AggregateNext
    BY <2>4, AggregateInvNext
  <2>6. CASE AggregateInitOverflows
    <3>1. /\ outcome' = "undefined"
          /\ UNCHANGED <<rows, final_results_, current_row_, opened, delivered, ended>>
      BY <2>6 DEF AggregateInitOverflows
    <3>. QED
      BY <3>1 DEF AggregateInv, TypeOK, Seen
  <2>5. CASE AggregateEnd
    BY <2>5, AggregateInvEnd
  <2>7. CASE UNCHANGED vars
    BY <2>7 DEF vars, AggregateInv, TypeOK, Seen, Results
  <2>. QED
    BY <2>1, <2>2, <2>3, <2>4, <2>5, <2>6, <2>7 DEF Next
<1>. QED
  BY <1>1, AggregateInvInit, PTL DEF Spec

\* The aggregate's variables keep their types: next hands out only sums that fit an int, and
\* never moves past the list of groups.
THEOREM AggregateTypeCorrect == Spec => []TypeOK
<1>1. AggregateInv => TypeOK
  BY DEF AggregateInv
<1>. QED
  BY <1>1, AggregateInvHolds, PTL

\* Whatever the table holds, however often init ran or threw before and whatever
\* was inserted since, a client that pulls until false has each group of the
\* table at init once, with its exact sum, unless a total overflowed inside init.
THEOREM AggregateCorrect == Spec => []AggregateExact
BY AggregateInvHolds, AggregateInvExact, PTL
=============================================================================

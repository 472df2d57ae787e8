--------------------------- MODULE HashJoinProofs ---------------------------
(***************************************************************************)
(* Proofs about module HashJoin, for every set of join cells, every bound  *)
(* and batch size: type correctness, that the map partitions the right     *)
(* rows, that an equi-join delivers each match once and in order, and that *)
(* it does so pull by pull as the nested loop join does.                   *)
(***************************************************************************)
EXTENDS HashJoin, SequenceLemmas, FiniteSetTheorems

\* What stands for right_materialized_ in NL.
chunks_ == [b \in 1..((opened + BATCH_SIZE - 1) \div BATCH_SIZE) |->
             [i \in 1..(IF opened - (b - 1) * BATCH_SIZE < BATCH_SIZE
                        THEN opened - (b - 1) * BATCH_SIZE ELSE BATCH_SIZE)
                |-> (b - 1) * BATCH_SIZE + i]]

\* The lemmas about the nested loop join that HashJoin compares itself with.
NLP == INSTANCE NestedLoopJoinProofs WITH right_materialized_ <- chunks_

-----------------------------------------------------------------------------
(* The operators of the two instances are the same. *)

LEMMA SameSequences ==
  /\ \A s : NLP!Range(s) = Range(s) /\ NL!Range(s) = Range(s)
  /\ \A s : NLP!FlattenSeq(s) = FlattenSeq(s) /\ NL!FlattenSeq(s) = FlattenSeq(s)
  /\ \A s, R : NLP!Ordered(s, R) <=> Ordered(s, R)
<1>1. \A s : NLP!Range(s) = Range(s) /\ NL!Range(s) = Range(s)
  BY DEF NLP!Range, NL!Range, Range
<1>2. \A s : NLP!FlattenSeq(s) = FlattenSeq(s) /\ NL!FlattenSeq(s) = FlattenSeq(s)
  BY DEF NLP!FlattenSeq, NL!FlattenSeq, FlattenSeq
<1>3. \A s, R : NLP!Ordered(s, R) <=> Ordered(s, R)
  BY DEF NLP!Ordered, Ordered
<1>. QED
  BY <1>1, <1>2, <1>3

LEMMA SameOperators ==
  /\ \A s, n : NLP!BatchAt(s, n) = NL!BatchAt(s, n)
  /\ \A n : NLP!Batches(n) = NL!Batches(n)
  /\ \A l, chunks : NLP!PairsOf(l, chunks) = NL!PairsOf(l, chunks)
  /\ \A batch, chunks : NLP!JoinBatch(batch, chunks) = NL!JoinBatch(batch, chunks)
  /\ \A L, n : NLP!Matches(L, n) = NL!Matches(L, n)
  /\ \A s : NLP!LeftThenRight(s) <=> NL!LeftThenRight(s)
<1>1. \A s, n : NLP!BatchAt(s, n) = NL!BatchAt(s, n)
  BY DEF NLP!BatchAt, NL!BatchAt
<1>2. \A n : NLP!Batches(n) = NL!Batches(n)
  BY <1>1 DEF NLP!Batches, NL!Batches
<1>3. ASSUME NEW l, NEW chunks
      PROVE  NLP!PairsOf(l, chunks) = NL!PairsOf(l, chunks)
  BY SameSequences DEF NLP!PairsOf, NL!PairsOf, NLP!RowPairs, NL!RowPairs
<1>4. ASSUME NEW batch, NEW chunks
      PROVE  NLP!JoinBatch(batch, chunks) = NL!JoinBatch(batch, chunks)
  BY <1>3, SameSequences DEF NLP!JoinBatch, NL!JoinBatch
<1>5. \A L, n : NLP!Matches(L, n) = NL!Matches(L, n)
  BY DEF NLP!Matches, NL!Matches
<1>6. \A s : NLP!LeftThenRight(s) <=> NL!LeftThenRight(s)
  BY DEF NLP!LeftThenRight, NL!LeftThenRight
<1>. QED
  BY <1>1, <1>2, <1>3, <1>4, <1>5, <1>6

LEMMA BothAssumptions == NLP!JoinAssumption
BY HashAssumption DEF NLP!JoinAssumption

-----------------------------------------------------------------------------
(* The build phase. *)

Ascending == {p \in Nat \X Nat : p[1] < p[2]}

\* The right rows up to n that hold cell k.
RowsOf(k, n) == {r \in 1..n : right_keys[r] = k}

\* A map holds, for each cell, the right rows up to n with it, in row order.
Partitions(map, n) ==
  /\ map \in [Keys -> Seq(Nat)]
  /\ \A k \in Keys : Range(map[k]) = RowsOf(k, n) /\ Ordered(map[k], Ascending)

LEMMA PushFacts ==
  ASSUME right_keys \in Seq(Keys), NEW n \in Nat, n + 1 <= Len(right_keys),
         NEW map, Partitions(map, n)
  PROVE  Partitions(Push(map, n + 1), n + 1)
<1>. DEFINE c == right_keys[n + 1]
<1>1. c \in Keys
  BY LenProperties, ElementOfSeq
<1>2. 1..n + 1 = (1..n) \cup {n + 1}
  BY NextInterval
<1>3. /\ map \in [Keys -> Seq(Nat)]
      /\ \A k \in Keys : /\ map[k] \in Seq(Nat)
                         /\ Range(map[k]) = RowsOf(k, n)
                         /\ Ordered(map[k], Ascending)
  BY DEF Partitions
<1>. DEFINE rows == map[c]
<1>. DEFINE last == <<n + 1>>
<1>4. /\ last \in Seq(Nat) /\ Range(last) = {n + 1}
      /\ Ordered(last, Ascending)
  BY ShortSequences, ShortOrdered
<1>5. /\ rows \in Seq(Nat) /\ Range(rows) = RowsOf(c, n)
      /\ Ordered(rows, Ascending)
      /\ Append(rows, n + 1) = rows \o last
  BY <1>1, <1>3, AppendIsConcat, SMTT(30)
<1>. DEFINE longer == rows \o last
<1>. HIDE DEF rows, last, c
<1>6. longer \in Seq(Nat) /\ Range(longer) = RowsOf(c, n) \cup {n + 1}
  BY <1>4, <1>5, ConcatProperties, RangeConcatenation
<1>7. Ordered(longer, Ascending)
  <2>1. \A x \in Range(rows), y \in Range(last) : <<x, y>> \in Ascending
    BY <1>4, <1>5 DEF RowsOf, Ascending
  <2>. QED
    BY <1>4, <1>5, <2>1, OrderedConcat
<1>8. Push(map, n + 1) = [map EXCEPT ![c] = longer]
  BY <1>5 DEF Push, c, rows
<1>. HIDE DEF longer
<1>9. RowsOf(c, n + 1) = RowsOf(c, n) \cup {n + 1}
  BY <1>2 DEF RowsOf, c
<1>10. \A k \in Keys : k # c => RowsOf(k, n + 1) = RowsOf(k, n)
  BY <1>2 DEF RowsOf, c
<1>. QED
  BY <1>1, <1>3, <1>6, <1>7, <1>8, <1>9, <1>10 DEF Partitions

\* The map built from the first n right rows.
LEMMA BuildFacts ==
  ASSUME right_keys \in Seq(Keys), NEW n \in 0..Len(right_keys)
  PROVE  Partitions(Build(n), n)
<1>1. Len(right_keys) \in Nat /\ n \in Nat
  BY LenProperties
<1>2. \A r \in 1..n : right_keys[r] \in Keys
  BY <1>1, ElementOfSeq
<1>. DEFINE D == [Keys -> Seq(Nat)]
<1>. DEFINE empty == [k \in Keys |-> <<>>]
<1>. DEFINE step == [p \in Nat \X D |-> IF p[1] \in 1..n THEN Push(p[2], p[1]) ELSE p[2]]
<1>. DEFINE Def(g) == g = [r \in 0..n |-> IF r = 0 THEN empty ELSE Push(g[r - 1], r)]
<1>. DEFINE map == CHOOSE g : Def(g)
<1>3. empty \in D
  BY ShortSequences
<1>4. \A r \in 1..n, d \in D : Push(d, r) \in D
  <2>. SUFFICES ASSUME NEW r \in 1..n, NEW d \in D PROVE Push(d, r) \in D
    OBVIOUS
  <2>1. right_keys[r] \in Keys /\ d[right_keys[r]] \in Seq(Nat) /\ r \in Nat
    BY <1>1, <1>2
  <2>2. Append(d[right_keys[r]], r) \in Seq(Nat)
    BY <2>1, AppendProperties
  <2>. QED
    BY <2>1, <2>2 DEF Push
<1>5. Def(map)
  <2>1. step \in [Nat \X D -> D]
    BY <1>4
  <2>2. \A r \in 1..n, d \in D : step[<<r, d>>] = Push(d, r)
    BY <1>1
  <2>. HIDE DEF step, D, empty
  <2>3. PICK h : Solves(h, n, D, empty, step)
    BY <1>1, <1>3, <2>1, RecursiveFunction
  <2>4. ASSUME NEW r \in 0..n, r # 0 PROVE step[<<r, h[r - 1]>>] = Push(h[r - 1], r)
    <3>1. r \in 1..n /\ r - 1 \in 0..n
      BY <1>1, <2>4
    <3>2. h[r - 1] \in D
      BY <2>3, <3>1 DEF Solves
    <3>. QED
      BY <2>2, <3>1, <3>2
  <2>5. Def(h)
    BY <2>3, <2>4 DEF Solves
  <2>. HIDE DEF Def
  <2>. QED
    BY <2>5
<1>6. Build(n) = map[n]
  BY DEF Build
<1>. HIDE DEF map
<1>. DEFINE Good == {r \in 0..n : Partitions(map[r], r)}
<1>7. 0 \in Good
  <2>1. map[0] = empty /\ 0 \in 0..n
    BY <1>1, <1>5
  <2>2. \A k \in Keys : Range(empty[k]) = RowsOf(k, 0) /\ Ordered(empty[k], Ascending)
    BY ShortSequences, ShortOrdered DEF RowsOf
  <2>. HIDE DEF empty
  <2>. QED
    BY <1>3, <2>1, <2>2 DEF Partitions
<1>8. ASSUME NEW r \in 0..n - 1, r \in Good PROVE r + 1 \in Good
  <2>1. /\ r + 1 \in 0..n /\ r + 1 # 0 /\ (r + 1) - 1 = r
        /\ r \in Nat /\ r + 1 <= Len(right_keys)
    BY <1>1
  <2>2. map[r + 1] = Push(map[r], r + 1)
    BY <1>5, <2>1
  <2>3. Partitions(map[r], r)
    BY <1>8
  <2>4. Partitions(Push(map[r], r + 1), r + 1)
    BY <2>1, <2>3, PushFacts
  <2>. QED
    BY <2>1, <2>2, <2>4
<1>. HIDE DEF Good
<1>9. \A r \in 0..n : r \in Good
  BY <1>1, <1>7, <1>8, InductionUpTo
<1>. QED
  BY <1>1, <1>6, <1>9 DEF Good

\* No number comes twice in an ascending list.
LEMMA AscendingLength ==
  ASSUME NEW s \in Seq(Nat), Ordered(s, Ascending)
  PROVE  Len(s) = Cardinality(Range(s))
<1>1. Len(s) \in Nat /\ Range(s) = {s[i] : i \in 1..Len(s)}
  BY LenProperties, RangeEquality
<1>2. \A i \in 1..Len(s) : s[i] \in Nat
  BY ElementOfSeq
<1>3. \A i, j \in 1..Len(s) : i < j => s[i] < s[j]
  BY <1>2 DEF Ordered, Ascending
<1>. DEFINE f == [i \in 1..Len(s) |-> s[i]]
<1>4. \A i, j \in 1..Len(s) : s[i] = s[j] => i = j
  <2>. SUFFICES ASSUME NEW i \in 1..Len(s), NEW j \in 1..Len(s), s[i] = s[j], i # j
                PROVE  FALSE
    OBVIOUS
  <2>1. i < j \/ j < i
    BY <1>1
  <2>. QED
    BY <1>2, <1>3, <2>1
<1>5. f \in Bijection(1..Len(s), Range(s))
  BY <1>1, <1>4 DEF Bijection, Injection, Surjection, IsInjective
<1>. QED
  BY <1>1, <1>5, FS_CountingElements DEF ExistsBijection

-----------------------------------------------------------------------------
(* The probe phase. *)

\* For one left row, the rows found in the map are those the nested loops find.
LEMMA ProbeRow ==
  ASSUME left_keys \in Seq(Keys), NEW l \in 1..Len(left_keys), NEW n \in Nat,
         Partitions(hash_map_, n)
  PROVE  LET found == hash_map_[left_keys[l]]
         IN  [j \in 1..Len(found) |-> <<l, found[j]>>] = NL!PairsOf(l, NL!Batches(n))
<1>. DEFINE found == hash_map_[left_keys[l]]
<1>. DEFINE row == [j \in 1..Len(found) |-> <<l, found[j]>>]
<1>. DEFINE pairs == NL!PairsOf(l, NL!Batches(n))
<1>1. l \in Nat /\ left_keys[l] \in Keys
  BY LenProperties, ElementOfSeq
<1>2. /\ found \in Seq(Nat)
      /\ Range(found) = RowsOf(left_keys[l], n)
      /\ Ordered(found, Ascending)
  BY <1>1 DEF Partitions
<1>. HIDE DEF found
<1>3. /\ Len(found) \in Nat
      /\ \A j \in 1..Len(found) : found[j] \in Nat
      /\ Range(found) = {found[j] : j \in 1..Len(found)}
  BY <1>2, LenProperties, ElementOfSeq, RangeEquality
<1>4. row \in Seq(Nat \X Nat) /\ Len(row) = Len(found)
  BY <1>1, <1>3
<1>5. Ordered(row, NLP!PairOrder)
  <2>1. ASSUME NEW i \in 1..Len(found), NEW j \in 1..Len(found), i < j
        PROVE  << <<l, found[i]>>, <<l, found[j]>> >> \in NLP!PairOrder
    <3>1. found[i] < found[j]
      BY <1>2, <1>3, <2>1 DEF Ordered, Ascending
    <3>. QED
      BY <1>1, <1>3, <3>1 DEF NLP!PairOrder
  <2>. QED
    BY <1>4, <2>1 DEF Ordered
<1>6. Range(row) = NL!Matches({l}, n)
  <2>1. Range(row) = {row[j] : j \in 1..Len(found)}
    BY <1>4, RangeEquality
  <2>2. Range(row) = {<<l, r>> : r \in Range(found)}
    BY <1>3, <2>1
  <2>. HIDE DEF row
  <2>3. ASSUME NEW x PROVE x \in Range(row) <=> x \in NL!Matches({l}, n)
    BY <1>2, <2>2 DEF RowsOf, NL!Matches
  <2>. QED
    BY <2>3
<1>7. /\ pairs \in Seq(Nat \X Nat)
      /\ Ordered(pairs, NLP!PairOrder)
      /\ Range(pairs) = NL!Matches({l}, n)
  <2>1. /\ NLP!PairsOf(l, NLP!Batches(n)) \in Seq(Nat \X Nat)
        /\ NLP!Ordered(NLP!PairsOf(l, NLP!Batches(n)), NLP!PairOrder)
        /\ NLP!Range(NLP!PairsOf(l, NLP!Batches(n))) = NLP!Matches({l}, n)
    BY <1>1, BothAssumptions, NLP!PairsOfFacts
  <2>. QED
    BY <2>1, SameSequences, SameOperators
<1>8. \A x, y \in Nat \X Nat :
        ~(<<x, y>> \in NLP!PairOrder /\ <<y, x>> \in NLP!PairOrder)
  BY NLP!PairOrderFacts
<1>. HIDE DEF row, pairs
<1>9. row = pairs
  BY <1>4, <1>5, <1>6, <1>7, <1>8, OrderedUnique
<1>. QED
  BY <1>9 DEF row, pairs, found

\* Probing with a left batch yields what the nested loops yield for it.
LEMMA ProbeIsJoinBatch ==
  ASSUME left_keys \in Seq(Keys), NEW n \in Nat, Partitions(hash_map_, n),
         NEW batch \in Seq(1..Len(left_keys))
  PROVE  Probe(batch) = NL!JoinBatch(batch, NL!Batches(n))
<1>. DEFINE chunks == NL!Batches(n)
<1>. DEFINE found(l) == hash_map_[left_keys[l]]
<1>1. \A i \in 1..Len(batch) : batch[i] \in 1..Len(left_keys)
  BY ElementOfSeq
<1>2. \A l \in 1..Len(left_keys) :
        [j \in 1..Len(found(l)) |-> <<l, found(l)[j]>>] = NL!PairsOf(l, chunks)
  BY ProbeRow
<1>. HIDE DEF chunks
<1>3. [i \in 1..Len(batch) |->
         [j \in 1..Len(found(batch[i])) |-> <<batch[i], found(batch[i])[j]>>]]
      = [i \in 1..Len(batch) |-> NL!PairsOf(batch[i], chunks)]
  BY <1>1, <1>2
<1>4. Probe(batch) = FlattenSeq([i \in 1..Len(batch) |-> NL!PairsOf(batch[i], chunks)])
  BY <1>3 DEF Probe
<1>. QED
  BY <1>4, SameSequences DEF NL!JoinBatch, chunks

-----------------------------------------------------------------------------
(* The invariant. *)

\* What the tables, the scan and the output hold.
HashTypes ==
  /\ predicate_ \in Predicates
  /\ left_keys \in Seq(Keys) /\ Len(left_keys) <= MaxLeft
  /\ right_keys \in Seq(Keys) /\ Len(right_keys) <= MaxRight
  /\ left_row \in 0..Len(left_keys)
  /\ opened \in 0..Len(right_keys)
  /\ out \in Seq((1..Len(left_keys)) \X (1..Len(right_keys)))
  /\ ended \in BOOLEAN

\* The operator of the condition is not looked at, so this holds for each.
Delivered ==
  /\ Range(out) = NL!Matches(1..left_row, opened)
  /\ NL!LeftThenRight(out)

HashInv == HashTypes /\ Partitions(hash_map_, opened) /\ Delivered

LEMMA HashInvImplies ==
  ASSUME HashInv PROVE TypeOK /\ HashMapExact /\ JoinExact
<1>. USE DEF HashInv
<1>1. ASSUME NEW k \in Keys
      PROVE  /\ hash_map_[k] \in Seq(1..opened)
             /\ Range(hash_map_[k]) = {r \in 1..opened : right_keys[r] = k}
             /\ Len(hash_map_[k]) = Cardinality(Range(hash_map_[k]))
  <2>1. /\ hash_map_[k] \in Seq(Nat)
        /\ Range(hash_map_[k]) = {r \in 1..opened : right_keys[r] = k}
        /\ Ordered(hash_map_[k], Ascending)
    BY DEF Partitions, RowsOf
  <2>2. Range(hash_map_[k]) \subseteq 1..opened
    BY <2>1
  <2>. QED
    BY <2>1, <2>2, SeqByRange, AscendingLength
<1>2. TypeOK
  <2>1. hash_map_ \in [Keys -> Seq(1..opened)]
    BY <1>1 DEF Partitions
  <2>. QED
    BY <2>1 DEF TypeOK, HashTypes
<1>3. HashMapExact
  BY <1>1 DEF HashMapExact
<1>4. JoinExact
  BY SameSequences DEF JoinExact, NL!JoinExact, Delivered
<1>. QED
  BY <1>2, <1>3, <1>4

LEMMA HashInvInit == Init => HashInv
<1>. SUFFICES ASSUME Init PROVE HashInv
  OBVIOUS
<1>1. /\ left_keys = <<>> /\ right_keys = <<>> /\ out = <<>>
      /\ left_row = 0 /\ opened = 0
      /\ predicate_ \in Predicates /\ ended \in BOOLEAN
      /\ hash_map_ = [k \in Keys |-> <<>>]
  BY DEF Init
<1>2. Len(<<>>) = 0 /\ Range(<<>>) = {} /\ \A S : <<>> \in Seq(S)
  BY ShortSequences
<1>3. HashTypes
  <2>1. /\ left_keys \in Seq(Keys) /\ right_keys \in Seq(Keys)
        /\ out \in Seq((1..Len(left_keys)) \X (1..Len(right_keys)))
    BY <1>1, <1>2
  <2>2. Len(left_keys) = 0 /\ Len(right_keys) = 0
    BY <1>1, <1>2
  <2>3. left_row = 0 /\ opened = 0 /\ predicate_ \in Predicates /\ ended \in BOOLEAN
    BY <1>1
  <2>. HIDE DEF Init
  <2>4. /\ Len(left_keys) <= MaxLeft /\ Len(right_keys) <= MaxRight
        /\ left_row \in 0..Len(left_keys) /\ opened \in 0..Len(right_keys)
    BY <2>2, <2>3, HashAssumption
  <2>. QED
    BY <2>1, <2>3, <2>4 DEF HashTypes
<1>4. Partitions(hash_map_, opened)
  <2>1. \A k \in Keys : RowsOf(k, 0) = {}
    BY DEF RowsOf
  <2>2. \A k \in Keys : hash_map_[k] = <<>>
    BY <1>1
  <2>. QED
    BY <1>1, <1>2, <2>1, <2>2, ShortOrdered DEF Partitions
<1>5. Delivered
  <2>1. Range(out) = {} /\ NL!Matches(1..left_row, opened) = {}
    BY <1>1, <1>2 DEF NL!Matches
  <2>2. NL!LeftThenRight(out)
    BY <1>1, <1>2 DEF NL!LeftThenRight
  <2>. QED
    BY <2>1, <2>2 DEF Delivered
<1>. QED
  BY <1>3, <1>4, <1>5 DEF HashInv

LEMMA HashInvInsertLeft ==
  ASSUME HashInv, NEW k \in Keys, InsertLeft(k) PROVE HashInv'
<1>0. /\ HashTypes /\ Partitions(hash_map_, opened) /\ Delivered
      /\ Len(left_keys) < MaxLeft
      /\ left_keys' = Append(left_keys, k)
      /\ ended' = FALSE
      /\ UNCHANGED <<predicate_, right_keys, left_row, opened, out, hash_map_>>
  BY DEF HashInv, InsertLeft
<1>1. /\ left_keys' \in Seq(Keys) /\ Len(left_keys) \in Nat
      /\ Len(left_keys') = Len(left_keys) + 1
      /\ \A i \in 1..Len(left_keys) : left_keys'[i] = left_keys[i]
  BY <1>0, NLP!AppendedKey DEF HashTypes
<1>2. HashTypes'
  <2>1. (1..Len(left_keys)) \X (1..Len(right_keys))
          \subseteq (1..Len(left_keys')) \X (1..Len(right_keys'))
    BY <1>0, <1>1
  <2>2. out' \in Seq((1..Len(left_keys')) \X (1..Len(right_keys')))
    BY <1>0, <2>1, SeqMonotonic DEF HashTypes
  <2>3. left_row' \in 0..Len(left_keys') /\ Len(left_keys') <= MaxLeft
    BY <1>0, <1>1, HashAssumption DEF HashTypes
  <2>4. ended' \in BOOLEAN
    BY <1>0
  <2>. QED
    BY <1>0, <1>1, <2>2, <2>3, <2>4 DEF HashTypes
<1>3. Partitions(hash_map_, opened)'
  BY <1>0 DEF Partitions, RowsOf
<1>4. Delivered'
  <2>1. NL!Matches(1..left_row, opened)' = NL!Matches(1..left_row, opened)
    BY <1>0, <1>1 DEF NL!Matches, HashTypes
  <2>. QED
    BY <1>0, <2>1 DEF Delivered, NL!LeftThenRight
<1>. QED
  BY <1>2, <1>3, <1>4 DEF HashInv

LEMMA HashInvInsertRight ==
  ASSUME HashInv, NEW k \in Keys, InsertRight(k) PROVE HashInv'
<1>0. /\ HashTypes /\ Partitions(hash_map_, opened) /\ Delivered
      /\ Len(right_keys) < MaxRight
      /\ right_keys' = Append(right_keys, k)
      /\ UNCHANGED <<predicate_, left_keys, left_row, opened, out, ended, hash_map_>>
  BY DEF HashInv, InsertRight
<1>1. /\ right_keys' \in Seq(Keys) /\ Len(right_keys) \in Nat
      /\ Len(right_keys') = Len(right_keys) + 1
      /\ \A i \in 1..Len(right_keys) : right_keys'[i] = right_keys[i]
  BY <1>0, NLP!AppendedKey DEF HashTypes
<1>2. HashTypes'
  <2>1. (1..Len(left_keys)) \X (1..Len(right_keys))
          \subseteq (1..Len(left_keys')) \X (1..Len(right_keys'))
    BY <1>0, <1>1
  <2>2. out' \in Seq((1..Len(left_keys')) \X (1..Len(right_keys')))
    BY <1>0, <2>1, SeqMonotonic DEF HashTypes
  <2>3. opened' \in 0..Len(right_keys') /\ Len(right_keys') <= MaxRight
    BY <1>0, <1>1, HashAssumption DEF HashTypes
  <2>4. ended' \in BOOLEAN
    BY <1>0 DEF HashTypes
  <2>. QED
    BY <1>0, <1>1, <2>2, <2>3, <2>4 DEF HashTypes
<1>3. Partitions(hash_map_, opened)'
  <2>1. \A c \in Keys : RowsOf(c, opened)' = RowsOf(c, opened)
    BY <1>0, <1>1 DEF RowsOf, HashTypes
  <2>. QED
    BY <1>0, <2>1 DEF Partitions
<1>4. Delivered'
  <2>1. NL!Matches(1..left_row, opened)' = NL!Matches(1..left_row, opened)
    BY <1>0, <1>1 DEF NL!Matches, HashTypes
  <2>. QED
    BY <1>0, <2>1 DEF Delivered, NL!LeftThenRight
<1>. QED
  BY <1>2, <1>3, <1>4 DEF HashInv

LEMMA HashInvInitStep == ASSUME HashInv, HashInit PROVE HashInv'
<1>0. /\ HashTypes
      /\ left_row' = 0 /\ out' = <<>> /\ ended' = FALSE
      /\ hash_map_' = Build(Len(right_keys))
      /\ opened' = Len(right_keys)
      /\ UNCHANGED <<predicate_, left_keys, right_keys>>
  BY DEF HashInv, HashInit, tables
<1>1. Len(right_keys) \in Nat /\ Len(left_keys) \in Nat
  BY <1>0, LenProperties DEF HashTypes
<1>2. Len(<<>>) = 0 /\ Range(<<>>) = {} /\ \A S : <<>> \in Seq(S)
  BY ShortSequences
<1>3. HashTypes'
  <2>1. ended' \in BOOLEAN
    BY <1>0
  <2>2. left_row' \in 0..Len(left_keys') /\ opened' \in 0..Len(right_keys')
    BY <1>0, <1>1
  <2>3. out' \in Seq((1..Len(left_keys')) \X (1..Len(right_keys')))
    BY <1>0, <1>2
  <2>. QED
    BY <1>0, <2>1, <2>2, <2>3 DEF HashTypes
<1>4. Partitions(hash_map_, opened)'
  <2>1. Partitions(Build(Len(right_keys)), Len(right_keys))
    BY <1>0, <1>1, BuildFacts DEF HashTypes
  <2>. QED
    BY <1>0, <2>1 DEF Partitions, RowsOf
<1>5. Delivered'
  <2>1. Range(out') = {} /\ NL!Matches(1..left_row, opened)' = {}
    BY <1>0, <1>2 DEF NL!Matches
  <2>2. NL!LeftThenRight(out')
    BY <1>0, <1>2 DEF NL!LeftThenRight
  <2>. QED
    BY <2>1, <2>2 DEF Delivered, NL!LeftThenRight
<1>. QED
  BY <1>3, <1>4, <1>5 DEF HashInv

\* What a pull with a left batch at hand changes, in the nested loops' terms.
LEMMA HashNextIs ==
  ASSUME HashInv, HashNext
  PROVE  LET batch == NL!BatchAt(left_row, Len(left_keys))
             pairs == NL!JoinBatch(batch, NL!Batches(opened))
         IN  /\ left_row' = left_row + Len(batch)
             /\ out' = out \o pairs
             /\ ended' = (pairs = <<>>)
             /\ UNCHANGED <<predicate_, left_keys, right_keys, opened, hash_map_>>
<1>. DEFINE batch == NL!BatchAt(left_row, Len(left_keys))
<1>1. /\ HashTypes /\ Partitions(hash_map_, opened)
      /\ Len(left_keys) \in Nat /\ opened \in Nat
  BY LenProperties DEF HashInv, HashTypes
<1>2. batch \in Seq(1..Len(left_keys))
  <2>1. NLP!BatchAt(left_row, Len(left_keys)) \in Seq(1..Len(left_keys))
    BY <1>1, BothAssumptions, NLP!BatchFacts DEF HashTypes
  <2>. QED
    BY <2>1, SameOperators
<1>3. /\ left_row' = left_row + Len(batch)
      /\ out' = out \o Probe(batch)
      /\ ended' = (Probe(batch) = <<>>)
      /\ UNCHANGED <<predicate_, left_keys, right_keys, opened, hash_map_>>
  BY DEF HashNext, tables
<1>. HIDE DEF batch
<1>4. Probe(batch) = NL!JoinBatch(batch, NL!Batches(opened))
  BY <1>1, <1>2, ProbeIsJoinBatch DEF HashTypes
<1>. QED
  BY <1>3, <1>4 DEF batch

LEMMA HashInvNext == ASSUME HashInv, HashNext PROVE HashInv'
<1>. DEFINE N == Len(left_keys)
<1>. DEFINE batch == NL!BatchAt(left_row, N)
<1>. DEFINE pairs == NL!JoinBatch(batch, NL!Batches(opened))
<1>0. HashTypes /\ Partitions(hash_map_, opened) /\ Delivered
  BY DEF HashInv
<1>1. /\ N \in Nat /\ Len(right_keys) \in Nat
      /\ left_row \in 0..N /\ opened \in 0..Len(right_keys) /\ opened \in Nat
  BY <1>0, LenProperties DEF HashTypes
<1>2. /\ left_row' = left_row + Len(batch)
      /\ out' = out \o pairs
      /\ ended' = (pairs = <<>>)
      /\ UNCHANGED <<predicate_, left_keys, right_keys, opened, hash_map_>>
  BY HashNextIs
<1>3. out \in Seq(Nat \X Nat)
  <2>1. (1..N) \X (1..Len(right_keys)) \subseteq Nat \X Nat
    BY <1>1
  <2>. QED
    BY <1>0, <2>1, SeqMonotonic DEF HashTypes
<1>4. /\ left_row + Len(batch) \in left_row..N
      /\ pairs \in Seq((1..N) \X (1..opened))
      /\ Range(out \o pairs) = NL!Matches(1..left_row + Len(batch), opened)
      /\ NL!LeftThenRight(out \o pairs)
  <2>. DEFINE batch_ == NLP!BatchAt(left_row, N)
  <2>. DEFINE pairs_ == NLP!JoinBatch(batch_, NLP!Batches(opened))
  <2>1. batch_ = batch /\ pairs_ = pairs
    BY SameOperators
  <2>2. left_row + Len(batch_) \in left_row..N
    BY <1>1, BothAssumptions, NLP!BatchFacts
  <2>3. /\ NLP!Range(out) = NLP!Matches(1..left_row, opened)
        /\ NLP!Ordered(out, NLP!PairOrder)
    BY <1>0, <1>3, SameSequences, SameOperators, NLP!PairOrderFacts DEF Delivered
  <2>4. /\ pairs_ \in Seq((1..N) \X (1..opened))
        /\ out \o pairs_ \in Seq(Nat \X Nat)
        /\ NLP!Ordered(out \o pairs_, NLP!PairOrder)
        /\ NLP!Range(out \o pairs_) = NLP!Matches(1..left_row + Len(batch_), opened)
    <3>. HIDE DEF N
    <3>. QED
      BY <1>1, <1>3, <2>3, BothAssumptions, NLP!JoinStep
  <2>. HIDE DEF batch, batch_, pairs, pairs_, N
  <2>5. NLP!LeftThenRight(out \o pairs_)
    BY <2>4, NLP!PairOrderFacts
  <2>. QED
    BY <2>1, <2>2, <2>4, <2>5, SameSequences, SameOperators
<1>. HIDE DEF batch, pairs
<1>5. HashTypes'
  <2>1. left_row' \in 0..N
    BY <1>1, <1>2, <1>4
  <2>2. pairs \in Seq((1..N) \X (1..Len(right_keys)))
    <3>1. (1..N) \X (1..opened) \subseteq (1..N) \X (1..Len(right_keys))
      BY <1>1
    <3>. HIDE DEF N
    <3>. QED
      BY <1>4, <3>1, SeqMonotonic
  <2>3. out' \in Seq((1..N) \X (1..Len(right_keys)))
    BY <1>0, <1>2, <2>2, ConcatProperties DEF HashTypes
  <2>4. ended' \in BOOLEAN
    BY <1>2
  <2>. QED
    BY <1>0, <1>2, <2>1, <2>3, <2>4 DEF HashTypes
<1>6. Partitions(hash_map_, opened)'
  BY <1>0, <1>2 DEF Partitions, RowsOf
<1>7. Delivered'
  <2>1. NL!Matches(1..left_row', opened) = NL!Matches(1..left_row, opened)'
    BY <1>2 DEF NL!Matches
  <2>2. NL!LeftThenRight(out') /\ Range(out') = NL!Matches(1..left_row', opened)
    BY <1>2, <1>4
  <2>. QED
    BY <2>1, <2>2 DEF Delivered, NL!LeftThenRight
<1>. QED
  BY <1>5, <1>6, <1>7 DEF HashInv

LEMMA HashInvUnchanged ==
  ASSUME HashInv, UNCHANGED <<predicate_, tables, left_row, opened, out, hash_map_>>,
         ended' \in BOOLEAN
  PROVE  HashInv'
<1>1. HashTypes'
  BY DEF HashInv, HashTypes, tables
<1>2. Partitions(hash_map_, opened)'
  BY DEF HashInv, Partitions, RowsOf, tables
<1>3. Delivered'
  BY DEF HashInv, Delivered, NL!Matches, NL!LeftThenRight, tables
<1>. QED
  BY <1>1, <1>2, <1>3 DEF HashInv

LEMMA HashInvStep == HashInv /\ [Next]_vars => HashInv'
<1>. SUFFICES ASSUME HashInv, [Next]_vars PROVE HashInv'
  OBVIOUS
<1>1. ASSUME NEW k \in Keys, InsertLeft(k) PROVE HashInv'
  BY <1>1, HashInvInsertLeft
<1>2. ASSUME NEW k \in Keys, InsertRight(k) PROVE HashInv'
  BY <1>2, HashInvInsertRight
<1>3. CASE HashInit
  BY <1>3, HashInvInitStep
<1>4. CASE HashNext
  BY <1>4, HashInvNext
<1>5. CASE HashEnd
  BY <1>5, HashInvUnchanged DEF HashEnd
<1>6. CASE UNCHANGED vars
  BY <1>6, HashInvUnchanged DEF vars, HashInv, HashTypes
<1>. QED
  BY <1>1, <1>2, <1>3, <1>4, <1>5, <1>6 DEF Next

LEMMA HashInvHolds == Spec => []HashInv
BY HashInvInit, HashInvStep, PTL DEF Spec

\* The hash join's variables keep their types: the left scan never moves past
\* the left table, and the map lists only right rows that were there at init.
THEOREM HashTypeCorrect == Spec => []TypeOK
BY HashInvHolds, HashInvImplies, PTL

\* The map is always a partition of the right rows seen at init by their cell,
\* however often init ran and however the tables grew since.
THEOREM HashMapCorrect == Spec => []HashMapExact
BY HashInvHolds, HashInvImplies, PTL

\* An equi-join delivers each match of the left rows it consumed and the right
\* rows it saw at init, once and in the order of the nested loops.
THEOREM HashJoinCorrect == Spec => []JoinExact
BY HashInvHolds, HashInvImplies, PTL

-----------------------------------------------------------------------------
(* The nested loop join is implemented. *)

LEMMA ChunksAre == chunks_ = NL!Batches(opened)
BY DEF chunks_, NL!Batches, NL!BatchAt

LEMMA StartsAlike == Init => NL!Init
<1>. SUFFICES ASSUME Init PROVE NL!Init
  OBVIOUS
<1>1. chunks_ = <<>>
  <2>1. (opened + BATCH_SIZE - 1) \div BATCH_SIZE = 0
    <3>. DEFINE m == (opened + BATCH_SIZE - 1) \div BATCH_SIZE
    <3>1. BATCH_SIZE \in Nat \ {0} /\ opened = 0
      BY HashAssumption DEF Init
    <3>2. /\ m \in Int /\ m * BATCH_SIZE <= BATCH_SIZE - 1
          /\ BATCH_SIZE - 1 < m * BATCH_SIZE + BATCH_SIZE
      BY <3>1, NLP!DivisionFacts
    <3>. HIDE DEF m
    <3>3. ASSUME m >= 1 PROVE FALSE
      <4>1. 1 * BATCH_SIZE <= m * BATCH_SIZE /\ m * BATCH_SIZE \in Int
        BY <3>1, <3>2, <3>3, NLP!TimesFacts
      <4>. QED
        BY <3>1, <3>2, <4>1
    <3>4. ASSUME m <= -1 PROVE FALSE
      <4>1. m * BATCH_SIZE <= (-1) * BATCH_SIZE /\ m * BATCH_SIZE \in Int
        BY <3>1, <3>2, <3>4, NLP!TimesFacts
      <4>. QED
        BY <3>1, <3>2, <4>1
    <3>5. m = 0
      BY <3>2, <3>3, <3>4
    <3>. QED
      BY <3>5 DEF m
  <2>. QED
    BY <2>1, EmptySeq DEF chunks_
<1>. QED
  BY <1>1 DEF Init, NL!Init, chunks_

LEMMA InsertAlike ==
  ASSUME NEW k \in Keys
  PROVE  /\ InsertLeft(k) => NL!InsertLeft(k)
         /\ InsertRight(k) => NL!InsertRight(k)
<1>1. opened' = opened => chunks_' = chunks_
  BY DEF chunks_
<1>. QED
  BY <1>1 DEF InsertLeft, NL!InsertLeft, InsertRight, NL!InsertRight, chunks_

LEMMA InitAlike == HashInit => NL!JoinInit
<1>. SUFFICES ASSUME HashInit PROVE NL!JoinInit
  OBVIOUS
<1>1. chunks_' = NL!Batches(opened')
  BY DEF chunks_, NL!Batches, NL!BatchAt
<1>. QED
  BY <1>1 DEF HashInit, NL!JoinInit, chunks_, tables, NL!tables

LEMMA NextAlike ==
  ASSUME HashInv, predicate_ = "=", HashNext PROVE NL!JoinNext
<1>. DEFINE batch == NL!BatchAt(left_row, Len(left_keys))
<1>. DEFINE pairs == NL!JoinBatch(batch, chunks_)
<1>1. left_row < Len(left_keys)
  BY DEF HashNext
<1>2. /\ left_row' = left_row + Len(batch)
      /\ out' = out \o pairs
      /\ ended' = (pairs = <<>>)
      /\ UNCHANGED <<predicate_, left_keys, right_keys, opened>>
  BY HashNextIs, ChunksAre
<1>3. chunks_' = chunks_
  BY <1>2 DEF chunks_
<1>4. pairs = IF predicate_ = "=" THEN NL!JoinBatch(batch, chunks_) ELSE <<>>
  OBVIOUS
<1>. HIDE DEF batch, pairs
<1>5. UNCHANGED <<predicate_, <<left_keys, right_keys>>, chunks_, opened>>
  BY <1>2, <1>3
<1>. QED
  BY <1>1, <1>2, <1>4, <1>5 DEF NL!JoinNext, NL!tables, batch, chunks_

LEMMA EndAlike == HashEnd => NL!JoinEnd
<1>1. opened' = opened => chunks_' = chunks_
  BY DEF chunks_
<1>. QED
  BY <1>1 DEF HashEnd, NL!JoinEnd, tables, NL!tables, chunks_

\* With an "=" condition the optimizer may put the hash join in the place of
\* the nested loops: each of its steps is one of theirs, which delivers the
\* same pairs in the same order and says false at the same moments.
THEOREM HashJoinImplements == Spec /\ predicate_ = "=" => HashJoinIsNestedLoopJoin
<1>. DEFINE Equi == HashInv /\ predicate_ = "="
<1>1. Init /\ predicate_ = "=" => Equi
  BY HashInvInit
<1>2. Equi /\ [Next]_vars => Equi'
  <2>. SUFFICES ASSUME Equi, [Next]_vars PROVE Equi'
    OBVIOUS
  <2>1. HashInv'
    BY HashInvStep
  <2>2. predicate_' = predicate_
    BY DEF Next, InsertLeft, InsertRight, HashInit, HashNext, HashEnd, vars
  <2>. QED
    BY <2>1, <2>2
<1>3. Equi /\ [Next]_vars => [NL!Next]_NL!vars
  <2>. SUFFICES ASSUME Equi, [Next]_vars PROVE [NL!Next]_NL!vars
    OBVIOUS
  <2>1. ASSUME NEW k \in Keys, InsertLeft(k) \/ InsertRight(k) PROVE NL!Next
    BY <2>1, InsertAlike DEF NL!Next
  <2>2. CASE HashInit
    BY <2>2, InitAlike DEF NL!Next
  <2>3. CASE HashNext
    BY <2>3, NextAlike DEF NL!Next
  <2>4. CASE HashEnd
    BY <2>4, EndAlike DEF NL!Next
  <2>5. CASE UNCHANGED vars
    <3>1. chunks_' = chunks_
      BY <2>5 DEF vars, chunks_
    <3>. QED
      BY <2>5, <3>1 DEF vars, tables, NL!vars, NL!tables, chunks_
  <2>. QED
    BY <2>1, <2>2, <2>3, <2>4, <2>5 DEF Next
<1>. QED
  BY <1>1, <1>2, <1>3, StartsAlike, PTL DEF Spec, NL!Spec, HashJoinIsNestedLoopJoin
=============================================================================

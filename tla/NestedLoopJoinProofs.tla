------------------------ MODULE NestedLoopJoinProofs ------------------------
(***************************************************************************)
(* Proofs about module NestedLoopJoin, for every set of join cells, every  *)
(* bound and batch size: type correctness, and that an equi-join delivers  *)
(* each matching pair once and in order.                                   *)
(***************************************************************************)
EXTENDS NestedLoopJoin, SequenceLemmas

\* The constants are what the executor is built with: a batch holds some rows.
JoinAssumption ==
  /\ MaxLeft \in Nat /\ MaxRight \in Nat
  /\ BATCH_SIZE \in Nat \ {0}

-----------------------------------------------------------------------------
(* The batches of a scan. *)

\* Division rounds down.
LEMMA DivisionFacts ==
  ASSUME NEW a \in Int, NEW b \in Nat \ {0}
  PROVE  /\ a \div b \in Int
         /\ (a \div b) * b <= a
         /\ a < (a \div b) * b + b
OBVIOUS

LEMMA TimesFacts ==
  ASSUME NEW a \in Int, NEW c \in Int, NEW b \in Nat
  PROVE  /\ a * b \in Int
         /\ (a - 1) * b = a * b - b
         /\ (a + 1) * b = a * b + b
         /\ a <= c => a * b <= c * b
OBVIOUS

\* A batch is a stretch of at most BATCH_SIZE rows in order.
LEMMA BatchFacts ==
  ASSUME JoinAssumption, NEW n \in Nat, NEW s \in 0..n
  PROVE  /\ BatchAt(s, n) \in Seq(1..n)
         /\ Len(BatchAt(s, n)) \in Nat
         /\ Len(BatchAt(s, n)) = IF n - s < BATCH_SIZE THEN n - s ELSE BATCH_SIZE
         /\ s + Len(BatchAt(s, n)) \in s..n
         /\ s < n => Len(BatchAt(s, n)) # 0
         /\ \A i \in 1..Len(BatchAt(s, n)) : BatchAt(s, n)[i] = s + i
         /\ Range(BatchAt(s, n)) = {r \in 1..n : s < r /\ r <= s + BATCH_SIZE}
<1>. DEFINE m == IF n - s < BATCH_SIZE THEN n - s ELSE BATCH_SIZE
<1>. DEFINE q == [i \in 1..m |-> s + i]
<1>1. m \in Nat /\ s + m <= n /\ (s < n => m # 0) /\ s \in Nat
  BY DEF JoinAssumption
<1>2. \A r : r \in 1..n /\ s < r /\ r <= s + BATCH_SIZE <=> r \in s + 1..s + m
  BY DEF JoinAssumption
<1>3. BatchAt(s, n) = q
  BY DEF BatchAt
<1>. HIDE DEF m
<1>4. \A i \in 1..m : s + i \in 1..n
  BY <1>1
<1>5. q \in Seq(1..n) /\ Len(q) = m
  BY <1>1, <1>4
<1>6. Range(q) = s + 1..s + m
  <2>1. Range(q) = {s + i : i \in 1..m}
    BY DEF Range
  <2>2. \A r \in s + 1..s + m : r - s \in 1..m /\ r = s + (r - s)
    BY <1>1
  <2>3. \A i \in 1..m : s + i \in s + 1..s + m
    BY <1>1
  <2>. QED
    BY <2>1, <2>2, <2>3
<1>7. {r \in 1..n : s < r /\ r <= s + BATCH_SIZE} = s + 1..s + m
  <2>1. s + 1..s + m \subseteq 1..n
    BY <1>1
  <2>. QED
    BY <1>2, <2>1
<1>8. m = IF n - s < BATCH_SIZE THEN n - s ELSE BATCH_SIZE
  BY DEF m
<1>9. s + m \in s..n
  BY <1>1
<1>. QED
  BY <1>1, <1>3, <1>5, <1>6, <1>7, <1>8, <1>9

\* The batches of a drained scan cut the rows 1..n into stretches, in order.
LEMMA BatchesFacts ==
  ASSUME JoinAssumption, NEW n \in Nat
  PROVE  /\ Len(Batches(n)) \in Nat
         /\ Batches(n) \in [1..Len(Batches(n)) -> Seq(1..n)]
         /\ \A b \in 1..Len(Batches(n)) : \A i, j \in 1..Len(Batches(n)[b]) :
              i < j => Batches(n)[b][i] < Batches(n)[b][j]
         /\ \A b, c \in 1..Len(Batches(n)) : b < c =>
              \A x \in Range(Batches(n)[b]), y \in Range(Batches(n)[c]) : x < y
         /\ UNION {Range(Batches(n)[b]) : b \in 1..Len(Batches(n))} = 1..n
<1>. DEFINE B == BATCH_SIZE
<1>. DEFINE m == (n + B - 1) \div B
<1>0. B \in Nat /\ B >= 1
  BY DEF JoinAssumption
<1>1. m \in Int /\ m * B <= n + B - 1 /\ n + B - 1 < m * B + B
  BY <1>0, DivisionFacts
<1>. HIDE DEF m
<1>2. m \in Nat
  <2>1. CASE m < 0
    <3>1. m <= -1 /\ -1 \in Int
      BY <1>1, <2>1
    <3>2. m * B <= (-1) * B
      BY <1>0, <1>1, <3>1, TimesFacts
    <3>. QED
      BY <1>0, <1>1, <3>2
  <2>. QED
    BY <1>1, <2>1
<1>3. Batches(n) = [b \in 1..m |-> BatchAt((b - 1) * B, n)]
  BY DEF Batches, m
<1>4. Len(Batches(n)) = m
  BY <1>2, <1>3
<1>5. ASSUME NEW b \in 1..m PROVE (b - 1) * B \in 0..n
  <2>1. b * B <= m * B /\ b * B \in Int /\ (b - 1) * B = b * B - B
    BY <1>0, <1>2, TimesFacts
  <2>2. (b - 1) * B \in Int /\ 0 * B <= (b - 1) * B
    BY <1>0, <1>2, TimesFacts
  <2>. QED
    BY <1>0, <1>1, <2>1, <2>2
<1>6. \A b \in 1..m :
        /\ BatchAt((b - 1) * B, n) \in Seq(1..n)
        /\ \A i \in 1..Len(BatchAt((b - 1) * B, n)) :
             BatchAt((b - 1) * B, n)[i] = (b - 1) * B + i
        /\ Range(BatchAt((b - 1) * B, n)) =
             {r \in 1..n : (b - 1) * B < r /\ r <= (b - 1) * B + B}
  BY <1>5, BatchFacts
<1>7. Batches(n) \in [1..m -> Seq(1..n)]
  BY <1>3, <1>6
<1>8. ASSUME NEW b \in 1..m, NEW i \in 1..Len(Batches(n)[b]), NEW j \in 1..Len(Batches(n)[b]),
             i < j
      PROVE  Batches(n)[b][i] < Batches(n)[b][j]
  <2>1. PICK s \in 0..n : s = (b - 1) * B
    BY <1>5
  <2>2. Batches(n)[b][i] = s + i /\ Batches(n)[b][j] = s + j
    BY <1>3, <1>6, <2>1
  <2>. QED
    BY <1>8, <2>2
<1>9. ASSUME NEW b \in 1..m, NEW c \in 1..m, b < c,
             NEW x \in Range(Batches(n)[b]), NEW y \in Range(Batches(n)[c])
      PROVE  x < y
  <2>1. x \in 1..n /\ x <= (b - 1) * B + B /\ y \in 1..n /\ (c - 1) * B < y
    BY <1>3, <1>6
  <2>2. b \in Int /\ c \in Int /\ b <= c - 1
    BY <1>2, <1>9
  <2>3. b * B <= (c - 1) * B /\ (b - 1) * B + B = b * B
        /\ b * B \in Int /\ (c - 1) * B \in Int
    BY <1>0, <2>2, TimesFacts
  <2>. QED
    BY <2>1, <2>3
<1>10. ASSUME NEW r \in 1..n PROVE \E b \in 1..m : r \in Range(Batches(n)[b])
  <2>. DEFINE a == (r - 1) \div B
  <2>1. a \in Int /\ a * B <= r - 1 /\ r - 1 < a * B + B /\ a * B \in Int
    <3>1. B \in Nat \ {0} /\ r - 1 \in Int
      BY <1>0
    <3>. QED
      BY <3>1, DivisionFacts
  <2>. HIDE DEF a
  <2>2. a >= 0
    <3>1. CASE a <= -1
      <4>1. a * B <= (-1) * B
        BY <1>0, <2>1, <3>1, TimesFacts
      <4>. QED
        BY <1>0, <2>1, <4>1
    <3>. QED
      BY <2>1, <3>1
  <2>3. a + 1 <= m
    <3>1. CASE m <= a
      <4>1. m * B <= a * B /\ m * B \in Int
        BY <1>0, <1>1, <2>1, <3>1, TimesFacts
      <4>. QED
        BY <1>0, <1>1, <2>1, <4>1
    <3>. QED
      BY <1>1, <2>1, <3>1
  <2>4. a + 1 \in 1..m /\ (a + 1) - 1 = a
    BY <1>2, <2>1, <2>2, <2>3
  <2>5. PICK b \in 1..m : b = a + 1
    BY <2>4
  <2>6. (b - 1) * B < r /\ r <= (b - 1) * B + B
    <3>1. b - 1 = a
      BY <2>1, <2>5
    <3>. QED
      BY <1>0, <2>1, <3>1
  <2>7. r \in Range(BatchAt((b - 1) * B, n))
    BY <1>6, <2>6
  <2>. QED
    BY <1>3, <2>7
<1>11. \A b \in 1..m : Range(Batches(n)[b]) \subseteq 1..n
  BY <1>3, <1>6
<1>. QED
  BY <1>2, <1>4, <1>7, <1>8, <1>9, <1>10, <1>11

-----------------------------------------------------------------------------
(* The pairs of one left batch. *)

\* By left row, then by right row.
PairOrder ==
  {q \in (Nat \X Nat) \X (Nat \X Nat) :
     q[1][1] < q[2][1] \/ (q[1][1] = q[2][1] /\ q[1][2] < q[2][2])}

LEMMA PairOrderFacts ==
  /\ \A x, y \in Nat \X Nat : ~(<<x, y>> \in PairOrder /\ <<y, x>> \in PairOrder)
  /\ \A s \in Seq(Nat \X Nat) : LeftThenRight(s) <=> Ordered(s, PairOrder)
<1>1. \A x, y \in Nat \X Nat : ~(<<x, y>> \in PairOrder /\ <<y, x>> \in PairOrder)
  BY DEF PairOrder
<1>2. ASSUME NEW s \in Seq(Nat \X Nat)
      PROVE  LeftThenRight(s) <=> Ordered(s, PairOrder)
  <2>1. \A i \in 1..Len(s) : s[i] \in Nat \X Nat
    BY ElementOfSeq
  <2>2. \A i, j \in 1..Len(s) : <<s[i], s[j]>> \in PairOrder <=>
          s[i][1] < s[j][1] \/ (s[i][1] = s[j][1] /\ s[i][2] < s[j][2])
    BY <2>1 DEF PairOrder
  <2>. QED
    BY <2>2 DEF LeftThenRight, Ordered
<1>. QED
  BY <1>1, <1>2

\* The pairs of rows of ls and rs whose join cells are equal.
Joining(ls, rs) == {p \in ls \X rs : left_keys[p[1]] = right_keys[p[2]]}

\* What the innermost loop yields.
LEMMA RowPairsFacts ==
  ASSUME NEW l \in Nat, NEW n \in Nat, NEW chunk \in Seq(1..n),
         \A i, j \in 1..Len(chunk) : i < j => chunk[i] < chunk[j]
  PROVE  /\ RowPairs(l, chunk) \in Seq(Nat \X Nat)
         /\ Ordered(RowPairs(l, chunk), PairOrder)
         /\ Range(RowPairs(l, chunk)) = Joining({l}, Range(chunk))
<1>. DEFINE S == Nat \X Nat
<1>. DEFINE m == Len(chunk)
<1>. DEFINE Equal(i) == left_keys[l] = right_keys[chunk[i]]
<1>. DEFINE seqs == [i \in 1..m |-> IF Equal(i) THEN << <<l, chunk[i]>> >> ELSE <<>>]
<1>1. m \in Nat /\ \A i \in 1..m : chunk[i] \in Nat
  BY LenProperties, ElementOfSeq
<1>2. ASSUME NEW i \in 1..m
      PROVE  /\ seqs[i] \in Seq(S)
             /\ Ordered(seqs[i], PairOrder)
             /\ Range(seqs[i]) = Joining({l}, {chunk[i]})
  <2>1. <<l, chunk[i]>> \in S
    BY <1>1
  <2>2. CASE Equal(i)
    <3>1. seqs[i] = << <<l, chunk[i]>> >>
      BY <2>2
    <3>2. Joining({l}, {chunk[i]}) = {<<l, chunk[i]>>}
      BY <2>2 DEF Joining
    <3>. QED
      BY <2>1, <3>1, <3>2, ShortSequences, ShortOrdered
  <2>3. CASE ~Equal(i)
    <3>1. seqs[i] = <<>>
      BY <2>3
    <3>2. Joining({l}, {chunk[i]}) = {}
      BY <2>3 DEF Joining
    <3>. QED
      BY <3>1, <3>2, ShortSequences, ShortOrdered
  <2>. QED
    BY <2>2, <2>3
<1>3. RowPairs(l, chunk) = FlattenSeq(seqs)
  BY DEF RowPairs
<1>4. seqs \in [1..m -> Seq(S)]
  BY <1>2
<1>. HIDE DEF seqs
<1>5. ASSUME NEW i \in 1..m, NEW j \in 1..m, i < j,
             NEW x \in Range(seqs[i]), NEW y \in Range(seqs[j])
      PROVE  <<x, y>> \in PairOrder
  <2>. HIDE DEF Equal
  <2>1. x = <<l, chunk[i]>> /\ y = <<l, chunk[j]>>
    BY <1>2, SMTT(30) DEF Joining
  <2>2. chunk[i] < chunk[j]
    BY <1>5
  <2>. QED
    BY <1>1, <2>1, <2>2 DEF PairOrder
<1>6. \A x : (\E i \in 1..m : x \in Range(seqs[i])) <=> x \in Joining({l}, Range(chunk))
  <2>1. Range(chunk) = {chunk[i] : i \in 1..m}
    BY RangeEquality
  <2>. QED
    BY <1>2, <2>1 DEF Joining
<1>. HIDE DEF m, S
<1>7. /\ FlattenSeq(seqs) \in Seq(S)
      /\ \A x : x \in Range(FlattenSeq(seqs)) <=> \E i \in 1..m : x \in Range(seqs[i])
  BY <1>1, <1>4, FlattenRange
<1>8. Ordered(FlattenSeq(seqs), PairOrder)
  BY <1>1, <1>2, <1>4, <1>5, FlattenOrdered
<1>. QED
  BY <1>3, <1>6, <1>7, <1>8 DEF S

\* What the loop over the right chunks yields for one left row.
LEMMA PairsOfFacts ==
  ASSUME JoinAssumption, NEW l \in Nat, NEW n \in Nat
  PROVE  /\ PairsOf(l, Batches(n)) \in Seq(Nat \X Nat)
         /\ Ordered(PairsOf(l, Batches(n)), PairOrder)
         /\ Range(PairsOf(l, Batches(n))) = Matches({l}, n)
<1>. DEFINE S == Nat \X Nat
<1>. DEFINE chunks == Batches(n)
<1>. DEFINE m == Len(chunks)
<1>. DEFINE seqs == [c \in 1..m |-> RowPairs(l, chunks[c])]
<1>1. /\ m \in Nat
      /\ \A c \in 1..m : chunks[c] \in Seq(1..n)
      /\ \A c \in 1..m : \A i, j \in 1..Len(chunks[c]) : i < j => chunks[c][i] < chunks[c][j]
      /\ \A b, c \in 1..m : b < c =>
           \A x \in Range(chunks[b]), y \in Range(chunks[c]) : x < y
      /\ UNION {Range(chunks[c]) : c \in 1..m} = 1..n
  BY BatchesFacts
<1>. HIDE DEF m, chunks
<1>2. ASSUME NEW c \in 1..m
      PROVE  /\ seqs[c] \in Seq(S)
             /\ Ordered(seqs[c], PairOrder)
             /\ Range(seqs[c]) = Joining({l}, Range(chunks[c]))
  <2>1. seqs[c] = RowPairs(l, chunks[c])
    OBVIOUS
  <2>. HIDE DEF seqs
  <2>. QED
    BY <1>1, <2>1, RowPairsFacts, ZenonT(60)
<1>3. PairsOf(l, chunks) = FlattenSeq(seqs)
  BY DEF PairsOf, m
<1>4. seqs \in [1..m -> Seq(S)]
  BY <1>2
<1>. HIDE DEF seqs
<1>5. ASSUME NEW b \in 1..m, NEW c \in 1..m, b < c,
             NEW x \in Range(seqs[b]), NEW y \in Range(seqs[c])
      PROVE  <<x, y>> \in PairOrder
  <2>1. PICK r \in Range(chunks[b]) : x = <<l, r>>
    BY <1>2 DEF Joining
  <2>2. PICK q \in Range(chunks[c]) : y = <<l, q>>
    BY <1>2 DEF Joining
  <2>3. r \in 1..n /\ q \in 1..n /\ r < q
    BY <1>1, <1>5
  <2>. QED
    BY <2>1, <2>2, <2>3 DEF PairOrder
<1>6. \A x : (\E c \in 1..m : x \in Range(seqs[c])) <=> x \in Joining({l}, 1..n)
  BY <1>1, <1>2 DEF Joining
<1>. HIDE DEF S
<1>7. /\ FlattenSeq(seqs) \in Seq(S)
      /\ \A x : x \in Range(FlattenSeq(seqs)) <=> \E c \in 1..m : x \in Range(seqs[c])
  BY <1>1, <1>4, FlattenRange
<1>8. Ordered(FlattenSeq(seqs), PairOrder)
  BY <1>1, <1>2, <1>4, <1>5, FlattenOrdered
<1>. QED
  BY <1>3, <1>6, <1>7, <1>8 DEF S, chunks, Joining, Matches

\* What the loop over a left batch yields.
LEMMA JoinBatchFacts ==
  ASSUME JoinAssumption, NEW n \in Nat, NEW batch \in Seq(Nat),
         \A i, j \in 1..Len(batch) : i < j => batch[i] < batch[j]
  PROVE  /\ JoinBatch(batch, Batches(n)) \in Seq(Nat \X Nat)
         /\ Ordered(JoinBatch(batch, Batches(n)), PairOrder)
         /\ Range(JoinBatch(batch, Batches(n))) = Matches(Range(batch), n)
<1>. DEFINE S == Nat \X Nat
<1>. DEFINE chunks == Batches(n)
<1>. DEFINE m == Len(batch)
<1>. DEFINE seqs == [i \in 1..m |-> PairsOf(batch[i], chunks)]
<1>1. m \in Nat /\ \A i \in 1..m : batch[i] \in Nat
  BY LenProperties, ElementOfSeq
<1>2. ASSUME NEW i \in 1..m
      PROVE  /\ seqs[i] \in Seq(S)
             /\ Ordered(seqs[i], PairOrder)
             /\ Range(seqs[i]) = Matches({batch[i]}, n)
  <2>1. seqs[i] = PairsOf(batch[i], chunks) /\ batch[i] \in Nat
    BY <1>1
  <2>. HIDE DEF seqs
  <2>. QED
    BY <2>1, PairsOfFacts
<1>3. JoinBatch(batch, chunks) = FlattenSeq(seqs)
  BY DEF JoinBatch
<1>4. seqs \in [1..m -> Seq(S)]
  BY <1>2
<1>. HIDE DEF seqs
<1>5. ASSUME NEW i \in 1..m, NEW j \in 1..m, i < j,
             NEW x \in Range(seqs[i]), NEW y \in Range(seqs[j])
      PROVE  <<x, y>> \in PairOrder
  <2>1. /\ x \in {batch[i]} \X (1..n)
        /\ y \in {batch[j]} \X (1..n)
    <3>1. x \in Matches({batch[i]}, n) /\ y \in Matches({batch[j]}, n)
      BY <1>2
    <3>. QED
      BY <3>1 DEF Matches
  <2>2. batch[i] < batch[j]
    BY <1>5
  <2>. QED
    BY <1>1, <2>1, <2>2, SMTT(30) DEF PairOrder
<1>6. \A x : (\E i \in 1..m : x \in Range(seqs[i])) <=> x \in Matches(Range(batch), n)
  <2>1. Range(batch) = {batch[i] : i \in 1..m}
    BY RangeEquality
  <2>. QED
    BY <1>2, <2>1 DEF Matches
<1>. HIDE DEF S, m
<1>7. /\ FlattenSeq(seqs) \in Seq(S)
      /\ \A x : x \in Range(FlattenSeq(seqs)) <=> \E i \in 1..m : x \in Range(seqs[i])
  BY <1>1, <1>4, FlattenRange
<1>8. Ordered(FlattenSeq(seqs), PairOrder)
  BY <1>1, <1>2, <1>4, <1>5, FlattenOrdered
<1>. QED
  BY <1>3, <1>6, <1>7, <1>8 DEF S, chunks

\* The pairs of the next left batch come after those already delivered, and
\* with them they are the matches of the left rows up to the batch's last.
LEMMA JoinStep ==
  ASSUME JoinAssumption, NEW n \in Nat, NEW N \in Nat, NEW s \in 0..N,
         NEW before \in Seq(Nat \X Nat), Ordered(before, PairOrder),
         Range(before) = Matches(1..s, n)
  PROVE  LET batch == BatchAt(s, N)
             pairs == JoinBatch(batch, Batches(n))
         IN  /\ pairs \in Seq((1..N) \X (1..n))
             /\ before \o pairs \in Seq(Nat \X Nat)
             /\ Ordered(before \o pairs, PairOrder)
             /\ Range(before \o pairs) = Matches(1..s + Len(batch), n)
<1>. DEFINE batch == BatchAt(s, N)
<1>. DEFINE pairs == JoinBatch(batch, Batches(n))
<1>. DEFINE e == s + Len(batch)
<1>1. /\ batch \in Seq(Nat)
      /\ s \in Nat /\ e \in s..N
      /\ \A i, j \in 1..Len(batch) : i < j => batch[i] < batch[j]
      /\ Range(batch) = s + 1..e
  <2>1. /\ batch \in Seq(1..N)
        /\ Len(batch) \in Nat
        /\ Len(batch) = IF N - s < BATCH_SIZE THEN N - s ELSE BATCH_SIZE
        /\ s + Len(batch) \in s..N
        /\ \A i \in 1..Len(batch) : batch[i] = s + i
        /\ Range(batch) = {r \in 1..N : s < r /\ r <= s + BATCH_SIZE}
    BY BatchFacts
  <2>. HIDE DEF batch
  <2>2. batch \in Seq(Nat)
    <3>1. 1..N \subseteq Nat
      OBVIOUS
    <3>. QED
      BY <2>1, <3>1, SeqMonotonic
  <2>3. s \in Nat /\ BATCH_SIZE \in Nat
    BY DEF JoinAssumption
  <2>4. \A i, j \in 1..Len(batch) : i < j => s + i < s + j
    BY <2>1, <2>3
  <2>5. \A r : r \in s + 1..e <=> r \in 1..N /\ s < r /\ r <= s + BATCH_SIZE
    BY <2>1, <2>3
  <2>. QED
    BY <2>1, <2>2, <2>3, <2>4, <2>5
<1>. HIDE DEF batch, e
<1>2. /\ pairs \in Seq(Nat \X Nat)
      /\ Ordered(pairs, PairOrder)
      /\ Range(pairs) = Matches(s + 1..e, n)
  BY <1>1, JoinBatchFacts
<1>. HIDE DEF pairs
<1>3. \A x \in Range(before), y \in Range(pairs) : <<x, y>> \in PairOrder
  <2>. SUFFICES ASSUME NEW x \in Matches(1..s, n), NEW y \in Matches(s + 1..e, n)
                PROVE  <<x, y>> \in PairOrder
    BY <1>2
  <2>1. PICK l \in 1..s, r \in 1..n : x = <<l, r>>
    BY DEF Matches
  <2>2. PICK k \in s + 1..e, q \in 1..n : y = <<k, q>>
    BY DEF Matches
  <2>3. l < k /\ l \in Nat /\ k \in Nat
    BY <1>1
  <2>. QED
    BY <2>1, <2>2, <2>3 DEF PairOrder
<1>4. Ordered(before \o pairs, PairOrder)
  BY <1>2, <1>3, OrderedConcat
<1>5. Range(before \o pairs) = Matches(1..e, n)
  <2>1. Range(before \o pairs) = Matches(1..s, n) \cup Matches(s + 1..e, n)
    BY <1>2, RangeConcatenation
  <2>2. 1..e = (1..s) \cup (s + 1..e)
    BY <1>1
  <2>. QED
    BY <2>1, <2>2 DEF Matches
<1>6. pairs \in Seq((1..N) \X (1..n))
  <2>1. s + 1..e \subseteq 1..N
    BY <1>1
  <2>2. Range(pairs) \subseteq (1..N) \X (1..n)
    BY <1>2, <2>1 DEF Matches
  <2>. QED
    BY <1>2, <2>2, SeqByRange
<1>7. before \o pairs \in Seq(Nat \X Nat)
  BY <1>2, ConcatProperties
<1>. QED
  BY <1>4, <1>5, <1>6, <1>7 DEF batch, pairs, e

-----------------------------------------------------------------------------
(* The invariant. *)

\* A materialized chunk list is that of the right rows there were at init.
Materialized == right_materialized_ = Batches(opened)

JoinInv == TypeOK /\ Materialized /\ JoinExact

\* The state right after init, or before it: nothing delivered yet.
LEMMA NothingDelivered ==
  ASSUME NEW n \in Nat
  PROVE  /\ \A S : <<>> \in Seq(S)
         /\ Range(<<>>) = Matches(1..0, n)
         /\ LeftThenRight(<<>>)
<1>1. Range(<<>>) = {} /\ Len(<<>>) = 0 /\ \A S : <<>> \in Seq(S)
  BY ShortSequences
<1>2. Matches(1..0, n) = {}
  BY DEF Matches
<1>. QED
  BY <1>1, <1>2 DEF LeftThenRight

\* The chunks are lists of right row numbers.
LEMMA MaterializedChunks ==
  ASSUME JoinAssumption, NEW n \in Nat
  PROVE  Batches(n) \in Seq(Seq(1..n))
<1>1. Len(Batches(n)) \in Nat /\ Batches(n) \in [1..Len(Batches(n)) -> Seq(1..n)]
  BY BatchesFacts
<1>. DEFINE S == Seq(1..n)
<1>. HIDE DEF S
<1>2. Batches(n) \in [1..Len(Batches(n)) -> S]
  BY <1>1 DEF S
<1>3. Batches(n) \in Seq(S)
  BY <1>1, <1>2, SeqDef
<1>. QED
  BY <1>3 DEF S

LEMMA JoinInvInit == ASSUME JoinAssumption PROVE Init => JoinInv
<1>. SUFFICES ASSUME Init PROVE JoinInv
  OBVIOUS
<1>1. Len(<<>>) = 0 /\ \A S : <<>> \in Seq(S)
  BY ShortSequences
<1>2. Materialized
  <2>1. 0 \in Nat /\ Batches(0) \in Seq(Seq(1..0))
    BY MaterializedChunks
  <2>2. (0 + BATCH_SIZE - 1) \div BATCH_SIZE = 0
    <3>. DEFINE B == BATCH_SIZE
    <3>. DEFINE m == (0 + B - 1) \div B
    <3>1. B \in Nat \ {0} /\ 0 + B - 1 \in Int
      BY DEF JoinAssumption
    <3>2. m \in Int /\ m * B <= 0 + B - 1 /\ 0 + B - 1 < m * B + B
      BY <3>1, DivisionFacts
    <3>. HIDE DEF m
    <3>3. ASSUME m >= 1 PROVE FALSE
      <4>1. 1 * B <= m * B /\ m * B \in Int
        BY <3>1, <3>2, <3>3, TimesFacts
      <4>. QED
        BY <3>1, <3>2, <4>1
    <3>4. ASSUME m <= -1 PROVE FALSE
      <4>1. m * B <= (-1) * B /\ m * B \in Int
        BY <3>1, <3>2, <3>4, TimesFacts
      <4>. QED
        BY <3>1, <3>2, <4>1
    <3>5. m = 0
      BY <3>2, <3>3, <3>4
    <3>. QED
      BY <3>5 DEF m
  <2>3. Batches(0) = <<>>
    BY <2>2, EmptySeq DEF Batches
  <2>. QED
    BY <2>3 DEF Materialized, Init
<1>3. right_materialized_ \in Seq(Seq(1..opened))
  BY <1>1 DEF Init
<1>4. TypeOK
  <2>1. /\ left_keys \in Seq(Keys) /\ right_keys \in Seq(Keys)
        /\ out \in Seq((1..Len(left_keys)) \X (1..Len(right_keys)))
    BY <1>1 DEF Init
  <2>2. Len(left_keys) = 0 /\ Len(right_keys) = 0
    BY <1>1 DEF Init
  <2>3. /\ left_row = 0 /\ opened = 0
        /\ predicate_ \in Predicates /\ ended \in BOOLEAN
    BY DEF Init
  <2>. HIDE DEF Init
  <2>4. /\ Len(left_keys) <= MaxLeft /\ Len(right_keys) <= MaxRight
        /\ left_row \in 0..Len(left_keys) /\ opened \in 0..Len(right_keys)
    BY <2>2, <2>3 DEF JoinAssumption
  <2>. QED
    BY <1>3, <2>1, <2>3, <2>4 DEF TypeOK
<1>5. JoinExact
  <2>1. 0 \in Nat
    OBVIOUS
  <2>2. Range(<<>>) = Matches(1..0, 0) /\ LeftThenRight(<<>>)
    BY <2>1, NothingDelivered
  <2>. QED
    BY <2>2 DEF JoinExact, Init
<1>. QED
  BY <1>2, <1>4, <1>5 DEF JoinInv

\* A row appended to either table leaves the matches of the earlier rows alone.
LEMMA AppendedKey ==
  ASSUME NEW keys \in Seq(Keys), NEW k \in Keys
  PROVE  /\ Append(keys, k) \in Seq(Keys)
         /\ Len(keys) \in Nat
         /\ Len(Append(keys, k)) = Len(keys) + 1
         /\ \A i \in 1..Len(keys) : Append(keys, k)[i] = keys[i]
BY AppendProperties, LenProperties

LEMMA JoinInvInsertLeft ==
  ASSUME JoinAssumption, JoinInv, NEW k \in Keys, InsertLeft(k) PROVE JoinInv'
<1>. USE DEF InsertLeft, JoinInv
<1>1. /\ left_keys' \in Seq(Keys) /\ Len(left_keys) \in Nat
      /\ Len(left_keys') = Len(left_keys) + 1
      /\ \A i \in 1..Len(left_keys) : left_keys'[i] = left_keys[i]
  BY AppendedKey DEF TypeOK
<1>2. TypeOK'
  <2>1. (1..Len(left_keys)) \X (1..Len(right_keys))
          \subseteq (1..Len(left_keys')) \X (1..Len(right_keys'))
    BY <1>1
  <2>2. out' \in Seq((1..Len(left_keys')) \X (1..Len(right_keys')))
    BY <2>1, SeqMonotonic DEF TypeOK
  <2>3. left_row' \in 0..Len(left_keys')
    BY <1>1 DEF TypeOK
  <2>4. Len(left_keys') <= MaxLeft
    BY <1>1 DEF JoinAssumption
  <2>5. /\ predicate_' \in Predicates
        /\ right_keys' \in Seq(Keys) /\ Len(right_keys') <= MaxRight
        /\ opened' \in 0..Len(right_keys')
        /\ right_materialized_' \in Seq(Seq(1..opened'))
        /\ ended' \in BOOLEAN
    BY DEF TypeOK
  <2>. QED
    BY <1>1, <2>2, <2>3, <2>4, <2>5 DEF TypeOK
<1>3. Materialized'
  BY DEF Materialized, Batches, BatchAt
<1>4. JoinExact'
  <2>1. Matches(1..left_row, opened)' = Matches(1..left_row, opened)
    BY <1>1 DEF Matches, TypeOK
  <2>. QED
    BY <2>1 DEF JoinExact, LeftThenRight
<1>. QED
  BY <1>2, <1>3, <1>4

LEMMA JoinInvInsertRight ==
  ASSUME JoinAssumption, JoinInv, NEW k \in Keys, InsertRight(k) PROVE JoinInv'
<1>. USE DEF InsertRight, JoinInv
<1>1. /\ right_keys' \in Seq(Keys) /\ Len(right_keys) \in Nat
      /\ Len(right_keys') = Len(right_keys) + 1
      /\ \A i \in 1..Len(right_keys) : right_keys'[i] = right_keys[i]
  BY AppendedKey DEF TypeOK
<1>2. TypeOK'
  <2>1. (1..Len(left_keys)) \X (1..Len(right_keys))
          \subseteq (1..Len(left_keys')) \X (1..Len(right_keys'))
    BY <1>1
  <2>2. out' \in Seq((1..Len(left_keys')) \X (1..Len(right_keys')))
    BY <2>1, SeqMonotonic DEF TypeOK
  <2>3. opened' \in 0..Len(right_keys')
    BY <1>1 DEF TypeOK
  <2>4. Len(right_keys') <= MaxRight
    BY <1>1 DEF JoinAssumption
  <2>5. /\ predicate_' \in Predicates
        /\ left_keys' \in Seq(Keys) /\ Len(left_keys') <= MaxLeft
        /\ left_row' \in 0..Len(left_keys')
        /\ right_materialized_' \in Seq(Seq(1..opened'))
        /\ ended' \in BOOLEAN
    BY DEF TypeOK
  <2>. QED
    BY <1>1, <2>2, <2>3, <2>4, <2>5 DEF TypeOK
<1>3. Materialized'
  BY DEF Materialized, Batches, BatchAt
<1>4. JoinExact'
  <2>1. Matches(1..left_row, opened)' = Matches(1..left_row, opened)
    BY <1>1 DEF Matches, TypeOK
  <2>. QED
    BY <2>1 DEF JoinExact, LeftThenRight
<1>. QED
  BY <1>2, <1>3, <1>4

LEMMA JoinInvInitStep == ASSUME JoinAssumption, JoinInv, JoinInit PROVE JoinInv'
<1>. USE DEF JoinInit, JoinInv
<1>1. Len(right_keys) \in Nat
  BY LenProperties DEF TypeOK
<1>2. Materialized'
  BY DEF Materialized, Batches, BatchAt, tables
<1>3. TypeOK'
  <2>1. right_materialized_' \in Seq(Seq(1..opened'))
    BY <1>1, MaterializedChunks
  <2>2. /\ predicate_' \in Predicates
        /\ left_keys' \in Seq(Keys) /\ Len(left_keys') <= MaxLeft
        /\ right_keys' \in Seq(Keys) /\ Len(right_keys') <= MaxRight
        /\ ended' \in BOOLEAN
    BY DEF TypeOK, tables
  <2>3. left_row' \in 0..Len(left_keys') /\ opened' \in 0..Len(right_keys')
    BY <1>1, LenProperties DEF TypeOK, tables
  <2>4. out' \in Seq((1..Len(left_keys')) \X (1..Len(right_keys')))
    BY ShortSequences
  <2>. QED
    BY <2>1, <2>2, <2>3, <2>4 DEF TypeOK
<1>4. JoinExact'
  <2>1. Matches(1..left_row, opened)' = {} /\ out' = <<>>
    BY DEF Matches
  <2>2. Range(out') = {} /\ LeftThenRight(out')
    BY <2>1, <1>1, NothingDelivered, ShortSequences
  <2>. HIDE DEF JoinInv, JoinInit
  <2>. QED
    BY <2>1, <2>2 DEF JoinExact
<1>. QED
  BY <1>2, <1>3, <1>4

LEMMA JoinInvNext == ASSUME JoinAssumption, JoinInv, JoinNext PROVE JoinInv'
<1>. DEFINE N == Len(left_keys)
<1>. DEFINE batch == BatchAt(left_row, N)
<1>. DEFINE pairs == IF predicate_ = "=" THEN JoinBatch(batch, Batches(opened)) ELSE <<>>
<1>0. TypeOK /\ Materialized /\ JoinExact
  BY DEF JoinInv
<1>1. /\ N \in Nat /\ Len(right_keys) \in Nat
      /\ left_row \in 0..N /\ opened \in 0..Len(right_keys) /\ opened \in Nat
  BY <1>0, LenProperties DEF TypeOK
<1>2. /\ left_row' = left_row + Len(batch)
      /\ out' = out \o pairs
      /\ ended' = (pairs = <<>>)
      /\ UNCHANGED <<predicate_, left_keys, right_keys, right_materialized_, opened>>
  BY <1>0 DEF JoinNext, Materialized, tables
<1>3. left_row' \in 0..N
  <2>1. left_row + Len(batch) \in left_row..N
    BY <1>1, BatchFacts
  <2>. HIDE DEF batch
  <2>. QED
    BY <1>1, <1>2, <2>1
<1>4. Materialized'
  BY <1>0, <1>2 DEF Materialized, Batches, BatchAt
<1>5. out \in Seq(Nat \X Nat)
  <2>1. (1..N) \X (1..Len(right_keys)) \subseteq Nat \X Nat
    BY <1>1
  <2>. QED
    BY <1>0, <2>1, SeqMonotonic DEF TypeOK
<1>6. ASSUME predicate_ = "="
      PROVE  /\ pairs \in Seq((1..N) \X (1..opened))
             /\ Range(out') = Matches(1..left_row', opened)
             /\ LeftThenRight(out')
  <2>1. Range(out) = Matches(1..left_row, opened) /\ Ordered(out, PairOrder)
    BY <1>0, <1>5, <1>6, PairOrderFacts DEF JoinExact
  <2>2. pairs = JoinBatch(batch, Batches(opened))
    BY <1>6
  <2>3. /\ pairs \in Seq((1..N) \X (1..opened))
        /\ out \o pairs \in Seq(Nat \X Nat)
        /\ Ordered(out \o pairs, PairOrder)
        /\ Range(out \o pairs) = Matches(1..left_row + Len(batch), opened)
    <3>. HIDE DEF pairs, N
    <3>. QED
      BY <1>1, <1>5, <2>1, <2>2, JoinStep
  <2>. HIDE DEF pairs, batch, N
  <2>. QED
    BY <1>2, <2>3, PairOrderFacts
<1>. HIDE DEF batch
<1>7. JoinExact'
  <2>. HIDE DEF pairs
  <2>1. Matches(1..left_row', opened) = Matches(1..left_row, opened)'
    BY <1>2 DEF Matches
  <2>. QED
    BY <1>2, <1>6, <2>1 DEF JoinExact
<1>8. TypeOK'
  <2>1. pairs \in Seq((1..N) \X (1..Len(right_keys)))
    <3>1. CASE predicate_ = "="
      <4>1. (1..N) \X (1..opened) \subseteq (1..N) \X (1..Len(right_keys))
        BY <1>1
      <4>. HIDE DEF pairs, N
      <4>. QED
        BY <1>6, <3>1, <4>1, SeqMonotonic
    <3>2. CASE predicate_ # "="
      BY <3>2, ShortSequences
    <3>. QED
      BY <3>1, <3>2
  <2>. HIDE DEF pairs
  <2>2. out' \in Seq((1..N) \X (1..Len(right_keys)))
    BY <1>0, <1>2, <2>1, ConcatProperties DEF TypeOK
  <2>3. ended' \in BOOLEAN
    BY <1>2
  <2>. QED
    BY <1>0, <1>2, <1>3, <2>2, <2>3 DEF TypeOK
<1>. QED
  BY <1>4, <1>7, <1>8 DEF JoinInv

LEMMA JoinInvUnchanged ==
  ASSUME JoinInv, UNCHANGED <<predicate_, tables, left_row, right_materialized_, opened, out>>,
         ended' \in BOOLEAN
  PROVE  JoinInv'
<1>1. TypeOK'
  BY DEF JoinInv, TypeOK, tables
<1>2. Materialized'
  BY DEF JoinInv, Materialized, Batches, BatchAt
<1>3. JoinExact'
  BY DEF JoinInv, JoinExact, Matches, LeftThenRight, tables
<1>. QED
  BY <1>1, <1>2, <1>3 DEF JoinInv

LEMMA JoinInvHolds == ASSUME JoinAssumption PROVE Spec => []JoinInv
<1>1. Init => JoinInv
  BY JoinInvInit
<1>2. JoinInv /\ [Next]_vars => JoinInv'
  <2>. SUFFICES ASSUME JoinInv, [Next]_vars PROVE JoinInv'
    OBVIOUS
  <2>1. ASSUME NEW k \in Keys, InsertLeft(k) PROVE JoinInv'
    BY <2>1, JoinInvInsertLeft
  <2>2. ASSUME NEW k \in Keys, InsertRight(k) PROVE JoinInv'
    BY <2>2, JoinInvInsertRight
  <2>3. CASE JoinInit
    BY <2>3, JoinInvInitStep
  <2>4. CASE JoinNext
    BY <2>4, JoinInvNext
  <2>5. CASE JoinEnd
    BY <2>5, JoinInvUnchanged DEF JoinEnd
  <2>6. CASE UNCHANGED vars
    BY <2>6, JoinInvUnchanged DEF vars, JoinInv, TypeOK
  <2>. QED
    BY <2>1, <2>2, <2>3, <2>4, <2>5, <2>6 DEF Next
<1>. QED
  BY <1>1, <1>2, PTL DEF Spec

\* The join's variables keep their types: above all, the left scan never moves
\* past the left table, and the chunks list only rows of the right one.
THEOREM JoinTypeCorrect == ASSUME JoinAssumption PROVE Spec => []TypeOK
<1>1. JoinInv => TypeOK
  BY DEF JoinInv
<1>. QED
  BY <1>1, JoinInvHolds, PTL

\* Whatever the tables hold and however they grow between two pulls, an
\* equi-join has delivered the matches of the left rows it consumed and the
\* right rows it saw at init: each of them, once, in the order of the loops.
THEOREM JoinCorrect == ASSUME JoinAssumption PROVE Spec => []JoinExact
<1>1. JoinInv => JoinExact
  BY DEF JoinInv
<1>. QED
  BY <1>1, JoinInvHolds, PTL
=============================================================================

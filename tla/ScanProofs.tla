----------------------------- MODULE ScanProofs -----------------------------
(***************************************************************************)
(* Proofs about module Scan, for every schema, batch size and bound: type  *)
(* correctness, the exactness of the filtered scan, its refinement of      *)
(* RowSource, and the agreement of the two scans when column names are     *)
(* distinct.                                                               *)
(***************************************************************************)
EXTENDS Scan, TableProofs

-----------------------------------------------------------------------------
(* The table inside the scans. *)

\* A step of the scans is a step of the table or leaves it alone.
LEMMA ScanStepIsTableStep == [ScanNext]_vars => [Next]_tableVars
BY DEF ScanNext, TableStep, Next, FilterInit, FilterChunk, FilterEnd, IndexScanInit,
       IndexScanChunk, IndexScanEnd, vars, filterVars, fetchVars, tableVars

\* So what is proved of the table holds under the scans.
LEMMA TableInvariants ==
  /\ ScanSpec => []TypeOK
  /\ ScanSpec => []ColumnsAligned
  /\ ScanSpec => []IndexInRange
  /\ DistinctNames => (ScanSpec => []IndexExact)
<1>1. ScanInit => Init
  BY DEF ScanInit
<1>2. ScanSpec => Spec
  BY <1>1, ScanStepIsTableStep, PTL DEF ScanSpec, Spec
<1>3. ASSUME DistinctNames PROVE Spec => []IndexExact
  BY <1>3, IndexCorrect
<1>. QED
  BY <1>2, <1>3, TypeCorrect, AlignmentCorrect, IndexRangeCorrect

\* Rows are only added, and the cells of the old ones never change: the rows
\* that hold a key are, up to any old row, the same before and after a step.
LEMMA HoldersStable ==
  ASSUME TypeOK, ColumnsAligned, [Next]_tableVars
  PROVE  /\ num_rows_ \in Nat /\ num_rows_' \in Nat /\ num_rows_ <= num_rows_'
         /\ \A c, v : \A n \in 0..num_rows_ : Holders(c, v, n)' = Holders(c, v, n)
<1>1. ASSUME NEW row \in Tuples, Insert(row)
      PROVE  /\ num_rows_ \in Nat /\ num_rows_' \in Nat /\ num_rows_ <= num_rows_'
             /\ \A c, v : \A n \in 0..num_rows_ : Holders(c, v, n)' = Holders(c, v, n)
  <2>1. num_rows_ \in Nat /\ num_rows_' = num_rows_ + 1
    BY <1>1 DEF Insert, TypeOK
  <2>2. \A i \in Columns : \A r \in 1..num_rows_ :
          column_data_'[i][r] = column_data_[i][r]
    <3>. TAKE i \in Columns
    <3>1. column_data_'[i] = Append(column_data_[i], row[i])
      BY <1>1, ColumnsFacts DEF Insert, PushCells, Columns
    <3>2. column_data_[i] \in Seq(Values) /\ Len(column_data_[i]) = num_rows_
      BY DEF TypeOK, ColumnsAligned
    <3>. QED
      BY <2>1, <3>1, <3>2
  <2>3. ASSUME NEW c, NEW v, NEW n \in 0..num_rows_
        PROVE  Holders(c, v, n)' = Holders(c, v, n)
    <3>1. getColumnIndex(c) # NotFound => getColumnIndex(c) \in Columns
      BY ColumnFound
    <3>2. \A r \in 1..n : r \in 1..num_rows_
      BY <2>1
    <3>. QED
      BY <2>2, <3>1, <3>2 DEF Holders
  <2>. QED
    BY <2>1, <2>3
<1>2. ASSUME NEW c \in Names, CreateIndex(c)
      PROVE  UNCHANGED <<num_rows_, column_data_>>
  BY <1>2 DEF CreateIndex
<1>3. CASE UNCHANGED <<num_rows_, column_data_>>
  BY <1>3 DEF Holders, TypeOK
<1>. QED
  BY <1>1, <1>2, <1>3 DEF Next, tableVars

-----------------------------------------------------------------------------
(* Type correctness. *)

\* The lists that one pull adds come from the rows of the table.
LEMMA PulledRows ==
  ASSUME TypeOK
  PROVE  /\ \A S : S \subseteq 1..num_rows_ => Passing(S) \in SUBSET (1..num_rows_)
         /\ \A s : BatchAt(s) \subseteq 1..num_rows_
         /\ \A S : S \subseteq 1..num_rows_ => RowLists(Passing(S)) \subseteq Seq(1..num_rows_)
<1>1. \A S : S \subseteq 1..num_rows_ => Passing(S) \in SUBSET (1..num_rows_)
  BY DEF Passing
<1>2. \A s : BatchAt(s) \subseteq 1..num_rows_
  BY DEF BatchAt
<1>3. ASSUME NEW S, S \subseteq 1..num_rows_
      PROVE  RowLists(Passing(S)) \subseteq Seq(1..num_rows_)
  <2>1. Passing(S) \in SUBSET (1..num_rows_)
    BY <1>1, <1>3
  <2>2. num_rows_ \in Nat
    BY DEF TypeOK
  <2>. QED
    BY <2>1, <2>2, RowListsType
<1>. QED
  BY <1>1, <1>2, <1>3

\* The scans keep their cursors and row numbers inside the table.
THEOREM ScanTypeCorrect == ScanSpec => []ScanTypeOK
<1>0. Len(<<>>) = 0 /\ \A S : <<>> \in Seq(S)
  BY EmptySeq
<1>1. ScanInit /\ TypeOK => ScanTypeOK
  <2>. SUFFICES ASSUME ScanInit, TypeOK PROVE ScanTypeOK
    OBVIOUS
  <2>1. /\ filtered \in Seq(1..num_rows_) /\ fetched \in Seq(1..num_rows_)
        /\ matched_row_ids_ \in Seq(1..num_rows_) /\ Len(matched_row_ids_) = 0
    BY <1>0 DEF ScanInit
  <2>2. num_rows_ = 0 /\ current_row_ = 0 /\ current_idx_ = 0
    BY DEF ScanInit, Init
  <2>3. opened \in [rows : 0..num_rows_, indexed : BOOLEAN]
    BY <2>2 DEF ScanInit
  <2>. QED
    BY <2>1, <2>2, <2>3 DEF ScanInit, ScanTypeOK
<1>2. /\ TypeOK /\ TypeOK' /\ ColumnsAligned /\ IndexInRange /\ ScanTypeOK
      /\ [ScanNext]_vars
      => ScanTypeOK'
  <2>. SUFFICES ASSUME TypeOK, TypeOK', ColumnsAligned, IndexInRange, ScanTypeOK,
                       [ScanNext]_vars
                PROVE  ScanTypeOK'
    OBVIOUS
  <2>0. /\ num_rows_ \in Nat /\ num_rows_' \in Nat /\ num_rows_ <= num_rows_'
        /\ Seq(1..num_rows_) \subseteq Seq(1..num_rows_')
    BY HoldersStable, ScanStepIsTableStep
  <2>1. CASE TableStep
    BY <2>0, <2>1 DEF TableStep, filterVars, fetchVars, ScanTypeOK
  <2>2. CASE FilterInit
    <3>1. filtered' \in Seq(1..num_rows_)
      BY <1>0, <2>2 DEF FilterInit
    <3>2. current_row_' \in 0..num_rows_'
      BY <2>0, <2>2 DEF FilterInit
    <3>3. num_rows_' = num_rows_ /\ UNCHANGED <<predicate_, fetchVars>>
      BY <2>2 DEF FilterInit, tableVars
    <3>. QED
      BY <2>2, <3>1, <3>2, <3>3 DEF FilterInit, fetchVars, tableVars, ScanTypeOK
  <2>3. CASE FilterChunk
    <3>1. PICK s \in current_row_..num_rows_ - 1 :
            /\ \E chunk \in RowLists(Passing(BatchAt(s))) : filtered' = filtered \o chunk
            /\ current_row_' = Smaller(s + BATCH_SIZE, num_rows_)
      BY <2>3 DEF FilterChunk
    <3>2. filtered' \in Seq(1..num_rows_)
      <4>1. PICK chunk \in RowLists(Passing(BatchAt(s))) : filtered' = filtered \o chunk
        BY <3>1
      <4>2. chunk \in Seq(1..num_rows_)
        BY <4>1, PulledRows
      <4>. QED
        BY <4>1, <4>2, ConcatProperties DEF ScanTypeOK
    <3>3. current_row_' \in 0..num_rows_
      BY <2>0, <3>1, BatchAssumption DEF Smaller, ScanTypeOK
    <3>. QED
      BY <2>0, <2>3, <3>2, <3>3 DEF FilterChunk, fetchVars, tableVars, ScanTypeOK
  <2>4. CASE FilterEnd
    BY <2>0, <2>4 DEF FilterEnd, fetchVars, tableVars, ScanTypeOK
  <2>5. CASE IndexScanInit
    <3>1. matched_row_ids_' \in Seq(1..num_rows_)
      BY <1>0, <2>5 DEF IndexScanInit, IndexInRange, ScanTypeOK
    <3>2. current_idx_' \in 0..Len(matched_row_ids_')
      <4>1. Len(matched_row_ids_') \in Nat
        BY <3>1, LenProperties
      <4>. QED
        BY <2>5, <4>1 DEF IndexScanInit
    <3>3. fetched' \in Seq(1..num_rows_)
      BY <1>0, <2>5 DEF IndexScanInit
    <3>4. opened' \in [rows : 0..num_rows_, indexed : BOOLEAN]
      BY <2>0, <2>5 DEF IndexScanInit
    <3>. QED
      BY <2>0, <2>5, <3>1, <3>2, <3>3, <3>4 DEF IndexScanInit, filterVars, tableVars, ScanTypeOK
  <2>6. CASE IndexScanChunk
    <3>. DEFINE n == Smaller(BATCH_SIZE, Len(matched_row_ids_) - current_idx_)
    <3>. DEFINE chunk == SubSeq(matched_row_ids_, current_idx_ + 1, current_idx_ + n)
    <3>1. /\ fetched' = fetched \o chunk
          /\ current_idx_' = current_idx_ + n
          /\ current_idx_ < Len(matched_row_ids_)
      BY <2>6 DEF IndexScanChunk
    <3>2. n \in Nat /\ current_idx_ + n <= Len(matched_row_ids_)
      BY <3>1, BatchAssumption DEF Smaller, ScanTypeOK
    <3>3. chunk \in Seq(1..num_rows_)
      <4>1. \A i \in current_idx_ + 1..current_idx_ + n :
              matched_row_ids_[i] \in 1..num_rows_
        <5>1. matched_row_ids_ \in Seq(1..num_rows_) /\ current_idx_ \in Nat
          BY DEF ScanTypeOK
        <5>2. \A i \in 1..Len(matched_row_ids_) : matched_row_ids_[i] \in 1..num_rows_
          BY <5>1, ElementOfSeq
        <5>3. n \in Nat /\ current_idx_ + n <= Len(matched_row_ids_)
          BY <3>2
        <5>. HIDE DEF n, chunk
        <5>. TAKE i \in current_idx_ + 1..current_idx_ + n
        <5>4. i \in 1..Len(matched_row_ids_)
          BY <5>1, <5>3
        <5>. QED
          BY <5>2, <5>4
      <4>2. current_idx_ + 1 \in Int /\ current_idx_ + n \in Int
        BY <3>2 DEF ScanTypeOK
      <4>. HIDE DEF n
      <4>. QED
        BY <4>1, <4>2, SubSeqProperties
    <3>4. fetched' \in Seq(1..num_rows_)
      BY <3>1, <3>3, ConcatProperties DEF ScanTypeOK
    <3>5. current_idx_' \in 0..Len(matched_row_ids_)
      BY <3>1, <3>2 DEF ScanTypeOK
    <3>. HIDE DEF chunk, n
    <3>. QED
      BY <2>0, <2>6, <3>4, <3>5 DEF IndexScanChunk, filterVars, tableVars, ScanTypeOK
  <2>7. CASE IndexScanEnd
    BY <2>0, <2>7 DEF IndexScanEnd, filterVars, tableVars, ScanTypeOK
  <2>8. CASE UNCHANGED vars
    BY <2>0, <2>8 DEF vars, filterVars, fetchVars, tableVars, ScanTypeOK
  <2>. QED
    BY <2>1, <2>2, <2>3, <2>4, <2>5, <2>6, <2>7, <2>8 DEF ScanNext
<1>. QED
  BY <1>1, <1>2, TableInvariants, PTL DEF ScanSpec

-----------------------------------------------------------------------------
(* The filtered scan. *)

\* Whether an old row passes does not change.
LEMMA PassesStable ==
  ASSUME TypeOK, ColumnsAligned, [ScanNext]_vars
  PROVE  \A r \in 1..num_rows_ : Passes(r)' <=> Passes(r)
<1>1. /\ num_rows_ \in Nat /\ num_rows_' \in Nat /\ num_rows_ <= num_rows_'
      /\ \A c, v : \A n \in 0..num_rows_ : Holders(c, v, n)' = Holders(c, v, n)
  BY HoldersStable, ScanStepIsTableStep
<1>2. UNCHANGED predicate_
  BY DEF ScanNext, TableStep, FilterInit, FilterChunk, FilterEnd, IndexScanInit,
         IndexScanChunk, IndexScanEnd, vars
<1>. TAKE r \in 1..num_rows_
<1>3. ASSUME NEW c, NEW v
      PROVE  r \in Holders(c, v, num_rows_)' <=> r \in Holders(c, v, num_rows_)
  <2>1. r \in Holders(c, v, r)' <=> r \in Holders(c, v, r)
    BY <1>1
  <2>2. r \in Holders(c, v, r) <=> r \in Holders(c, v, num_rows_)
    BY <1>1 DEF Holders
  <2>3. r \in Holders(c, v, r)' <=> r \in Holders(c, v, num_rows_)'
    BY <1>1 DEF Holders
  <2>. QED
    BY <2>1, <2>2, <2>3
<1>. QED
  BY <1>2, <1>3 DEF Passes, Holders

\* A list of larger numbers extends an ascending list.
LEMMA AscendingConcat ==
  ASSUME NEW n \in Nat, NEW s \in Seq(1..n), NEW t \in Seq(1..n),
         Ascending(s), Ascending(t),
         \A x \in Range(s), y \in Range(t) : x < y
  PROVE  /\ Ascending(s \o t)
         /\ Range(s \o t) = Range(s) \cup Range(t)
<1>. DEFINE u == s \o t
<1>1. /\ u \in Seq(1..n)
      /\ Len(u) = Len(s) + Len(t)
      /\ \A i \in 1..Len(s) : u[i] = s[i]
      /\ \A i \in 1..Len(t) : u[Len(s) + i] = t[i]
  BY ConcatProperties
<1>2. /\ Range(s) = {s[i] : i \in 1..Len(s)}
      /\ Range(t) = {t[i] : i \in 1..Len(t)}
      /\ Range(u) = {u[i] : i \in 1..Len(u)}
  BY <1>1, RangeEquality
<1>3. Len(s) \in Nat /\ Len(t) \in Nat
  BY LenProperties
<1>. HIDE DEF u
<1>4. ASSUME NEW i \in 1..Len(u)
      PROVE  \/ i \in 1..Len(s) /\ u[i] = s[i]
             \/ i - Len(s) \in 1..Len(t) /\ u[i] = t[i - Len(s)]
  <2>1. CASE i <= Len(s)
    <3>1. i \in 1..Len(s)
      BY <1>3, <2>1
    <3>2. u[i] = s[i]
      BY <1>1, <3>1
    <3>. QED
      BY <3>1, <3>2
  <2>2. CASE i > Len(s)
    <3>0. Len(u) = Len(s) + Len(t)
      BY <1>1
    <3>1. i - Len(s) \in 1..Len(t) /\ i = Len(s) + (i - Len(s))
      BY <1>3, <2>2, <3>0
    <3>2. u[Len(s) + (i - Len(s))] = t[i - Len(s)]
      BY <1>1, <3>1
    <3>. QED
      BY <3>1, <3>2
  <2>. QED
    BY <1>3, <2>1, <2>2
<1>5. Range(u) = Range(s) \cup Range(t)
  <2>1. Range(u) \subseteq Range(s) \cup Range(t)
    BY <1>2, <1>4
  <2>2. Range(s) \subseteq Range(u)
    BY <1>1, <1>2, <1>3
  <2>3. Range(t) \subseteq Range(u)
    <3>. SUFFICES ASSUME NEW i \in 1..Len(t) PROVE t[i] \in Range(u)
      BY <1>2
    <3>1. Len(s) + i \in 1..Len(u)
      BY <1>1, <1>3
    <3>. QED
      BY <1>1, <1>2, <3>1
  <2>. QED
    BY <2>1, <2>2, <2>3
<1>6. Ascending(u)
  <2>. SUFFICES ASSUME NEW i \in 1..Len(u), NEW j \in 1..Len(u), i < j
                PROVE  u[i] < u[j]
    BY DEF Ascending
  <2>1. CASE i \in 1..Len(s) /\ j \in 1..Len(s)
    BY <1>1, <2>1 DEF Ascending
  <2>2. CASE i \in 1..Len(s) /\ j \notin 1..Len(s)
    <3>1. u[i] \in Range(s)
      BY <1>1, <1>2, <2>2
    <3>2. u[j] \in Range(t)
      BY <1>2, <1>4, <2>2
    <3>. QED
      BY <3>1, <3>2
  <2>3. CASE i \notin 1..Len(s)
    <3>1. i - Len(s) \in 1..Len(t) /\ u[i] = t[i - Len(s)]
      BY <1>4, <2>3
    <3>2. j \notin 1..Len(s)
      BY <1>1, <1>3, <2>3
    <3>3. j - Len(s) \in 1..Len(t) /\ u[j] = t[j - Len(s)]
      BY <1>4, <3>2
    <3>4. i - Len(s) < j - Len(s)
      BY <1>1, <1>3
    <3>. QED
      BY <3>1, <3>3, <3>4 DEF Ascending
  <2>. QED
    BY <2>1, <2>2, <2>3
<1>. QED
  BY <1>5, <1>6 DEF u

\* What one successful next of the filter delivers, and how far it gets: the
\* rows it leaves behind were delivered before, do not pass, or are delivered now.
LEMMA FilterChunkFacts ==
  ASSUME ScanTypeOK, FilterChunk
  PROVE  \E chunk \in Seq(1..num_rows_) :
           /\ filtered' = filtered \o chunk
           /\ Ascending(chunk)
           /\ Range(chunk) = Passing(current_row_ + 1..current_row_')
           /\ Len(chunk) \in 1..BATCH_SIZE
           /\ current_row_' \in current_row_..num_rows_
<1>. DEFINE B == BATCH_SIZE
<1>1. PICK s \in current_row_..num_rows_ - 1 :
        /\ Passing(current_row_ + 1..s) = {}
        /\ Passing(BatchAt(s)) # {}
        /\ \E chunk \in RowLists(Passing(BatchAt(s))) : filtered' = filtered \o chunk
        /\ current_row_' = Smaller(s + BATCH_SIZE, num_rows_)
  BY DEF FilterChunk
<1>. DEFINE H == Passing(BatchAt(s))
<1>2. PICK chunk \in RowLists(H) : filtered' = filtered \o chunk
  BY <1>1
<1>3. chunk \in Seq(1..num_rows_)
  BY PulledRows DEF ScanTypeOK
<1>4. Ascending(chunk) /\ Range(chunk) = H /\ chunk \in [1..Cardinality(H) -> H]
  BY DEF RowLists
<1>5. /\ num_rows_ \in Nat /\ current_row_ \in Nat /\ s \in Nat
      /\ current_row_ <= s /\ s < num_rows_
      /\ B \in Nat /\ B >= 1
  BY BatchAssumption DEF ScanTypeOK, TypeOK
<1>6. current_row_' \in current_row_..num_rows_
  BY <1>1, <1>5 DEF Smaller
<1>7. BatchAt(s) = s + 1..current_row_'
  BY <1>1, <1>5 DEF BatchAt, Smaller
<1>8. H = Passing(current_row_ + 1..current_row_')
  <2>1. current_row_ + 1..current_row_' = (current_row_ + 1..s) \cup (s + 1..current_row_')
    BY <1>1, <1>5, <1>6 DEF Smaller
  <2>. QED
    BY <1>1, <1>7, <2>1 DEF Passing
<1>9. Len(chunk) \in 1..B
  <2>1. H \subseteq s + 1..s + B
    BY <1>5 DEF BatchAt, Passing
  <2>2. IsFiniteSet(s + 1..s + B) /\ Cardinality(s + 1..s + B) = B
    BY <1>5, FS_Interval
  <2>3. IsFiniteSet(H) /\ Cardinality(H) <= B /\ Cardinality(H) \in Nat
    BY <2>1, <2>2, FS_Subset, FS_CardinalityType
  <2>4. Cardinality(H) # 0
    BY <1>1, <2>3, FS_EmptySet
  <2>5. Len(chunk) = Cardinality(H)
    <3>. HIDE DEF H
    <3>. QED
      BY <1>4, <2>3
  <2>. QED
    BY <1>5, <2>3, <2>4, <2>5
<1>. QED
  BY <1>2, <1>3, <1>4, <1>6, <1>8, <1>9

\* However inserts fall between its pulls, the filter has delivered exactly the
\* passing rows its scan has consumed, in row order and once each.
THEOREM FilterCorrect == ScanSpec => []FilterExact
<1>1. ScanInit => FilterExact
  BY DEF ScanInit, FilterExact, Passing, Ascending, Range
<1>2. /\ TypeOK /\ ColumnsAligned /\ ScanTypeOK /\ FilterExact /\ [ScanNext]_vars
      => FilterExact'
  <2>. SUFFICES ASSUME TypeOK, ColumnsAligned, ScanTypeOK, FilterExact, [ScanNext]_vars
                PROVE  FilterExact'
    OBVIOUS
  <2>0. /\ num_rows_ \in Nat /\ current_row_ \in 0..num_rows_
        /\ filtered \in Seq(1..num_rows_)
    BY DEF ScanTypeOK, TypeOK
  <2>1. \A r \in 1..num_rows_ : Passes(r)' <=> Passes(r)
    BY PassesStable
  <2>2. CASE UNCHANGED filterVars
    <3>1. \A r \in 1..current_row_ : r \in 1..num_rows_
      BY <2>0
    <3>2. {r \in 1..current_row_ : Passes(r)'} = {r \in 1..current_row_ : Passes(r)}
      BY <2>1, <3>1
    <3>. QED
      BY <2>2, <3>2 DEF filterVars, FilterExact, Passing
  <2>3. CASE FilterInit
    BY <2>3 DEF FilterInit, FilterExact, Passing, Ascending, Range
  <2>4. CASE FilterChunk
    <3>1. PICK chunk \in Seq(1..num_rows_) :
            /\ filtered' = filtered \o chunk
            /\ Ascending(chunk)
            /\ Range(chunk) = Passing(current_row_ + 1..current_row_')
            /\ current_row_' \in current_row_..num_rows_
      BY <2>4, FilterChunkFacts
    <3>2. \A x \in Range(filtered), y \in Range(chunk) : x < y
      BY <2>0, <3>1 DEF FilterExact, Passing
    <3>3. /\ Ascending(filtered')
          /\ Range(filtered') = Range(filtered) \cup Range(chunk)
      BY <2>0, <3>1, <3>2, AscendingConcat DEF FilterExact
    <3>4. 1..current_row_' = (1..current_row_) \cup (current_row_ + 1..current_row_')
      BY <2>0, <3>1
    <3>5. Range(filtered') = Passing(1..current_row_')
      BY <3>1, <3>3, <3>4 DEF FilterExact, Passing
    <3>6. \A r \in 1..current_row_' : Passes(r)' <=> Passes(r)
      BY <2>0, <2>1, <3>1
    <3>. QED
      BY <3>3, <3>5, <3>6 DEF FilterExact, Passing
  <2>5. CASE FilterEnd
    <3>1. /\ filtered' = filtered /\ current_row_' = num_rows_
          /\ Passing(current_row_ + 1..num_rows_) = {}
      BY <2>5 DEF FilterEnd
    <3>2. 1..num_rows_ = (1..current_row_) \cup (current_row_ + 1..num_rows_)
      BY <2>0
    <3>3. Range(filtered') = Passing(1..current_row_')
      BY <3>1, <3>2 DEF FilterExact, Passing
    <3>. QED
      BY <2>1, <3>1, <3>3 DEF FilterExact, Passing
  <2>. QED
    BY <2>2, <2>3, <2>4, <2>5
    DEF ScanNext, TableStep, IndexScanInit, IndexScanChunk, IndexScanEnd, vars
<1>. QED
  BY <1>1, <1>2, TableInvariants, ScanTypeCorrect, PTL DEF ScanSpec

\* What is still to come from the filtered scan, as the refinement maps it.
FilterPending == Passing(current_row_ + 1..num_rows_)

\* The filter over a scan keeps the promise of an executor, RowSource.
THEOREM FilterImplementsRowSource == ScanSpec => FilterIsRowSource
<1>1. ScanInit => FilterSource!Init
  <2>. SUFFICES ASSUME ScanInit PROVE FilterSource!Init
    OBVIOUS
  <2>1. FilterPending = {}
    BY DEF ScanInit, Init, FilterPending, Passing
  <2>. QED
    BY <2>1 DEF ScanInit, FilterSource!Init, FilterPending
<1>2. /\ TypeOK /\ TypeOK' /\ ColumnsAligned /\ ScanTypeOK /\ ScanTypeOK' /\ FilterExact
      /\ [ScanNext]_vars
      => [FilterSource!Next]_(FilterSource!vars)
  <2>. SUFFICES ASSUME TypeOK, TypeOK', ColumnsAligned, ScanTypeOK, ScanTypeOK', FilterExact,
                       [ScanNext]_vars
                PROVE  [FilterSource!Next]_(FilterSource!vars)
    OBVIOUS
  <2>0. /\ num_rows_ \in Nat /\ num_rows_' \in Nat /\ num_rows_' <= MaxRows
        /\ current_row_ \in 0..num_rows_ /\ current_row_' \in 0..num_rows_'
    BY BoundAssumption DEF ScanTypeOK, TypeOK
  <2>1. \A r \in 1..num_rows_ : Passes(r)' <=> Passes(r)
    BY PassesStable
  <2>2. FilterPending' \in SUBSET (1..MaxRows)
    BY <2>0, BoundAssumption DEF FilterPending, Passing
  <2>3. ASSUME NEW row \in Tuples, Insert(row), UNCHANGED filterVars
        PROVE  [FilterSource!Next]_(FilterSource!vars)
    <3>1. PICK n \in Nat : n = num_rows_ + 1
      BY <2>0
    <3>2. num_rows_' = n /\ UNCHANGED <<current_row_, filtered, filter_ended>>
      BY <2>3, <3>1 DEF Insert, filterVars
    <3>3. current_row_ + 1..n = (current_row_ + 1..num_rows_) \cup {n}
      BY <2>0, <3>1
    <3>4. FilterPending' = FilterPending \cup {r \in {n} : Passes(r)'}
      BY <2>0, <2>1, <3>1, <3>2, <3>3 DEF FilterPending, Passing
    <3>5. CASE {r \in {n} : Passes(r)'} = {n}
      <4>1. FilterPending' = FilterPending \cup {n}
        BY <3>4, <3>5
      <4>2. \A p \in FilterPending \cup Range(filtered) : p < n
        BY <2>0, <3>1 DEF FilterExact, FilterPending, Passing
      <4>3. n \in 1..MaxRows
        BY <2>0, <3>1, <3>2, BoundAssumption
      <4>4. FilterSource!Grow(n)
        BY <3>2, <4>1, <4>2 DEF FilterSource!Grow, FilterPending,
             Range, FilterSource!Range
      <4>. QED
        BY <4>3, <4>4 DEF FilterSource!Next
    <3>6. CASE {r \in {n} : Passes(r)'} = {}
      <4>1. FilterPending' = FilterPending
        BY <3>4, <3>6
      <4>. QED
        BY <3>2, <4>1 DEF FilterSource!vars, FilterPending
    <3>. QED
      BY <3>5, <3>6
  <2>4. ASSUME UNCHANGED <<num_rows_, filterVars>>
        PROVE  [FilterSource!Next]_(FilterSource!vars)
    <3>1. FilterPending' = FilterPending
      <4>1. UNCHANGED <<num_rows_, current_row_>>
        BY <2>4 DEF filterVars
      <4>2. \A r \in current_row_ + 1..num_rows_ : r \in 1..num_rows_
        BY <2>0
      <4>. QED
        BY <2>1, <4>1, <4>2 DEF FilterPending, Passing
    <3>. QED
      BY <2>4, <3>1 DEF FilterSource!vars, FilterPending, filterVars
  <2>5. CASE TableStep
    BY <2>3, <2>4, <2>5 DEF TableStep, CreateIndex
  <2>6. CASE FilterInit
    <3>1. FilterSource!Open
      BY <2>2, <2>6 DEF FilterInit, FilterSource!Open, FilterPending
    <3>. QED
      BY <3>1 DEF FilterSource!Next
  <2>7. CASE FilterChunk
    <3>1. PICK chunk \in Seq(1..num_rows_) :
            /\ filtered' = filtered \o chunk
            /\ Ascending(chunk)
            /\ Range(chunk) = Passing(current_row_ + 1..current_row_')
            /\ Len(chunk) \in 1..BATCH_SIZE
            /\ current_row_' \in current_row_..num_rows_
      BY <2>7, FilterChunkFacts
    <3>2. num_rows_' = num_rows_ /\ filter_ended' = FALSE
      BY <2>7 DEF FilterChunk, tableVars
    <3>3. PICK m \in current_row_..num_rows_ : m = current_row_'
      BY <3>1
    <3>4. /\ current_row_ + 1..num_rows_ = (current_row_ + 1..m) \cup (m + 1..num_rows_)
          /\ \A x \in current_row_ + 1..m, y \in m + 1..num_rows_ : x < y
          /\ m + 1..num_rows_ \subseteq 1..num_rows_
      BY <2>0
    <3>5. /\ Range(chunk) \subseteq FilterPending
          /\ FilterPending' = FilterPending \ Range(chunk)
          /\ \A r \in Range(chunk) : \A p \in FilterPending \ Range(chunk) : r < p
      <4>1. Range(chunk) = Passing(current_row_ + 1..m)
        BY <3>1, <3>3
      <4>2. FilterPending = Passing(current_row_ + 1..m) \cup Passing(m + 1..num_rows_)
        BY <3>4 DEF FilterPending, Passing
      <4>3. FilterPending' = Passing(m + 1..num_rows_)
        BY <2>1, <3>2, <3>3, <3>4 DEF FilterPending, Passing
      <4>4. \A r \in Passing(current_row_ + 1..m), p \in Passing(m + 1..num_rows_) : r < p
        BY <3>4 DEF Passing
      <4>5. \A r \in Passing(m + 1..num_rows_) : r \notin Passing(current_row_ + 1..m)
        BY <2>0, <4>4 DEF Passing
      <4>. QED
        BY <4>1, <4>2, <4>3, <4>4, <4>5
    <3>6. FilterSource!Deliver(chunk)
      BY <3>1, <3>2, <3>5 DEF FilterSource!Deliver, FilterPending, Ascending,
         Range, FilterSource!Range
    <3>7. chunk \in [1..Len(chunk) -> FilterPending]
      <4>1. chunk = [i \in 1..Len(chunk) |-> chunk[i]] /\ DOMAIN chunk = 1..Len(chunk)
        BY <3>1
      <4>2. \A i \in 1..Len(chunk) : chunk[i] \in FilterPending
        BY <3>5, <4>1 DEF Range
      <4>. QED
        BY <4>1, <4>2
    <3>. QED
      BY <3>1, <3>6, <3>7 DEF FilterSource!Next, FilterPending
  <2>8. CASE FilterEnd
    <3>1. /\ FilterPending = {} /\ filtered' = filtered /\ filter_ended' = TRUE
          /\ current_row_' = num_rows_ /\ num_rows_' = num_rows_
      BY <2>8 DEF FilterEnd, FilterPending, tableVars
    <3>2. FilterPending' = {}
      BY <2>0, <3>1 DEF FilterPending, Passing
    <3>3. FilterSource!Finish
      BY <3>1, <3>2 DEF FilterSource!Finish, FilterPending
    <3>. QED
      BY <3>3 DEF FilterSource!Next
  <2>. QED
    BY <2>4, <2>5, <2>6, <2>7, <2>8
    DEF ScanNext, IndexScanInit, IndexScanChunk, IndexScanEnd, vars, tableVars
<1>. QED
  BY <1>1, <1>2, TableInvariants, ScanTypeCorrect, FilterCorrect, PTL
  DEF ScanSpec, FilterIsRowSource, FilterSource!Spec

-----------------------------------------------------------------------------
(* The index scan, and its agreement with the filtered scan. *)

\* What the index scan holds: a prefix of the list that init found, all of it
\* when it has ended, and that list is exact for the rows that were there.
FetchInv ==
  /\ Len(fetched) = current_idx_
  /\ \A i \in 1..current_idx_ : fetched[i] = matched_row_ids_[i]
  /\ fetch_ended => current_idx_ = Len(matched_row_ids_)
  /\ Ascending(matched_row_ids_)
  /\ opened.indexed => Range(matched_row_ids_) =
                         Holders(predicate_.column, predicate_.key, opened.rows)

\* A slice of a list of rows.
LEMMA MatchedSlice ==
  ASSUME NEW m \in Nat, NEW q \in Seq(1..m), NEW k \in Nat, NEW n \in Nat,
         k + n <= Len(q)
  PROVE  /\ SubSeq(q, k + 1, k + n) \in Seq(1..m)
         /\ Len(SubSeq(q, k + 1, k + n)) = n
         /\ \A i \in 1..n : SubSeq(q, k + 1, k + n)[i] = q[k + i]
<1>1. \A i \in k + 1..k + n : q[i] \in 1..m
  <2>. TAKE i \in k + 1..k + n
  <2>1. i \in 1..Len(q)
    OBVIOUS
  <2>. QED
    BY <2>1, ElementOfSeq
<1>2. k + 1 \in Int /\ k + n \in Int
  OBVIOUS
<1>3. /\ SubSeq(q, k + 1, k + n) \in Seq(1..m)
      /\ Len(SubSeq(q, k + 1, k + n)) = IF k + 1 <= k + n THEN k + n - (k + 1) + 1 ELSE 0
      /\ \A i \in 1..k + n - (k + 1) + 1 : SubSeq(q, k + 1, k + n)[i] = q[k + 1 + i - 1]
  BY <1>1, <1>2, SubSeqProperties
<1>. QED
  BY <1>3

\* What one successful next of the index scan delivers: a slice of the list that
\* init found, of at least one and at most BATCH_SIZE rows.
LEMMA IndexScanChunkFacts ==
  ASSUME TypeOK, ScanTypeOK, IndexScanChunk
  PROVE  \E n \in 1..BATCH_SIZE : \E chunk \in Seq(1..num_rows_) :
           /\ fetched' = fetched \o chunk
           /\ current_idx_' = current_idx_ + n
           /\ current_idx_ + n <= Len(matched_row_ids_)
           /\ Len(chunk) = n
           /\ \A i \in 1..n : chunk[i] = matched_row_ids_[current_idx_ + i]
<1>. DEFINE n == Smaller(BATCH_SIZE, Len(matched_row_ids_) - current_idx_)
<1>. DEFINE chunk == SubSeq(matched_row_ids_, current_idx_ + 1, current_idx_ + n)
<1>1. /\ num_rows_ \in Nat /\ current_idx_ \in Nat /\ Len(matched_row_ids_) \in Nat
      /\ matched_row_ids_ \in Seq(1..num_rows_)
  BY DEF ScanTypeOK, TypeOK
<1>2. n \in 1..BATCH_SIZE /\ n \in Nat /\ current_idx_ + n <= Len(matched_row_ids_)
  BY <1>1, BatchAssumption DEF IndexScanChunk, Smaller
<1>3. fetched' = fetched \o chunk /\ current_idx_' = current_idx_ + n
  BY DEF IndexScanChunk
<1>. HIDE DEF n
<1>4. /\ chunk \in Seq(1..num_rows_)
      /\ Len(chunk) = n
      /\ \A i \in 1..n : chunk[i] = matched_row_ids_[current_idx_ + i]
  BY <1>1, <1>2, MatchedSlice, ZenonT(60)
<1>. QED
  BY <1>2, <1>3, <1>4

\* The invariant of the index scan that the two theorems below rest on.
LEMMA FetchInvariant ==
  ASSUME DistinctNames
  PROVE  ScanSpec => []FetchInv
<1>1. ScanInit => FetchInv
  BY DEF ScanInit, FetchInv, Ascending
<1>2. /\ TypeOK /\ ColumnsAligned /\ IndexExact /\ IndexInRange /\ ScanTypeOK /\ FetchInv
      /\ [ScanNext]_vars
      => FetchInv'
  <2>. SUFFICES ASSUME TypeOK, ColumnsAligned, IndexExact, IndexInRange, ScanTypeOK, FetchInv,
                       [ScanNext]_vars
                PROVE  FetchInv'
    OBVIOUS
  <2>0. /\ num_rows_ \in Nat
        /\ matched_row_ids_ \in Seq(1..num_rows_) /\ current_idx_ \in 0..Len(matched_row_ids_)
        /\ Len(matched_row_ids_) \in Nat
        /\ fetched \in Seq(1..num_rows_) /\ opened.rows \in 0..num_rows_
    BY DEF ScanTypeOK, TypeOK
  <2>1. UNCHANGED predicate_
    BY DEF ScanNext, TableStep, FilterInit, FilterChunk, FilterEnd, IndexScanInit,
           IndexScanChunk, IndexScanEnd, vars
  <2>2. \A c, v : \A n \in 0..num_rows_ : Holders(c, v, n)' = Holders(c, v, n)
    BY HoldersStable, ScanStepIsTableStep
  <2>3. ASSUME UNCHANGED <<matched_row_ids_, opened>>
        PROVE  /\ Ascending(matched_row_ids_)'
               /\ (opened.indexed => Range(matched_row_ids_) =
                     Holders(predicate_.column, predicate_.key, opened.rows))'
    <3>1. Ascending(matched_row_ids_)'
      BY <2>3 DEF FetchInv, Ascending
    <3>2. ASSUME NEW c, NEW v, NEW n \in 0..num_rows_, c = predicate_.column,
                 v = predicate_.key, n = opened.rows
          PROVE  (opened.indexed => Range(matched_row_ids_) =
                   Holders(predicate_.column, predicate_.key, opened.rows))'
      <4>1. Holders(c, v, n)' = Holders(c, v, n)
        BY <2>2
      <4>2. opened'.indexed => Range(matched_row_ids_') = Holders(c, v, n)
        BY <2>3, <3>2 DEF FetchInv
      <4>3. c = predicate_'.column /\ v = predicate_'.key /\ n = opened'.rows
        BY <2>1, <2>3, <3>2
      <4>4. Holders(c, v, n)' = Holders(predicate_.column, predicate_.key, opened.rows)'
        BY <4>3 DEF Holders
      <4>. QED
        BY <4>1, <4>2, <4>4
    <3>. QED
      BY <2>0, <3>1, <3>2
  <2>4. CASE UNCHANGED fetchVars
    BY <2>3, <2>4 DEF fetchVars, FetchInv
  <2>5. CASE IndexScanInit
    <3>. DEFINE c == predicate_.column
    <3>. DEFINE v == predicate_.key
    <3>1. /\ fetched' = <<>> /\ current_idx_' = 0 /\ fetch_ended' = FALSE
          /\ opened' = [rows |-> num_rows_, indexed |-> c \in DOMAIN indexes_]
          /\ UNCHANGED tableVars
      BY <2>5 DEF IndexScanInit
    <3>2. Len(fetched') = 0
      BY <3>1
    <3>3. v \in Values
      BY DEF ScanTypeOK
    <3>4. CASE c \in DOMAIN indexes_
      <4>1. matched_row_ids_' = lookup(c, v)
        BY <2>5, <3>4 DEF IndexScanInit
      <4>2. Ascending(lookup(c, v)) /\ Range(lookup(c, v)) = Holders(c, v, num_rows_)
        BY <3>3, <3>4 DEF IndexExact
      <4>3. Ascending(matched_row_ids_')
        BY <4>1, <4>2 DEF Ascending
      <4>4. Range(matched_row_ids_') =
              Holders(predicate_.column, predicate_.key, opened.rows)'
        BY <2>1, <3>1, <4>1, <4>2 DEF tableVars, Holders
      <4>. QED
        BY <3>1, <3>2, <4>3, <4>4 DEF FetchInv, Ascending
    <3>5. CASE c \notin DOMAIN indexes_
      <4>1. matched_row_ids_' = <<>>
        BY <2>5, <3>5 DEF IndexScanInit
      <4>2. ~opened'.indexed
        BY <3>1, <3>5
      <4>. QED
        BY <3>1, <3>2, <4>1, <4>2 DEF FetchInv, Ascending
    <3>. QED
      BY <3>4, <3>5
  <2>6. CASE IndexScanChunk
    <3>1. PICK n \in 1..BATCH_SIZE, chunk \in Seq(1..num_rows_) :
            /\ fetched' = fetched \o chunk
            /\ current_idx_' = current_idx_ + n
            /\ current_idx_ + n <= Len(matched_row_ids_)
            /\ Len(chunk) = n
            /\ \A i \in 1..n : chunk[i] = matched_row_ids_[current_idx_ + i]
      BY <2>6, IndexScanChunkFacts
    <3>2. /\ fetch_ended' = FALSE /\ UNCHANGED <<matched_row_ids_, opened>>
          /\ n \in Nat
      BY <2>6, BatchAssumption DEF IndexScanChunk
    <3>3. /\ Len(fetched') = Len(fetched) + n
          /\ \A i \in 1..Len(fetched) : fetched'[i] = fetched[i]
          /\ \A i \in 1..n : fetched'[Len(fetched) + i] = chunk[i]
      <4>. DEFINE u == fetched \o chunk
      <4>1. /\ Len(u) = Len(fetched) + Len(chunk)
            /\ \A i \in 1..Len(fetched) : u[i] = fetched[i]
            /\ \A i \in 1..Len(chunk) : u[Len(fetched) + i] = chunk[i]
        <5>1. fetched \in Seq(1..num_rows_) /\ chunk \in Seq(1..num_rows_)
          BY <2>0
        <5>. QED
          BY <5>1, ConcatProperties
      <4>2. fetched' = u
        BY <3>1
      <4>. HIDE DEF u
      <4>. QED
        BY <3>1, <4>1, <4>2
    <3>4. ASSUME NEW i \in 1..current_idx_' PROVE fetched'[i] = matched_row_ids_'[i]
      <4>1. CASE i <= current_idx_
        <5>1. i \in 1..current_idx_
          BY <2>0, <3>2, <4>1
        <5>2. fetched[i] = matched_row_ids_[i] /\ i \in 1..Len(fetched)
          BY <5>1 DEF FetchInv
        <5>. QED
          BY <3>1, <3>2, <3>3, <5>2
      <4>2. CASE i > current_idx_
        <5>1. PICK j \in 1..n : i = current_idx_ + j
          <6>1. i - current_idx_ \in 1..n /\ i = current_idx_ + (i - current_idx_)
            BY <2>0, <3>1, <3>2, <4>2
          <6>. QED
            BY <6>1
        <5>2. Len(fetched) = current_idx_
          BY DEF FetchInv
        <5>3. fetched'[current_idx_ + j] = chunk[j]
          BY <3>3, <5>2
        <5>4. chunk[j] = matched_row_ids_[current_idx_ + j]
          BY <3>1
        <5>. QED
          BY <3>2, <5>1, <5>3, <5>4
      <4>3. i \in Nat /\ current_idx_ \in Nat
        BY <2>0, <3>1, <3>2
      <4>. QED
        BY <4>1, <4>2, <4>3
    <3>. QED
      BY <2>3, <3>1, <3>2, <3>3, <3>4 DEF FetchInv
  <2>7. CASE IndexScanEnd
    <3>1. /\ UNCHANGED <<matched_row_ids_, opened, fetched, current_idx_>>
          /\ current_idx_ >= Len(matched_row_ids_)
      BY <2>7 DEF IndexScanEnd
    <3>2. current_idx_ = Len(matched_row_ids_)
      BY <2>0, <3>1
    <3>. QED
      BY <2>3, <3>1, <3>2 DEF FetchInv
  <2>. QED
    BY <2>4, <2>5, <2>6, <2>7
    DEF ScanNext, TableStep, FilterInit, FilterChunk, FilterEnd, vars
<1>. QED
  BY <1>1, <1>2, DistinctNames, TableInvariants, ScanTypeCorrect, PTL DEF ScanSpec

\* What is still to come from the index scan, as the refinement maps it.
FetchPending ==
  {matched_row_ids_[i] : i \in current_idx_ + 1..Len(matched_row_ids_)}

\* The index scan keeps the promise of an executor, RowSource, for the rows that
\* its init found.  Without distinct names it does not: a row that was inserted
\* twice under one key would be delivered twice.
THEOREM FetchImplementsRowSource ==
  ASSUME DistinctNames
  PROVE  ScanSpec => FetchIsRowSource
<1>1. ScanInit => FetchSource!Init
  <2>. SUFFICES ASSUME ScanInit PROVE FetchSource!Init
    OBVIOUS
  <2>1. FetchPending = {}
    BY DEF ScanInit, FetchPending
  <2>. QED
    BY <2>1 DEF ScanInit, FetchSource!Init, FetchPending
<1>2. /\ TypeOK /\ ScanTypeOK /\ TypeOK' /\ ScanTypeOK' /\ FetchInv
      /\ [ScanNext]_vars
      => [FetchSource!Next]_(FetchSource!vars)
  <2>. SUFFICES ASSUME TypeOK, ScanTypeOK, TypeOK', ScanTypeOK', FetchInv, [ScanNext]_vars
                PROVE  [FetchSource!Next]_(FetchSource!vars)
    OBVIOUS
  <2>0. /\ num_rows_ \in Nat /\ num_rows_' \in Nat /\ num_rows_' <= MaxRows
        /\ num_rows_ <= MaxRows
        /\ matched_row_ids_ \in Seq(1..num_rows_) /\ Len(matched_row_ids_) \in Nat
        /\ current_idx_ \in Nat /\ current_idx_ <= Len(matched_row_ids_)
    BY BoundAssumption DEF ScanTypeOK, TypeOK
  <2>1. CASE UNCHANGED fetchVars
    BY <2>1 DEF fetchVars, FetchSource!vars
  <2>2. CASE IndexScanInit
    <3>1. matched_row_ids_' \in Seq(1..num_rows_')
      BY DEF ScanTypeOK
    <3>2. \A i \in current_idx_' + 1..Len(matched_row_ids_') : i \in 1..Len(matched_row_ids_')
      <4>1. current_idx_' = 0
        BY <2>2 DEF IndexScanInit
      <4>. QED
        BY <4>1
    <3>3. \A i \in 1..Len(matched_row_ids_') : matched_row_ids_'[i] \in 1..num_rows_'
      BY <3>1, ElementOfSeq
    <3>4. 1..num_rows_' \subseteq 1..MaxRows
      BY <2>0, BoundAssumption
    <3>5. FetchPending' \in SUBSET (1..MaxRows)
      BY <3>2, <3>3, <3>4 DEF FetchPending
    <3>6. FetchSource!Open
      BY <2>2, <3>5 DEF IndexScanInit, FetchSource!Open, FetchPending
    <3>. QED
      BY <3>6 DEF FetchSource!Next
  <2>3. CASE IndexScanChunk
    <3>1. PICK n \in 1..BATCH_SIZE, chunk \in Seq(1..num_rows_) :
            /\ fetched' = fetched \o chunk
            /\ current_idx_' = current_idx_ + n
            /\ current_idx_ + n <= Len(matched_row_ids_)
            /\ Len(chunk) = n
            /\ \A i \in 1..n : chunk[i] = matched_row_ids_[current_idx_ + i]
      BY <2>3, IndexScanChunkFacts
    <3>2. fetch_ended' = FALSE /\ UNCHANGED matched_row_ids_
      BY <2>3 DEF IndexScanChunk
    <3>3. \A i, j \in 1..Len(matched_row_ids_) :
            i < j => matched_row_ids_[i] < matched_row_ids_[j]
      BY DEF FetchInv, Ascending
    <3>4. DOMAIN chunk = 1..n /\ chunk = [i \in 1..n |-> chunk[i]] /\ n \in Nat
      BY <3>1, BatchAssumption
    <3>5. Range(chunk) = {matched_row_ids_[i] : i \in current_idx_ + 1..current_idx_ + n}
      <4>1. ASSUME NEW i \in 1..n
            PROVE  chunk[i] \in {matched_row_ids_[k] : k \in current_idx_ + 1..current_idx_ + n}
        <5>1. current_idx_ + i \in current_idx_ + 1..current_idx_ + n
          BY <2>0, <3>4
        <5>. QED
          BY <3>1, <5>1
      <4>2. ASSUME NEW k \in current_idx_ + 1..current_idx_ + n
            PROVE  matched_row_ids_[k] \in Range(chunk)
        <5>1. k - current_idx_ \in 1..n /\ k = current_idx_ + (k - current_idx_)
          BY <2>0, <3>4, SMTT(30)
        <5>. QED
          BY <3>1, <3>4, <5>1 DEF Range
      <4>. QED
        BY <3>4, <4>1, <4>2 DEF Range
    <3>6. current_idx_ + 1..Len(matched_row_ids_) =
            (current_idx_ + 1..current_idx_ + n) \cup (current_idx_' + 1..Len(matched_row_ids_))
      <4>1. PICK m \in Nat : m = current_idx_ + n
        BY <2>0, <3>4
      <4>2. PICK l \in Nat : l = Len(matched_row_ids_)
        BY <2>0
      <4>3. current_idx_ <= m /\ m <= l
        BY <2>0, <3>1, <3>4, <4>1, <4>2
      <4>4. current_idx_ + 1..l = (current_idx_ + 1..m) \cup (m + 1..l)
        BY <2>0, <4>3
      <4>. QED
        BY <3>1, <4>1, <4>2, <4>4
    <3>7. FetchPending = Range(chunk) \cup FetchPending'
      BY <3>2, <3>5, <3>6 DEF FetchPending
    <3>8. \A r \in Range(chunk), p \in FetchPending' : r < p
      <4>1. ASSUME NEW i \in current_idx_ + 1..current_idx_ + n,
                   NEW j \in current_idx_' + 1..Len(matched_row_ids_)
            PROVE  matched_row_ids_[i] < matched_row_ids_[j]
        <5>1. \A l \in Nat : \A x \in current_idx_ + 1..current_idx_ + n :
                \A y \in current_idx_ + n + 1..l :
                  current_idx_ + n <= l => x \in 1..l /\ y \in 1..l /\ x < y
          BY <2>0, <3>4, SMTT(40)
        <5>2. i \in 1..Len(matched_row_ids_) /\ j \in 1..Len(matched_row_ids_) /\ i < j
          BY <2>0, <3>1, <5>1
        <5>. QED
          BY <3>3, <5>2
      <4>2. FetchPending' =
              {matched_row_ids_[j] : j \in current_idx_' + 1..Len(matched_row_ids_)}
        BY <3>2 DEF FetchPending
      <4>. QED
        BY <3>5, <4>1, <4>2
    <3>9. \A x \in Range(chunk) : x \in 1..num_rows_
      BY <3>1, <3>4, ElementOfSeq, ZenonT(60) DEF Range
    <3>10. Range(chunk) \cap FetchPending' = {}
      BY <2>0, <3>8, <3>9
    <3>11. /\ Range(chunk) \subseteq FetchPending
           /\ FetchPending' = FetchPending \ Range(chunk)
           /\ \A r \in Range(chunk) : \A p \in FetchPending \ Range(chunk) : r < p
      BY <3>7, <3>8, <3>10
    <3>12. \A i, j \in 1..Len(chunk) : i < j => chunk[i] < chunk[j]
      <4>. TAKE i, j \in 1..Len(chunk)
      <4>. HAVE i < j
      <4>1. /\ current_idx_ + i \in 1..Len(matched_row_ids_)
            /\ current_idx_ + j \in 1..Len(matched_row_ids_)
            /\ current_idx_ + i < current_idx_ + j
        <5>1. \A l \in Nat : \A x \in 1..n : current_idx_ + n <= l => current_idx_ + x \in 1..l
          BY <2>0, <3>4, SMTT(40)
        <5>2. Len(chunk) = n /\ current_idx_ + n <= Len(matched_row_ids_)
          BY <3>1
        <5>3. i \in 1..n /\ j \in 1..n
          BY <5>2
        <5>4. current_idx_ + i < current_idx_ + j
          BY <2>0, <3>4, <5>3
        <5>. QED
          BY <2>0, <5>1, <5>2, <5>3, <5>4
      <4>. QED
        BY <3>1, <3>3, <4>1
    <3>13. FetchSource!Deliver(chunk)
      BY <3>1, <3>2, <3>11, <3>12
      DEF FetchSource!Deliver, FetchPending, Range, FetchSource!Range
    <3>14. chunk \in [1..n -> FetchPending]
      BY <3>4, <3>11 DEF Range
    <3>. QED
      BY <3>13, <3>14 DEF FetchSource!Next, FetchPending
  <2>4. CASE IndexScanEnd
    <3>1. /\ fetch_ended' = TRUE
          /\ UNCHANGED <<matched_row_ids_, current_idx_, fetched>>
          /\ current_idx_ >= Len(matched_row_ids_)
      BY <2>4 DEF IndexScanEnd
    <3>2. FetchPending = {} /\ FetchPending' = {}
      BY <2>0, <3>1 DEF FetchPending
    <3>3. FetchSource!Finish
      BY <3>1, <3>2 DEF FetchSource!Finish, FetchPending
    <3>. QED
      BY <3>3 DEF FetchSource!Next
  <2>. QED
    BY <2>1, <2>2, <2>3, <2>4
    DEF ScanNext, TableStep, FilterInit, FilterChunk, FilterEnd, vars
<1>. QED
  BY <1>1, <1>2, DistinctNames, TableInvariants, ScanTypeCorrect, FetchInvariant, PTL
  DEF ScanSpec, FetchIsRowSource, FetchSource!Spec

\* With distinct column names, a drained index scan that was opened on an index
\* and the filtered scan delivered the same of the rows both could see.
THEOREM ScansAgreeCorrect ==
  ASSUME DistinctNames
  PROVE  ScanSpec => []ScansAgree
<1>1. TypeOK /\ ScanTypeOK /\ FilterExact /\ FetchInv => ScansAgree
  <2>. SUFFICES ASSUME TypeOK, ScanTypeOK, FilterExact, FetchInv,
                       fetch_ended, opened.indexed, predicate_.op = "="
                PROVE  {r \in Range(fetched) : r <= current_row_} =
                       {r \in Range(filtered) : r <= opened.rows}
    BY DEF ScansAgree
  <2>. DEFINE c == predicate_.column
  <2>. DEFINE v == predicate_.key
  <2>0. /\ num_rows_ \in Nat /\ current_row_ \in 0..num_rows_ /\ opened.rows \in 0..num_rows_
        /\ matched_row_ids_ \in Seq(1..num_rows_) /\ fetched \in Seq(1..num_rows_)
    BY DEF ScanTypeOK, TypeOK
  <2>1. Range(fetched) = Range(matched_row_ids_)
    <3>1. /\ Len(fetched) = Len(matched_row_ids_)
          /\ \A i \in 1..Len(fetched) : fetched[i] = matched_row_ids_[i]
      BY DEF FetchInv
    <3>2. fetched = matched_row_ids_
      BY <2>0, <3>1, SeqEqual
    <3>. QED
      BY <3>2
  <2>2. Range(matched_row_ids_) = Holders(c, v, opened.rows)
    BY DEF FetchInv
  <2>3. Range(filtered) = {r \in 1..current_row_ : r \in Holders(c, v, num_rows_)}
    BY DEF FilterExact, Passing, Passes
  <2>. QED
    BY <2>0, <2>1, <2>2, <2>3 DEF Holders
<1>. QED
  BY <1>1, DistinctNames, TableInvariants, ScanTypeCorrect, FilterCorrect, FetchInvariant, PTL
=============================================================================

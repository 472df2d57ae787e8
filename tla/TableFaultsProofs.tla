------------------------- MODULE TableFaultsProofs -------------------------
(***************************************************************************)
(* Proofs about module TableFaults, for every schema, every set of values  *)
(* and every bound: what a table keeps when allocations fail in the middle *)
(* of its operations, however often and wherever they do.                  *)
(***************************************************************************)
EXTENDS TableFaults, TableProofs

-----------------------------------------------------------------------------
(* One insert, whole or broken off: cells for m columns, entries for k.     *)

\* The entries one key of one index gets.
Added(c, v, row, k) ==
  [n \in 1..Cardinality({i \in ColumnsNamed(c) : i <= k /\ row[i] = v}) |-> num_rows_ + 1]

LEMMA AddedType ==
  ASSUME num_rows_ \in Nat, NEW c, NEW v, NEW row, NEW k
  PROVE  Added(c, v, row, k) \in Seq({num_rows_ + 1}) /\ Added(c, v, row, k) \in Seq(Nat)
<1>. DEFINE S == {i \in ColumnsNamed(c) : i <= k /\ row[i] = v}
<1>1. Cardinality(S) \in Nat
  BY SomeColumnsFinite
<1>. HIDE DEF S
<1>2. [n \in 1..Cardinality(S) |-> num_rows_ + 1] \in [1..Cardinality(S) -> {num_rows_ + 1}]
  OBVIOUS
<1>3. [n \in 1..Cardinality(S) |-> num_rows_ + 1] \in [1..Cardinality(S) -> Nat]
  OBVIOUS
<1>. QED
  BY <1>1, <1>2, <1>3 DEF Added, S

\* The cells and entries that were there stay where they are.
LEMMA CellsAndEntriesStay ==
  ASSUME TypeOK, NEW row \in [Columns -> Values], NEW m \in Nat, NEW k \in Nat,
         PushCells(row, m), IndexCells(row, k)
  PROVE  /\ column_data_' \in [Columns -> Seq(Values)]
         /\ \A i \in Columns :
              /\ Len(column_data_'[i]) = Len(column_data_[i]) + (IF i <= m THEN 1 ELSE 0)
              /\ \A r \in 1..Len(column_data_[i]) : column_data_'[i][r] = column_data_[i][r]
              /\ i <= m => column_data_'[i][Len(column_data_[i]) + 1] = row[i]
         /\ \E C \in SUBSET Names : indexes_' \in [C -> [Values -> Seq(Nat)]]
         /\ DOMAIN indexes_' = DOMAIN indexes_
         /\ \A c \in DOMAIN indexes_, v \in Values : lookup(c, v)' = lookup(c, v) \o Added(c, v, row, k)
<1>0. num_rows_ \in Nat
  BY DEF TypeOK
<1>1. ASSUME NEW i \in Columns
      PROVE  /\ column_data_'[i] \in Seq(Values)
             /\ Len(column_data_'[i]) = Len(column_data_[i]) + (IF i <= m THEN 1 ELSE 0)
             /\ \A r \in 1..Len(column_data_[i]) : column_data_'[i][r] = column_data_[i][r]
             /\ i <= m => column_data_'[i][Len(column_data_[i]) + 1] = row[i]
  <2>1. column_data_[i] \in Seq(Values) /\ row[i] \in Values /\ Len(column_data_[i]) \in Nat
    BY DEF TypeOK
  <2>2. column_data_'[i] = IF i <= m THEN Append(column_data_[i], row[i]) ELSE column_data_[i]
    BY DEF PushCells
  <2>3. CASE i <= m
    BY <2>1, <2>2, <2>3, AppendProperties
  <2>4. CASE ~(i <= m)
    BY <2>1, <2>2, <2>4
  <2>. QED
    BY <2>3, <2>4
<1>2. column_data_' \in [Columns -> Seq(Values)]
  BY <1>1 DEF PushCells
<1>3. PICK C \in SUBSET Names : indexes_ \in [C -> [Values -> Seq(Nat)]]
  BY DEF TypeOK
<1>4. indexes_' = [c \in C |-> [v \in Values |-> lookup(c, v) \o Added(c, v, row, k)]]
  BY <1>3 DEF IndexCells, Added
<1>5. ASSUME NEW c \in C, NEW v \in Values PROVE lookup(c, v) \o Added(c, v, row, k) \in Seq(Nat)
  <2>1. lookup(c, v) \in Seq(Nat)
    BY <1>3 DEF lookup
  <2>. QED
    BY <1>0, <2>1, AddedType, ConcatProperties
<1>6. indexes_' \in [C -> [Values -> Seq(Nat)]]
  BY <1>4, <1>5
<1>7. \A c \in C, v \in Values : lookup(c, v)' = lookup(c, v) \o Added(c, v, row, k)
  BY <1>4 DEF lookup
<1>. QED
  BY <1>1, <1>2, <1>3, <1>6, <1>7

\* A tuple of the right length has a value for each column.
LEMMA WholeTuple ==
  ASSUME NEW row \in Tuples, Len(row) = Len(column_names)
  PROVE  row \in [Columns -> Values]
<1>1. PICK k \in 0..Len(column_names) : row \in [1..k -> Values]
  BY DEF Tuples
<1>2. k \in Nat /\ Len(row) = k
  BY <1>1, ColumnsFacts
<1>. QED
  BY <1>1, <1>2 DEF Columns

\* A new index lists its rows among the first n, in order.
LEMMA Backfilled ==
  ASSUME TypeOK, NEW c \in Names, NEW n \in 0..num_rows_, Backfill(c, n)
  PROVE  /\ \E C \in SUBSET Names : indexes_' \in [C -> [Values -> Seq(Nat)]]
         /\ DOMAIN indexes_' = DOMAIN indexes_ \cup {c}
         /\ \A d \in DOMAIN indexes_ \ {c}, v \in Values : lookup(d, v)' = lookup(d, v)
         /\ \A v \in Values : /\ lookup(c, v)' \in Seq(1..num_rows_)
                              /\ Range(lookup(c, v)') = Holders(c, v, n)
                              /\ Ascending(lookup(c, v)')
<1>1. PICK C \in SUBSET Names : indexes_ \in [C -> [Values -> Seq(Nat)]]
  BY DEF TypeOK
<1>2. PICK entries \in [Values -> UNION {RowLists(Holders(c, v, n)) : v \in Values}] :
        /\ \A v \in Values : entries[v] \in RowLists(Holders(c, v, n))
        /\ indexes_' = [d \in DOMAIN indexes_ \cup {c} |->
                          IF d = c THEN entries ELSE indexes_[d]]
  BY DEF Backfill
<1>3. num_rows_ \in Nat /\ n \in Nat
  BY DEF TypeOK
<1>4. ASSUME NEW v \in Values
      PROVE  entries[v] \in Seq(Nat) /\ entries[v] \in Seq(1..num_rows_)
  <2>1. Holders(c, v, n) \in SUBSET (1..n) /\ Holders(c, v, n) \in SUBSET (1..num_rows_)
    BY <1>3 DEF Holders
  <2>. QED
    BY <1>2, <1>3, <2>1, RowListsType
<1>5. entries \in [Values -> Seq(Nat)]
  BY <1>2, <1>4
<1>6. indexes_' \in [C \cup {c} -> [Values -> Seq(Nat)]]
  BY <1>1, <1>2, <1>5
<1>7. \A v \in Values : Range(entries[v]) = Holders(c, v, n) /\ Ascending(entries[v])
  BY <1>2 DEF RowLists
<1>. QED
  BY <1>2, <1>4, <1>6, <1>7 DEF lookup

-----------------------------------------------------------------------------
(* Types, and the rows that read back. *)

\* An index may list the row that the next insert will count, since one that
\* failed got that far; but not in a table whose columns are aligned.
EntriesInRange ==
  \A c \in DOMAIN indexes_, v \in Values :
    /\ lookup(c, v) \in Seq(1..num_rows_ + 1)
    /\ ColumnsAligned => lookup(c, v) \in Seq(1..num_rows_)

FaultInv == FaultTypeOK /\ KeptRowsReadBack /\ EntriesInRange

\* A list of some of the first n numbers is one of some of the first n + 1.
LEMMA OneMore ==
  ASSUME NEW n \in Nat, NEW s \in Seq(1..n)
  PROVE  s \in Seq(1..n + 1)
<1>1. 1..n \subseteq 1..n + 1
  OBVIOUS
<1>. QED
  BY <1>1

LEMMA InsertReturnsKeepsRows ==
  ASSUME FaultInv, NEW row \in Tuples, InsertReturns(row)
  PROVE  FaultInv' /\ (ColumnsAligned' <=> ColumnsAligned)
<1>. DEFINE N == Len(column_names)
<1>0. /\ TypeOK /\ num_rows_ \in Nat /\ num_rows_' = num_rows_ + 1 /\ num_rows_' \in 0..MaxRows
      /\ N \in Nat /\ kept \in Nat /\ kept <= num_rows_
  BY ColumnsFacts, BoundAssumption DEF FaultInv, FaultTypeOK, TypeOK, InsertReturns, Insert
<1>1. row \in [Columns -> Values]
  BY WholeTuple DEF InsertReturns, Insert
<1>2. PushCells(row, N) /\ IndexCells(row, N)
  BY DEF InsertReturns, Insert
<1>3. \A i \in Columns : i <= N /\ Len(column_data_[i]) \in Nat
  BY <1>0 DEF TypeOK, Columns
<1>4. /\ column_data_' \in [Columns -> Seq(Values)]
      /\ \A i \in Columns :
           /\ Len(column_data_'[i]) = Len(column_data_[i]) + 1
           /\ \A r \in 1..Len(column_data_[i]) : column_data_'[i][r] = column_data_[i][r]
           /\ column_data_'[i][Len(column_data_[i]) + 1] = row[i]
      /\ \E C \in SUBSET Names : indexes_' \in [C -> [Values -> Seq(Nat)]]
      /\ DOMAIN indexes_' = DOMAIN indexes_
      /\ \A c \in DOMAIN indexes_, v \in Values : lookup(c, v)' = lookup(c, v) \o Added(c, v, row, N)
  BY <1>0, <1>1, <1>2, <1>3, CellsAndEntriesStay
<1>5. ColumnsAligned' <=> ColumnsAligned
  <2>1. \A i \in Columns : Len(column_data_'[i]) = num_rows_' <=> Len(column_data_[i]) = num_rows_
    BY <1>0, <1>3, <1>4
  <2>. QED
    BY <2>1 DEF ColumnsAligned
<1>6. /\ accepted' \in Seq([Columns -> Values]) /\ Len(accepted') = num_rows_'
      /\ \A r \in 1..num_rows_ : accepted'[r] = accepted[r]
      /\ accepted'[num_rows_ + 1] = row
  <2>1. accepted \in Seq([Columns -> Values]) /\ accepted' = Append(accepted, row) /\ Len(accepted) = num_rows_
    BY DEF FaultInv, FaultTypeOK, KeptRowsReadBack, InsertReturns
  <2>. QED
    BY <1>0, <1>1, <2>1, AppendProperties
<1>7. kept' = IF ColumnsAligned THEN kept + 1 ELSE kept
  BY DEF InsertReturns
<1>8. ColumnsAligned => kept = num_rows_
  BY DEF FaultInv, KeptRowsReadBack
<1>9. FaultTypeOK'
  <2>1. TypeOK'
    BY <1>0, <1>4 DEF TypeOK
  <2>2. kept' \in 0..num_rows_'
    BY <1>0, <1>7
  <2>3. gaps' \in [DOMAIN indexes_' -> SUBSET (1..num_rows_')]
    <3>1. gaps \in [DOMAIN indexes_ -> SUBSET (1..num_rows_)] /\ gaps' = gaps
      BY DEF FaultInv, FaultTypeOK, InsertReturns
    <3>2. 1..num_rows_ \subseteq 1..num_rows_'
      BY <1>0
    <3>. QED
      BY <1>4, <3>1, <3>2
  <2>. QED
    BY <1>6, <2>1, <2>2, <2>3 DEF FaultTypeOK
<1>10. KeptRowsReadBack'
  <2>1. \A i \in Columns : num_rows_' <= Len(column_data_'[i])
    BY <1>0, <1>3, <1>4 DEF FaultInv, KeptRowsReadBack
  <2>2. ColumnsAligned' => kept' = num_rows_'
    BY <1>0, <1>5, <1>7, <1>8
  <2>3. ASSUME NEW r \in 1..kept', NEW i \in Columns PROVE column_data_'[i][r] = accepted'[r][i]
    <3>1. CASE r \in 1..kept
      <4>1. r \in 1..num_rows_ /\ r \in 1..Len(column_data_[i])
        BY <1>0, <1>3, <3>1 DEF FaultInv, KeptRowsReadBack
      <4>2. column_data_[i][r] = accepted[r][i]
        BY <3>1 DEF FaultInv, KeptRowsReadBack
      <4>. QED
        BY <1>4, <1>6, <4>1, <4>2
    <3>2. CASE r \notin 1..kept
      <4>1. ColumnsAligned /\ r = num_rows_ + 1
        BY <1>0, <1>7, <1>8, <3>2
      <4>2. Len(column_data_[i]) = num_rows_
        BY <4>1 DEF ColumnsAligned
      <4>. QED
        BY <1>4, <1>6, <4>1, <4>2
    <3>. QED
      BY <3>1, <3>2
  <2>. QED
    BY <1>6, <2>1, <2>2, <2>3 DEF KeptRowsReadBack
<1>11. EntriesInRange'
  <2>. SUFFICES ASSUME NEW c \in DOMAIN indexes_, NEW v \in Values
                PROVE  /\ lookup(c, v)' \in Seq(1..num_rows_' + 1)
                       /\ ColumnsAligned' => lookup(c, v)' \in Seq(1..num_rows_')
    BY <1>4 DEF EntriesInRange
  <2>1. lookup(c, v) \in Seq(1..num_rows_ + 1) /\ Added(c, v, row, N) \in Seq({num_rows_ + 1})
    BY <1>0, AddedType DEF FaultInv, EntriesInRange
  <2>2. lookup(c, v) \in Seq(1..num_rows_') /\ Added(c, v, row, N) \in Seq(1..num_rows_')
    BY <1>0, <2>1
  <2>3. lookup(c, v)' = lookup(c, v) \o Added(c, v, row, N)
    BY <1>4
  <2>4. lookup(c, v)' \in Seq(1..num_rows_')
    BY <2>2, <2>3, ConcatProperties
  <2>. QED
    BY <1>0, <2>4, OneMore
<1>. QED
  BY <1>5, <1>9, <1>10, <1>11 DEF FaultInv

LEMMA InsertThrowsKeepsRows ==
  ASSUME FaultInv, NEW row \in Tuples, NEW k \in Columns, InsertThrows(row, k)
  PROVE  FaultInv'
<1>0. /\ TypeOK /\ num_rows_ \in Nat /\ UNCHANGED <<num_rows_, accepted, kept, gaps>>
      /\ kept \in Nat /\ kept <= num_rows_ /\ k \in Nat /\ k >= 1 /\ k - 1 \in Nat
  BY ColumnsFacts DEF FaultInv, FaultTypeOK, TypeOK, InsertThrows
<1>1. row \in [Columns -> Values]
  BY WholeTuple DEF InsertThrows
<1>2. PICK m \in Nat, j \in Nat : /\ PushCells(row, m) /\ IndexCells(row, j)
                                 /\ j = k - 1 /\ (m = j \/ m = j + 1)
  <2>1. IndexCells(row, k - 1) /\ (PushCells(row, k - 1) \/ PushCells(row, k))
    BY DEF InsertThrows
  <2>2. k = (k - 1) + 1
    BY <1>0
  <2>. QED
    BY <1>0, <2>1, <2>2
<1>3. \A i \in Columns : i \in Nat /\ Len(column_data_[i]) \in Nat
  BY <1>0, ColumnsFacts DEF TypeOK
<1>4. /\ column_data_' \in [Columns -> Seq(Values)]
      /\ \A i \in Columns :
           /\ Len(column_data_'[i]) = Len(column_data_[i]) + (IF i <= m THEN 1 ELSE 0)
           /\ \A r \in 1..Len(column_data_[i]) : column_data_'[i][r] = column_data_[i][r]
      /\ \E C \in SUBSET Names : indexes_' \in [C -> [Values -> Seq(Nat)]]
      /\ DOMAIN indexes_' = DOMAIN indexes_
      /\ \A c \in DOMAIN indexes_, v \in Values :
           lookup(c, v)' = lookup(c, v) \o Added(c, v, row, j)
  <2>1. TypeOK /\ PushCells(row, m) /\ IndexCells(row, j)
    BY <1>0, <1>2
  <2>. QED
    BY ONLY <1>1, <2>1, m \in Nat, j \in Nat, CellsAndEntriesStay, ZenonT(60)
<1>5. \A i \in Columns : num_rows_ <= Len(column_data_[i])
  BY DEF FaultInv, KeptRowsReadBack
<1>6. ColumnsAligned' => m = 0 /\ ColumnsAligned
  <2>. SUFFICES ASSUME ColumnsAligned' PROVE m = 0 /\ ColumnsAligned
    OBVIOUS
  <2>1. \A i \in Columns : Len(column_data_'[i]) = num_rows_
    BY <1>0 DEF ColumnsAligned
  <2>2. ASSUME NEW i \in Columns PROVE ~(i <= m) /\ Len(column_data_[i]) = num_rows_
    <3>1. /\ Len(column_data_[i]) + (IF i <= m THEN 1 ELSE 0) = num_rows_
          /\ num_rows_ <= Len(column_data_[i]) /\ Len(column_data_[i]) \in Nat
      BY <1>3, <1>4, <1>5, <2>1
    <3>2. CASE i <= m
      BY <1>0, <3>1, <3>2
    <3>3. CASE ~(i <= m)
      BY <3>1, <3>3
    <3>. QED
      BY <3>2, <3>3
  <2>3. 1 \in Columns
    BY <1>0, ColumnsFacts DEF Columns
  <2>. QED
    BY <2>2, <2>3 DEF ColumnsAligned
<1>7. FaultTypeOK'
  <2>1. TypeOK'
    BY <1>0, <1>4 DEF TypeOK
  <2>. QED
    BY <1>0, <1>4, <2>1 DEF FaultInv, FaultTypeOK
<1>8. KeptRowsReadBack'
  <2>1. ASSUME NEW i \in Columns PROVE num_rows_ <= Len(column_data_'[i])
    <3>1. /\ Len(column_data_'[i]) = Len(column_data_[i]) + (IF i <= m THEN 1 ELSE 0)
          /\ num_rows_ <= Len(column_data_[i]) /\ Len(column_data_[i]) \in Nat
      BY <1>3, <1>4, <1>5
    <3>2. CASE i <= m
      BY <1>0, <3>1, <3>2
    <3>3. CASE ~(i <= m)
      BY <1>0, <3>1, <3>3
    <3>. QED
      BY <3>2, <3>3
  <2>2. ASSUME NEW r \in 1..kept, NEW i \in Columns PROVE column_data_'[i][r] = accepted[r][i]
    <3>1. r \in 1..Len(column_data_[i])
      BY <1>0, <1>3, <1>5
    <3>. QED
      BY <1>4, <3>1, ZenonT(60) DEF FaultInv, KeptRowsReadBack
  <2>. QED
    BY <1>0, <1>6, <2>1, <2>2 DEF FaultInv, KeptRowsReadBack
<1>9. EntriesInRange'
  <2>. SUFFICES ASSUME NEW c \in DOMAIN indexes_, NEW v \in Values
                PROVE  /\ lookup(c, v)' \in Seq(1..num_rows_ + 1)
                       /\ ColumnsAligned' => lookup(c, v)' \in Seq(1..num_rows_)
    BY <1>0, <1>4 DEF EntriesInRange
  <2>1. /\ lookup(c, v) \in Seq(1..num_rows_ + 1)
        /\ ColumnsAligned => lookup(c, v) \in Seq(1..num_rows_)
        /\ Added(c, v, row, j) \in Seq({num_rows_ + 1})
        /\ lookup(c, v)' = lookup(c, v) \o Added(c, v, row, j)
    BY <1>0, <1>4, AddedType DEF FaultInv, EntriesInRange
  <2>2. Added(c, v, row, j) \in Seq(1..num_rows_ + 1)
    BY <1>0, <2>1
  <2>3. lookup(c, v)' \in Seq(1..num_rows_ + 1)
    BY <2>1, <2>2, ConcatProperties
  <2>4. ASSUME ColumnsAligned' PROVE lookup(c, v)' \in Seq(1..num_rows_)
    <3>1. j = 0 /\ lookup(c, v) \in Seq(1..num_rows_)
      BY <1>2, <1>6, <2>1, <2>4
    <3>2. {i \in ColumnsNamed(c) : i <= j /\ row[i] = v} = {}
      BY <3>1, ColumnsFacts DEF ColumnsNamed
    <3>3. Added(c, v, row, j) = [n \in 1..0 |-> num_rows_ + 1]
      BY <3>2, FS_EmptySet DEF Added
    <3>4. [n \in 1..0 |-> num_rows_ + 1] = <<>>
      OBVIOUS
    <3>. QED
      BY <2>1, <3>1, <3>3, <3>4, ConcatEmptySeq
  <2>. QED
    BY <2>3, <2>4
<1>. QED
  BY <1>7, <1>8, <1>9 DEF FaultInv

LEMMA BackfillKeepsRows ==
  ASSUME FaultInv, NEW c \in Names, NEW n \in 0..num_rows_, Backfill(c, n),
         Registers(c, n + 1..num_rows_), UNCHANGED <<column_data_, num_rows_>>
  PROVE  FaultInv'
<1>0. TypeOK /\ num_rows_ \in Nat /\ n \in Nat
  BY DEF FaultInv, FaultTypeOK, TypeOK
<1>1. /\ \E C \in SUBSET Names : indexes_' \in [C -> [Values -> Seq(Nat)]]
      /\ DOMAIN indexes_' = DOMAIN indexes_ \cup {c}
      /\ \A d \in DOMAIN indexes_ \ {c}, v \in Values : lookup(d, v)' = lookup(d, v)
      /\ \A v \in Values : lookup(c, v)' \in Seq(1..num_rows_)
  BY <1>0, Backfilled
<1>2. gaps' \in [DOMAIN indexes_' -> SUBSET (1..num_rows_)]
  <2>1. gaps \in [DOMAIN indexes_ -> SUBSET (1..num_rows_)]
    BY DEF FaultInv, FaultTypeOK
  <2>2. n + 1..num_rows_ \in SUBSET (1..num_rows_)
    BY <1>0
  <2>3. gaps' = [d \in DOMAIN indexes_ \cup {c} |-> IF d = c THEN n + 1..num_rows_ ELSE gaps[d]]
    BY <2>1 DEF Registers
  <2>. QED
    BY <1>1, <2>1, <2>2, <2>3
<1>3. FaultTypeOK'
  <2>1. TypeOK'
    BY <1>0, <1>1 DEF TypeOK
  <2>. QED
    BY <1>2, <2>1 DEF FaultInv, FaultTypeOK, Registers
<1>4. KeptRowsReadBack'
  BY DEF FaultInv, KeptRowsReadBack, ColumnsAligned, Registers
<1>5. EntriesInRange'
  <2>. SUFFICES ASSUME NEW d \in DOMAIN indexes_ \cup {c}, NEW v \in Values
                PROVE  /\ lookup(d, v)' \in Seq(1..num_rows_ + 1)
                       /\ ColumnsAligned => lookup(d, v)' \in Seq(1..num_rows_)
    BY <1>1 DEF EntriesInRange, ColumnsAligned
  <2>1. CASE d = c
    <3>1. lookup(d, v)' \in Seq(1..num_rows_)
      BY <1>1, <2>1
    <3>. QED
      BY <1>0, <3>1, OneMore
  <2>2. CASE d # c
    BY <1>1, <2>2 DEF FaultInv, EntriesInRange
  <2>. QED
    BY <2>1, <2>2
<1>. QED
  BY <1>3, <1>4, <1>5 DEF FaultInv

-----------------------------------------------------------------------------
(* The indexes, on the rows that were kept. *)

OnceUpTo(s, n) == \A i, j \in 1..Len(s) : i < j /\ s[j] <= n => s[i] < s[j]

\* Entries of a later row change nothing for the rows up to n.
LEMMA LaterEntries ==
  ASSUME NEW n \in Nat, NEW m \in Nat, n < m, NEW s \in Seq(Nat), NEW e \in Seq({m})
  PROVE  /\ {r \in Range(s \o e) : r <= n} = {r \in Range(s) : r <= n}
         /\ OnceUpTo(s, n) => OnceUpTo(s \o e, n)
<1>1. e \in Seq(Nat) /\ Len(e) \in Nat /\ Len(s) \in Nat
  OBVIOUS
<1>2. \A i \in 1..Len(e) : e[i] = m
  OBVIOUS
<1>. DEFINE u == s \o e
<1>3. /\ u \in Seq(Nat) /\ Len(u) \in Nat
      /\ \A i \in 1..Len(s) : i \in 1..Len(u) /\ u[i] = s[i]
      /\ \A i \in 1..Len(u) : i \notin 1..Len(s) => i - Len(s) \in 1..Len(e) /\ u[i] = e[i - Len(s)]
  BY <1>1, ConcatElements
<1>. HIDE DEF u
<1>4. \A i \in 1..Len(s) : i \in 1..Len(u) /\ u[i] = s[i]
  BY <1>3
<1>5. \A i \in 1..Len(u) : u[i] <= n => i \in 1..Len(s)
  <2>. SUFFICES ASSUME NEW i \in 1..Len(u), i \notin 1..Len(s) PROVE ~(u[i] <= n)
    OBVIOUS
  <2>1. u[i] = m
    BY <1>2, <1>3
  <2>. QED
    BY <2>1
<1>6. Range(u) = {u[i] : i \in 1..Len(u)} /\ Range(s) = {s[i] : i \in 1..Len(s)}
  BY <1>3, RangeEquality
<1>7. {r \in Range(u) : r <= n} = {r \in Range(s) : r <= n}
  BY <1>4, <1>5, <1>6
<1>8. OnceUpTo(s, n) => OnceUpTo(u, n)
  <2>. SUFFICES ASSUME OnceUpTo(s, n), NEW i \in 1..Len(u), NEW j \in 1..Len(u), i < j, u[j] <= n
                PROVE  u[i] < u[j]
    BY DEF OnceUpTo
  <2>1. j \in 1..Len(s) /\ i \in 1..Len(s)
    <3>1. j \in 1..Len(s)
      BY <1>5
    <3>2. i \in Nat /\ i >= 1 /\ i <= Len(s)
      BY <1>1, <1>3, <3>1
    <3>. QED
      BY <1>1, <3>1, <3>2
  <2>. QED
    BY <1>4, <2>1 DEF OnceUpTo
<1>. QED
  BY <1>7, <1>8 DEF u

\* Which of the counted rows hold a key changes with no cell that is added.
LEMMA HoldersStay ==
  ASSUME num_rows_ \in Nat, NEW n \in 0..num_rows_, NEW c, NEW v,
         \A i \in Columns : \A r \in 1..num_rows_ : column_data_'[i][r] = column_data_[i][r]
  PROVE  Holders(c, v, n)' = Holders(c, v, n)
<1>1. getColumnIndex(c) # NotFound => getColumnIndex(c) \in Columns
  BY ColumnFound
<1>2. \A r \in 1..n : r \in 1..num_rows_
  OBVIOUS
<1>. QED
  BY <1>1, <1>2 DEF Holders

\* A row that is not kept changes nothing for those that are.
LEMMA LaterRowKeepsFound ==
  ASSUME FaultInv, KeptRowsFound, NEW row \in [Columns -> Values], NEW m \in Nat, NEW k \in Nat,
         PushCells(row, m), IndexCells(row, k), kept' = kept, gaps' = gaps
  PROVE  KeptRowsFound'
<1>0. TypeOK /\ num_rows_ \in Nat /\ num_rows_ + 1 \in Nat /\ kept \in 0..num_rows_ /\ kept < num_rows_ + 1
  BY DEF FaultInv, FaultTypeOK, TypeOK
<1>1. /\ \A i \in Columns : \A r \in 1..Len(column_data_[i]) : column_data_'[i][r] = column_data_[i][r]
      /\ DOMAIN indexes_' = DOMAIN indexes_
      /\ \A c \in DOMAIN indexes_, v \in Values : lookup(c, v)' = lookup(c, v) \o Added(c, v, row, k)
  BY ONLY <1>0, PushCells(row, m), IndexCells(row, k), row \in [Columns -> Values],
          m \in Nat, k \in Nat, CellsAndEntriesStay
<1>2. \A i \in Columns : \A r \in 1..num_rows_ : column_data_'[i][r] = column_data_[i][r]
  <2>1. \A i \in Columns : num_rows_ <= Len(column_data_[i]) /\ Len(column_data_[i]) \in Nat
    BY <1>0 DEF FaultInv, KeptRowsReadBack, TypeOK
  <2>. QED
    BY <1>0, <1>1, <2>1
<1>. SUFFICES ASSUME NEW c \in DOMAIN indexes_, NEW v \in Values
              PROVE  /\ {r \in Range(lookup(c, v)') : r <= kept} = Holders(c, v, kept)' \ gaps[c]
                     /\ OnceUpTo(lookup(c, v)', kept)
  BY <1>1 DEF KeptRowsFound, OnceUpTo
<1>3. /\ {r \in Range(lookup(c, v)) : r <= kept} = Holders(c, v, kept) \ gaps[c]
      /\ OnceUpTo(lookup(c, v), kept)
  BY DEF KeptRowsFound, OnceUpTo
<1>4. lookup(c, v) \in Seq(Nat) /\ Added(c, v, row, k) \in Seq({num_rows_ + 1})
  BY <1>0, AddedType DEF TypeOK, lookup
<1>5. /\ {r \in Range(lookup(c, v)') : r <= kept} = {r \in Range(lookup(c, v)) : r <= kept}
      /\ OnceUpTo(lookup(c, v)', kept)
  <2>1. PICK n \in Nat, later \in Nat : n = kept /\ later = num_rows_ + 1
    BY <1>0
  <2>2. PICK s \in Seq(Nat), e \in Seq({later}) :
          s = lookup(c, v) /\ e = Added(c, v, row, k) /\ lookup(c, v)' = s \o e
    BY <1>1, <1>4, <2>1
  <2>3. n < later
    BY <1>0, <2>1
  <2>4. /\ {r \in Range(s \o e) : r <= n} = {r \in Range(s) : r <= n}
        /\ OnceUpTo(s, n) => OnceUpTo(s \o e, n)
    BY ONLY <2>3, n \in Nat, later \in Nat, s \in Seq(Nat), e \in Seq({later}), LaterEntries
  <2>. QED
    BY <1>3, <2>1, <2>2, <2>4, Zenon
<1>6. Holders(c, v, kept)' = Holders(c, v, kept)
  <2>1. \A n \in 0..num_rows_ : Holders(c, v, n)' = Holders(c, v, n)
    BY <1>0, <1>2, HoldersStay
  <2>. QED
    BY <1>0, <1>2, <2>1
<1>. QED
  BY <1>3, <1>5, <1>6

\* A row that is kept is added to what is found of it.
LEMMA KeptRowIsFound ==
  ASSUME FaultInv, KeptRowsFound, DistinctNames, ColumnsAligned,
         NEW row \in Tuples, InsertReturns(row)
  PROVE  KeptRowsFound'
<1>. DEFINE n == num_rows_
<1>0. /\ TypeOK /\ n \in Nat /\ num_rows_' = n + 1 /\ kept = n /\ kept' = n + 1 /\ gaps' = gaps
      /\ Insert(row)
  BY DEF FaultInv, FaultTypeOK, KeptRowsReadBack, TypeOK, InsertReturns, Insert
<1>1. DOMAIN indexes_' = DOMAIN indexes_
  BY <1>0 DEF Insert, IndexCells
<1>. SUFFICES ASSUME NEW c \in DOMAIN indexes_, NEW v \in Values
              PROVE  /\ {r \in Range(lookup(c, v)') : r <= n + 1} = Holders(c, v, num_rows_)' \ gaps[c]
                     /\ Ascending(lookup(c, v)')
  BY <1>0, <1>1 DEF KeptRowsFound, Ascending
<1>2. lookup(c, v)' = lookup(c, v) \o NewEntries(c, v, row)
  BY <1>0, <1>1 DEF Insert, IndexCells, NewEntries, lookup
<1>3. lookup(c, v) \in Seq(1..n) /\ lookup(c, v) \in Seq(Nat)
  <2>1. lookup(c, v) \in Seq(1..n)
    BY DEF FaultInv, EntriesInRange
  <2>2. lookup(c, v) \in Seq(Nat)
    BY <1>0 DEF TypeOK, lookup
  <2>. QED
    BY <2>1, <2>2
<1>4. \A i \in 1..Len(lookup(c, v)) : lookup(c, v)[i] \in 1..n
  BY <1>3, ElementOfSeq
<1>5. \A r \in Range(lookup(c, v)) : r \in 1..n
  BY <1>3, <1>4, RangeEquality
<1>6. Range(lookup(c, v)) = Holders(c, v, n) \ gaps[c] /\ Ascending(lookup(c, v))
  <2>1. {r \in Range(lookup(c, v)) : r <= n} = Holders(c, v, n) \ gaps[c]
    BY <1>0 DEF KeptRowsFound
  <2>2. {r \in Range(lookup(c, v)) : r <= n} = Range(lookup(c, v))
    BY <1>0, <1>5
  <2>3. Ascending(lookup(c, v))
    BY <1>0, <1>4 DEF KeptRowsFound, Ascending
  <2>. QED
    BY <2>1, <2>2, <2>3
<1>7. n + 1 \notin gaps[c]
  BY <1>0 DEF FaultInv, FaultTypeOK
<1>8. CASE getColumnIndex(c) # NotFound /\ row[getColumnIndex(c)] = v
  <2>1. lookup(c, v)' = lookup(c, v) \o <<n + 1>>
    BY <1>0, <1>2, <1>8, NewEntriesExact
  <2>2. n + 1 \in Nat /\ \A r \in Range(lookup(c, v)) : r < n + 1
    BY <1>0, <1>5
  <2>3. Ascending(lookup(c, v)') /\ Range(lookup(c, v)') = Range(lookup(c, v)) \cup {n + 1}
    BY <1>3, <1>6, <2>1, <2>2, AscendingAppend
  <2>4. Holders(c, v, num_rows_)' = Holders(c, v, n) \cup {n + 1}
    BY <1>0, <1>8, HoldersAfterInsert
  <2>5. {r \in Range(lookup(c, v)') : r <= n + 1} = Range(lookup(c, v)')
    BY <1>0, <1>5, <2>3
  <2>. QED
    BY <1>6, <1>7, <2>3, <2>4, <2>5
<1>9. CASE ~(getColumnIndex(c) # NotFound /\ row[getColumnIndex(c)] = v)
  <2>1. lookup(c, v)' = lookup(c, v)
    BY <1>0, <1>2, <1>3, <1>9, NewEntriesExact, ConcatEmptySeq
  <2>2. Holders(c, v, num_rows_)' = Holders(c, v, n)
    BY <1>0, <1>9, HoldersAfterInsert
  <2>3. {r \in Range(lookup(c, v)) : r <= n + 1} = Range(lookup(c, v))
    BY <1>0, <1>5
  <2>. QED
    BY <1>6, <2>1, <2>2, <2>3
<1>. QED
  BY <1>8, <1>9

\* A new index finds the kept rows its backfill got to.
LEMMA BackfillFinds ==
  ASSUME FaultInv, KeptRowsFound, NEW c \in Names, NEW n \in 0..num_rows_, Backfill(c, n),
         Registers(c, n + 1..num_rows_), UNCHANGED <<column_data_, num_rows_>>
  PROVE  KeptRowsFound'
<1>0. TypeOK /\ num_rows_ \in Nat /\ n \in Nat /\ kept \in 0..num_rows_ /\ kept' = kept
  BY DEF FaultInv, FaultTypeOK, TypeOK, Registers
<1>1. /\ DOMAIN indexes_' = DOMAIN indexes_ \cup {c}
      /\ \A d \in DOMAIN indexes_ \ {c}, v \in Values : lookup(d, v)' = lookup(d, v)
      /\ \A v \in Values : /\ lookup(c, v)' \in Seq(1..num_rows_)
                           /\ Range(lookup(c, v)') = Holders(c, v, n)
                           /\ Ascending(lookup(c, v)')
  BY <1>0, Backfilled
<1>2. gaps' = [d \in DOMAIN indexes_ \cup {c} |-> IF d = c THEN n + 1..num_rows_ ELSE gaps[d]]
  BY DEF FaultInv, FaultTypeOK, Registers
<1>3. \A d, v : Holders(d, v, kept)' = Holders(d, v, kept)
  BY <1>0 DEF Holders
<1>. SUFFICES ASSUME NEW d \in DOMAIN indexes_ \cup {c}, NEW v \in Values
              PROVE  /\ {r \in Range(lookup(d, v)') : r <= kept} = Holders(d, v, kept) \ gaps'[d]
                     /\ OnceUpTo(lookup(d, v)', kept)
  BY <1>0, <1>1, <1>3 DEF KeptRowsFound, OnceUpTo
<1>4. CASE d = c
  <2>1. {r \in Holders(c, v, n) : r <= kept} = Holders(c, v, kept) \ (n + 1..num_rows_)
    BY <1>0 DEF Holders
  <2>2. OnceUpTo(lookup(c, v)', kept)
    BY <1>1 DEF Ascending, OnceUpTo
  <2>. QED
    BY <1>1, <1>2, <1>4, <2>1, <2>2
<1>5. CASE d # c
  <2>1. d \in DOMAIN indexes_ \ {c} /\ lookup(d, v)' = lookup(d, v) /\ gaps'[d] = gaps[d]
    BY <1>1, <1>2, <1>5
  <2>. QED
    BY <2>1 DEF KeptRowsFound, OnceUpTo
<1>. QED
  BY <1>4, <1>5

-----------------------------------------------------------------------------
(* The theorems. *)

LEMMA FaultInitially == FaultInit => FaultInv /\ KeptRowsFound
<1>. SUFFICES ASSUME FaultInit PROVE FaultInv /\ KeptRowsFound
  OBVIOUS
<1>1. /\ column_data_ = [i \in Columns |-> <<>>] /\ num_rows_ = 0 /\ accepted = <<>> /\ kept = 0
      /\ indexes_ = [c \in {} |-> <<>>] /\ gaps = [c \in {} |-> {}]
  BY DEF FaultInit, Init
<1>2. TypeOK
  <2>1. column_data_ \in [Columns -> Seq(Values)]
    BY <1>1, EmptySeq
  <2>2. num_rows_ \in 0..MaxRows
    BY <1>1, BoundAssumption
  <2>3. indexes_ \in [{} -> [Values -> Seq(Nat)]]
    BY <1>1
  <2>. QED
    BY <2>1, <2>2, <2>3 DEF TypeOK
<1>3. accepted \in Seq([Columns -> Values]) /\ Len(accepted) = 0
  BY <1>1, EmptySeq
<1>4. FaultTypeOK
  BY <1>1, <1>2, <1>3 DEF FaultTypeOK
<1>5. KeptRowsReadBack
  <2>1. \A i \in Columns : Len(column_data_[i]) = 0
    BY <1>1
  <2>. QED
    BY <1>1, <1>3, <2>1 DEF KeptRowsReadBack
<1>. QED
  BY <1>1, <1>4, <1>5 DEF FaultInv, EntriesInRange, KeptRowsFound

\* A step of the table, whether it returns or throws, adds a row or an index.
LEMMA BackfillSteps ==
  ASSUME FaultInv, NEW c \in Names,
         CreateIndexReturns(c) \/ \E n \in 0..num_rows_ - 1 : CreateIndexThrows(c, n)
  PROVE  \E n \in 0..num_rows_ : /\ Backfill(c, n) /\ Registers(c, n + 1..num_rows_)
                                 /\ UNCHANGED <<column_data_, num_rows_>>
<1>1. num_rows_ \in Nat
  BY DEF FaultInv, FaultTypeOK, TypeOK
<1>2. CASE CreateIndexReturns(c)
  <2>1. num_rows_ + 1..num_rows_ = {}
    BY <1>1
  <2>2. Backfill(c, num_rows_) /\ Registers(c, {}) /\ UNCHANGED <<column_data_, num_rows_>>
    BY <1>2 DEF CreateIndexReturns, CreateIndex
  <2>. QED
    BY <1>1, <2>1, <2>2
<1>3. ASSUME NEW n \in 0..num_rows_ - 1, CreateIndexThrows(c, n)
      PROVE  n \in 0..num_rows_ /\ Backfill(c, n) /\ Registers(c, n + 1..num_rows_)
             /\ UNCHANGED <<column_data_, num_rows_>>
  BY <1>1, <1>3 DEF CreateIndexThrows
<1>. QED
  BY <1>2, <1>3

LEMMA FaultInvKept == FaultInv /\ [FaultNext]_faultVars => FaultInv'
<1>. SUFFICES ASSUME FaultInv, [FaultNext]_faultVars PROVE FaultInv'
  OBVIOUS
<1>1. ASSUME NEW row \in Tuples, InsertReturns(row) PROVE FaultInv'
  BY <1>1, InsertReturnsKeepsRows
<1>2. ASSUME NEW row \in Tuples, NEW k \in Columns, InsertThrows(row, k) PROVE FaultInv'
  BY <1>2, InsertThrowsKeepsRows
<1>3. ASSUME NEW c \in Names,
             CreateIndexReturns(c) \/ \E n \in 0..num_rows_ - 1 : CreateIndexThrows(c, n)
      PROVE  FaultInv'
  BY <1>3, BackfillSteps, BackfillKeepsRows
<1>4. CASE UNCHANGED faultVars
  BY <1>4 DEF faultVars, tableVars, FaultInv, FaultTypeOK, TypeOK, KeptRowsReadBack, EntriesInRange,
              ColumnsAligned, lookup
<1>. QED
  BY <1>1, <1>2, <1>3, <1>4 DEF FaultNext

\* Whatever allocations fail in Table::insert and Table::createIndex, the table's
\* variables keep their types.
THEOREM FaultTypeCorrect == FaultSpec => []FaultTypeOK
<1>1. FaultInv => FaultTypeOK
  BY DEF FaultInv
<1>. QED
  BY <1>1, FaultInitially, FaultInvKept, PTL DEF FaultSpec

\* Whatever allocations fail inside Table::insert and Table::createIndex, every row
\* that was counted has a cell in every column, and the rows that were there when an
\* insert first left cells behind read back as they were inserted.
THEOREM FaultsKeepRows == FaultSpec => []KeptRowsReadBack
<1>1. FaultInv => KeptRowsReadBack
  BY DEF FaultInv
<1>. QED
  BY <1>1, FaultInitially, FaultInvKept, PTL DEF FaultSpec

\* With distinct column names, every index goes on listing just those of these rows
\* that hold the key, in order and once each, but for the ones its backfill did not
\* get to: an index that was left half filled loses rows and brings in no others.
THEOREM FaultsKeepEntries ==
  ASSUME DistinctNames
  PROVE  FaultSpec => []KeptRowsFound
<1>1. FaultInv /\ KeptRowsFound /\ [FaultNext]_faultVars => KeptRowsFound'
  <2>. SUFFICES ASSUME FaultInv, KeptRowsFound, [FaultNext]_faultVars PROVE KeptRowsFound'
    OBVIOUS
  <2>1. ASSUME NEW row \in Tuples, InsertReturns(row) PROVE KeptRowsFound'
    <3>1. CASE ColumnsAligned
      BY <2>1, <3>1, DistinctNames, KeptRowIsFound
    <3>2. CASE ~ColumnsAligned
      <4>1. /\ row \in [Columns -> Values] /\ Len(column_names) \in Nat
            /\ kept' = kept /\ gaps' = gaps
            /\ PushCells(row, Len(column_names)) /\ IndexCells(row, Len(column_names))
        BY <2>1, <3>2, WholeTuple, ColumnsFacts DEF InsertReturns, Insert
      <4>. QED
        BY <4>1, LaterRowKeepsFound
    <3>. QED
      BY <3>1, <3>2
  <2>2. ASSUME NEW row \in Tuples, NEW k \in Columns, InsertThrows(row, k) PROVE KeptRowsFound'
    <3>1. /\ row \in [Columns -> Values] /\ k \in Nat /\ k - 1 \in Nat
          /\ kept' = kept /\ gaps' = gaps
      BY <2>2, WholeTuple, ColumnsFacts DEF InsertThrows
    <3>2. PICK m \in Nat, j \in Nat : PushCells(row, m) /\ IndexCells(row, j)
      BY <2>2, <3>1 DEF InsertThrows
    <3>. QED
      BY <3>1, <3>2, LaterRowKeepsFound
  <2>3. ASSUME NEW c \in Names,
               CreateIndexReturns(c) \/ \E n \in 0..num_rows_ - 1 : CreateIndexThrows(c, n)
        PROVE  KeptRowsFound'
    BY <2>3, BackfillSteps, BackfillFinds
  <2>4. CASE UNCHANGED faultVars
    BY <2>4 DEF faultVars, tableVars, KeptRowsFound, Holders, lookup
  <2>. QED
    BY <2>1, <2>2, <2>3, <2>4 DEF FaultNext
<1>. QED
  BY <1>1, FaultInitially, FaultInvKept, PTL DEF FaultSpec
=============================================================================

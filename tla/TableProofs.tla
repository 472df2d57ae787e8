---------------------------- MODULE TableProofs ----------------------------
(***************************************************************************)
(* Proofs about module Table, for every schema, every set of values and    *)
(* every bound: type correctness, the alignment of the columns, and, when  *)
(* no column name is repeated, the exactness of every index and the        *)
(* refinement of AbstractTable.                                            *)
(***************************************************************************)
EXTENDS Table, SequenceLemmas, FiniteSetTheorems

-----------------------------------------------------------------------------
(* Facts about the schema. *)

\* The number of columns is a natural number.
LEMMA ColumnsFacts ==
  /\ Len(column_names) \in Nat
  /\ \A i \in Columns : i \in Nat /\ i >= 1 /\ column_names[i] \in Names
BY SchemaAssumption DEF Columns

\* The columns of a name that satisfy anything more are finite in number.
LEMMA SomeColumnsFinite ==
  ASSUME NEW c, NEW S \in SUBSET ColumnsNamed(c)
  PROVE  IsFiniteSet(S) /\ Cardinality(S) \in Nat
<1>1. IsFiniteSet(Columns)
  BY FS_Interval, ColumnsFacts DEF Columns
<1>2. S \subseteq Columns
  BY DEF ColumnsNamed
<1>. QED
  BY <1>1, <1>2, FS_Subset, FS_CardinalityType

\* A column that is found is one of the name, and so a column of the schema.
LEMMA ColumnIsNamed ==
  ASSUME NEW c, getColumnIndex(c) # NotFound
  PROVE  getColumnIndex(c) \in ColumnsNamed(c)
<1>. DEFINE S == ColumnsNamed(c)
<1>1. S # {} /\ S \subseteq Nat
  BY ColumnsFacts DEF getColumnIndex, ColumnsNamed
<1>2. PICK i \in S : \A j \in S : i <= j
  BY <1>1, LeastNumber
<1>. QED
  BY <1>1, <1>2 DEF getColumnIndex

LEMMA ColumnFound ==
  ASSUME NEW c, getColumnIndex(c) # NotFound
  PROVE  getColumnIndex(c) \in Columns
BY ColumnIsNamed DEF ColumnsNamed

\* Without repeated names the column found is the only one with that name.
LEMMA OneColumnPerName ==
  ASSUME DistinctNames, NEW c
  PROVE  ColumnsNamed(c) = IF getColumnIndex(c) = NotFound THEN {}
                           ELSE {getColumnIndex(c)}
<1>1. CASE ColumnsNamed(c) = {}
  BY <1>1 DEF getColumnIndex
<1>2. CASE ColumnsNamed(c) # {}
  <2>1. PICK i \in ColumnsNamed(c) : TRUE
    BY <1>2
  <2>2. ColumnsNamed(c) = {i}
    BY <2>1 DEF ColumnsNamed, DistinctNames
  <2>3. i \in Nat /\ i >= 1
    BY <2>1, ColumnsFacts DEF ColumnsNamed
  <2>4. \A k \in ColumnsNamed(c) : k = i
    BY <2>2
  <2>5. \E k \in ColumnsNamed(c) : \A j \in ColumnsNamed(c) : k <= j
    BY <2>1, <2>3, <2>4
  <2>6. getColumnIndex(c) \in ColumnsNamed(c)
    BY <1>2, <2>5 DEF getColumnIndex
  <2>. QED
    BY <2>2, <2>3, <2>6 DEF NotFound
<1>. QED
  BY <1>1, <1>2

-----------------------------------------------------------------------------
(* The list of new entries that one insert gives one key of one index. *)

NewEntries(c, v, row) ==
  [n \in 1..Cardinality({i \in ColumnsNamed(c) :
                           i <= Len(column_names) /\ row[i] = v})
     |-> num_rows_ + 1]

LEMMA NewEntriesType ==
  ASSUME TypeOK, NEW c, NEW v, NEW row
  PROVE  /\ NewEntries(c, v, row) \in Seq(Nat)
         /\ NewEntries(c, v, row) \in Seq({num_rows_ + 1})
<1>. DEFINE S == {i \in ColumnsNamed(c) : i <= Len(column_names) /\ row[i] = v}
<1>1. Cardinality(S) \in Nat
  BY SomeColumnsFinite
<1>2. num_rows_ + 1 \in Nat
  BY DEF TypeOK
<1>. HIDE DEF S
<1>3. [n \in 1..Cardinality(S) |-> num_rows_ + 1] \in [1..Cardinality(S) -> {num_rows_ + 1}]
  OBVIOUS
<1>4. [n \in 1..Cardinality(S) |-> num_rows_ + 1] \in [1..Cardinality(S) -> Nat]
  BY <1>2
<1>. QED
  BY <1>1, <1>3, <1>4 DEF NewEntries, S

\* Without repeated names an insert adds the new row once to the key its cell
\* holds, and nothing to the others.
LEMMA NewEntriesExact ==
  ASSUME TypeOK, DistinctNames, NEW c, NEW v, NEW row
  PROVE  NewEntries(c, v, row) =
           IF getColumnIndex(c) # NotFound /\ row[getColumnIndex(c)] = v
           THEN <<num_rows_ + 1>> ELSE <<>>
<1>. DEFINE S == {i \in ColumnsNamed(c) : i <= Len(column_names) /\ row[i] = v}
<1>. DEFINE g == getColumnIndex(c)
<1>1. CASE g # NotFound /\ row[g] = v
  <2>1. ColumnsNamed(c) = {g}
    BY <1>1, OneColumnPerName
  <2>2. g <= Len(column_names)
    BY <2>1, ColumnsFacts DEF ColumnsNamed, Columns
  <2>3. S = {g}
    BY <1>1, <2>1, <2>2
  <2>4. Cardinality(S) = 1
    BY <2>3, FS_Singleton
  <2>5. NewEntries(c, v, row) = [n \in 1..1 |-> num_rows_ + 1]
    BY <2>4 DEF NewEntries
  <2>6. [n \in 1..1 |-> num_rows_ + 1] = <<num_rows_ + 1>>
    OBVIOUS
  <2>. QED
    BY <1>1, <2>5, <2>6
<1>2. CASE ~(g # NotFound /\ row[g] = v)
  <2>1. S = {}
    BY <1>2, OneColumnPerName
  <2>2. Cardinality(S) = 0
    BY <2>1, FS_EmptySet
  <2>. QED
    BY <1>2, <2>2 DEF NewEntries
<1>. QED
  BY <1>1, <1>2

-----------------------------------------------------------------------------
(* Type correctness. *)

\* A tuple that is accepted has one value per column.
LEMMA InsertedTuple ==
  ASSUME NEW row \in Tuples, Insert(row)
  PROVE  row \in [Columns -> Values]
<1>1. PICK k \in 0..Len(column_names) : row \in [1..k -> Values]
  BY DEF Tuples
<1>2. k \in Nat /\ Len(row) = k
  BY <1>1, ColumnsFacts
<1>. QED
  BY <1>1, <1>2 DEF Insert, Columns

\* A list of some of the first n rows is a finite sequence of numbers.
LEMMA RowListsType ==
  ASSUME NEW n \in Nat, NEW H \in SUBSET (1..n)
  PROVE  RowLists(H) \subseteq Seq(Nat) /\ RowLists(H) \subseteq Seq(1..n)
<1>1. IsFiniteSet(1..n)
  BY FS_Interval
<1>2. Cardinality(H) \in Nat
  BY <1>1, FS_Subset, FS_CardinalityType
<1>. SUFFICES ASSUME NEW q \in RowLists(H)
              PROVE  q \in Seq(Nat) /\ q \in Seq(1..n)
  OBVIOUS
<1>3. q \in [1..Cardinality(H) -> H]
  BY DEF RowLists
<1>4. q \in [1..Cardinality(H) -> Nat] /\ q \in [1..Cardinality(H) -> 1..n]
  <2>. DEFINE k == Cardinality(H)
  <2>1. H \subseteq Nat /\ H \subseteq 1..n
    OBVIOUS
  <2>. HIDE DEF k
  <2>. QED
    BY <1>3, <2>1 DEF k
<1>. QED
  BY <1>2, <1>4

\* The table's operations keep its variables in their types.
THEOREM TypeCorrect == Spec => []TypeOK
<1>1. Init => TypeOK
  <2>. SUFFICES ASSUME Init PROVE TypeOK
    OBVIOUS
  <2>1. column_data_ \in [Columns -> Seq(Values)]
    BY EmptySeq DEF Init
  <2>2. num_rows_ \in 0..MaxRows
    BY BoundAssumption DEF Init
  <2>3. indexes_ \in [{} -> [Values -> Seq(Nat)]]
    BY DEF Init
  <2>. QED
    BY <2>1, <2>2, <2>3 DEF TypeOK
<1>2. TypeOK /\ [Next]_tableVars => TypeOK'
  <2>. SUFFICES ASSUME TypeOK, [Next]_tableVars PROVE TypeOK'
    OBVIOUS
  <2>1. ASSUME NEW row \in Tuples, Insert(row) PROVE TypeOK'
    <3>1. \A i \in Columns : row[i] \in Values
      BY <2>1, InsertedTuple
    <3>2. column_data_' \in [Columns -> Seq(Values)]
      BY <2>1, <3>1, AppendProperties, ColumnsFacts DEF Insert, PushCells, TypeOK
    <3>3. num_rows_' \in 0..MaxRows
      BY <2>1, BoundAssumption DEF Insert, TypeOK
    <3>4. PICK C \in SUBSET Names : indexes_ \in [C -> [Values -> Seq(Nat)]]
      BY DEF TypeOK
    <3>5. ASSUME NEW c \in C, NEW v \in Values
          PROVE  lookup(c, v) \o NewEntries(c, v, row) \in Seq(Nat)
      <4>1. lookup(c, v) \in Seq(Nat)
        BY <3>4 DEF lookup
      <4>. QED
        BY <4>1, NewEntriesType, ConcatProperties
    <3>6. indexes_' = [c \in C |-> [v \in Values |->
                         lookup(c, v) \o NewEntries(c, v, row)]]
      BY <2>1, <3>4 DEF Insert, IndexCells, NewEntries
    <3>7. indexes_' \in [C -> [Values -> Seq(Nat)]]
      BY <3>5, <3>6
    <3>. QED
      BY <3>2, <3>3, <3>4, <3>7 DEF TypeOK
  <2>2. ASSUME NEW c \in Names, CreateIndex(c) PROVE TypeOK'
    <3>1. PICK C \in SUBSET Names : indexes_ \in [C -> [Values -> Seq(Nat)]]
      BY DEF TypeOK
    <3>2. PICK entries \in [Values -> UNION {RowLists(Holders(c, v, num_rows_)) : v \in Values}] :
            indexes_' = [d \in DOMAIN indexes_ \cup {c} |->
                           IF d = c THEN entries ELSE indexes_[d]]
      BY <2>2 DEF CreateIndex, Backfill
    <3>3. \A v \in Values : RowLists(Holders(c, v, num_rows_)) \subseteq Seq(Nat)
      <4>. TAKE v \in Values
      <4>1. Holders(c, v, num_rows_) \in SUBSET (1..num_rows_)
        BY DEF Holders
      <4>2. num_rows_ \in Nat
        BY DEF TypeOK
      <4>. QED
        BY <4>1, <4>2, RowListsType
    <3>4. entries \in [Values -> Seq(Nat)]
      BY <3>2, <3>3
    <3>5. indexes_' \in [C \cup {c} -> [Values -> Seq(Nat)]]
      BY <3>1, <3>2, <3>4
    <3>. QED
      BY <2>2, <3>5 DEF CreateIndex, TypeOK
  <2>3. CASE UNCHANGED tableVars
    BY <2>3 DEF tableVars, TypeOK
  <2>. QED
    BY <2>1, <2>2, <2>3 DEF Next
<1>. QED
  BY <1>1, <1>2, PTL DEF Spec

-----------------------------------------------------------------------------
(* Alignment: no assumption on the names is needed. *)

\* Every column always holds exactly num_rows_ cells.
THEOREM AlignmentCorrect == Spec => []ColumnsAligned
<1>1. Init => ColumnsAligned
  BY DEF Init, ColumnsAligned
<1>2. TypeOK /\ ColumnsAligned /\ [Next]_tableVars => ColumnsAligned'
  <2>. SUFFICES ASSUME TypeOK, ColumnsAligned, [Next]_tableVars
                PROVE  ColumnsAligned'
    OBVIOUS
  <2>1. ASSUME NEW row \in Tuples, Insert(row) PROVE ColumnsAligned'
    <3>. SUFFICES ASSUME NEW i \in Columns
                  PROVE  Len(column_data_'[i]) = num_rows_'
      BY DEF ColumnsAligned
    <3>1. column_data_'[i] = Append(column_data_[i], row[i])
      BY <2>1, ColumnsFacts DEF Insert, PushCells, Columns
    <3>. QED
      BY <2>1, <3>1 DEF Insert, ColumnsAligned, TypeOK
  <2>2. ASSUME NEW c \in Names, CreateIndex(c) PROVE ColumnsAligned'
    BY <2>2 DEF CreateIndex, ColumnsAligned
  <2>3. CASE UNCHANGED tableVars
    BY <2>3 DEF tableVars, ColumnsAligned
  <2>. QED
    BY <2>1, <2>2, <2>3 DEF Next
<1>. QED
  BY <1>1, <1>2, TypeCorrect, PTL DEF Spec

-----------------------------------------------------------------------------
(* Range of the indexes: no assumption on the names is needed either. *)

IndexInRange ==
  \A c \in DOMAIN indexes_, v \in Values : lookup(c, v) \in Seq(1..num_rows_)

\* An index never lists a row that is not stored, so a fetch by row number
\* stays inside the columns, whatever the names in the schema.
THEOREM IndexRangeCorrect == Spec => []IndexInRange
<1>1. Init => IndexInRange
  BY DEF Init, IndexInRange
<1>2. TypeOK /\ IndexInRange /\ [Next]_tableVars => IndexInRange'
  <2>. SUFFICES ASSUME TypeOK, IndexInRange, [Next]_tableVars
                PROVE  IndexInRange'
    OBVIOUS
  <2>1. ASSUME NEW row \in Tuples, Insert(row) PROVE IndexInRange'
    <3>. SUFFICES ASSUME NEW c \in DOMAIN indexes_', NEW v \in Values
                  PROVE  lookup(c, v)' \in Seq(1..num_rows_')
      BY DEF IndexInRange
    <3>1. DOMAIN indexes_' = DOMAIN indexes_
      BY <2>1 DEF Insert, IndexCells
    <3>2. lookup(c, v)' = lookup(c, v) \o NewEntries(c, v, row)
      BY <2>1, <3>1 DEF Insert, IndexCells, NewEntries, lookup
    <3>3. num_rows_ \in Nat /\ num_rows_' = num_rows_ + 1
      BY <2>1 DEF Insert, TypeOK
    <3>4. lookup(c, v) \in Seq(1..num_rows_) /\ NewEntries(c, v, row) \in Seq({num_rows_ + 1})
      BY <3>1, NewEntriesType DEF IndexInRange
    <3>5. lookup(c, v) \in Seq(1..num_rows_') /\ NewEntries(c, v, row) \in Seq(1..num_rows_')
      BY <3>3, <3>4
    <3>. QED
      BY <3>2, <3>5, ConcatProperties
  <2>2. ASSUME NEW c \in Names, CreateIndex(c) PROVE IndexInRange'
    <3>1. PICK entries \in [Values -> UNION {RowLists(Holders(c, v, num_rows_)) : v \in Values}] :
            indexes_' = [d \in DOMAIN indexes_ \cup {c} |->
                           IF d = c THEN entries ELSE indexes_[d]]
      BY <2>2 DEF CreateIndex, Backfill
    <3>2. num_rows_ \in Nat /\ num_rows_' = num_rows_
      BY <2>2 DEF CreateIndex, TypeOK
    <3>3. \A v \in Values : RowLists(Holders(c, v, num_rows_)) \subseteq Seq(1..num_rows_)
      <4>. TAKE v \in Values
      <4>1. Holders(c, v, num_rows_) \in SUBSET (1..num_rows_)
        BY DEF Holders
      <4>. QED
        BY <3>2, <4>1, RowListsType
    <3>4. \A v \in Values : entries[v] \in Seq(1..num_rows_)
      BY <3>1, <3>3
    <3>. QED
      BY <3>1, <3>2, <3>4 DEF IndexInRange, lookup
  <2>3. CASE UNCHANGED tableVars
    BY <2>3 DEF tableVars, IndexInRange, lookup
  <2>. QED
    BY <2>1, <2>2, <2>3 DEF Next
<1>. QED
  BY <1>1, <1>2, TypeCorrect, PTL DEF Spec

-----------------------------------------------------------------------------
(* Exactness of the indexes. *)

\* What holds of the cells when a row is added: the old rows keep their cells
\* and the new one holds the tuple's.
LEMMA HoldersAfterInsert ==
  ASSUME TypeOK, ColumnsAligned,
         NEW row \in Tuples, Insert(row), NEW c, NEW v
  PROVE  Holders(c, v, num_rows_)' =
           Holders(c, v, num_rows_) \cup
             (IF getColumnIndex(c) # NotFound /\ row[getColumnIndex(c)] = v
              THEN {num_rows_ + 1} ELSE {})
<1>. DEFINE g == getColumnIndex(c)
<1>1. num_rows_ \in Nat /\ num_rows_' = num_rows_ + 1
  BY DEF TypeOK, Insert
<1>2. 1..(num_rows_ + 1) = (1..num_rows_) \cup {num_rows_ + 1}
  BY <1>1
<1>3. CASE g = NotFound
  BY <1>3 DEF Holders
<1>4. CASE g # NotFound
  <2>1. g \in Columns
    BY <1>4, ColumnFound
  <2>2. column_data_'[g] = Append(column_data_[g], row[g])
    BY <2>1, ColumnsFacts DEF Insert, PushCells, Columns
  <2>3. column_data_[g] \in Seq(Values) /\ Len(column_data_[g]) = num_rows_
    BY <2>1 DEF TypeOK, ColumnsAligned
  <2>4. \A r \in 1..num_rows_ : column_data_'[g][r] = column_data_[g][r]
    BY <2>2, <2>3
  <2>5. column_data_'[g][num_rows_ + 1] = row[g]
    BY <2>2, <2>3
  <2>6. Holders(c, v, num_rows_)' =
          {r \in 1..(num_rows_ + 1) : column_data_'[g][r] = v}
    BY <1>1, <1>4 DEF Holders
  <2>7. Holders(c, v, num_rows_) = {r \in 1..num_rows_ : column_data_[g][r] = v}
    BY <1>4 DEF Holders
  <2>. QED
    BY <1>2, <1>4, <2>4, <2>5, <2>6, <2>7
<1>. QED
  BY <1>3, <1>4

\* Appending a larger number keeps a list ascending and adds it to its range.
LEMMA AscendingAppend ==
  ASSUME NEW s \in Seq(Nat), NEW n \in Nat, Ascending(s),
         \A r \in Range(s) : r < n
  PROVE  /\ Ascending(s \o <<n>>)
         /\ Range(s \o <<n>>) = Range(s) \cup {n}
<1>1. Range(s) = {s[i] : i \in 1..Len(s)}
  BY RangeEquality
<1>2. s \o <<n>> = Append(s, n)
  OBVIOUS
<1>3. /\ Len(Append(s, n)) = Len(s) + 1
      /\ \A i \in 1..Len(s) : Append(s, n)[i] = s[i]
      /\ Append(s, n)[Len(s) + 1] = n
      /\ Append(s, n) \in Seq(Nat)
  BY AppendProperties
<1>4. Ascending(Append(s, n))
  <2>. DEFINE t == Append(s, n)
  <2>. HIDE DEF t
  <2>0. Len(s) \in Nat /\ Len(t) = Len(s) + 1
    BY <1>3 DEF t
  <2>. SUFFICES ASSUME NEW i \in 1..Len(t), NEW j \in 1..Len(t), i < j
                PROVE  t[i] < t[j]
    BY DEF Ascending, t
  <2>1. i \in 1..Len(s) /\ t[i] = s[i]
    BY <1>3, <2>0 DEF t
  <2>2. CASE j = Len(s) + 1
    BY <1>1, <1>3, <2>1, <2>2 DEF t
  <2>3. CASE j # Len(s) + 1
    <3>1. j \in 1..Len(s) /\ t[j] = s[j]
      BY <1>3, <2>0, <2>3 DEF t
    <3>. QED
      BY <2>1, <3>1 DEF Ascending
  <2>. QED
    BY <2>2, <2>3
<1>5. Range(Append(s, n)) = {Append(s, n)[i] : i \in 1..(Len(s) + 1)}
  BY <1>3, RangeEquality
<1>6. 1..(Len(s) + 1) = (1..Len(s)) \cup {Len(s) + 1}
  OBVIOUS
<1>7. Range(Append(s, n)) = Range(s) \cup {n}
  BY <1>1, <1>3, <1>5, <1>6
<1>. QED
  BY <1>2, <1>4, <1>7

\* An insert keeps every index exact.
LEMMA InsertKeepsIndexExact ==
  ASSUME TypeOK, ColumnsAligned, DistinctNames, IndexExact,
         NEW row \in Tuples, Insert(row)
  PROVE  IndexExact'
<1>. SUFFICES ASSUME NEW c \in DOMAIN indexes_', NEW v \in Values
              PROVE  /\ Range(lookup(c, v)') = Holders(c, v, num_rows_)'
                     /\ Ascending(lookup(c, v)')
  BY DEF IndexExact
<1>1. DOMAIN indexes_' = DOMAIN indexes_
  BY DEF Insert, IndexCells
<1>2. lookup(c, v)' = lookup(c, v) \o NewEntries(c, v, row)
  BY <1>1 DEF Insert, IndexCells, NewEntries, lookup
<1>3. lookup(c, v) \in Seq(Nat)
  BY <1>1 DEF TypeOK, lookup
<1>4. /\ Range(lookup(c, v)) = Holders(c, v, num_rows_)
      /\ Ascending(lookup(c, v))
  BY <1>1 DEF IndexExact
<1>5. num_rows_ \in Nat
  BY DEF TypeOK
<1>6. \A r \in Range(lookup(c, v)) : r < num_rows_ + 1
  BY <1>4, <1>5 DEF Holders
<1>7. CASE getColumnIndex(c) # NotFound /\ row[getColumnIndex(c)] = v
  <2>1. lookup(c, v)' = lookup(c, v) \o <<num_rows_ + 1>>
    BY <1>2, <1>7, NewEntriesExact
  <2>2. /\ Ascending(lookup(c, v)')
        /\ Range(lookup(c, v)') = Range(lookup(c, v)) \cup {num_rows_ + 1}
    <3>1. num_rows_ + 1 \in Nat
      BY <1>5
    <3>. QED
      BY <1>3, <1>4, <1>6, <2>1, <3>1, AscendingAppend
  <2>. QED
    BY <1>4, <1>7, <2>2, HoldersAfterInsert
<1>8. CASE ~(getColumnIndex(c) # NotFound /\ row[getColumnIndex(c)] = v)
  <2>1. lookup(c, v)' = lookup(c, v)
    BY <1>2, <1>3, <1>8, NewEntriesExact, ConcatEmptySeq
  <2>. QED
    BY <1>4, <1>8, <2>1, HoldersAfterInsert
<1>. QED
  BY <1>7, <1>8

\* A new index is exact from its backfill on, and the others are untouched.
LEMMA CreateIndexKeepsIndexExact ==
  ASSUME TypeOK, IndexExact, NEW c \in Names, CreateIndex(c)
  PROVE  IndexExact'
<1>1. PICK entries \in [Values -> UNION {RowLists(Holders(c, v, num_rows_)) : v \in Values}] :
        /\ \A v \in Values : entries[v] \in RowLists(Holders(c, v, num_rows_))
        /\ indexes_' = [d \in DOMAIN indexes_ \cup {c} |->
                          IF d = c THEN entries ELSE indexes_[d]]
  BY DEF CreateIndex, Backfill
<1>2. \A d, v : Holders(d, v, num_rows_)' = Holders(d, v, num_rows_)
  BY DEF CreateIndex, Holders
<1>3. \A v \in Values : Ascending(entries[v]) /\ Range(entries[v]) = Holders(c, v, num_rows_)
  BY <1>1 DEF RowLists
<1>4. ASSUME NEW d \in DOMAIN indexes_', NEW v \in Values
      PROVE  /\ Range(lookup(d, v)') = Holders(d, v, num_rows_)'
             /\ Ascending(lookup(d, v)')
  <2>1. CASE d = c
    BY <1>1, <1>2, <1>3, <2>1 DEF lookup
  <2>2. CASE d # c
    BY <1>1, <1>2, <2>2 DEF lookup, IndexExact
  <2>. QED
    BY <2>1, <2>2
<1>. QED
  BY <1>4 DEF IndexExact

\* With distinct column names, an index lists exactly the rows that hold each
\* key, in row order and once each, however creation and inserts interleave.
THEOREM IndexCorrect ==
  ASSUME DistinctNames
  PROVE  Spec => []IndexExact
<1>1. Init => IndexExact
  BY DEF Init, IndexExact
<1>2. /\ TypeOK /\ ColumnsAligned /\ IndexExact
      /\ [Next]_tableVars
      => IndexExact'
  <2>. SUFFICES ASSUME TypeOK, ColumnsAligned, IndexExact, [Next]_tableVars
                PROVE  IndexExact'
    OBVIOUS
  <2>1. ASSUME NEW row \in Tuples, Insert(row) PROVE IndexExact'
    BY <2>1, DistinctNames, InsertKeepsIndexExact
  <2>2. ASSUME NEW c \in Names, CreateIndex(c) PROVE IndexExact'
    BY <2>2, CreateIndexKeepsIndexExact
  <2>3. CASE UNCHANGED tableVars
    BY <2>3 DEF tableVars, IndexExact, Holders, lookup
  <2>. QED
    BY <2>1, <2>2, <2>3 DEF Next
<1>. QED
  BY <1>1, <1>2, TypeCorrect, AlignmentCorrect, PTL DEF Spec

-----------------------------------------------------------------------------
(* What an index promises when column names are repeated. *)

\* The rows that hold v in any of the columns called c.
Bearers(c, v) ==
  {r \in 1..num_rows_ : \E i \in ColumnsNamed(c) : column_data_[i][r] = v}

\* Each row that createIndex or a filter would find, which look at the first column
\* of the name only; and none that holds the key in no column of the name.
IndexCovers ==
  \A c \in DOMAIN indexes_, v \in Values :
    /\ Holders(c, v, num_rows_) \subseteq Range(lookup(c, v))
    /\ Range(lookup(c, v)) \subseteq Bearers(c, v)

LEMMA HoldersAreBearers ==
  ASSUME NEW c, NEW v
  PROVE  Holders(c, v, num_rows_) \subseteq Bearers(c, v)
<1>1. getColumnIndex(c) # NotFound => getColumnIndex(c) \in ColumnsNamed(c)
  BY ColumnIsNamed
<1>. QED
  BY <1>1 DEF Holders, Bearers

\* An insert adds its row to the keys that its columns of the name hold.
LEMMA InsertCovers ==
  ASSUME TypeOK, ColumnsAligned, IndexCovers, NEW row \in Tuples, Insert(row)
  PROVE  IndexCovers'
<1>. DEFINE n == num_rows_
<1>0. n \in Nat /\ num_rows_' = n + 1 /\ DOMAIN indexes_' = DOMAIN indexes_
  BY DEF TypeOK, Insert, IndexCells
<1>. SUFFICES ASSUME NEW c \in DOMAIN indexes_, NEW v \in Values
              PROVE  /\ Holders(c, v, num_rows_)' \subseteq Range(lookup(c, v)')
                     /\ Range(lookup(c, v)') \subseteq Bearers(c, v)'
  BY <1>0 DEF IndexCovers
<1>. DEFINE S == {i \in ColumnsNamed(c) : i <= Len(column_names) /\ row[i] = v}
<1>1. lookup(c, v)' = lookup(c, v) \o NewEntries(c, v, row)
  BY <1>0 DEF Insert, IndexCells, NewEntries, lookup
<1>2. lookup(c, v) \in Seq(Nat) /\ NewEntries(c, v, row) \in Seq(Nat)
  BY NewEntriesType DEF TypeOK, lookup
<1>3. Range(lookup(c, v)') = Range(lookup(c, v)) \cup Range(NewEntries(c, v, row))
  BY <1>1, <1>2, RangeConcatenation
<1>4. Range(NewEntries(c, v, row)) = IF S = {} THEN {} ELSE {n + 1}
  <2>1. IsFiniteSet(S) /\ Cardinality(S) \in Nat /\ (Cardinality(S) = 0 <=> S = {})
    BY SomeColumnsFinite, FS_EmptySet
  <2>2. NewEntries(c, v, row) = [k \in 1..Cardinality(S) |-> n + 1]
    BY DEF NewEntries
  <2>. HIDE DEF S
  <2>. QED
    BY <2>1, <2>2 DEF Range
<1>5. \A i \in ColumnsNamed(c) : /\ column_data_'[i][n + 1] = row[i]
                                 /\ \A r \in 1..n : column_data_'[i][r] = column_data_[i][r]
  <2>. TAKE i \in ColumnsNamed(c)
  <2>1. i \in Columns /\ i <= Len(column_names)
    BY ColumnsFacts DEF ColumnsNamed, Columns
  <2>2. column_data_'[i] = Append(column_data_[i], row[i])
    BY <2>1 DEF Insert, PushCells
  <2>3. column_data_[i] \in Seq(Values) /\ Len(column_data_[i]) = n
    BY <2>1 DEF TypeOK, ColumnsAligned
  <2>. QED
    BY <1>0, <2>2, <2>3
<1>6. \A i \in ColumnsNamed(c) : i <= Len(column_names)
  BY ColumnsFacts DEF ColumnsNamed, Columns
<1>7. Bearers(c, v)' = Bearers(c, v) \cup (IF S = {} THEN {} ELSE {n + 1})
  <2>1. 1..n + 1 = (1..n) \cup {n + 1}
    BY <1>0
  <2>. QED
    BY <1>0, <1>5, <1>6, <2>1 DEF Bearers
<1>8. Holders(c, v, num_rows_)' \subseteq Holders(c, v, n) \cup (IF S = {} THEN {} ELSE {n + 1})
  <2>1. getColumnIndex(c) # NotFound => getColumnIndex(c) \in ColumnsNamed(c)
    BY ColumnIsNamed
  <2>. QED
    BY <1>6, <2>1, HoldersAfterInsert
<1>. QED
  BY <1>3, <1>4, <1>7, <1>8 DEF IndexCovers

\* Even when a name is repeated, an index loses no row that a filter would find, and
\* lists none that does not hold the key in some column of the name; what it may do
\* is list a row for its second column, or twice (Table::insert).
THEOREM IndexCoversCorrect == Spec => []IndexCovers
<1>1. Init => IndexCovers
  BY DEF Init, IndexCovers
<1>2. TypeOK /\ ColumnsAligned /\ IndexCovers /\ [Next]_tableVars => IndexCovers'
  <2>. SUFFICES ASSUME TypeOK, ColumnsAligned, IndexCovers, [Next]_tableVars
                PROVE  IndexCovers'
    OBVIOUS
  <2>1. ASSUME NEW row \in Tuples, Insert(row) PROVE IndexCovers'
    BY <2>1, InsertCovers
  <2>2. ASSUME NEW c \in Names, CreateIndex(c) PROVE IndexCovers'
    <3>1. PICK entries \in [Values -> UNION {RowLists(Holders(c, v, num_rows_)) : v \in Values}] :
            /\ \A v \in Values : entries[v] \in RowLists(Holders(c, v, num_rows_))
            /\ indexes_' = [d \in DOMAIN indexes_ \cup {c} |->
                              IF d = c THEN entries ELSE indexes_[d]]
      BY <2>2 DEF CreateIndex, Backfill
    <3>2. \A v \in Values : Range(entries[v]) = Holders(c, v, num_rows_)
      BY <3>1 DEF RowLists
    <3>3. \A d, v : /\ Holders(d, v, num_rows_)' = Holders(d, v, num_rows_)
                    /\ Bearers(d, v)' = Bearers(d, v)
      BY <2>2 DEF CreateIndex, Holders, Bearers
    <3>4. ASSUME NEW d \in DOMAIN indexes_', NEW v \in Values
          PROVE  /\ Holders(d, v, num_rows_)' \subseteq Range(lookup(d, v)')
                 /\ Range(lookup(d, v)') \subseteq Bearers(d, v)'
      <4>1. CASE d = c
        BY <3>1, <3>2, <3>3, <4>1, HoldersAreBearers DEF lookup
      <4>2. CASE d # c
        BY <3>1, <3>3, <4>2 DEF lookup, IndexCovers
      <4>. QED
        BY <4>1, <4>2
    <3>. QED
      BY <3>4 DEF IndexCovers
  <2>3. CASE UNCHANGED tableVars
    BY <2>3 DEF tableVars, IndexCovers, Holders, Bearers, lookup
  <2>. QED
    BY <2>1, <2>2, <2>3 DEF Next
<1>. QED
  BY <1>1, <1>2, TypeCorrect, AlignmentCorrect, PTL DEF Spec

-----------------------------------------------------------------------------
(* Refinement: the table implements AbstractTable. *)

\* The rows that an index lists are those the relation answers with.
LEMMA HoldersAreRowsWith ==
  ASSUME TypeOK, DistinctNames, NEW c, NEW v
  PROVE  Holders(c, v, num_rows_) = R!RowsWith(StoredRows, c, v)
<1>1. Len(StoredRows) = num_rows_ /\ num_rows_ \in Nat
  BY DEF StoredRows, TypeOK
<1>2. \A r \in 1..num_rows_, i \in Columns : StoredRows[r][i] = column_data_[i][r]
  BY DEF StoredRows
<1>3. CASE getColumnIndex(c) = NotFound
  <2>1. ~\E i \in Columns : column_names[i] = c
    BY <1>3, OneColumnPerName DEF ColumnsNamed
  <2>. QED
    BY <1>3, <2>1 DEF Holders, R!RowsWith, Columns
<1>4. CASE getColumnIndex(c) # NotFound
  <2>1. \A i \in Columns : column_names[i] = c <=> i = getColumnIndex(c)
    BY <1>4, OneColumnPerName DEF ColumnsNamed
  <2>2. getColumnIndex(c) \in Columns
    BY <1>4, OneColumnPerName DEF ColumnsNamed
  <2>. QED
    BY <1>1, <1>2, <1>4, <2>1, <2>2 DEF Holders, R!RowsWith, Columns
<1>. QED
  BY <1>3, <1>4

\* The answers the table's indexes give, as the refinement maps them.
TableAnswers == [c \in DOMAIN indexes_ |-> [v \in Values |-> Range(lookup(c, v))]]

LEMMA AnswersExact ==
  ASSUME TypeOK, DistinctNames, IndexExact
  PROVE  TableAnswers = R!AnswersOf(StoredRows, DOMAIN indexes_)
BY HoldersAreRowsWith DEF TableAnswers, R!AnswersOf, IndexExact

\* Read row by row, an insert adds the tuple at the end.
LEMMA StoredRowsAfterInsert ==
  ASSUME TypeOK, ColumnsAligned, NEW row \in Tuples, Insert(row)
  PROVE  StoredRows' = Append(StoredRows, row)
<1>1. row \in [Columns -> Values]
  BY InsertedTuple
<1>2. num_rows_ \in Nat /\ num_rows_' = num_rows_ + 1
  BY DEF TypeOK, Insert
<1>3. ASSUME NEW i \in Columns
      PROVE  /\ \A r \in 1..num_rows_ : column_data_'[i][r] = column_data_[i][r]
             /\ column_data_'[i][num_rows_ + 1] = row[i]
  <2>1. column_data_'[i] = Append(column_data_[i], row[i])
    BY ColumnsFacts DEF Insert, PushCells, Columns
  <2>2. column_data_[i] \in Seq(Values) /\ Len(column_data_[i]) = num_rows_
    BY DEF TypeOK, ColumnsAligned
  <2>. QED
    BY <2>1, <2>2
<1>4. ASSUME NEW r \in 1..num_rows_
      PROVE  StoredRows'[r] = StoredRows[r]
  <2>1. r \in 1..num_rows_'
    BY <1>2
  <2>2. StoredRows'[r] = [i \in Columns |-> column_data_'[i][r]]
    BY <2>1 DEF StoredRows
  <2>3. StoredRows[r] = [i \in Columns |-> column_data_[i][r]]
    BY DEF StoredRows
  <2>. QED
    BY <1>3, <2>2, <2>3
<1>5. StoredRows'[num_rows_ + 1] = row
  <2>1. num_rows_ + 1 \in 1..num_rows_'
    BY <1>2
  <2>2. StoredRows'[num_rows_ + 1] = [i \in Columns |-> column_data_'[i][num_rows_ + 1]]
    BY <1>2, <2>1 DEF StoredRows
  <2>. QED
    BY <1>1, <1>3, <2>2
<1>6. StoredRows \in Seq([Columns -> Values]) /\ Len(StoredRows) = num_rows_
  BY <1>2 DEF StoredRows, TypeOK, ColumnsAligned
<1>7. StoredRows' \in Seq([Columns -> Values]) /\ Len(StoredRows') = num_rows_ + 1
  <2>1. \A r \in 1..(num_rows_ + 1) : StoredRows'[r] \in [Columns -> Values]
    BY <1>1, <1>2, <1>4, <1>5, <1>6
  <2>2. StoredRows' = [r \in 1..(num_rows_ + 1) |-> StoredRows'[r]]
    BY <1>2 DEF StoredRows
  <2>. HIDE DEF StoredRows
  <2>. QED
    BY <1>2, <2>1, <2>2
<1>. DEFINE A == Append(StoredRows, row)
<1>8. /\ A \in Seq([Columns -> Values])
      /\ Len(A) = num_rows_ + 1
      /\ \A r \in 1..num_rows_ : A[r] = StoredRows[r]
      /\ A[num_rows_ + 1] = row
  BY <1>1, <1>6, AppendProperties
<1>9. \A r \in 1..Len(A) : StoredRows'[r] = A[r]
  BY <1>2, <1>4, <1>5, <1>8
<1>. QED
  BY <1>6, <1>7, <1>8, <1>9, SeqEqual

\* With distinct column names, the columnar table with incremental indexes is a
\* relation whose indexes always answer exactly.
THEOREM TableImplementsRelation ==
  ASSUME DistinctNames
  PROVE  Spec => RelationSpec
<1>. DEFINE Inv == TypeOK /\ ColumnsAligned /\ IndexExact
<1>1. Init => R!Init
  <2>. SUFFICES ASSUME Init PROVE R!Init
    OBVIOUS
  <2>1. StoredRows = <<>>
    BY DEF Init, StoredRows
  <2>2. DOMAIN indexes_ = {}
    BY DEF Init
  <2>3. TableAnswers = R!AnswersOf(<<>>, {})
    BY <2>2 DEF TableAnswers, R!AnswersOf
  <2>. QED
    BY <2>1, <2>3 DEF R!Init, TableAnswers
<1>2. Inv /\ Inv' /\ [Next]_tableVars => [R!Next]_(R!vars)
  <2>. SUFFICES ASSUME Inv, Inv', [Next]_tableVars
                PROVE  [R!Next]_(R!vars)
    OBVIOUS
  <2>0. /\ TableAnswers = R!AnswersOf(StoredRows, DOMAIN indexes_)
        /\ TableAnswers' = R!AnswersOf(StoredRows', DOMAIN indexes_')
    <3>1. TableAnswers = R!AnswersOf(StoredRows, DOMAIN indexes_)
      BY AnswersExact
    <3>2. (TableAnswers = R!AnswersOf(StoredRows, DOMAIN indexes_))'
      BY AnswersExact, DistinctNames, PTL
    <3>. QED
      BY <3>1, <3>2
  <2>1. ASSUME NEW row \in Tuples, Insert(row) PROVE R!Next
    <3>1. row \in R!Tuple
      BY <2>1, InsertedTuple DEF R!Tuple, Columns
    <3>2. StoredRows' = Append(StoredRows, row)
      BY <2>1, StoredRowsAfterInsert
    <3>3. DOMAIN TableAnswers' = DOMAIN TableAnswers /\ DOMAIN TableAnswers = DOMAIN indexes_
      BY <2>1 DEF Insert, IndexCells, TableAnswers
    <3>4. TableAnswers' = R!AnswersOf(StoredRows', DOMAIN TableAnswers)
      BY <2>0, <3>3 DEF TableAnswers
    <3>5. R!Insert(row)
      BY <3>2, <3>4 DEF R!Insert, TableAnswers
    <3>. QED
      BY <3>1, <3>5 DEF R!Next
  <2>2. ASSUME NEW c \in Names, CreateIndex(c) PROVE R!Next
    <3>1. StoredRows' = StoredRows
      BY <2>2 DEF CreateIndex, StoredRows
    <3>2. DOMAIN indexes_' = DOMAIN indexes_ \cup {c} /\ c \notin DOMAIN indexes_
      BY <2>2 DEF CreateIndex, Backfill
    <3>3. DOMAIN TableAnswers = DOMAIN indexes_
      BY DEF TableAnswers
    <3>4. TableAnswers' = R!AnswersOf(StoredRows, DOMAIN TableAnswers \cup {c})
      BY <2>0, <3>1, <3>2, <3>3
    <3>5. R!CreateIndex(c)
      BY <3>1, <3>2, <3>3, <3>4 DEF R!CreateIndex, TableAnswers
    <3>. QED
      BY <3>5 DEF R!Next
  <2>3. CASE UNCHANGED tableVars
    BY <2>3 DEF tableVars, R!vars, StoredRows, lookup
  <2>. QED
    BY <2>1, <2>2, <2>3 DEF Next
<1>. QED
  BY <1>1, <1>2, DistinctNames, TypeCorrect, AlignmentCorrect, IndexCorrect, PTL
  DEF Spec, RelationSpec, R!Spec
=============================================================================

------------------------------- MODULE Table -------------------------------
(***************************************************************************)
(* The in-memory columnar table and its hash indexes: class Table          *)
(* (src/src/storage/Storage.h) and class Index (src/src/storage/Index.h).  *)
(*                                                                         *)
(* A table keeps one vector of cells per column, a row counter, and one    *)
(* Index per column name that was asked for.  Columns and rows are counted *)
(* from 1 here, from 0 in the code; column 0 is the code's -1.             *)
(*                                                                         *)
(* Nothing in the code runs concurrently: an operation is one step, and    *)
(* the client may call the operations in any order.                        *)
(***************************************************************************)
EXTENDS Naturals, Sequences, FiniteSets, Functions

CONSTANTS
  column_names,  \* the schema: a sequence of column names
  Names,         \* every name a caller may use, in the schema or not
  Values,        \* the cell values
  MaxRows        \* bound on num_rows_

ASSUME SchemaAssumption == column_names \in Seq(Names)
ASSUME BoundAssumption  == MaxRows \in Nat

VARIABLES
  column_data_,  \* per column, the sequence of its cells
  num_rows_,     \* the row counter
  indexes_       \* indexed name -> value -> the list of row numbers (map_)

tableVars == <<column_data_, num_rows_, indexes_>>

-----------------------------------------------------------------------------
Columns == 1..Len(column_names)

NotFound == 0

ColumnsNamed(c) == {i \in Columns : column_names[i] = c}

\* The first column called c: with two columns of one name, never the second.
getColumnIndex(c) ==
  IF ColumnsNamed(c) = {} THEN NotFound
  ELSE CHOOSE i \in ColumnsNamed(c) : \A j \in ColumnsNamed(c) : i <= j

\* The constructor accepts any list of names; the index is only exact when no
\* name is repeated.
DistinctNames ==
  \A i, j \in Columns : column_names[i] = column_names[j] => i = j

\* The rows below n whose cell in the column called c is v.
Holders(c, v, n) ==
  {r \in 1..n : /\ getColumnIndex(c) # NotFound
                /\ column_data_[getColumnIndex(c)][r] = v}

Ascending(s) == \A i, j \in 1..Len(s) : i < j => s[i] < s[j]

\* The row numbers H as a loop over the rows collects them: a set of one list.
RowLists(H) ==
  {s \in [1..Cardinality(H) -> H] : Ascending(s) /\ Range(s) = H}

\* Index::lookup on the index called c: a key that is not in map_ has no rows.
lookup(c, key) == indexes_[c][key]

-----------------------------------------------------------------------------
\* What a caller may hand to insert: tuples of the right length and shorter.
Tuples == UNION {[1..k -> Values] : k \in 0..Len(column_names)}

\* Mutant of PushCells: the loop stops one column short.
PushCellsShort(row, k) ==
  column_data_' = [i \in Columns |->
                     IF i < k THEN Append(column_data_[i], row[i])
                              ELSE column_data_[i]]

\* The cells of columns 1..k are pushed at the end of their columns.
PushCells(row, k) ==
  column_data_' = [i \in Columns |->
                     IF i <= k THEN Append(column_data_[i], row[i])
                               ELSE column_data_[i]]

\* Mutant of IndexCells: the row number is taken one too low.
IndexCellsLow(row, k) ==
  indexes_' = [c \in DOMAIN indexes_ |-> [v \in Values |->
                 lookup(c, v) \o
                 [n \in 1..Cardinality({i \in ColumnsNamed(c) :
                                          i <= k /\ row[i] = v})
                    |-> num_rows_]]]

\* The indexes of columns 1..k get row number num_rows_ + 1, once for each of
\* these columns that bears the index's name and holds the key.
IndexCells(row, k) ==
  indexes_' = [c \in DOMAIN indexes_ |-> [v \in Values |->
                 lookup(c, v) \o
                 [n \in 1..Cardinality({i \in ColumnsNamed(c) :
                                          i <= k /\ row[i] = v})
                    |-> num_rows_ + 1]]]

\* Mutant of Backfill: the loop starts at the second row.
BackfillFromSecond(c, n) ==
  \E entries \in [Values -> UNION {RowLists(Holders(c, v, n) \ {1}) : v \in Values}] :
    /\ \A v \in Values : entries[v] \in RowLists(Holders(c, v, n) \ {1})
    /\ indexes_' = [d \in DOMAIN indexes_ \cup {c} |->
                      IF d = c THEN entries ELSE indexes_[d]]

\* createIndex registers the index and backfills it with the first n rows, in
\* row order.
Backfill(c, n) ==
  \E entries \in [Values -> UNION {RowLists(Holders(c, v, n)) : v \in Values}] :
    /\ \A v \in Values : entries[v] \in RowLists(Holders(c, v, n))
    /\ indexes_' = [d \in DOMAIN indexes_ \cup {c} |->
                      IF d = c THEN entries ELSE indexes_[d]]

-----------------------------------------------------------------------------
Init ==
  /\ column_data_ = [i \in Columns |-> <<>>]
  /\ num_rows_ = 0
  /\ indexes_ = [c \in {} |-> <<>>]

\* Mutant of Insert: num_rows_ is incremented inside the loop over the columns.
InsertCountsCells(row) ==
  /\ Len(row) = Len(column_names)
  /\ num_rows_ < MaxRows
  /\ PushCells(row, Len(column_names))
  /\ IndexCells(row, Len(column_names))
  /\ num_rows_' = num_rows_ + Len(row)

\* A tuple of another length is refused before anything is touched.
Insert(row) ==
  /\ Len(row) = Len(column_names)
  /\ num_rows_ < MaxRows
  /\ PushCells(row, Len(column_names))
  /\ IndexCells(row, Len(column_names))
  /\ num_rows_' = num_rows_ + 1

\* A second createIndex of the same name changes nothing.  A name outside the
\* schema gets an index that stays empty.
CreateIndex(c) ==
  /\ c \notin DOMAIN indexes_
  /\ Backfill(c, num_rows_)
  /\ UNCHANGED <<column_data_, num_rows_>>

Next ==
  \/ \E row \in Tuples : Insert(row)
  \/ \E c \in Names : CreateIndex(c)

Spec == Init /\ [][Next]_tableVars

-----------------------------------------------------------------------------
TypeOK ==
  /\ column_data_ \in [Columns -> Seq(Values)]
  /\ num_rows_ \in 0..MaxRows
  /\ \E C \in SUBSET Names : indexes_ \in [C -> [Values -> Seq(Nat)]]

\* Every column holds exactly num_rows_ cells, so the cell of a row number is
\* in range in every column (Table::insert, the loop and num_rows_++).
ColumnsAligned == \A i \in Columns : Len(column_data_[i]) = num_rows_

\* Whether it was created before, between or after the inserts, an index lists
\* for every key exactly the rows that hold it, in row order and once each
\* (Table::createIndex's backfill and Table::insert's update agree).
IndexExact ==
  \A c \in DOMAIN indexes_, v \in Values :
    /\ Range(lookup(c, v)) = Holders(c, v, num_rows_)
    /\ Ascending(lookup(c, v))

\* The table read row by row.
StoredRows == [r \in 1..num_rows_ |-> [i \in Columns |-> column_data_[i][r]]]

R == INSTANCE AbstractTable WITH
       rows    <- StoredRows,
       answers <- [c \in DOMAIN indexes_ |->
                     [v \in Values |-> Range(lookup(c, v))]]

\* The table and its indexes behave as the relation they stand for.
RelationSpec == R!Spec
=============================================================================

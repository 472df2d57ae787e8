---------------------------- MODULE TableFaults ----------------------------
(***************************************************************************)
(* The table of module Table when memory runs out: push_back, or the       *)
(* insertion into an index, throws std::bad_alloc in the middle of         *)
(* Table::insert or of createIndex's backfill, the client catches it and   *)
(* goes on using the table.  Neither function undoes what it already did.  *)
(***************************************************************************)
EXTENDS Table

VARIABLES
  accepted,  \* history: the tuples whose insert returned, oldest first
  kept,      \* history: how many of them came before an insert left cells behind
  gaps       \* history: indexed name -> the rows its backfill did not get to

faultVars == <<tableVars, accepted, kept, gaps>>

FaultInit == Init /\ accepted = <<>> /\ kept = 0 /\ gaps = [c \in {} |-> {}]

InsertReturns(row) ==
  /\ Insert(row)
  /\ accepted' = Append(accepted, row)
  /\ kept' = IF ColumnsAligned THEN kept + 1 ELSE kept
  /\ UNCHANGED gaps

\* An index is registered whose backfill did not get to the rows in missed.
Registers(c, missed) ==
  /\ gaps' = [d \in DOMAIN gaps \cup {c} |-> IF d = c THEN missed ELSE gaps[d]]
  /\ UNCHANGED <<accepted, kept>>

CreateIndexReturns(c) == CreateIndex(c) /\ Registers(c, {})

\* Mutant of InsertThrows: the row is counted before its cells are pushed.
InsertThrowsCounted(row, k) ==
  /\ Len(row) = Len(column_names)
  /\ num_rows_ < MaxRows
  /\ \A i \in Columns : Len(column_data_[i]) <= MaxRows
  /\ \/ PushCells(row, k - 1)
     \/ column_names[k] \in DOMAIN indexes_ /\ PushCells(row, k)
  /\ IndexCells(row, k - 1)
  /\ num_rows_' = num_rows_ + 1
  /\ UNCHANGED <<accepted, kept, gaps>>

\* The allocation for column k fails: at its push_back, or, when the column
\* has an index, after the cell was pushed and before the index got the row.
InsertThrows(row, k) ==
  /\ Len(row) = Len(column_names)
  /\ num_rows_ < MaxRows
  /\ \A i \in Columns : Len(column_data_[i]) <= MaxRows
  /\ \/ PushCells(row, k - 1)
     \/ column_names[k] \in DOMAIN indexes_ /\ PushCells(row, k)
  /\ IndexCells(row, k - 1)
  /\ UNCHANGED <<num_rows_, accepted, kept, gaps>>

\* The backfill stops after n of the rows: the index stays registered.
CreateIndexThrows(c, n) ==
  /\ c \notin DOMAIN indexes_
  /\ getColumnIndex(c) # NotFound
  /\ Backfill(c, n)
  /\ Registers(c, n + 1..num_rows_)
  /\ UNCHANGED <<column_data_, num_rows_>>

FaultNext ==
  \/ \E row \in Tuples : InsertReturns(row)
  \/ \E c \in Names : CreateIndexReturns(c)
  \/ \E row \in Tuples, k \in Columns : InsertThrows(row, k)
  \/ \E c \in Names : \E n \in 0..num_rows_ - 1 : CreateIndexThrows(c, n)

FaultSpec == FaultInit /\ [][FaultNext]_faultVars

\* "size_t new_row_id = num_rows_; // The index where this row will live"
\* (Storage.h:54): row number r reads back the r-th tuple whose insert
\* returned, in every column.
RowReadsBack ==
  \A r \in 1..num_rows_ : \A i \in Columns :
    column_data_[i][r] = accepted[r][i]

FaultTypeOK ==
  /\ TypeOK
  /\ accepted \in Seq([Columns -> Values])
  /\ kept \in 0..num_rows_
  /\ gaps \in [DOMAIN indexes_ -> SUBSET (1..num_rows_)]

\* What a failure spares.  Every row that was counted has a cell in every
\* column, so that a sequential scan reads none that is not there; and the rows
\* that were there when an insert first left cells behind read back as they were
\* inserted, whatever fails later (Table::insert).
KeptRowsReadBack ==
  /\ Len(accepted) = num_rows_
  /\ \A i \in Columns : num_rows_ <= Len(column_data_[i])
  /\ ColumnsAligned => kept = num_rows_
  /\ \A r \in 1..kept : \A i \in Columns : column_data_[i][r] = accepted[r][i]

\* And every index lists just those of them that hold the key, in row order and
\* once each, but for the ones its backfill did not get to: these it never finds
\* again, since a second createIndex of the name does nothing (Table::createIndex).
KeptRowsFound ==
  \A c \in DOMAIN indexes_, v \in Values :
    LET found == lookup(c, v)
    IN  /\ {r \in Range(found) : r <= kept} = Holders(c, v, kept) \ gaps[c]
        /\ \A i, j \in 1..Len(found) : i < j /\ found[j] <= kept => found[i] < found[j]
=============================================================================

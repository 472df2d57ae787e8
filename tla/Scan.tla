-------------------------------- MODULE Scan --------------------------------
(***************************************************************************)
(* The two ways of answering a one-table query with an equality predicate  *)
(* (src/src/executor/Executor.cpp): a FilterExecutor over a                *)
(* SeqScanExecutor, which reads the table while it is pulled from, and an  *)
(* IndexScanExecutor, which copies the index's list of rows in init and    *)
(* fetches them later.  Rows are inserted, indexes created and scans       *)
(* restarted between any two pulls.                                        *)
(*                                                                         *)
(* A chunk is the list of the row numbers whose cells are copied: rows are *)
(* never changed once inserted.                                            *)
(***************************************************************************)
EXTENDS Table

CONSTANT BATCH_SIZE

ASSUME BatchAssumption == BATCH_SIZE \in Nat \ {0}

VARIABLES
  predicate_,       \* FilterExecutor: [op, column, key]; "none" is a null pointer
  current_row_,     \* SeqScanExecutor: the rows already copied
  filtered,         \* the rows the filter delivered since its init
  filter_ended,     \* whether the filter's last next returned false
  matched_row_ids_, \* IndexScanExecutor: the rows found by init
  current_idx_,     \* IndexScanExecutor: how many of them were fetched
  fetched,          \* the rows the index scan delivered since its init
  fetch_ended,      \* whether the index scan's last next returned false
  opened            \* num_rows_, and whether there was an index, at its init

filterVars == <<current_row_, filtered, filter_ended>>
fetchVars  == <<matched_row_ids_, current_idx_, fetched, fetch_ended, opened>>
vars       == <<tableVars, predicate_, filterVars, fetchVars>>

-----------------------------------------------------------------------------
\* The predicates a caller may ask for; ">" stands for every one that is not a
\* column's name, "=" and a number, in that order.
Ops == {"none", "=", ">"}

\* Which rows the filter lets through: all without a predicate, those that hold
\* the key for "=" on a column of the schema, and none for anything else.
Passes(r) ==
  \/ predicate_.op = "none"
  \/ predicate_.op = "=" /\ r \in Holders(predicate_.column, predicate_.key, num_rows_)

Passing(S) == {r \in S : Passes(r)}

\* Mutant of BatchAt: the copy starts at the last row of the batch before.
BatchAtOverlap(s) == {r \in 1..num_rows_ : s <= r /\ r <= s + BATCH_SIZE}

\* The rows SeqScanExecutor::next copies when s rows are behind it.
BatchAt(s) == {r \in 1..num_rows_ : s < r /\ r <= s + BATCH_SIZE}

Smaller(m, n) == IF m <= n THEN m ELSE n

-----------------------------------------------------------------------------
\* FilterExecutor::init and SeqScanExecutor::init.
FilterInit ==
  /\ current_row_' = 0
  /\ filtered' = <<>>
  /\ filter_ended' = FALSE
  /\ UNCHANGED <<tableVars, predicate_, fetchVars>>

\* Mutant of FilterChunk: the scan moves by a full batch even at the end.
FilterChunkOvershoots ==
  \E s \in current_row_..num_rows_ - 1 :
    /\ (s - current_row_) % BATCH_SIZE = 0
    /\ Passing(current_row_ + 1..s) = {}
    /\ Passing(BatchAt(s)) # {}
    /\ \E chunk \in RowLists(Passing(BatchAt(s))) : filtered' = filtered \o chunk
    /\ current_row_' = s + BATCH_SIZE
    /\ filter_ended' = FALSE
    /\ UNCHANGED <<tableVars, predicate_, fetchVars>>

\* The filter pulls batches until one has a row that passes.
FilterChunk ==
  \E s \in current_row_..num_rows_ - 1 :
    /\ (s - current_row_) % BATCH_SIZE = 0
    /\ Passing(current_row_ + 1..s) = {}
    /\ Passing(BatchAt(s)) # {}
    /\ \E chunk \in RowLists(Passing(BatchAt(s))) : filtered' = filtered \o chunk
    /\ current_row_' = Smaller(s + BATCH_SIZE, num_rows_)
    /\ filter_ended' = FALSE
    /\ UNCHANGED <<tableVars, predicate_, fetchVars>>

\* Mutant of FilterEnd: a batch without a passing row ends the scan, as in the
\* two join executors.
FilterEndEarly ==
  /\ Passing(BatchAt(current_row_)) = {}
  /\ current_row_' = Smaller(current_row_ + BATCH_SIZE, num_rows_)
  /\ filter_ended' = TRUE
  /\ UNCHANGED <<tableVars, predicate_, filtered, fetchVars>>

\* No row that is left passes: the filter drains the scan and returns false.
FilterEnd ==
  /\ Passing(current_row_ + 1..num_rows_) = {}
  /\ current_row_' = num_rows_
  /\ filter_ended' = TRUE
  /\ UNCHANGED <<tableVars, predicate_, filtered, fetchVars>>

\* Mutant of IndexScanInit: current_idx_ is not reset.
IndexScanInitKeepsPosition ==
  /\ matched_row_ids_' = IF predicate_.column \in DOMAIN indexes_
                         THEN lookup(predicate_.column, predicate_.key) ELSE <<>>
  /\ fetched' = <<>>
  /\ fetch_ended' = FALSE
  /\ opened' = [rows |-> num_rows_, indexed |-> predicate_.column \in DOMAIN indexes_]
  /\ UNCHANGED <<tableVars, predicate_, filterVars, current_idx_>>

\* IndexScanExecutor::init: without an index there are no rows, and no error.
IndexScanInit ==
  /\ current_idx_' = 0
  /\ matched_row_ids_' = IF predicate_.column \in DOMAIN indexes_
                         THEN lookup(predicate_.column, predicate_.key) ELSE <<>>
  /\ fetched' = <<>>
  /\ fetch_ended' = FALSE
  /\ opened' = [rows |-> num_rows_, indexed |-> predicate_.column \in DOMAIN indexes_]
  /\ UNCHANGED <<tableVars, predicate_, filterVars>>

\* IndexScanExecutor::next while there are rows to fetch.
IndexScanChunk ==
  /\ current_idx_ < Len(matched_row_ids_)
  /\ LET rows_to_fetch == Smaller(BATCH_SIZE, Len(matched_row_ids_) - current_idx_)
     IN  /\ fetched' = fetched \o SubSeq(matched_row_ids_, current_idx_ + 1,
                                         current_idx_ + rows_to_fetch)
         /\ current_idx_' = current_idx_ + rows_to_fetch
  /\ fetch_ended' = FALSE
  /\ UNCHANGED <<tableVars, predicate_, filterVars, matched_row_ids_, opened>>

\* Mutant of IndexScanEnd: the last row found is never fetched.
IndexScanEndEarly ==
  /\ current_idx_ + 1 >= Len(matched_row_ids_)
  /\ fetch_ended' = TRUE
  /\ UNCHANGED <<tableVars, predicate_, filterVars, matched_row_ids_,
                 current_idx_, fetched, opened>>

\* IndexScanExecutor::next after the last one.
IndexScanEnd ==
  /\ current_idx_ >= Len(matched_row_ids_)
  /\ fetch_ended' = TRUE
  /\ UNCHANGED <<tableVars, predicate_, filterVars, matched_row_ids_,
                 current_idx_, fetched, opened>>

TableStep ==
  /\ \/ \E row \in Tuples : Insert(row)
     \/ \E c \in Names : CreateIndex(c)
  /\ UNCHANGED <<predicate_, filterVars, fetchVars>>

-----------------------------------------------------------------------------
\* Executors as constructed, on a table that is still empty.
ScanInit ==
  /\ Init
  /\ predicate_ \in [op : Ops, column : Names, key : Values]
  /\ current_row_ = 0 /\ filtered = <<>> /\ filter_ended = FALSE
  /\ matched_row_ids_ = <<>> /\ current_idx_ = 0
  /\ fetched = <<>> /\ fetch_ended = FALSE
  /\ opened = [rows |-> 0, indexed |-> FALSE]

ScanNext ==
  \/ TableStep
  \/ FilterInit \/ FilterChunk \/ FilterEnd
  \/ IndexScanInit \/ IndexScanChunk \/ IndexScanEnd

ScanSpec == ScanInit /\ [][ScanNext]_vars

-----------------------------------------------------------------------------
ScanTypeOK ==
  /\ TypeOK
  /\ predicate_ \in [op : Ops, column : Names, key : Values]
  /\ current_row_ \in 0..num_rows_
  /\ filtered \in Seq(1..num_rows_)
  /\ matched_row_ids_ \in Seq(1..num_rows_)
  /\ current_idx_ \in 0..Len(matched_row_ids_)
  /\ fetched \in Seq(1..num_rows_)
  /\ filter_ended \in BOOLEAN /\ fetch_ended \in BOOLEAN
  /\ opened \in [rows : 0..num_rows_, indexed : BOOLEAN]

\* However inserts fall between its pulls, the filter has delivered exactly the
\* passing rows among those its scan has consumed, in row order and once each:
\* the batches it skips inside next lose nothing (FilterExecutor::next's loop).
FilterExact ==
  /\ Range(filtered) = Passing(1..current_row_)
  /\ Ascending(filtered)

\* An index scan and a filtered scan answer the same query alike: on the rows
\* both have had the chance to see, a drained index scan that was opened on an
\* index and the filter delivered the same ones.  This is what lets the
\* optimizer replace one by the other.
ScansAgree ==
  fetch_ended /\ opened.indexed /\ predicate_.op = "=" =>
    {r \in Range(fetched) : r <= current_row_} =
    {r \in Range(filtered) : r <= opened.rows}

FilterSource == INSTANCE RowSource WITH
  pending   <- Passing(current_row_ + 1..num_rows_),
  delivered <- filtered,
  ended     <- filter_ended

\* The filter over a scan keeps an executor's promise: it never says "no more
\* data" while a row of the table passes and was not delivered, never repeats a
\* row, never delivers an empty chunk.
FilterIsRowSource == FilterSource!Spec

FetchSource == INSTANCE RowSource WITH
  pending   <- {matched_row_ids_[i] : i \in current_idx_ + 1..Len(matched_row_ids_)},
  delivered <- fetched,
  ended     <- fetch_ended

\* The index scan keeps the same promise for the rows init found.
FetchIsRowSource == FetchSource!Spec
=============================================================================

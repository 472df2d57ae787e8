----------------------------- MODULE RowSource -----------------------------
(***************************************************************************)
(* What an executor promises the client that pulls from it (Executor.h:    *)
(* "Returns true if a CHUNK of rows was fetched, false if no more data"),  *)
(* with no cursor, index or predicate: there is a set of rows still to be  *)
(* delivered, they come oldest first and in chunks of at most BATCH_SIZE,  *)
(* and the source says "no more data" only when none is left.              *)
(***************************************************************************)
EXTENDS Naturals, Sequences, FiniteSets, Functions

CONSTANTS
  MaxRows,     \* bound on the row numbers
  BATCH_SIZE   \* the largest chunk

VARIABLES
  pending,     \* the rows the source has yet to deliver
  delivered,   \* the rows delivered since it was opened, oldest first
  ended        \* whether the last pull was answered "no more data"

vars == <<pending, delivered, ended>>

Init == pending \in SUBSET (1..MaxRows) /\ delivered = <<>> /\ ended = FALSE

\* init(): the source starts again, on some set of rows.
Open ==
  /\ pending' \in SUBSET (1..MaxRows)
  /\ delivered' = <<>>
  /\ ended' = FALSE

\* A row inserted behind all others may still be delivered.
Grow(r) ==
  /\ \A p \in pending \cup Range(delivered) : p < r
  /\ pending' = pending \cup {r}
  /\ UNCHANGED <<delivered, ended>>

\* next() returns true: the oldest pending rows, in order, and at least one.
Deliver(chunk) ==
  /\ Len(chunk) \in 1..BATCH_SIZE
  /\ \A i, j \in 1..Len(chunk) : i < j => chunk[i] < chunk[j]
  /\ Range(chunk) \subseteq pending
  /\ \A r \in Range(chunk) : \A p \in pending \ Range(chunk) : r < p
  /\ pending' = pending \ Range(chunk)
  /\ delivered' = delivered \o chunk
  /\ ended' = FALSE

\* next() returns false.
Finish == pending = {} /\ ended' = TRUE /\ UNCHANGED <<pending, delivered>>

Next ==
  \/ Open
  \/ \E r \in 1..MaxRows : Grow(r)
  \/ \E n \in 1..BATCH_SIZE : \E chunk \in [1..n -> pending] : Deliver(chunk)
  \/ Finish

Spec == Init /\ [][Next]_vars
=============================================================================

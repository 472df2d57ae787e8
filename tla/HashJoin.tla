------------------------------ MODULE HashJoin ------------------------------
(***************************************************************************)
(* HashJoinExecutor over two SeqScanExecutors                              *)
(* (src/src/executor/Executor.cpp), which the optimizer puts in the place  *)
(* of a NestedLoopJoinExecutor.  init hashes the right table by its join   *)
(* cell; each next probes the map with one batch of the left table.        *)
(*                                                                         *)
(* The operator of the ON condition is not looked at.  A condition that is *)
(* not between two columns of the tables dereferences a null pointer or    *)
(* indexes a column -1, so it is left out of Predicates here.              *)
(***************************************************************************)
EXTENDS Integers, Sequences, SequencesExt

CONSTANTS Keys, Predicates, MaxLeft, MaxRight, BATCH_SIZE

ASSUME HashAssumption ==
  /\ Predicates \subseteq {"=", ">"}
  /\ MaxLeft \in Nat /\ MaxRight \in Nat /\ BATCH_SIZE \in Nat \ {0}

VARIABLES
  predicate_, left_keys, right_keys, left_row, opened, out, ended,
                 \* as in NestedLoopJoin
  hash_map_      \* join cell -> the right rows that hold it, in row order

tables == <<left_keys, right_keys>>
vars   == <<predicate_, tables, left_row, opened, out, ended, hash_map_>>

NL == INSTANCE NestedLoopJoin WITH
        right_materialized_ <- [b \in 1..((opened + BATCH_SIZE - 1) \div BATCH_SIZE) |->
          [i \in 1..(IF opened - (b - 1) * BATCH_SIZE < BATCH_SIZE
                     THEN opened - (b - 1) * BATCH_SIZE ELSE BATCH_SIZE)
             |-> (b - 1) * BATCH_SIZE + i]]

-----------------------------------------------------------------------------
\* Mutant of Push: the row is put before the others.
PushFront(map, r) == [map EXCEPT ![right_keys[r]] = <<r>> \o @]

\* The build phase: right row r is pushed under its cell.  A key that is not in
\* the map has no rows.
Push(map, r) == [map EXCEPT ![right_keys[r]] = Append(@, r)]

\* The map after all n right rows, in row order.
Build(n) ==
  LET map[r \in 0..n] == IF r = 0 THEN [k \in Keys |-> <<>>] ELSE Push(map[r - 1], r)
  IN  map[n]

\* Mutant of Probe: only the first matching right row is joined.
ProbeFirst(batch) ==
  FlattenSeq([i \in 1..Len(batch) |->
    LET found == hash_map_[left_keys[batch[i]]]
    IN  [j \in 1..(IF found = <<>> THEN 0 ELSE 1) |-> <<batch[i], found[j]>>]])

\* The probe phase for one left batch.
Probe(batch) ==
  FlattenSeq([i \in 1..Len(batch) |->
    LET found == hash_map_[left_keys[batch[i]]]
    IN  [j \in 1..Len(found) |-> <<batch[i], found[j]>>]])

Init ==
  /\ predicate_ \in Predicates
  /\ left_keys = <<>> /\ right_keys = <<>>
  /\ left_row = 0 /\ opened = 0 /\ out = <<>> /\ ended = FALSE
  /\ hash_map_ = [k \in Keys |-> <<>>]

InsertLeft(k) ==
  /\ Len(left_keys) < MaxLeft
  /\ left_keys' = Append(left_keys, k)
  /\ ended' = FALSE
  /\ UNCHANGED <<predicate_, right_keys, left_row, opened, out, hash_map_>>

InsertRight(k) ==
  /\ Len(right_keys) < MaxRight
  /\ right_keys' = Append(right_keys, k)
  /\ UNCHANGED <<predicate_, left_keys, left_row, opened, out, ended, hash_map_>>

\* Mutant of HashInit: hash_map_ is not cleared before it is built again.
HashInitKeepsMap ==
  /\ left_row' = 0
  /\ hash_map_' = [k \in Keys |-> hash_map_[k] \o Build(Len(right_keys))[k]]
  /\ opened' = Len(right_keys)
  /\ out' = <<>>
  /\ ended' = FALSE
  /\ UNCHANGED <<predicate_, tables>>

\* init: the left scan restarts, the right side is read to its end and hashed.
HashInit ==
  /\ left_row' = 0
  /\ hash_map_' = Build(Len(right_keys))
  /\ opened' = Len(right_keys)
  /\ out' = <<>>
  /\ ended' = FALSE
  /\ UNCHANGED <<predicate_, tables>>

\* Mutant of HashNext: the left scan moves by a full batch even at its end.
HashNextOvershoots ==
  /\ left_row < Len(left_keys)
  /\ LET batch == NL!BatchAt(left_row, Len(left_keys))
         pairs == Probe(batch)
     IN  /\ left_row' = left_row + BATCH_SIZE
         /\ out' = out \o pairs
         /\ ended' = (pairs = <<>>)
  /\ UNCHANGED <<predicate_, tables, opened, hash_map_>>

\* next with a left batch at hand; false when no row of the batch has a match.
HashNext ==
  /\ left_row < Len(left_keys)
  /\ LET batch == NL!BatchAt(left_row, Len(left_keys))
         pairs == Probe(batch)
     IN  /\ left_row' = left_row + Len(batch)
         /\ out' = out \o pairs
         /\ ended' = (pairs = <<>>)
  /\ UNCHANGED <<predicate_, tables, opened, hash_map_>>

\* next when the left scan has no more rows.
HashEnd ==
  /\ left_row >= Len(left_keys)
  /\ ended' = TRUE
  /\ UNCHANGED <<predicate_, tables, left_row, opened, out, hash_map_>>

Next ==
  \/ \E k \in Keys : InsertLeft(k) \/ InsertRight(k)
  \/ HashInit \/ HashNext \/ HashEnd

Spec == Init /\ [][Next]_vars

-----------------------------------------------------------------------------
TypeOK ==
  /\ left_row \in 0..Len(left_keys)
  /\ opened \in 0..Len(right_keys)
  /\ hash_map_ \in [Keys -> Seq(1..opened)]
  /\ out \in Seq((1..Len(left_keys)) \X (1..Len(right_keys)))

\* The map is a partition of the right rows seen at init by their join cell:
\* none is lost, none is under another row's key, and rows inserted since are
\* not in it.
HashMapExact ==
  \A k \in Keys :
    /\ Range(hash_map_[k]) = {r \in 1..opened : right_keys[r] = k}
    /\ Len(hash_map_[k]) = Cardinality(Range(hash_map_[k]))

\* An equi-join has delivered every matching pair of the left rows it consumed
\* and the right rows it saw at init, each once and in the order of the two
\* loops, also when a left batch without a match was answered with false and
\* the client pulled again, or when the tables grew between two pulls.
JoinExact == NL!JoinExact

\* The optimizer may put a hash join in the place of a nested loop: pull by
\* pull, it delivers the same pairs in the same order and says false at the
\* same moments.
HashJoinIsNestedLoopJoin == NL!Spec
=============================================================================

--------------------------- MODULE AbstractTable ---------------------------
(***************************************************************************)
(* What a QuillDB table promises, with no columns, hash maps or counters:  *)
(* a growing list of rows, and for every indexed column name the exact set *)
(* of row numbers that hold each value.  Module Table implements it.       *)
(***************************************************************************)
EXTENDS Naturals, Sequences

CONSTANTS
  column_names,  \* the schema: a sequence of column names
  Names,         \* every name a caller may use, in the schema or not
  Values         \* the cell values

VARIABLES
  rows,          \* the rows inserted so far, oldest first
  answers        \* per indexed name and value: the rows an index lookup returns

vars == <<rows, answers>>

Tuple == [1..Len(column_names) -> Values]

\* The rows of rs whose cell in the column called c is v: none when the
\* schema has no such column.
RowsWith(rs, c, v) ==
  {r \in 1..Len(rs) :
     \E i \in 1..Len(column_names) : column_names[i] = c /\ rs[r][i] = v}

AnswersOf(rs, C) == [c \in C |-> [v \in Values |-> RowsWith(rs, c, v)]]

Init ==
  /\ rows = <<>>
  /\ answers = AnswersOf(<<>>, {})

\* A row is added at the end, and every index answers for it at once.
Insert(row) ==
  /\ rows' = Append(rows, row)
  /\ answers' = AnswersOf(rows', DOMAIN answers)

\* A new index answers for the rows that are already there.
CreateIndex(c) ==
  /\ c \notin DOMAIN answers
  /\ answers' = AnswersOf(rows, DOMAIN answers \cup {c})
  /\ UNCHANGED rows

Next ==
  \/ \E row \in Tuple : Insert(row)
  \/ \E c \in Names : CreateIndex(c)

Spec == Init /\ [][Next]_vars
=============================================================================

# A TLA+ model of QuillDB

QuillDB is an in-memory SQL engine in C++: text goes through a lexer, a parser, a planner and an
optimizer, and a tree of executors pulls batches of rows out of columnar tables. This directory
models the parts that keep state or decide what a query answers, checks them with TLC on small
instances, and proves with TLAPS, for every value of the constants, the main properties of tables,
scans, joins, aggregates, the lexer and the parser. Paths below are relative to the repository root.

## The system

The program is single-threaded. What makes it hard is not parallelism but *legal call sequences*:
tables, catalog, plans and executors are separate objects that a client drives in any order, all
of them share tables and plan nodes by pointer, and nothing stops the client from inserting rows
while a query is half pulled. Errors are mostly silent.

| Component | State | Operations | Talks to | Hard behaviour |
|---|---|---|---|---|
| `storage/Storage.h` `Table` | `column_data_`, `num_rows_`, `indexes_` | constructor, `insert`, `createIndex`, `getColumnIndex` | owns one `Index` per name | backfill and update must agree; an allocation failing half-way |
| `storage/Index.h` `Index` | `map_`: key to row numbers | `insert`, `lookup` | | |
| `executor` `SeqScan`, `Filter` | `current_row_` | `init`, `next` | reads the table live | inserts between two pulls; batches without a passing row |
| `executor` `IndexScan` | `matched_row_ids_`, `current_idx_` | `init`, `next` | copies a lookup in `init`, reads cells later | list and table drift apart |
| `executor` `NestedLoopJoin`, `HashJoin` | `right_materialized_` / `hash_map_` | `init`, `next` | right child read in `init`, left child live | a batch without a match; reuse; being exchanged for each other |
| `executor` `Aggregate` | `final_results_`, `current_row_` | `init`, `next` | child read in `init` | an exception in `init`; `int` overflow; reuse |
| `executor` `Project` | none | `init`, `next` | forwards chunks | columns that do not resolve |
| trees of executors | those of their nodes | `init`, `next` of the root (`executePlan`) | children by `init` and `next`, columns by position | each executor trusts the schema it was given; whose rows are live and whose are as old as `init`; what a false of a child means |
| `catalog` `Catalog` | `table_row_counts_`, `table_indexes_` | set/get row count, add/has index | kept in step with tables by the client, by hand | stale statistics and indexes |
| `optimizer` `Optimizer` | none of its own; rewrites the tree in place | `optimize` (three passes) | trusts the catalog | a rewrite must keep the answer; optimizing twice |
| `planner` `Planner` | none | `createPlan` | AST to plan nodes | |
| `parser` `Parser` | `current_token_`, `peek_token_` | `parse` | pulls tokens from the lexer | no error reports; where a clause leaves the cursor; termination |
| `lexer` `Lexer` | position in the text | `nextToken`, `tokenize` | | some branches have moved past their token, others have not; letters, digits and symbols that touch |
| `cli` | none | two fixed programs | wires everything by hand | there is no plan-to-executor compiler |

What must hold, per component: a table stays rectangular and each index is exact however inserts
and `createIndex` interleave; a scan delivers each row it should once, in order, and says "no more
data" only when none is left; two executors that the optimizer exchanges answer alike; a grouped
sum is delivered once per group and is exact; what was written is what is parsed, and parsing
ends, and no character of the text is lost on the way; a tree of executors that was wired right stays
inside every chunk it is handed and delivers what its nodes mean; optimizing changes no answer.

## Modules

| Module | Models | Correspondence |
|---|---|---|
| `AbstractTable` | what a table promises | abstract: a list of rows, and per indexed name the exact set of rows for each value |
| `Table` | `Storage.h`, `Index.h` | variables are the members of `Table`; `Insert`, `CreateIndex` are its mutators; `lookup` is `Index::lookup`. `RelationSpec` is the refinement of `AbstractTable` |
| `TableFaults` (extends `Table`) | the same with `std::bad_alloc` | `InsertThrows(row, k)` stops at column `k`, `CreateIndexThrows(c, n)` after `n` rows; nothing is undone, as in the code. Three history variables say what was asked for: `accepted`, `kept` (rows from before the first insert that left cells behind) and `gaps` (rows a backfill did not get to) |
| `RowSource` | the contract in `Executor.h` | abstract: pending rows, oldest first, chunks of at most `BATCH_SIZE`, `Finish` only when nothing is pending |
| `Scan` (extends `Table`) | `SeqScan`, `Filter`, `IndexScan` | `FilterInit` / `FilterChunk` / `FilterEnd` are `FilterExecutor::init` and the two outcomes of `next`, the inner loop over batches included; `IndexScan...` likewise; `TableStep` is any operation of the table |
| `NestedLoopJoin` | `NestedLoopJoinExecutor` over two scans | `JoinInit`, `JoinNext` (a left batch at hand), `JoinEnd` |
| `HashJoin` | `HashJoinExecutor` over two scans | the same actions; `NL` is the instance of `NestedLoopJoin` it refines |
| `Aggregate` | `AggregateExecutor` | `AggregateInit`, `AggregateInitThrows` (`std::stoi`), `AggregateInitOverflows` (a running total leaves the range of an `int`: undefined behaviour, after which nothing more is modelled), `AggregateNext`, `AggregateEnd` |
| `Executors` (extends `SQLSyntax`) | all seven classes of `Executor.cpp`, in any nesting | an executor is a record of its members; `InitOf` and `NextOf` are `init` and `next`, `Drain` is `while (next(chunk))`; where the code would index out of range or follow a null pointer the outcome is `"undefined"` |
| `Pipeline` (extends `Executors`) | the client of one tree, as in `benchmark.cpp` | `Open` and `Pull` are the calls of `init` and `next`, `Insert` and `CreateIndex` come in between; `WellWired` is what the client must see to when it wires a tree, `Answer` what the tree means, row by row, its expressions read as `src/README.md` and `AST.h` explain them and not as the executors do; `PlainTree` says where the two are the same |
| `SQLSyntax` | `ast/AST.h` | the statements, and the token list that writes one down (the reference the parser is checked against, from `README.md`) |
| `Lexer` (extends `SQLSyntax`) | `Lexer.cpp`, `Lexer.h` | one action per kind of token `nextToken` reads; `position_` is the code's |
| `Parser` (extends `Lexer`) | `Parser.cpp` | one action per clause, `position` is the number of `current_token_` |
| `Planner` | `LogicalPlan.h`, `Planner.cpp` | node constructors and `planSelect` |
| `Optimizer` (extends `Planner`, `Executors`) | `Optimizer.cpp`, `Catalog.cpp` beside tables | the three passes and the catalog's operations keep their names; `Wire` gives each node the executor of its name, `Answer` is what draining that tree delivers |
| `TableProofs`, `TableFaultsProofs`, `ScanProofs`, `NestedLoopJoinProofs`, `HashJoinProofs`, `AggregateProofs`, `ParserProofs` | | theorems about the module of the name, and the lemmas they rest on; those about `Lexer` are in `ParserProofs` |
| `SequenceLemmas` | | what those lemmas share: numbers, recursive functions, sequences in an order, concatenations and lists of lists |
| `MC...` | | constants for TLC |

Conventions. An operation is one step, since nothing runs concurrently; the client picks the next
one freely. Rows and columns count from 1 (the code counts from 0; column 0 is its -1). A key that
is absent from a hash map has the empty list, which is what `lookup` returns. In `Scan`,
`NestedLoopJoin`, `HashJoin` and `Aggregate` a chunk is the list of its row numbers: `Table` shows
that a row keeps its cells, so nothing else can differ. In `Executors` a chunk has its columns, as
in the code, because there the columns are what may go wrong. The groups of an aggregate come in
some fixed order of their keys in `Executors`, as in an `unordered_map` that nobody touches, and in
any order in `Aggregate`. A text is a TLA+ string; the lexer is asked for all tokens before the
parser starts, which changes nothing since its answers do not depend on when it is asked. Definitions
marked *Mutant of* are deliberate bugs; each replaces the named definition to show that a property
notices. They take no part in any specification.

Bounds. `MaxRows`, `MaxLeft` and `MaxRight` bound the tables in the guards of the inserts only;
`TableRows`, `Keys` and `Values` are what may be inserted, `Indexable` where indexes may be
created, `Trees` the trees a client wires, `RowCounts` and `Queries` the statistics and statements it
uses; `Scripts` and `Layouts` are the statements and the ways of writing them down, `Texts` and
`Sources` the other texts and token lists. `IntMax` is the width of an `int`, `SizeMax` that of a
`size_t`. Nothing else is cut off.

## Runs

| Run | Instance | Shows |
|---|---|---|
| `table_faults` | two columns, two values, three rows; any allocation may fail, any number of times | `FaultTypeOK`, `KeptRowsReadBack`, `KeptRowsFound`: what failures spare |
| `torn_row` (violation) | two columns, two rows | `RowReadsBack` fails: a failed insert leaves cells behind (`Storage.h:54`) |
| `scan` | one column and a name outside the schema, two values, four rows, batches of two | `ScanTypeOK`, `ColumnsAligned`, `IndexExact`, `RelationSpec`: the table is an exact relation; `FilterExact`, `ScansAgree`, `FilterIsRowSource`, `FetchIsRowSource` |
| `hash_join` | four left and three right rows, batches of two | `TypeOK`, `HashMapExact`, `JoinExact`, `HashJoinIsNestedLoopJoin`: both joins deliver each matching pair once and in order |
| `pipeline` | 25 trees of up to four executors, 20 of them wired right, of which 14 are plain; three `users`, two `orders`, batches of two | `TypeOK`, `WiredTreesAreSound`, `DeliversAnswer`, `EndWithoutJoin` |
| `join_end` (violation) | an aggregate over a join of the same tables | `EndMeansNoMoreData` fails: `false` for a batch without a match (`Executor.h:20`), so that the sums are wrong |
| `supported_sql` (violation) | the six trees of `pipeline` that are wired right but not plain, and the plan of `SELECT uid, SUM(amount) ... GROUP BY uid` | `SomeFeatureAnswers` fails: not one of them answers as `src/README.md:52-55` says |
| `aggregate` | three groups, three rows, 3-bit ints whose totals may overflow, one cell that is no number | `TypeOK`, `AggregateExact` |
| `parser` | 90 statements alone and 400 pairs, in three layouts; 1156 other texts, all of up to three characters of an alphabet of ten among them; about 4600 damaged token lists | `TypeOK`, `LexemesExact`, `LexesBack`, `ParsesBack`, `SourceOrder`, `Terminates`, `NearsTheEnd` |
| `parser_group_by` (violation) | statements with WHERE and GROUP BY | `ParsesBack` fails on the example of `README.md` |
| `optimizer` | two tables of up to two rows in batches of one, reported counts 2, 256 or none, six queries, a `size_t` of 16 bits | `TypeOK`, `OptimizedAnswersAlike`, `StaleCatalogOnlyLoses`, `ReoptimizeCatchesUp` |
| `optimizer_qualified` (violation) | the same, one row | `RewriteKeepsAnswer` fails for `users.id = ...` |

Why the bounds are enough. The behaviour of scans and joins depends on where a row lies relative
to batch borders and to the moments of `init` and of the last pull; four rows in batches of two
give a full batch, a partial one, an empty one, and an insert before, inside and after each. A join
needs in addition two right batches, the second partial. Two cell values tell a match from a
mismatch; where cells are only compared for equality they are a symmetry set. Three groups in
batches of two make two result batches, and amounts -3, 2 and 3 in ints up to 3 reach totals
inside and outside the range on both ends, totals that leave it on the way and would come back
(3 + 3 - 3), and an overflow before or behind the cell that is no number.

Two columns give an insert every place to break off at: before a cell, between a cell and its index
entry, and between the columns. A torn row is followed by at least one more insert, so rows before,
at and behind the tear are there, and indexes made before and after it. A column grows by at most one
cell per call and the calls stop at `MaxRows` + 1 cells. As long as nothing has failed, `kept` is
`num_rows_` and each of `gaps` is empty: the run says of an intact table of two columns what `scan`
says of one with a single column.

The trees hold each of the seven executors below, above and beside the others where a plan or a
client may put it, with a predicate that is null, of another operator, or on a name that is not
found or found twice, an aggregate over the `$` cells of another among them. What a tree means is
only compared with what it delivers where it is plain: `=` conditions, one grouping column, one `SUM`,
no table prefix in a `WHERE`. The others stay in the run for `WiredTreesAreSound`, and their answers are
the subject of `supported_sql`. The five miswired trees reach undefined outcomes, so that `WellWired` in
`WiredTreesAreSound` is not idle. The reported counts 2, 256 and the default 10000 lie on both sides
of the cost comparison and of the threshold of five rows, and 256 * 256 is 0 in a `size_t` of 16
bits, as 2^32 * 2^32 is in one of 64. Statements are written in capitals or in mixed case, with
blanks, line ends and tabs, or with no blank where the lexer can do without. The alphabet of the
other texts has letters (of `on` among them), the point, digits, blanks, symbols and a character
that is none of these; three of them are enough for each class to end before and begin after each
other. The damaged token lists are all those one dropped, replaced or cut-off token away from a set
of scripts with every clause.

Deadlock checking is off everywhere: executors, tables and parsers may stop when a bound or the end
of the input is reached, and the client may stop at any time.

### What was found

- **Torn rows** (`Storage.h:54`). After an exception inside `insert` the columns differ in length,
  and every later row reads back shifted in some columns.
- **Joins stop early** (`Executor.cpp:206-209`, `296-299`). One left batch without a match makes
  `next` return false. `JoinExact` and `DeliversAnswer` show that a client that goes on pulling loses
  nothing; one that stops loses all later matches, and the engine itself is such a client: so does
  `executePlan` (`benchmark.cpp:17`), so do the joins with their right side (`:143`, `:239`) and the
  aggregate with its child (`:333`), whose sums are then wrong and stay wrong.
- **Much of the listed SQL is not executed.** `src/README.md:52-55` lists what is supported; run
  `supported_sql` has a tree of executors for each of these items:
  - `WHERE` with `>` or `<`: a filter knows `=` only and passes nothing (`Executor.cpp:59`);
  - `JOIN ... ON` with `>`: the nested loop join answers nothing (`:162`), the hash join never looks at
    the operator and answers as for `=` (`:231`), so that cost-based selection changes the answer;
  - `GROUP BY` with several columns: only the first counts (`:321`);
  - `COUNT`: the name of the function is never read, every call is a sum (`:325`);
  - `SUM` in a `SELECT`: the planner puts a project with the SELECT's columns over the aggregate
    (`Planner.cpp:48-51`), and a project copies identifiers only (`:110-111`): it hands out an empty
    column in a chunk of as many rows as there are groups.

  The list promises that all of them answer as asked. `SomeFeatureAnswers` asks for less, that one of
  them does, so that the single state that violates it (user 2; orders (1, 1) and (2, 2)) refutes each.
- **WHERE ... GROUP BY drops the GROUP BY** (`Parser.cpp:168-174`).
- **Index selection changes answers** (`Optimizer.cpp:131-133` against `Executor.cpp:64`): a
  qualified column never passes the filter, but is found by the index scan.

What the models show besides, without a run of its own: a name holds no digit and a number no point
(`col1` and `3.14` are two and three tokens). What a client must see to when it
wires a tree is not written down anywhere in the code; `WellWired` says it. After a broken insert an index may
already list the row number that the next insert will get. An index scan that is opened then reads a
cell that the later columns do not have yet (`Executor.cpp:403`); a sequential scan never does
(`KeptRowsReadBack`).

## Fairness

Tables, scans, trees of executors and the optimizer act when the client calls them, and nothing in
the code obliges a client to call: these modules state safety and refinement only. `parse()` is one
loop of one thread that waits for nobody, and so are the calls of `nextToken` it makes. `Parser` has
weak fairness of its next step, and `Terminates` says that it returns on every text and token list
of the run.

## Proofs

`TableProofs`, for every `column_names`, `Names`, `Values` and `MaxRows`:

- `TypeCorrect`, then `AlignmentCorrect` on top of it: `PushCells` over all columns extends each by
  one cell exactly when the counter moves.
- `IndexRangeCorrect`: all row numbers in all indexes are at most `num_rows_`, even when column
  names repeat, so an index scan cannot read past a column.
- `IndexCorrect` (assumes `DistinctNames`). `IndexExact` alone is not inductive: that the cells of
  old rows do not move needs `ColumnsAligned`, and that appending the new number keeps a list
  ascending needs `IndexInRange`. The inductive invariant is their conjunction with `TypeOK`.
  `HoldersAfterInsert` says what one more row does to the set of holders; `Backfill` is exact by
  `RowListsType`. Without distinct names the theorem is false: `insert` indexes each of the columns
  of that name, `createIndex` only the first.
- `IndexCoversCorrect`: what remains true without distinct names. An index lists every row that the
  first column of the name holds the key in, which is where a filter looks, and no row that holds it
  in no column of the name. What it may do is list a row for its second column, or twice.
- `TableImplementsRelation` (assumes `DistinctNames`): initial states map to initial states, an
  insert to `R!Insert`, a new index to `R!CreateIndex`, all else to a stutter.

`getColumnIndex` is a `CHOOSE` of a least number, whose existence (`LeastNumber`) comes from the
library's well-foundedness of `<`; it needs no induction over an operator.

`ScanProofs`, for every `BATCH_SIZE` too. Each scan step is a table step or leaves the table alone
(`ScanStepIsTableStep`), so the table's invariants carry over (`TableInvariants`):

- `ScanTypeCorrect`: no cursor and no delivered row is out of range.
- `FilterCorrect`: `FilterExact` is inductive together with the types; `HoldersStable` and
  `PassesStable` say that inserts change no answer about old rows.
- `FilterImplementsRowSource`: the refinement of `RowSource`.
- `ScansAgreeCorrect` (assumes `DistinctNames`): from `FilterCorrect` and an invariant of the index
  scan (`FetchInvariant`: what init found is the holders among the first `opened.rows` rows, and
  what was fetched is its prefix).

- `FetchImplementsRowSource` (assumes `DistinctNames`): the refinement of `RowSource` by the index
  scan, from the same invariant. What is pending are the row numbers behind `current_idx_`; they are
  a set, so the refinement needs that the list is ascending, which is false for a name twice in the
  schema.

`NestedLoopJoinProofs`, for every `Keys`, `Predicates`, bound and batch size (`JoinAssumption`: the
bounds are numbers, a batch holds some rows). The inductive invariant `JoinInv` adds to `TypeOK` and
`JoinExact` that the chunks on hand are `Batches(opened)`, those of the right rows that were there at
`init`.

- `JoinTypeCorrect`: the left cursor stays in the left table, the chunks list only right rows.
- `JoinCorrect`: what was delivered are the matches of the consumed left rows with the right rows of
  `init`, in the order of the loops. `JoinBatch` concatenates over left rows, chunks and rows in a
  chunk; that its result is in order and has each match follows from `FlattenOrdered` and
  `FlattenRange`, once per loop.

`HashJoinProofs`, under `HashAssumption`. The inductive invariant `HashInv` says of the map that each
key lists just the right rows that hold it, *ascending*: without the order `HashMapExact` is
inductive, but the order of the delivered pairs is not.

- `HashTypeCorrect`, `HashMapCorrect` and `HashJoinCorrect`: the three invariants of run `hash_join`.
- `HashJoinImplements` (assumes `predicate_ = "="`): every step maps to one of the nested loop join,
  with the chunks computed from `opened`. The lemmas about the nested loop join are taken from an
  instance of its proof module, and both lists of pairs are equal because they are ascending and have
  the same elements. The hypothesis is needed: `HashJoinExecutor` never looks at the operator of its
  condition, so that for `>` the joins differ.

`AggregateProofs`, under `AggregateAssumption` (the amounts are ints, the cell that is no number is not
one of them).

- `AggregateTypeCorrect`: what `init` answers with and `next` hands out are ints, and `next` does not
  pass the list of results.
- `AggregateCorrect`: `AggregateExact` speaks of the sum of all rows of a group, the code adds row by
  row. `HashMapFacts`, by induction over the rows, says that the map is the sum of each group over the
  rows so far, and `Fits`, under which an `init` returns, that no total was outside of an `int` on the
  way. The invariant `AggregateInv` keeps this for the rows of the last `init` that returned, although
  rows are inserted since, and says that what was delivered is the prefix of the results up to
  `current_row_`, and that nothing remains after a false. After an `init` that threw there are no
  results; after one that overflowed nothing is claimed.

`TableFaultsProofs`, wherever and however often an allocation fails. The inductive invariant `FaultInv`
adds to `FaultTypeOK` and `KeptRowsReadBack` that entries are in range: an index may list the row
number that the next insert will get (`num_rows_` + 1, which a broken insert has entered already), and
does so only when the columns are no longer aligned.

- `FaultTypeCorrect` and `FaultsKeepRows`: every row that is counted has a cell in every column, and
  those from before the first broken insert read back as inserted for good. `CellsAndEntriesStay` says
  what one insert leaves alone, whole or broken off.
- `FaultsKeepEntries` (assumes `DistinctNames`): each index finds just those of these rows that hold
  the key, in order and once each, but for the rows in `gaps`. A row that is kept is entered behind
  all kept ones (`KeptRowIsFound`); an entry that comes later names a later row (`LaterRowKeepsFound`);
  a backfill of `n` rows finds the first `n` (`BackfillFinds`).

`ParserProofs`, for every text, token list, script and layout.

- `LexemesCorrect`: `LexInv` adds to `LexemesExact` that it holds of the part read so far, and that the
  last token ends where the cursor is, so that the next one cannot overlap it. Strings are nothing the
  provers know about: what the proof uses of them is that a part of a text has the length of its
  positions (`IsText`), and that a letter is no digit and the end of the text neither
  (`CharacterClasses`). Both are assumptions of the modules, which TLC evaluates on every text of the
  run.
- `ParserTypeCorrect`: `TypeOK` is not inductive, since how far the cursor may be past the end depends
  on the clause (`PositionInv`), and that there are no more statements than SELECTs depends on counting
  only those before the cursor, and the statement begun but not finished (`SelectsInv`).
- `ParserNearsTheEnd`: a number of steps that is left to do, `ClausesLeft` (or `CharsLeft` while the
  lexer reads), falls with every step and not below 0. It is what termination rests on, for every
  input; that the last step is the return is left to `Terminates`.
- `SourceOrderCorrect`: `SourceInv` gives each list of literals the interval of tokens it was taken
  from. The statements returned come from tokens before some token `first`; the statement being built
  from tokens of `first` up to the cursor, or up to and including it after WHERE, which leaves its last
  token as the current one. A clause takes its literals from there on (`ExpressionOrder`,
  `ColumnOrder`, `JoinOrder`, `GroupOrder`). `ParserAssumption` says what is fed to it: literals of a
  source are their token's numbers, and a missing token has none.

- `ParsesBackCorrect`, for statements of any number of columns, joins and groups: `LexesBack /\
  OneTailEach => ParsesBack` is an invariant. `OneTailEach` says that no statement of the script has
  both a WHERE and a GROUP BY, which is what run `parser_group_by` shows not to be read back; every
  script of run `parser` satisfies it. `LexesBack` is what the lexer owes to the parser, and a
  property of that run. The argument goes in three steps. A clause that finds the tokens of a
  column, a condition, a join or a list of groups ahead (`Ahead`) builds just that and stops behind
  them, except that WHERE and GROUP BY stop *on* their last token (`HeadReads`, `ColumnReads`,
  `FromReads`, `JoinReads`, `WhereReads`, `GroupReads`). Where each part of a statement begins in
  the token list follows from how the list is concatenated (`ScriptPlaces`, `ColumnPlaces`). The
  invariant `ReadsInv` then says how many statements have been read and are those of the script
  (`Begins`), and how far the next one has: at which of its places the cursor is, that `stmt` holds
  just the parts before it, and that the rest is still empty (`InStatement`). The tokens need only
  be right in their types, and in their literals where the parser looks at them (`Named`).

The provers cannot instantiate an induction rule whose predicate is an operator. Where an operator is
computed by going over a list (`Backfill`, `Build`, `SumOf`, `FlattenSeq`), `SequenceLemmas` states
induction over a set of numbers, and the value of a recursive function by its equations.

Only model-checked:

- `LexesBack`, the hypothesis of `ParsesBackCorrect`: a text is built by concatenating strings, of which
  the provers know nothing.
- `Terminates`, which is liveness; its safety half is `ParserNearsTheEnd`.
- Everything about `Executors`, `Pipeline` and `Optimizer`, whose operators are RECURSIVE over trees.
- The violations.

## Not modelled

- What happens after undefined behaviour: a tree that met it, or an aggregate with a total that left
  the range of an `int`, has the outcome `"undefined"` and no further step. A vector that is read out of its range may as well return something.
- `std::stoi` on a cell that is no number, and sums beyond an `int`, in a tree: `Aggregate` has both,
  over a scan.
- Allocations that fail anywhere but in `Table`, and executors over a table after such a failure:
  `KeptRowsFound` bounds which rows an index no longer finds (`Storage.h:37`), by exempting those that a
  failed backfill did not get to: it describes this loss and does not rule it out. No scan is run over
  such a table.
- Runs on tables with two columns of one name (`Storage.h:61`): `IndexRangeCorrect` and
  `IndexCoversCorrect` are proved for them, and the rest is false or not stated. A *chunk* with two
  columns of one name, as every join may make it, is in `pipeline`.
- Two columns in run `scan`: that one drifts against another is what `table_faults` and
  `AlignmentCorrect` are about.
- The lexer being asked again after `END_OF_FILE`: `Lexer` ends there, and `TokenAt` in `Parser` takes it
  that the answer is `END_OF_FILE` again (`Lexer.cpp:12-14`).
- A NUL character inside a text; a `size_t` that wraps in the sum of two row counts.
- Printing of statements, plans and rows, timing, and the order of calls in the two fixed programs of
  `cli`, beyond `executePlan` and the text `main.cpp` parses; the build.

## Plan

1. *Done:* `AbstractTable`, `Table`, `Scan`, `RowSource` with proofs; joins, `Aggregate`, `Lexer` and
   `Parser` from the text on, `Planner`, all executors in trees (`Executors`, `Pipeline`), and the
   `Optimizer` over the trees a client wires from its plans, with runs.
2. *Done:* proofs of all invariants and refinements of `Table`, `Scan`, `HashJoin` and `Aggregate`, of
   the nested loop join, of `LexemesExact`, `TypeOK`, `SourceOrder`, `NearsTheEnd` and `ParsesBack` of
   the parser, of what a table keeps after failed allocations, and of what an index on a repeated
   column name promises.
3. Next: scans over a table after a failed allocation.

---------------------------- MODULE IndexColumn ----------------------------
(***************************************************************************)
(* Column::create_index: which rows of a column hold each of its values.   *)
(* The rows are cut into blocks, one task per block lists the rows of its  *)
(* block by value, and the runtime folds the lists in the order in which   *)
(* the tasks end, with acc_field_redop::combine.  The lists must end up    *)
(* sorted: compute_row_mapping_task intersects them with                   *)
(* std::set_intersection.                                                  *)
(*                                                                         *)
(* The vectors of (value, rows) pairs, which combine keeps sorted by value,*)
(* are functions from values to lists of rows here; a value that a vector  *)
(* does not have is mapped to the empty list.  Rows are the points of a    *)
(* one-dimensional column.                                                 *)
(***************************************************************************)
EXTENDS Lists, SequencesExt

CONSTANTS
  NumRows,     \* rows of the column
  NumBlocks,   \* blocks of partition_over_default_tunable
  Value        \* values of the column, as their ranks in its order

ASSUME IndexAssumption ==
  /\ NumRows \in Nat /\ NumBlocks \in Nat \ {0}
  /\ Value \subseteq Nat

Row == 1 .. NumRows

Block == 1 .. NumBlocks

VARIABLES
  column,      \* the value of every row
  pending,     \* blocks whose list was not folded yet
  lhs,         \* the accumulated lists
  rhs,         \* the lists being folded, what is left of them
  l,           \* offset of the iterator "l" in the list of the current value
  wild         \* the iterator "l" was read before the start of its vector

vars == <<column, pending, lhs, rhs, l, wild>>

Lists == [Value -> Seq(Row)]

Nothing == [v \in Value |-> <<>>]

TypeOK ==
  /\ column \in [Row -> Value]
  /\ pending \subseteq Block
  /\ lhs \in Lists
  /\ rhs \in Lists
  /\ l \in Int
  /\ wild \in BOOLEAN

Init ==
  /\ column \in [Row -> Value]
  /\ pending = Block
  /\ lhs = Nothing
  /\ rhs = Nothing
  /\ l = 0
  /\ wild = FALSE

\* create_equal_partition cuts the rows into consecutive blocks.
RowsOf(b) ==
  {r \in Row : (b - 1) * NumRows < r * NumBlocks /\ r * NumBlocks <= b * NumRows}

\* index_accumulate_task: the rows of a block that hold v, as they come.
RowsWith(b, v) == ListOf({r \in RowsOf(b) : column[r] = v})

ListsOf(b) == [v \in Value |-> RowsWith(b, v)]

Folding == rhs # Nothing

\* combine treats the values of rhs in their order.
Current == CHOOSE v \in Value :
  /\ rhs[v] # <<>>
  /\ \A w \in Value : rhs[w] # <<>> => v <= w

\* A mutant of Fold that ignores a block folded onto an empty list.
FoldAndDrop(b) ==
  /\ ~Folding
  /\ b \in pending
  /\ pending' = pending \ {b}
  /\ rhs' = IF lhs = Nothing THEN Nothing ELSE ListsOf(b)
  /\ l' = 0
  /\ UNCHANGED <<column, lhs, wild>>

\* A task has ended and the runtime folds its lists; the first ones are
\* taken as they are.
Fold(b) ==
  /\ ~Folding
  /\ b \in pending
  /\ pending' = pending \ {b}
  /\ IF lhs = Nothing
     THEN /\ lhs' = ListsOf(b)
          /\ UNCHANGED rhs
     ELSE /\ rhs' = ListsOf(b)
          /\ UNCHANGED lhs
  /\ l' = 0
  /\ UNCHANGED <<column, wild>>

\* A value that lhs does not have yet is inserted with its rows.
InsertValue(v) ==
  /\ lhs[v] = <<>>
  /\ lhs' = [lhs EXCEPT ![v] = rhs[v]]
  /\ rhs' = [rhs EXCEPT ![v] = <<>>]
  /\ l' = 0
  /\ UNCHANGED wild

InVector(v) == l \in 0 .. Len(lhs[v]) - 1

\* The loop goes on with the next row of rhs, or ends with the value.
NextRow(v, lnext) ==
  /\ rhs' = [rhs EXCEPT ![v] = Tail(@)]
  /\ l' = IF Len(rhs[v]) = 1 THEN 0 ELSE lnext

\* The next row of rhs goes before the row at l.  The offset that is saved
\* for l is std::distance(l, begin), hence the new offset is 1 - l.
InsertRow(v) ==
  /\ InVector(v)
  /\ Head(rhs[v]) < lhs[v][l + 1]
  /\ lhs' = [lhs EXCEPT ![v] = InsertAt(@, l + 1, Head(rhs[v]))]
  /\ NextRow(v, 1 - l)
  /\ UNCHANGED wild

\* A mutant of Advance that does not move the iterator.
AdvanceNothing(v) ==
  /\ InVector(v)
  /\ Head(rhs[v]) > lhs[v][l + 1]
  /\ UNCHANGED <<lhs, rhs, l, wild>>

\* The row at l comes first.  (Blocks share no row: the rows are not equal.)
Advance(v) ==
  /\ InVector(v)
  /\ Head(rhs[v]) > lhs[v][l + 1]
  /\ l' = l + 1
  /\ UNCHANGED <<lhs, rhs, wild>>

\* A mutant of AppendRest that loses the rows after the end of the list.
AppendNothing(v) ==
  /\ l >= Len(lhs[v])
  /\ rhs' = [rhs EXCEPT ![v] = <<>>]
  /\ l' = 0
  /\ UNCHANGED <<lhs, wild>>

\* std::copy of the rows that are left when l has reached the end.
AppendRest(v) ==
  /\ l >= Len(lhs[v])
  /\ lhs' = [lhs EXCEPT ![v] = @ \o rhs[v]]
  /\ rhs' = [rhs EXCEPT ![v] = <<>>]
  /\ l' = 0
  /\ UNCHANGED wild

\* l is before the start of the vector: whatever is read there as a row may
\* be less than the next row of rhs, equal to it, or greater, when the row
\* is written out of the vector and lost.
ReadBeforeBegin(v) ==
  /\ l < 0
  /\ wild' = TRUE
  /\ \/ l' = l + 1 /\ UNCHANGED rhs
     \/ NextRow(v, l)
     \/ NextRow(v, 1 - l)
  /\ UNCHANGED lhs

Combine(v) ==
  /\ UNCHANGED <<column, pending>>
  /\ \/ InsertValue(v)
     \/ /\ lhs[v] # <<>>
        /\ \/ InsertRow(v)
           \/ Advance(v)
           \/ AppendRest(v)
           \/ ReadBeforeBegin(v)

Finished == pending = {} /\ ~Folding

Next ==
  \/ \E b \in Block : Fold(b)
  \/ Folding /\ Combine(Current)

Spec == Init /\ [][Next]_vars /\ WF_vars(Next)

-----------------------------------------------------------------------------
(***************************************************************************)
(* Whatever order the blocks are folded in, the index lists for each value *)
(* exactly the rows that hold it, in ascending order, unless the iterator  *)
(* of combine left its vector on the way.                                  *)
(***************************************************************************)
IndexExact ==
  Finished /\ ~wild =>
    \A v \in Value :
      ToSet(lhs[v]) = {r \in Row : column[r] = v} /\ Ascending(lhs[v])

(***************************************************************************)
(* During the folds, no row of a folded block is lost or listed twice, and *)
(* no row is listed for a value it does not have: combine moves rows from  *)
(* one list to the other one at a time, resuming anywhere in the list.     *)
(***************************************************************************)
RowsConserved ==
  ~wild =>
    \A v \in Value :
      /\ ToSet(lhs[v]) \cap ToSet(rhs[v]) = {}
      /\ ToSet(lhs[v]) \cup ToSet(rhs[v])
           = {r \in UNION {RowsOf(b) : b \in Block \ pending} : column[r] = v}
      /\ IsInjective(lhs[v])
      /\ IsInjective(rhs[v])

(***************************************************************************)
(* The fold ends for every order of the blocks, although an insertion may  *)
(* set the iterator back.                                                  *)
(***************************************************************************)
FoldEnds == <>Finished

(***************************************************************************)
(* A comment in combine (utility.h:901-903): insert() "may invalidate the  *)
(* "l" iterator; to compensate, save the iterator's offset, do the         *)
(* insertion, and then recreate the iterator".  So the iterator is always  *)
(* one of the vector.  TLC refutes it after an insertion at offset two or  *)
(* more; no run carries it.                                                *)
(***************************************************************************)
IteratorRecreated == Folding => l >= 0

=============================================================================

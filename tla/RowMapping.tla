----------------------------- MODULE RowMapping -----------------------------
(***************************************************************************)
(* Reindexing one ColumnSpace (ColumnSpace::reindexed): every row of the   *)
(* old space gets a rectangle in a new space whose leading axes are the    *)
(* new index columns.  An index launch runs one task per point of the      *)
(* cross product of the axes above ROW and the index columns; the tasks    *)
(* write into one row map, without exclusive access to it.  The new space  *)
(* is the image of the row map, and copy tasks, one per row here, move the *)
(* values (PhysicalTable::reindexed).                                      *)
(*                                                                         *)
(* A row point is the sequence of its coordinates, ROW the last of them.   *)
(* A row of the old space is a cell of "extent" elements; a rectangle of   *)
(* the new space is the point of its leading axes with its extent.         *)
(***************************************************************************)
EXTENDS Lists, SequencesExt

CONSTANTS
  Shapes,      \* tables: [rows : sequence of row points in the order in which
               \*   create_index lists them, columns : index columns,
               \*   allowRows : argument allow_rows]
  Value,       \* values of an index column, as positions in it
  Extents,     \* elements that a cell may have
  NoRect,      \* the empty rectangle the row map is filled with
  NoSpace      \* the new index space before it is made

ASSUME RowMappingAssumption ==
  /\ Value \subseteq Nat
  /\ Extents \subseteq Nat
  /\ NoRect \notin [at : Seq(Nat), extent : Extents]
  /\ \A t \in Shapes :
       /\ t.columns \in Nat \ {0}
       /\ t.allowRows \in BOOLEAN
       /\ t.rows \in Seq(Seq(Nat) \ {<<>>}) /\ t.rows # <<>> /\ IsInjective(t.rows)
       /\ \A i \in DOMAIN t.rows : Len(t.rows[i]) = Len(t.rows[1])

VARIABLES
  shape,       \* the table, one of Shapes
  valueOf,     \* position of every row in every index column
  extent,      \* elements of every row
  written,     \* rows that every point task has written
  rects,       \* row_map_lr
  space,       \* leading points and elements of the new index space
  uncopied,    \* rows that no copy task has copied
  cells        \* values of the new column: the old row and element, or none

vars == <<shape, valueOf, extent, written, rects, space, uncopied, cells>>

Row == ToSet(shape.rows)

RowDim == Len(shape.rows[1])

Above == RowDim - 1

Column == 1 .. shape.columns

\* The order of DomainPoints is the lexicographic one.
Before(a, b) ==
  \E i \in 1 .. Len(a) : a[i] < b[i] /\ \A j \in 1 .. i - 1 : a[j] = b[j]

-----------------------------------------------------------------------------
(***************************************************************************)
(* The index lists and what a point task makes of them.                    *)
(***************************************************************************)

\* COLUMN_INDEX_ROWS of column k at position v.
Listed(k, v) ==
  Kept(shape.rows, {i \in DOMAIN shape.rows : valueOf[k][shape.rows[i]] = v})

\* One turn of std::set_intersection on two lists: m has the places of its
\* iterators and what it has put out.
Turn(s, t, m) ==
  IF m.i > Len(s) \/ m.j > Len(t) THEN m
  ELSE IF Before(s[m.i], t[m.j]) THEN [m EXCEPT !.i = @ + 1]
  ELSE IF Before(t[m.j], s[m.i]) THEN [m EXCEPT !.j = @ + 1]
  ELSE [i |-> m.i + 1, j |-> m.j + 1, out |-> Append(m.out, s[m.i])]

\* It ends after as many turns as the lists have rows, or earlier.
Intersection(s, t) ==
  LET after[n \in 0 .. Len(s) + Len(t)] ==
        IF n = 0 THEN [i |-> 1, j |-> 1, out |-> <<>>] ELSE Turn(s, t, after[n - 1])
  IN after[Len(s) + Len(t)].out

\* The rows that are in all lists: those of the first region, intersected
\* with those of the others in turn.
Common(lists) ==
  LET upTo[i \in 0 .. Len(lists) - 1] ==
        IF i = 0 THEN lists[1] ELSE Intersection(upTo[i - 1], lists[i + 1])
  IN upTo[Len(lists) - 1]

\* The rows that all index columns list for the task at point p.
CommonRows(p) == Common([k \in Column |-> Listed(k, p[Above + k])])

\* A mutant of HereRows that takes rows from anywhere above ROW.
HereRowsAnywhere(p) == CommonRows(p)

\* The loop over the axes above ROW goes up to r2 = r1 - (allow_rows ? 1 : 0).
HereRows(p) ==
  LET r2 == Above - (IF shape.allowRows THEN 1 ELSE 0) IN
  Kept(CommonRows(p),
       {n \in DOMAIN CommonRows(p) : \A i \in 1 .. r2 : CommonRows(p)[n][i] = p[i]})

Positions(k) == 0 .. Max({valueOf[k][r] : r \in Row})

\* The index launch: the bounds of the axes above ROW, and the columns.
Points ==
  LET Coords(i) == {r[i] : r \in Row}
      Bounds(i) == IF i <= Above THEN Min(Coords(i)) .. Max(Coords(i))
                   ELSE Positions(i - Above)
      n == Above + shape.columns
  IN {p \in [1 .. n -> UNION {Bounds(i) : i \in 1 .. n}] :
        \A i \in 1 .. n : p[i] \in Bounds(i)}

\* A mutant of RowsToWrite that also maps rows with an ambiguous index.
RowsToWriteAlways(p) == HereRows(p)

\* Without a row axis, a point is mapped when it stands for a single row.
RowsToWrite(p) ==
  IF shape.allowRows \/ Len(HereRows(p)) = 1 THEN HereRows(p) ELSE <<>>

\* A mutant of RectOf that does not count the rows of a point.
RectOfPoint(p, i, r) ==
  [at |-> p \o (IF shape.allowRows THEN <<0>> ELSE <<>>), extent |-> extent[r]]

\* The rectangle of the row that is the i-th one of a point, from zero.
RectOf(p, i, r) ==
  [at |-> p \o (IF shape.allowRows THEN <<i>> ELSE <<>>), extent |-> extent[r]]

CellsOf(rect) ==
  IF rect = NoRect THEN {} ELSE {<<rect.at, e>> : e \in 0 .. rect.extent - 1}

\* new_bounds: the row axis of the new space has the bounds of the old one.
InBounds(c) ==
  LET Rows == {r[RowDim] : r \in Row} IN
  shape.allowRows => Last(c[1]) \in Min(Rows) .. Max(Rows)

-----------------------------------------------------------------------------

TypeOK ==
  /\ shape \in Shapes
  /\ valueOf \in [Column -> [Row -> Value]]
  /\ extent \in [Row -> Extents]
  /\ written \in [Points -> 0 .. Cardinality(Row)]
  /\ \A r \in Row : rects[r] # NoRect =>
       /\ rects[r].at \in Seq(Nat)
       /\ rects[r].extent = extent[r]
  /\ uncopied \subseteq Row
  /\ space = NoSpace \/ DOMAIN cells = space

Init ==
  /\ shape \in Shapes
  /\ valueOf \in {f \in [Column -> [Row -> Value]] :
                    \A k \in Column : \E m \in Nat \cap Value :
                      {f[k][r] : r \in Row} = 0 .. m}
  /\ extent \in [Row -> Extents]
  /\ written = [p \in Points |-> 0]
  /\ rects = [r \in Row |-> NoRect]
  /\ space = NoSpace
  /\ uncopied = Row
  /\ cells = <<>>

\* compute_row_mapping_task at point p writes the rectangle of a row.
MapRow(p) ==
  LET i == written[p]
      r == RowsToWrite(p)[i + 1] IN
  /\ space = NoSpace
  /\ i < Len(RowsToWrite(p))
  /\ rects' = [rects EXCEPT ![r] = RectOf(p, i, r)]
  /\ written' = [written EXCEPT ![p] = i + 1]
  /\ UNCHANGED <<shape, valueOf, extent, space, uncopied, cells>>

\* When all tasks have ended, the new space is the image of the row map.
MakeSpace ==
  /\ space = NoSpace
  /\ \A p \in Points : written[p] = Len(RowsToWrite(p))
  /\ space' = {c \in UNION {CellsOf(rects[r]) : r \in Row} : InBounds(c)}
  /\ cells' = [c \in space' |-> NoRect]
  /\ UNCHANGED <<shape, valueOf, extent, written, rects, uncopied>>

\* A mutant of CopyRow that copies the first element of a row everywhere.
CopyFirst(r) ==
  /\ space # NoSpace
  /\ r \in uncopied
  /\ uncopied' = uncopied \ {r}
  /\ cells' = [c \in space |->
       IF c \in CellsOf(rects[r]) THEN <<r, 0>> ELSE cells[c]]
  /\ UNCHANGED <<shape, valueOf, extent, written, rects, space>>

\* reindex_copy_values, for the rectangle of one row.
CopyRow(r) ==
  /\ space # NoSpace
  /\ r \in uncopied
  /\ uncopied' = uncopied \ {r}
  /\ cells' = [c \in space |->
       IF c \in CellsOf(rects[r]) THEN <<r, c[2]>> ELSE cells[c]]
  /\ UNCHANGED <<shape, valueOf, extent, written, rects, space>>

Next ==
  \/ \E p \in Points : MapRow(p)
  \/ MakeSpace
  \/ \E r \in Row : CopyRow(r)

Spec == Init /\ [][Next]_vars

Finished == space # NoSpace /\ uncopied = {}

-----------------------------------------------------------------------------
(***************************************************************************)
(* What reindexing means: a row goes to the point of its axes above ROW    *)
(* and its index values and, with a row axis, to its rank among the rows   *)
(* that have the same point; without one, only if it is alone there.       *)
(***************************************************************************)
PointOf(r) ==
  [i \in 1 .. Above + shape.columns |->
     IF i <= Above THEN r[i] ELSE valueOf[i - Above][r]]

Fellows(r) == {q \in Row : PointOf(q) = PointOf(r)}

Meant(r) ==
  LET rank == Cardinality({q \in Fellows(r) : Before(q, r)}) IN
  IF shape.allowRows \/ Fellows(r) = {r}
  THEN [at |-> PointOf(r) \o (IF shape.allowRows THEN <<rank>> ELSE <<>>),
        extent |-> extent[r]]
  ELSE NoRect

InOrder(s) == \A i, j \in DOMAIN s : i < j => Before(s[i], s[j])

(***************************************************************************)
(* The tables that can be reindexed as it is meant: std::set_intersection  *)
(* and the ranks of rows need lists in order, which create_index makes of  *)
(* rows only when nothing is above ROW or the tasks are for one column,    *)
(* which need none; with allow_rows, rows are compared on one axis too few.*)
(***************************************************************************)
Reindexable ==
  \A t \in Shapes :
    /\ t.columns > 1 \/ t.allowRows => InOrder(t.rows)
    /\ t.allowRows => Len(t.rows[1]) = 1

\* The row axis of the new space has the bounds of ROW, and ranks are from 0.
RowsFromZero == \A t \in Shapes : t.allowRows => <<0>> \in ToSet(t.rows)

(***************************************************************************)
(* In whatever order the point tasks run and write, the row map they leave *)
(* is the one that reindexing means.                                       *)
(***************************************************************************)
RowMapExact == space # NoSpace => \A r \in Row : rects[r] = Meant(r)

(***************************************************************************)
(* The point tasks have the row map with SIMULTANEOUS coherence: it is up  *)
(* to them that no two ever write to the same row.                         *)
(***************************************************************************)
RowsWrittenOnce ==
  [][\A r \in Row : rects[r] # NoRect => rects'[r] = rects[r]]_vars

(***************************************************************************)
(* The copy launch declares the image of the row map DISJOINT_COMPLETE: no *)
(* two rows share a cell of the new space, and every cell has a row.       *)
(***************************************************************************)
ImageDisjointComplete ==
  space # NoSpace =>
    /\ \A q, r \in Row : q # r => CellsOf(rects[q]) \cap CellsOf(rects[r]) = {}
    /\ space = UNION {CellsOf(rects[r]) : r \in Row}

(***************************************************************************)
(* The new column has no value but those of the old one, every value of a  *)
(* row that is mapped is found once, and it is found where a reader of the *)
(* reindexed table looks for it.                                           *)
(***************************************************************************)
ValuesMoved ==
  Finished =>
    \A r \in Row : Meant(r) # NoRect =>
      \A e \in 0 .. extent[r] - 1 :
        {c \in space : cells[c] = <<r, e>>} = {<<Meant(r).at, e>>}

(***************************************************************************)
(* "A value of 'true' for this argument is always safe" (Table.h:307-308,  *)
(* of allow_rows): no value of the table is lost with it.  TLC refutes it  *)
(* for tables with an axis above ROW; no run carries it.                   *)
(***************************************************************************)
AllowRowsIsSafe ==
  Finished /\ shape.allowRows =>
    \A r \in Row : \E c \in space : cells[c] = <<r, 0>>

(***************************************************************************)
(* "If the value is 'false' and a non-degenerate axis is required by the   *)
(* reindexing, this method will return an empty value" (Table.h:309-311).  *)
(* TLC refutes it: only the ambiguous rows are left out; no run carries it.*)
(***************************************************************************)
EmptyIfAmbiguous ==
  Finished /\ ~shape.allowRows /\ (\E r \in Row : Fellows(r) # {r}) => space = {}

=============================================================================

------------------------------ MODULE Conversion ------------------------------
(***************************************************************************)
(* What ms2h5 has read and written so far (src/hyperion/ms2h5.cc), what    *)
(* it makes of a MeasurementSet through the builders of tables, the index  *)
(* trees of their columns and the layout of the file, and what must come   *)
(* of it.  MsBuilder and Hdf5File say what those make.                     *)
(***************************************************************************)
EXTENDS Integers, KeywordSet

CONSTANTS Source,       \* the tables of the MeasurementSet, by name
          Main,         \* the name of the main table
          Selections,   \* lists of arguments: [except |-> BOOLEAN, name |-> a name]
          UpperCase,    \* names as they are looked for by args_ok()
          RowBlock,     \* ROW_BLOCK_SZ
          Nothing       \* no table, no value

CONSTANTS Columns(_),            \* the columns built of a table of the MeasurementSet,
          NoTree, Grown(_, _, _, _),   \* their index trees, grown by the cells of a row,
          TablesOf(_, _, _),     \* the Tables that may be built from these,
          GroupsOf(_),           \* the groups of the file that a Table may be written as,
          PathsIn(_, _),         \* which of the columns have a dataset there,
          CellsIn(_, _),         \* the cells of a column of the MeasurementSet,
          CellAt(_, _, _, _)     \* and the one that a point takes in a task of rows

ASSUME BlockAssumption == RowBlock \in Nat \ {0}
ASSUME MainAssumption == Main \in DOMAIN Source
ASSUME SourceAssumption ==
  IsFiniteSet(DOMAIN Source) /\ \A t \in DOMAIN Source : Source[t].nrow \in Nat

VARIABLES
  selection,  \* the tables named as arguments
  stage,      \* of the top level task
  names,      \* the tables to convert, in their order
  rows,       \* how many rows of a table are scanned
  trees,      \* the index trees of the columns of a table
  tables,     \* the Tables built
  file,       \* what is at the output path: who made it, and its groups by name
  paths,      \* the columns with a dataset, a set for each table
  toRead,     \* blocks of rows not read yet
  data        \* the values in the datasets of the file

NoGroups == [t \in {} |-> Nothing]
NoFile == [by |-> "nobody", groups |-> NoGroups]
Foreign == [by |-> "somebody", groups |-> NoGroups]
NewFile == [by |-> "ms2h5", groups |-> NoGroups]

BlockOf(r) == r \div RowBlock
FirstRow(b) == b * RowBlock
RowBlocksOf(t) == {BlockOf(r) : r \in 0 .. Source[t].nrow - 1}

-----------------------------------------------------------------------------
(* When the conversion has ended every cell of every column that could be  *)
(* built is in the column's dataset, once and at a point of the dataset's  *)
(* extent, whichever order tables and blocks of rows were read in.         *)
ValuesInPlace ==
  stage = "done" =>
    \A t \in Range(names) : \A n \in DOMAIN tables[t].cols :
      LET d == data[<<t, n>>]  dims == file.groups[t].columns[n].col IN
      /\ Range(d) = CellsIn(Source[t], n)
      /\ \A p, q \in DOMAIN d : d[p] = d[q] => p = q
      /\ \A p \in DOMAIN d : Len(p) = Len(dims) /\ \A k \in DOMAIN p : 0 <= p[k] /\ p[k] < dims[k]

(* What a Table has by itself, of all that ValuesInPlace says: the points  *)
(* of a column are as many as its cells, row by row, and each task of a    *)
(* block of rows takes them for the same cells; a group has a dataset for  *)
(* each column, which its points fit in.                                   *)
PointsAreCells ==
  \A t \in DOMAIN tables : tables[t] # Nothing =>
    LET cols == tables[t].cols IN
    /\ DOMAIN cols # {}
    /\ \A n \in DOMAIN cols :
         LET cell == [p \in cols[n].cs.pts |-> CellAt(Source[t], n, p, FirstRow(BlockOf(p[1])))] IN
         /\ Range(cell) = CellsIn(Source[t], n)
         /\ \A p, q \in DOMAIN cell : cell[p] = cell[q] => p = q
         /\ \A p \in DOMAIN cell : p[1] \in 0 .. Source[t].nrow - 1
    /\ \A grp \in GroupsOf(tables[t]) :
         /\ PathsIn(grp, DOMAIN cols) = DOMAIN cols
         /\ \A n \in DOMAIN cols : \A p \in cols[n].cs.pts :
              LET dims == grp.columns[n].col
              IN  Len(p) = Len(dims) /\ \A k \in DOMAIN p : 0 <= p[k] /\ p[k] < dims[k]

(* A file that somebody else makes at the output path, before the program  *)
(* starts or while it scans, is never written to.                          *)
ForeignKept == [][file = Foreign => file' = Foreign]_file
===============================================================================

------------------------------ MODULE MsBuilder ------------------------------
(***************************************************************************)
(* From a casacore table to the columns of a Table: the builders of        *)
(* TableBuilder.h and ColumnBuilder.h, which scan the shapes of the cells  *)
(* row by row, and the reading of cells into points of a column            *)
(* (src/hyperion/TableReadTask.cc).                                        *)
(*                                                                         *)
(* A casacore table is [nrow, cols]; a column of it is [axes, dt, fid,     *)
(* fixed, shapes, meas, kws]: the element axes that MSTable knows for it   *)
(* (or Unlisted), the shape of its description (or NoShape), the shape of  *)
(* each cell (or NoShape), its measure (or Nil) and its keywords.          *)
(***************************************************************************)
EXTENDS Hdf5File

CONSTANTS RowAxis,     \* the axis number of ROW
          FreeFid      \* the first field ID that no documented column has

NoShape == <<>>
Unlisted == "unlisted"

(* from_casacore_table(): the documented columns, and with each column     *)
(* whose reference varies by row the column of its codes, once.            *)
Documented(src) == {n \in DOMAIN src.cols : src.cols[n].axes # Unlisted}
RefCols(src) == {src.cols[n].meas.refcol : n \in {m \in Documented(src) : src.cols[m].meas # Nil}} \ {Nil}
BuilderColumns(src) == Documented(src) \union RefCols(src)

ElementAxes(src, n) == IF n \in Documented(src) THEN src.cols[n].axes ELSE <<>>
ColumnAxes(src, n) == <<RowAxis>> \o ElementAxes(src, n)
FieldIdOf(src, n) ==
  IF n \in Documented(src) THEN src.cols[n].fid
  ELSE LET num == CHOOSE f \in [RefCols(src) -> 0 .. Cardinality(RefCols(src)) - 1] :
                    \A a, b \in RefCols(src) : f[a] = f[b] => a = b
       IN FreeFid + num[n]

(* size(): the shape of the description or else of the cell, last axis of  *)
(* casacore first; a shape with a zero in it counts as no cell.            *)
ElementShapeUnreversed(col, row) ==
  LET shape == IF col.fixed # NoShape THEN col.fixed ELSE col.shapes[row]
  IN [k \in 1 .. Len(col.axes) |-> IF shape = NoShape THEN 0 ELSE shape[k]]
ElementShape(col, row) ==
  LET rank == Len(col.axes)
      shape == IF col.fixed # NoShape THEN col.fixed
               ELSE IF \E k \in DOMAIN col.shapes[row] : col.shapes[row][k] = 0 THEN NoShape
               ELSE col.shapes[row]
  IN [k \in 1 .. rank |-> IF shape = NoShape THEN 0 ELSE shape[rank + 1 - k]]

(* add_row(): a tree of nested axes under the row's index, merged into the *)
(* column's tree.                                                          *)
RECURSIVE ShapeTree(_)
ShapeTree(shape) ==
  IF shape = <<>> THEN Leaf ELSE InRow(<<<<Head(shape), ShapeTree(Tail(shape))>>>>)

AddRow(src, n, tree, row) ==
  Merge(tree, One(row, IF ElementAxes(src, n) = <<>> THEN Leaf
                       ELSE ShapeTree(ElementShape(src.cols[n], row))))

(* ColumnBuilder::column(): no tree if the rows are not all of the rank    *)
(* of the axes.  The name of the column of codes is not passed on, and the *)
(* values of keywords are not read.                                        *)
HasTree(src, n, tree) == Rank(tree) = Len(ColumnAxes(src, n))

BuiltColumn(src, n, cs) ==
  LET col == src.cols[n]
      refs == IF n \in Documented(src) /\ col.meas # Nil THEN col.meas.refs ELSE <<>>
  IN [cs |-> cs, dt |-> IF n \in Documented(src) THEN col.dt ELSE "int", fid |-> FieldIdOf(src, n),
      rc |-> Nil,
      mr |-> IF refs = <<>> THEN Nil ELSE CreateRefs(refs, [k \in DOMAIN refs |-> refs[k].rtype], col.meas.mclass),
      kws |-> IF n \in Documented(src) THEN CreateKeywords(col.kws) ELSE NoKeywords]

(* columns() and Table::create: the columns of one tree share a            *)
(* ColumnSpace, with the axes of the column that comes first among them;   *)
(* rep names that column for each tree.                                    *)
Kept(src, trees) == {n \in DOMAIN trees : HasTree(src, n, trees[n])}
Alike(src, trees, n) == {m \in Kept(src, trees) : trees[m] = trees[n]}

SpaceFor(src, uid, rep, tree) ==
  [axes |-> ColumnAxes(src, rep), uid |-> uid, flag |-> FALSE, pts |-> SpaceOf(tree)]

BuildTable(src, uid, trees, rep) ==
  [ics |-> [axes |-> <<RowAxis>>, uid |-> uid, flag |-> FALSE,
            pts |-> {<<r>> : r \in 0 .. src.nrow - 1}],
   cols |-> [n \in Kept(src, trees) |-> BuiltColumn(src, n, SpaceFor(src, uid, rep[n], trees[n]))]]

Representatives(src, trees) ==
  {rep \in [Kept(src, trees) -> Kept(src, trees)] :
     \A n \in Kept(src, trees) : rep[n] \in Alike(src, trees, n)
                                 /\ \A m \in Alike(src, trees, n) : rep[m] = rep[n]}

DistinctAxes(t) == \A n, m \in DOMAIN t.cols : t.cols[n].cs.axes = t.cols[m].cs.axes => t.cols[n].cs = t.cols[m].cs

TablesFrom(src, uid, trees) ==
  {tb \in {BuildTable(src, uid, trees, rep) : rep \in Representatives(src, trees)} : DistinctAxes(tb)}

(* read_scalar_column(), read_array_column(): the element of the cell that *)
(* a point of the column takes; the rank is that of the cell in the first  *)
(* row that the task reads, the last axes of the point come first.  A cell *)
(* is named by its column, row and place.                                  *)
Cell(n, row, ip) == <<n, row, ip>>
Place(p, rank) == [i \in 1 .. rank |-> p[Len(p) - i + 1]]

ReadPoint(src, n, p, firstrow) ==
  IF ElementAxes(src, n) = <<>> THEN Cell(n, p[1], <<>>)
  ELSE LET rank == Len(IF src.cols[n].fixed # NoShape THEN src.cols[n].fixed ELSE src.cols[n].shapes[firstrow])
       IN Cell(n, p[1], Place(p, rank))

(* The cells that a column of a casacore table has (reference).            *)
CellShape(src, n, row) ==
  IF ElementAxes(src, n) = <<>> THEN <<>>
  ELSE IF src.cols[n].fixed # NoShape THEN src.cols[n].fixed ELSE src.cols[n].shapes[row]

CellsOf(src, n) ==
  UNION {LET shape == CellShape(src, n, row) IN
         {Cell(n, row, ip) : ip \in {f \in [DOMAIN shape -> 0 .. 3] : \A k \in DOMAIN shape : f[k] < shape[k]}} :
           row \in 0 .. src.nrow - 1}
===============================================================================

------------------------------- MODULE Hdf5File -------------------------------
(***************************************************************************)
(* How tables are laid out in an HDF5 file (src/hyperion/hdf5.cc): a group *)
(* per table with the table's axes datatype, its index axes, a group per   *)
(* ColumnSpace and a group per column; in the latter the dataset of the    *)
(* values, a soft link to the group of the ColumnSpace, the keywords and   *)
(* the measure references.  The HDF5 library is a tree of records here.    *)
(*                                                                         *)
(* In memory a ColumnSpace is [axes, uid, flag, pts], a column is          *)
(* [cs, dt, fid, rc, mr, kws], and a table is [ics, cols].                 *)
(***************************************************************************)
EXTENDS MeasRefTree, KeywordSet

CONSTANTS NameOrder,     \* keyword names in the order of the library's indexes
          LargeTree,     \* HYPERION_LARGE_TREE_MIN, in words of a serialized tree
          Nil            \* no group, no attribute, no table

\* The cell types of an attribute that holds an index tree.
TreeBytes == "uint8"
TreeReference == "reference"

(* index_space_as_tree(): the rectangles of a domain (points, here) merged.*)
RECURSIVE MergePoints(_, _)
MergePoints(tree, pts) ==
  IF pts = {} THEN tree
  ELSE LET p == CHOOSE q \in pts : TRUE IN MergePoints(Merge(tree, PathTree(p)), pts \ {p})
AsTree(pts) == MergePoints(Leaf, pts)

(* write_index_tree_to_attr(): the serialized tree in the attribute if it  *)
(* is small, else in a dataset that the attribute refers to.               *)
WriteTree(pts) ==
  LET words == Serialize(AsTree(pts)) IN
  IF SerializedSize(AsTree(pts)) < LargeTree
  THEN [type |-> TreeBytes, value |-> words, dataset |-> Nil]
  ELSE [type |-> TreeReference, value |-> Nil, dataset |-> words]

ReadTree(attr) == Deserialize(IF attr.type = TreeBytes THEN attr.value ELSE attr.dataset)

(* The bounding rectangle of a domain, and its points, last axis fastest.  *)
RECURSIVE Walk(_, _)
Walk(lo, hi) ==
  IF lo = <<>> THEN <<<<>>>>
  ELSE LET below == Walk(Tail(lo), Tail(hi)) IN
       FlattenSeq([i \in 1 .. Head(hi) - Head(lo) + 1 |->
                     [c \in DOMAIN below |-> <<Head(lo) + i - 1>> \o below[c]]])

Lows(pts) == LET d == Len(CHOOSE p \in pts : TRUE) IN [k \in 1 .. d |-> Min({p[k] : p \in pts})]
Highs(pts) == LET d == Len(CHOOSE p \in pts : TRUE) IN [k \in 1 .. d |-> Max({p[k] : p \in pts})]
BoundsWalk(pts) == Walk(Lows(pts), Highs(pts))

DatasetDims(pts) == [k \in DOMAIN Highs(pts) |-> Highs(pts)[k] + 1]
DatasetSize(dims) == FoldLeft(LAMBDA s, d : s * d, 1, dims)

(* copy_mr_region(), read_mr_region(): the values along the bounding       *)
(* rectangle; a place outside of the domain is skipped, not dropped.       *)
WriteRegion(region) ==
  LET walk == BoundsWalk(DOMAIN region)
  IN [k \in 1 .. DatasetSize(DatasetDims(DOMAIN region)) |->
        IF k <= Len(walk) /\ walk[k] \in DOMAIN region THEN region[walk[k]] ELSE Undef]

ReadRegionTransposed(buff, pts) ==
  LET walk == Walk(Reverse(Lows(pts)), Reverse(Highs(pts)))
  IN [p \in pts |-> buff[CHOOSE k \in DOMAIN walk : walk[k] = Reverse(p)]]
ReadRegion(buff, pts) ==
  LET walk == BoundsWalk(pts)
  IN [p \in pts |-> buff[CHOOSE k \in DOMAIN walk : walk[k] = p]]

(* write_measure(): the dataset of the codes has the shape of the one of   *)
(* the values, and is written from a buffer with a code per reference:     *)
(* what is behind them is undefined.  init_meas_ref() reads the codes only *)
(* if the column names a column of codes.                                  *)
WriteMeasureGroup(mr) ==
  LET ncodes == DatasetSize(DatasetDims(DOMAIN mr.values)) IN
  [metadata |-> WriteRegion(mr.metadata), values |-> WriteRegion(mr.values),
   index |-> IF mr.index = NoIndex THEN Nil
             ELSE [k \in 1 .. ncodes |-> IF k <= Len(mr.index) THEN mr.index[k] ELSE Undef],
   metadata_tree |-> WriteTree(DOMAIN mr.metadata), value_tree |-> WriteTree(DOMAIN mr.values)]

InitMeasRef(grp, no_index) ==
  LET mpts == SpaceOf(ReadTree(grp.metadata_tree))  vpts == SpaceOf(ReadTree(grp.value_tree))
      first == {p[1] : p \in mpts}
  IN [D |-> Len(CHOOSE p \in mpts : TRUE),
      metadata |-> ReadRegion(grp.metadata, mpts), values |-> ReadRegion(grp.values, vpts),
      index |-> IF no_index THEN NoIndex ELSE SubSeq(grp.index, 1, Max(first) - Min(first) + 1)]

(* write_keywords(), init_keywords(), attach_keywords(): a dataset per     *)
(* keyword; read back in the order of names, the types at once, the values *)
(* by an attachment of each field to the path of its keyword.              *)
WriteKeywords(kws) == ToMap(kws)
InitKeywords(datasets) ==
  LET names == SelectSeq(NameOrder, LAMBDA n : n \in DOMAIN datasets)
  IN CreateKeywords([k \in DOMAIN names |-> <<names[k], datasets[names[k]][1]>>])
AttachKeywordsByPlace(kws, datasets) ==
  [k \in DOMAIN kws |-> [kws[k] EXCEPT !.val =
     datasets[SelectSeq(NameOrder, LAMBDA n : n \in DOMAIN datasets)[Len(kws) + 1 - k]][2]]]
AttachKeywords(kws, datasets) == [k \in DOMAIN kws |-> [kws[k] EXCEPT !.val = datasets[kws[k].name][2]]]

(* write_columnspace() and init_columnspace(): axes, flag, uid and the     *)
(* tree of the indexes.  A space whose tree has another rank than its axes *)
(* is read as an empty ColumnSpace.                                        *)
WriteSpace(md, pts) == [axes |-> md.axes, flag |-> md.flag, uid |-> md.uid, indexes |-> WriteTree(pts)]

EmptySpace == [axes |-> <<>>, uid |-> Nil, flag |-> FALSE, pts |-> {}]
InitSpace(grp) ==
  LET tree == ReadTree(grp.indexes) IN
  IF Rank(tree) # Len(grp.axes) THEN EmptySpace
  ELSE [axes |-> grp.axes, uid |-> grp.uid, flag |-> grp.flag, pts |-> SpaceOf(tree)]

(* write_column(): the extent of the dataset goes from the origin to the   *)
(* highest index on each axis; the values come through attachments.        *)
ColumnDataset(pts) == DatasetDims(pts)

WriteColumn(col, link) ==
  [dt |-> col.dt, fid |-> col.fid, link |-> link, refcol |-> col.rc,
   measure |-> IF col.mr = Nil THEN Nil ELSE WriteMeasureGroup(col.mr),
   kws |-> WriteKeywords(col.kws), col |-> ColumnDataset(col.cs.pts)]

(* write_table_columns(): a number for each ColumnSpace.  The version for  *)
(* a PhysicalTable writes with every space the metadata (axes, flag, uid)  *)
(* of the first column of the table.                                       *)
SpacesOf(t, names) == {t.cols[n].cs : n \in names}
Numbering(spaces) == CHOOSE f \in [spaces -> 0 .. Cardinality(spaces) - 1] :
                       \A s, u \in spaces : f[s] = f[u] => s = u

WriteTableWith(t, names, md) ==
  LET spaces == SpacesOf(t, names)  num == Numbering(spaces) IN
  [index_axes |-> t.ics.axes, tblidx |-> WriteSpace(t.ics, t.ics.pts),
   colsp |-> [k \in 0 .. Cardinality(spaces) - 1 |->
                LET s == CHOOSE u \in spaces : num[u] = k IN WriteSpace(md[s], s.pts)],
   columns |-> [n \in names |-> WriteColumn(t.cols[n], num[t.cols[n].cs])]]

EmptyGroup == [index_axes |-> <<>>, tblidx |-> Nil, colsp |-> <<>>, columns |-> [n \in {} |-> Nil]]

WriteTable(t, names) ==
  IF DOMAIN t.cols = {} THEN EmptyGroup
  ELSE LET present == names \intersect DOMAIN t.cols
       IN WriteTableWith(t, present, [s \in SpacesOf(t, present) |-> s])

WritePhysicalTable(t, first) ==
  IF DOMAIN t.cols = {} THEN EmptyGroup
  ELSE WriteTableWith(t, DOMAIN t.cols, [s \in SpacesOf(t, DOMAIN t.cols) |-> t.cols[first].cs])

(* acc_tflds_fn(), acc_cs_fn(), init_table(): the columns by the target of *)
(* their links.  Table::create asserts that no ColumnSpace is empty.       *)
InitField(grp, n) == InitMeasRef(grp.columns[n].measure, grp.columns[n].refcol = Nil)

InitColumn(grp, n) ==
  LET g == grp.columns[n] IN
  [cs |-> InitSpace(grp.colsp[g.link]), dt |-> g.dt, fid |-> g.fid, rc |-> g.refcol,
   mr |-> IF g.measure = Nil THEN Nil ELSE InitField(grp, n),
   kws |-> InitKeywords(g.kws)]

InitTable(grp) ==
  [ics |-> InitSpace(grp.tblidx), cols |-> [n \in DOMAIN grp.columns |-> InitColumn(grp, n)]]

MayInitTable(grp) ==
  /\ grp.tblidx # Nil
  /\ \A n \in DOMAIN grp.columns : InitColumn(grp, n).cs # EmptySpace

(* A Table is written as a PhysicalTable, whose first column may be any;   *)
(* and opened with the values of keywords attached.                        *)
PhysicalGroups(t) == {WritePhysicalTable(t, first) : first \in DOMAIN t.cols}

WithKeywords(grp) ==
  LET t == InitTable(grp) IN
  [t EXCEPT !.cols = [n \in DOMAIN @ |-> [@[n] EXCEPT !.kws = AttachKeywords(@, grp.columns[n].kws)]]]

(* get_table_column_paths(): the columns that have a dataset.              *)
ColumnPaths(grp, names) == {n \in names : n \in DOMAIN grp.columns}
===============================================================================

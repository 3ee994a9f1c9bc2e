------------------------------- MODULE MsToHdf5 -------------------------------
(***************************************************************************)
(* The program ms2h5 (src/hyperion/ms2h5.cc): a MeasurementSet's tables    *)
(* become tables of an HDF5 file.  A point task per table scans the cells; *)
(* one task writes the layout of all tables; then a task per block of rows *)
(* reads the cells into the attached datasets.  Clients open the tables of *)
(* the file, change them and write them to other groups.                   *)
(***************************************************************************)
EXTENDS Conversion

CONSTANTS MaxExports,   \* bound on the groups that clients write
          KwValues,     \* what clients write to keywords
          MayOpen(_),   \* whether a group can be opened as a table,
          OpenedAs(_),  \* the table it is then, with the values of its keywords,
          WrittenAs(_, _)   \* and the group that columns of a table are written as

VARIABLES
  opened,     \* a table that a client has opened, or Nothing
  exports     \* groups that clients have written, with the table they wrote

vars == <<selection, stage, names, rows, trees, tables, file, paths, toRead, data, opened, exports>>

(* get_args(), select() and collect_table_names(): exclusions are dropped  *)
(* if there are inclusions too; tables without rows are left out.          *)
EffectiveArgs(sel) ==
  IF \E k \in DOMAIN sel : ~ sel[k].except THEN SelectSeq(sel, LAMBDA a : ~ a.except) ELSE sel

Selected(sel, t) ==
  \/ sel = <<>>
  \/ (sel[1].except /\ \A k \in DOMAIN sel : sel[k].name # t)
  \/ (~ sel[1].except /\ \E k \in DOMAIN sel : sel[k].name = t)

Convertible(sel) == {t \in DOMAIN Source : Source[t].nrow > 0 /\ Selected(sel, t)}

Orders(S) == {f \in [1 .. Cardinality(S) -> S] :
                /\ \A i, j \in DOMAIN f : f[i] = f[j] => i = j
                /\ Main \in S => f[1] = Main}

Missing(sel) == {k \in DOMAIN sel : ~ sel[k].except /\ UpperCase[sel[k].name] \notin DOMAIN Source}

(* legion_deserialize() of the maps of paths: each map ends at an empty    *)
(* name, and so does the list of maps: it is cut at a map without entries. *)
Travelled(maps) ==
  LET empty == {i \in DOMAIN maps : maps[i] = {}}
  IN IF empty = {} THEN maps ELSE SubSeq(maps, 1, Min(empty) - 1)

BlockRowsShort(t, b) == {r \in 0 .. Source[t].nrow - 2 : BlockOf(r) = b}
BlockRows(t, b) == {r \in 0 .. Source[t].nrow - 1 : BlockOf(r) = b}

Init ==
  /\ selection \in Selections
  /\ stage = "start"
  /\ names = <<>> /\ paths = <<>>
  /\ rows = [t \in DOMAIN Source |-> 0]
  /\ trees = [t \in DOMAIN Source |-> [n \in Columns(Source[t]) |-> NoTree]]
  /\ tables = [t \in DOMAIN Source |-> Nothing]
  /\ file = NoFile /\ toRead = {} /\ data = NoGroups
  /\ opened = Nothing /\ exports = <<>>

(* args_ok() and what follows: the file must not be there yet.             *)
Start ==
  /\ stage = "start"
  /\ IF file # NoFile \/ Missing(EffectiveArgs(selection)) # {}
     THEN stage' = "refused" /\ UNCHANGED names
     ELSE stage' = "scan" /\ names' \in Orders(Convertible(EffectiveArgs(selection)))
  /\ UNCHANGED <<selection, rows, trees, tables, file, paths, toRead, data, opened, exports>>

(* Another program makes a file at the same path.                          *)
Intrude ==
  /\ file = NoFile /\ file' = Foreign
  /\ UNCHANGED <<selection, stage, names, rows, trees, tables, paths, toRead, data, opened, exports>>

(* read_table_from_ms_task of one table: row by row, then the Table.       *)
ScanRow(t) ==
  /\ stage = "scan" /\ t \in Range(names) /\ rows[t] < Source[t].nrow
  /\ trees' = [trees EXCEPT ![t] = [n \in DOMAIN @ |-> Grown(Source[t], n, @[n], rows[t])]]
  /\ rows' = [rows EXCEPT ![t] = @ + 1]
  /\ UNCHANGED <<selection, stage, names, tables, file, paths, toRead, data, opened, exports>>

MakeTable(t) ==
  /\ stage = "scan" /\ t \in Range(names) /\ rows[t] = Source[t].nrow /\ tables[t] = Nothing
  /\ \E tb \in TablesOf(Source[t], t, trees[t]) : tables' = [tables EXCEPT ![t] = tb]
  /\ UNCHANGED <<selection, stage, names, rows, trees, file, paths, toRead, data, opened, exports>>

(* create_h5_task: the file must be new (H5F_ACC_EXCL); else the assertion *)
(* of CHECK_H5 ends the program.                                           *)
CreateAnyway ==
  /\ stage = "scan" /\ \A t \in Range(names) : tables[t] # Nothing
  /\ file' = NewFile /\ stage' = "create"
  /\ UNCHANGED <<selection, names, rows, trees, tables, paths, toRead, data, opened, exports>>

CreateFile ==
  /\ stage = "scan" /\ \A t \in Range(names) : tables[t] # Nothing
  /\ IF file = NoFile THEN file' = NewFile /\ stage' = "create"
     ELSE stage' = "failed" /\ UNCHANGED file
  /\ UNCHANGED <<selection, names, rows, trees, tables, paths, toRead, data, opened, exports>>

WriteNext ==
  /\ stage = "create" /\ Len(paths) < Len(names)
  /\ LET t == names[Len(paths) + 1] IN
     \E grp \in GroupsOf(tables[t]) :
       /\ file' = [file EXCEPT !.groups = [u \in DOMAIN @ \union {t} |-> IF u = t THEN grp ELSE @[u]]]
       /\ paths' = Append(paths, PathsIn(grp, DOMAIN tables[t].cols))
  /\ UNCHANGED <<selection, stage, names, rows, trees, tables, toRead, data, opened, exports>>

(* Back in the top level task: the columns that have a path are attached.  *)
AttachColumns ==
  /\ stage = "create" /\ Len(paths) = Len(names)
  /\ paths' = Travelled(paths)
  /\ toRead' = UNION {{<<t, b>> : b \in RowBlocksOf(t)} : t \in Range(names)}
  /\ data' = [x \in UNION {{<<t, n>> : n \in DOMAIN tables[t].cols} : t \in Range(names)} |-> NoGroups]
  /\ stage' = "read"
  /\ UNCHANGED <<selection, names, rows, trees, tables, file, opened, exports>>

(* TableReadTask of a block of rows, for every column of the table.        *)
PointsOf(t, n, b) == {p \in tables[t].cols[n].cs.pts : p[1] \in BlockRows(t, b)}

WithValues(d, pts, t, n, row) ==
  [p \in pts \union DOMAIN d |-> IF p \in pts THEN CellAt(Source[t], n, p, row) ELSE d[p]]

ReadBlock(t, b) ==
  /\ stage = "read" /\ <<t, b>> \in toRead
  /\ LET i == CHOOSE k \in DOMAIN names : names[k] = t
         reached == {n \in DOMAIN tables[t].cols : i <= Len(paths) /\ n \in paths[i]}
     IN data' = [x \in DOMAIN data |->
                   IF x[1] = t /\ x[2] \in reached
                   THEN WithValues(data[x], PointsOf(t, x[2], b), t, x[2], FirstRow(b))
                   ELSE data[x]]
  /\ toRead' = toRead \ {<<t, b>>}
  /\ UNCHANGED <<selection, stage, names, rows, trees, tables, file, paths, opened, exports>>

Finish ==
  /\ stage = "read" /\ toRead = {} /\ stage' = "done"
  /\ UNCHANGED <<selection, names, rows, trees, tables, file, paths, toRead, data, opened, exports>>

(* A client: init_table(), with the values of keywords attached; write a   *)
(* keyword; write_table() of a selection of columns to a new group, and    *)
(* open that group in turn.                                                *)
OpenGroup(grp) == MayOpen(grp) /\ opened' = OpenedAs(grp)

OpenFromFile(t) ==
  /\ stage = "done" /\ opened = Nothing /\ t \in DOMAIN file.groups
  /\ OpenGroup(file.groups[t])
  /\ UNCHANGED <<selection, stage, names, rows, trees, tables, file, paths, toRead, data, exports>>

SetKeyword(n, val) ==
  /\ opened # Nothing /\ n \in DOMAIN opened.cols /\ Len(exports) < MaxExports
  /\ \E fid \in Fids(opened.cols[n].kws) :
       opened' = [opened EXCEPT !.cols[n].kws = WriteKeyword(@, fid, @[fid + 1].tag, val)]
  /\ UNCHANGED <<selection, stage, names, rows, trees, tables, file, paths, toRead, data, exports>>

Export ==
  /\ opened # Nothing /\ Len(exports) < MaxExports
  /\ \E sel \in SUBSET DOMAIN opened.cols :
       exports' = Append(exports, [from |-> opened, sel |-> sel, grp |-> WrittenAs(opened, sel)])
  /\ UNCHANGED <<selection, stage, names, rows, trees, tables, file, paths, toRead, data, opened>>

OpenExport ==
  /\ exports # <<>> /\ OpenGroup(Last(exports).grp)
  /\ UNCHANGED <<selection, stage, names, rows, trees, tables, file, paths, toRead, data, exports>>

Next ==
  \/ Start \/ Intrude \/ CreateFile \/ WriteNext \/ AttachColumns \/ Finish
  \/ \E t \in DOMAIN Source : ScanRow(t) \/ MakeTable(t) \/ OpenFromFile(t)
  \/ \E t \in DOMAIN Source : \E b \in RowBlocksOf(t) : ReadBlock(t, b)
  \/ \E n \in UNION {Columns(Source[t]) : t \in DOMAIN Source}, v \in KwValues : SetKeyword(n, v)
  \/ Export \/ OpenExport

Spec == Init /\ [][Next]_vars
===============================================================================

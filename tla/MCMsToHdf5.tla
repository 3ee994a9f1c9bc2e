----------------------------- MODULE MCMsToHdf5 -----------------------------
(***************************************************************************)
(* MsToHdf5 with the builders of MsBuilder and the layout of Hdf5File, and *)
(* what they promise together.                                             *)
(***************************************************************************)
EXTENDS MsToHdf5, MsBuilder

ASSUME MeasuresAssumption ==
  \A t \in DOMAIN Source : \A n \in DOMAIN Source[t].cols :
    Source[t].cols[n].meas # Nil => MayCreate(Source[t].cols[n].meas.refs)

-----------------------------------------------------------------------------
(* A table read from the file has the columns that were built, with their  *)
(* types, fields, indexes, keywords and measure references; their axes and *)
(* ColumnSpaces if the table has a single ColumnSpace.                     *)
FileAsBuilt ==
  (stage = "done" /\ file # Foreign) =>
    \A t \in DOMAIN file.groups :
      LET tb == tables[t]  back == InitTable(file.groups[t])  one == Cardinality({tb.cols[n].cs : n \in DOMAIN tb.cols}) = 1 IN
      /\ DOMAIN back.cols = DOMAIN tb.cols /\ back.ics = tb.ics
      /\ one => MayInitTable(file.groups[t])
      /\ \A n \in DOMAIN tb.cols :
           LET c == tb.cols[n]  b == back.cols[n] IN
           /\ b.dt = c.dt /\ b.fid = c.fid /\ Range(Keys(b.kws)) = Range(Keys(c.kws))
           /\ c.mr = Nil <=> b.mr = Nil
           /\ c.mr # Nil => MakeRefs(b.mr) = MakeRefs(c.mr)
           /\ one => b.cs = c.cs
           /\ b.cs = EmptySpace \/ b.cs.pts = c.cs.pts

(* The ColumnSpace group of a column has the axes of the column's own      *)
(* ColumnSpace, whatever other ColumnSpaces the table has.  TLC refutes it  *)
(* for a table of two ColumnSpaces (hdf5.cc:1138); no run carries it.      *)
SpacesReadBack ==
  (stage = "done" /\ file # Foreign) =>
    \A t \in DOMAIN file.groups : \A n \in DOMAIN file.groups[t].columns :
      file.groups[t].colsp[file.groups[t].columns[n].link].axes = tables[t].cols[n].cs.axes

(* The ColumnSpace of a column that was built has the axes of the column.  *)
(* TLC refutes it: columns are grouped by index tree alone                 *)
(* (TableBuilder.h:160), so one with an equal tree may lend its axes; no   *)
(* run carries it.                                                         *)
OwnAxes ==
  \A t \in {s \in DOMAIN tables : tables[s] # Nothing} : \A n \in DOMAIN tables[t].cols :
    tables[t].cols[n].cs.axes = ColumnAxes(Source[t], n)

(* A table written through its Table and opened again is the table, as far *)
(* as its columns were selected: ColumnSpaces, fields, measure references  *)
(* and the values of the keywords, by name, after any number of rounds.    *)
ExportReadBack ==
  \A i \in DOMAIN exports :
    LET e == exports[i]  back == WithKeywords(e.grp) IN
    DOMAIN e.from.cols # {} =>
      /\ MayInitTable(e.grp) /\ back.ics = e.from.ics /\ DOMAIN back.cols = e.sel
      /\ \A n \in e.sel :
           LET c == e.from.cols[n]  b == back.cols[n] IN
           /\ [b EXCEPT !.kws = <<>>] = [c EXCEPT !.kws = <<>>]
           /\ ToMap(b.kws) = ToMap(c.kws)

(* The trees that the scan builds stand for the places of the cells of the *)
(* rows scanned, and say so by all their operations: paths in order, size, *)
(* envelope, prefixes, growth, repetition and serialized form (IndexTree). *)
ScannedPaths(t, n) ==
  {<<c[2]>> \o Reverse(c[3]) : c \in {d \in CellsOf(Source[t], n) : d[2] < rows[t]}}

Before(p, q) == \E k \in DOMAIN p : k \in DOMAIN q /\ p[k] < q[k] /\ \A j \in 1 .. k - 1 : p[j] = q[j]

TreeSays(tr, P) ==
  /\ PathsOf(tr) = P /\ Size(tr) = Cardinality(P)
  /\ LET c == Coords(tr) IN Range(c) = P /\ \A i \in 1 .. Len(c) - 1 : Before(c[i], c[i + 1])
  /\ Rank(tr) # NoRank => SpaceOf(tr) = P
  /\ Height(tr) = Max({Len(p) : p \in P}) - 1
  /\ Deserialize(Serialize(tr)) = tr /\ Len(Serialize(tr)) = SerializedSize(tr)
  /\ LET deep(k) == {p[k] : p \in {q \in P : Len(q) >= k}} IN
     Envelope(tr) = [k \in 1 .. Height(tr) + 1 |-> <<Min(deep(k)), Max(deep(k))>>]
  /\ PathsOf(Pruned(tr, 0)) = {<<p[1]>> : p \in P}
  /\ PathsOf(GrowLeaves(tr, Leaves(2))) = {Append(p, i) : p \in P, i \in {0, 1}}
  /\ PathsOf(GrowAt(tr, <<>>, [p \in P |-> Leaves(p[1] + 1)])) =
       UNION {{Append(p, i) : i \in 0 .. p[1]} : p \in P}
  /\ ~ LessThan(tr, tr)
  /\ Size(Pattern(tr, 2 * Size(tr))) = 2 * Size(tr)

TreesStandForCells ==
  /\ PointsAreCells
  /\ \A t \in DOMAIN Source : rows[t] > 0 =>
       \A n \in DOMAIN trees[t] : TreeSays(trees[t][n], ScannedPaths(t, n))

-----------------------------------------------------------------------------
(* A main table with ragged, fixed and measured columns, a column with a   *)
(* cell missing and an undocumented one; a sub-table with two columns of   *)
(* one shape and different axes; a sub-table without rows.                 *)

Plain(t) == Ref(t, NoComps)
Offset(t, v) == Ref(t, 1 :> Measure("epoch", <<v>>, Plain(1)))
Frame(t) == Ref(t, (2 :> Measure("epoch", <<3>>, Plain(2))) @@ (4 :> Measure("direction", <<1, 2>>, Plain(1))))
Meas(refs, rc) == [mclass |-> "epoch", refs |-> refs, refcol |-> rc]
Scalar(fid, meas, kws) == [axes |-> <<>>, dt |-> "double", fid |-> fid, fixed |-> NoShape,
                           shapes |-> [r \in 0 .. 2 |-> <<>>], meas |-> meas, kws |-> kws]
Array(fid, axes, fixed, shapes) == [axes |-> axes, dt |-> "float", fid |-> fid, fixed |-> fixed,
                                    shapes |-> shapes, meas |-> Nil, kws |-> <<>>]

MCMain == [nrow |-> 3, cols |->
  ("TIME" :> Scalar(0, Meas(<<Offset(4, 7), Offset(6, 8)>>, "TIME_REF"), <<<<"units", "string">>, <<"n", "int">>>>))
  @@ ("DATA" :> Array(1, <<5, 6>>, NoShape, (0 :> <<1, 2>>) @@ (1 :> <<1, 2>>) @@ (2 :> <<3, 1>>)))
  @@ ("FLAG" :> Array(2, <<5, 6>>, NoShape, (0 :> <<1, 2>>) @@ (1 :> <<1, 2>>) @@ (2 :> <<3, 1>>)))
  @@ ("UVW" :> Array(3, <<7>>, <<2>>, (0 :> <<2>>) @@ (1 :> <<2>>) @@ (2 :> <<2>>)))
  @@ ("SIGMA" :> Array(4, <<8>>, NoShape, (0 :> <<2>>) @@ (1 :> NoShape) @@ (2 :> <<2>>)))
  @@ ("TIME_REF" :> Array(9, Unlisted, NoShape, [r \in 0 .. 2 |-> <<>>]))]
MCAntenna == [nrow |-> 2, cols |->
  ("POSITION" :> [Array(0, <<1>>, <<3>>, (0 :> <<3>>) @@ (1 :> <<3>>)) EXCEPT
                   !.meas = Meas(<<Frame(2)>>, Nil), !.kws = <<<<"units", "string">>, <<"n", "string">>>>])
  @@ ("OFFSET" :> Array(1, <<2>>, <<3>>, (0 :> <<3>>) @@ (1 :> <<3>>)))]
MCEmpty == [nrow |-> 0, cols |-> "TIME" :> Scalar(0, Nil, <<>>)]

MCSource == ("MAIN" :> MCMain) @@ ("ANTENNA" :> MCAntenna) @@ ("DOPPLER" :> MCEmpty)
Arg(e, n) == [except |-> e, name |-> n]
MCSelections == {<<>>, <<Arg(FALSE, "ANTENNA")>>, <<Arg(TRUE, "MAIN")>>, <<Arg(TRUE, "ANTENNA"), Arg(FALSE, "MAIN")>>,
                 <<Arg(FALSE, "antenna")>>, <<Arg(FALSE, "WEATHER")>>}
MCUpperCase == [n \in {"MAIN", "ANTENNA", "DOPPLER", "WEATHER"} |-> n] @@ ("antenna" :> "ANTENNA")
MCNameOrder == <<"n", "units">>
===============================================================================

---------------------------- MODULE TableColumns ----------------------------
(***************************************************************************)
(* The life of one Table value: created over an index ColumnSpace with its *)
(* first columns, given more columns, stripped of some, destroyed.         *)
(***************************************************************************)
EXTENDS TableStorage

CONSTANTS
  RowAxis,     \* the axis number of ROW (zero in the code)
  MaxNew       \* bound: columns added by one call

ASSUME TableAssumption == MaxNew \in Nat

VARIABLE phase       \* "none", "live" or "destroyed"

vars == <<phase, columns, forest>>

TypeOK ==
  /\ phase \in {"none", "live", "destroyed"}
  /\ columns \in [Name -> Column \cup {NoColumn}]
  /\ ForestTypeOK

\* The arguments of a call that adds columns: fields_t.
NewColumns ==
  UNION {[N -> TableField] : N \in {M \in SUBSET Name : Cardinality(M) <= MaxNew}}

Init ==
  /\ phase = "none"
  /\ columns = NoColumns
  /\ ForestInit

IndexSpacesIn(S) == S \cap IndexSpaces

\* Table::create: index ColumnSpaces have one axis, an index axis, each index
\* axis at most once, and only the row axis may go without an index column.
CoversIndex(S) ==
  /\ \A s \in IndexSpacesIn(S) :
       /\ Len(AxesOf[s]) = 1
       /\ \E i \in 1 .. Len(IndexAxes) : IndexAxes[i] = AxesOf[s][1]
  /\ \A i \in 1 .. Len(IndexAxes) :
       \/ \E s \in IndexSpacesIn(S) : AxesOf[s][1] = IndexAxes[i]
       \/ IndexAxes[i] = RowAxis

\* The regions of ColumnSpaces that store no column yet are made as well.
Create(new, kws) ==
  /\ phase = "none"
  /\ CoversIndex({new[n].cs : n \in DOMAIN new})
  /\ \E made \in [NewSpaces(NoColumns, new) -> Region] :
       /\ AllocateColumns(NoColumns, new, made, kws)
       /\ columns' = WithNew(NoColumns, new, made)
  /\ phase' = "live"

AddColumns(new, kws) ==
  /\ phase = "live"
  /\ new # <<>>
  /\ \E made \in [NewSpaces(columns, new) -> Region] :
       /\ AllocateColumns(columns, new, made, kws)
       /\ columns' = WithNew(columns, new, made)
  /\ UNCHANGED phase

\* Table::remove_columns.  The static function's test for index columns is
\* never reached: remove_all is computed from the removed names alone.
RemoveColumns(rm) ==
  /\ phase = "live"
  /\ rm \subseteq Present(columns)
  /\ rm # {}
  /\ FreeColumns(columns, rm, rm)
  /\ columns' = Without(columns, rm)
  /\ UNCHANGED phase

Destroy ==
  /\ phase = "live"
  /\ FreeColumns(columns, Present(columns), Present(columns))
  /\ columns' = NoColumns
  /\ phase' = "destroyed"

Next ==
  \/ \E new \in NewColumns : \E kws \in SUBSET DOMAIN new :
       Create(new, kws) \/ AddColumns(new, kws)
  \/ \E rm \in SUBSET Name : RemoveColumns(rm)
  \/ Destroy

Spec == Init /\ [][Next]_vars

-----------------------------------------------------------------------------
(***************************************************************************)
(* A comment in the static Table::remove_columns (Table.cc:1404) says that *)
(* removing all columns is "necessary if index columns are to be removed": *)
(* a table that has columns keeps its index columns.  TLC refutes it with  *)
(* one call, since remove_all is always true; no run carries it.           *)
(***************************************************************************)
IndexColumnsKept ==
  Present(columns) # {} => CoversIndex(SpacesOf(columns))

=============================================================================

---------------------------- MODULE TableSession ----------------------------
(***************************************************************************)
(* A session of an application with one table of an HDF5 file, as gridder  *)
(* runs it: the Table is opened, a PhysicalTable with all its columns is   *)
(* attached to the file, columns are added through the PhysicalTable and   *)
(* removed again, file columns are detached and attached, and the Table is *)
(* destroyed.  Table and PhysicalTable hold separate maps of the same      *)
(* columns, so what one does to the shared storage the other does not see. *)
(***************************************************************************)
EXTENDS ColumnForest

CONSTANTS
  FileName,    \* the columns with a path in the file
  Mode,        \* (read-only, restricted, mapped) triples
  NoInstance,  \* "no PhysicalRegion"
  MaxNew       \* bound: columns added by one call

\* PhysicalRegions: of an attached file or of an inline mapping.
Instance == [kind : {"file", "inline"}, region : Region, fids : SUBSET Field]

ASSUME SessionAssumption ==
  /\ FileName \subseteq Name
  /\ NoInstance \notin Instance
  /\ MaxNew \in Nat

VARIABLES
  phase,       \* "closed", "open", "attached", "cleanup" or "done"
  table,       \* m_columns of the Table
  physical,    \* m_columns of the PhysicalTable
  values,      \* m_values of the PhysicalColumns
  attached,    \* m_attached of the PhysicalTable
  files,       \* file attachments the runtime holds
  released     \* file columns the application named in a last detach

vars == <<phase, table, physical, values, attached, files, released, forest>>

TypeOK ==
  /\ phase \in {"closed", "open", "attached", "cleanup", "done"}
  /\ table \in [Name -> Column \cup {NoColumn}]
  /\ physical \in [Name -> Column \cup {NoColumn}]
  /\ values \in [Name -> Instance \cup {NoInstance}]
  /\ attached \in [Name -> Instance \cup {NoInstance}]
  /\ files \subseteq Instance
  /\ released \subseteq Name
  /\ ForestTypeOK

NewColumns(N) ==
  UNION {[M -> TableField] : M \in {L \in SUBSET N : Cardinality(L) <= MaxNew}}

NoInstances == [n \in Name |-> NoInstance]

Attached == {n \in Name : attached[n] # NoInstance}

Init ==
  /\ phase = "closed"
  /\ table = NoColumns
  /\ physical = NoColumns
  /\ values = NoInstances
  /\ attached = NoInstances
  /\ files = {}
  /\ released = {}
  /\ ForestInit

\* init_table: the Table with the columns found in the file.
OpenTable(new, made, kws) ==
  /\ phase = "closed"
  /\ new # <<>>
  /\ AllocateColumns(NoColumns, new, made, kws)
  /\ table' = WithNew(NoColumns, new, made)
  /\ phase' = "open"
  /\ UNCHANGED <<physical, values, attached, files, released>>

\* The columns N with the same region and mode are attached as one.
Group(cols, N, mode, n) ==
  [kind |-> "file",
   region |-> cols[n].region,
   fids |-> {cols[m].fid : m \in {l \in N :
               cols[l].region = cols[n].region /\ mode[l] = mode[n]}}]

\* PhysicalTable::attach_columns, after its two tests.
AttachTo(cols, N, mode) ==
  /\ files' = files \cup {Group(cols, N, mode, n) : n \in N}
  /\ values' = [n \in Name |->
       IF n \in N THEN Group(cols, N, mode, n) ELSE values[n]]
  /\ attached' = [n \in Name |->
       IF n \in N THEN Group(cols, N, mode, n) ELSE attached[n]]

\* Table::attach_columns: a PhysicalTable with the columns of the Table.
AttachTable(mode) ==
  /\ phase = "open"
  /\ phase' = "attached"
  /\ physical' = table
  /\ AttachTo(table, Present(table), mode)
  /\ UNCHANGED <<table, released, forest>>

\* A mutant of AttachColumns without the test of m_attached.
AttachAgain(N, mode) ==
  /\ phase = "attached"
  /\ N # {} /\ N \subseteq Present(physical) \cap FileName
  /\ AttachTo(physical, N, mode)
  /\ UNCHANGED <<phase, table, physical, released, forest>>

\* PhysicalTable::attach_columns, of columns that were detached: nothing is
\* done when one of the columns named is attached already.
AttachColumns(N, mode) ==
  /\ phase = "attached"
  /\ N # {} /\ N \subseteq Present(physical) \cap FileName
  /\ N \cap Attached = {}
  /\ AttachTo(physical, N, mode)
  /\ UNCHANGED <<phase, table, physical, released, forest>>

\* A mutant of DetachColumns that forgets only the columns it was told.
DetachNamed(N) ==
  LET gone == {attached[n] : n \in N \cap Attached} IN
  /\ phase \in {"attached", "cleanup"}
  /\ N # {}
  /\ files' = files \ gone
  /\ values' = [n \in Name |->
       IF n \in N \cap Attached THEN NoInstance ELSE values[n]]
  /\ attached' = [n \in Name |-> IF n \in N THEN NoInstance ELSE attached[n]]
  /\ released' = IF phase = "cleanup" THEN released \cup N ELSE released
  /\ UNCHANGED <<phase, table, physical, forest>>

\* PhysicalTable::detach_columns: every column that shares a PhysicalRegion
\* with a named one leaves m_attached, but only named ones lose m_values.
DetachColumns(N) ==
  LET gone == {attached[n] : n \in N \cap Attached} IN
  /\ phase \in {"attached", "cleanup"}
  /\ N # {}
  /\ files' = files \ gone
  /\ values' = [n \in Name |->
       IF n \in N \cap Attached THEN NoInstance ELSE values[n]]
  /\ attached' = [n \in Name |->
       IF attached[n] \in gone THEN NoInstance ELSE attached[n]]
  /\ released' = IF phase = "cleanup" THEN released \cup N ELSE released
  /\ UNCHANGED <<phase, table, physical, forest>>

\* PhysicalTable::add_columns: the new fields of a region are mapped as one.
\* For a ColumnSpace that stores no column yet, is_conformant is given the
\* values of the index column for its metadata: the runtime aborts the program
\* for want of the field.  So columns only join ColumnSpaces in use.
AddColumns(new, kws) ==
  /\ phase = "attached"
  /\ new # <<>>
  /\ NewSpaces(physical, new) = {}
  /\ AllocateColumns(physical, new, <<>>, kws)
  /\ physical' = WithNew(physical, new, <<>>)
  /\ values' = [n \in Name |->
       IF n \in DOMAIN new
       THEN LET r == RegionFor(physical, <<>>, new[n].cs) IN
            [kind |-> "inline", region |-> r,
             fids |-> Taken(physical, new, <<>>, r)]
       ELSE values[n]]
  /\ UNCHANGED <<phase, table, attached, files, released>>

\* A mutant of RemoveColumns that frees columns and keeps them in m_columns.
RemoveUnforgotten(rm) ==
  /\ phase \in {"attached", "cleanup"}
  /\ rm # {} /\ rm \subseteq Present(physical) \ Present(table)
  /\ phase' = "cleanup"
  /\ FreeColumns(physical, rm, Present(physical))
  /\ UNCHANGED <<physical, values, attached, table, files, released>>

\* PhysicalTable::remove_columns of columns the application added: the named
\* columns are freed, then the loop drops every column of the PhysicalTable.
RemoveColumns(rm) ==
  /\ phase \in {"attached", "cleanup"}
  /\ rm # {} /\ rm \subseteq Present(physical) \ Present(table)
  /\ phase' = "cleanup"
  /\ FreeColumns(physical, rm, Present(physical))
  /\ physical' = NoColumns
  /\ values' = NoInstances
  /\ attached' = NoInstances
  /\ UNCHANGED <<table, files, released>>

\* Table::destroy, at the end of a session that named every file column in a
\* detach.
DestroyTable ==
  /\ phase = "cleanup"
  /\ Present(table) \subseteq released
  /\ FreeColumns(table, Present(table), Present(table))
  /\ table' = NoColumns
  /\ phase' = "done"
  /\ UNCHANGED <<physical, values, attached, files, released>>

Next ==
  \/ \E new \in NewColumns(FileName) :
       \E made \in [NewSpaces(NoColumns, new) -> Region], kws \in SUBSET DOMAIN new :
         OpenTable(new, made, kws)
  \/ \E mode \in [Present(table) -> Mode] : AttachTable(mode)
  \/ \E N \in SUBSET FileName : \E mode \in [N -> Mode] : AttachColumns(N, mode)
  \/ \E N \in SUBSET Name : DetachColumns(N)
  \/ \E new \in NewColumns(Name \ FileName) :
       \E kws \in SUBSET DOMAIN new : AddColumns(new, kws)
  \/ \E rm \in SUBSET Name : RemoveColumns(rm)
  \/ DestroyTable

Spec == Init /\ [][Next]_vars

-----------------------------------------------------------------------------
(***************************************************************************)
(* What the application does through the PhysicalTable (adding columns to  *)
(* the regions of the Table's columns and removing them) never takes       *)
(* region, field or ColumnSpace away from a column of the Table, which     *)
(* does not know of it and will use and destroy them at the end.  (Their   *)
(* Keywords and MeasRefs it does take away: RemoveColumns drops them all.) *)
(***************************************************************************)
TableUnaffected == Backed(table)

(***************************************************************************)
(* The PhysicalTable's own columns stay backed through attaching, adding   *)
(* and removing, until the Table they came from is destroyed.              *)
(***************************************************************************)
PhysicalBacked == phase # "done" => Backed(physical) /\ Separate(physical)

(***************************************************************************)
(* m_attached, m_values and the runtime agree: a column listed as attached *)
(* reads the instance listed, and that attachment is still held.  detach   *)
(* of one column detaches the instance of all columns that share it.       *)
(***************************************************************************)
AttachedIsHeld ==
  \A n \in Attached : attached[n] \in files /\ values[n] = attached[n]

(***************************************************************************)
(* No field is attached twice, however often columns of a region are       *)
(* detached and attached again in other groups and modes.                  *)
(***************************************************************************)
AttachmentsDisjoint ==
  \A a, b \in files : a.region = b.region /\ a.fids \cap b.fids # {} => a = b

(***************************************************************************)
(* "we must detach all columns sharing the PhysicalRegion", says           *)
(* PhysicalTable::detach_columns (PhysicalTable.cc:1533): no column is     *)
(* left with a PhysicalRegion that was detached.  TLC refutes it: only the *)
(* named columns lose their values; no run carries it.                     *)
(***************************************************************************)
DetachedTogether ==
  \A n \in Present(physical) :
    values[n] # NoInstance /\ values[n].kind = "file" => values[n] \in files

=============================================================================

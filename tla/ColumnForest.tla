---------------------------- MODULE ColumnForest ----------------------------
(***************************************************************************)
(* The storage of table columns in Legion, and the two static functions of *)
(* Table that every change of a table's columns goes through: add_columns  *)
(* (allocate fields for new columns) and remove_columns (free them).       *)
(* Table and PhysicalTable both call them, each with its own map from      *)
(* names to columns, so the map is a parameter here.                       *)
(*                                                                         *)
(* A column's values live in one field of one logical region; all columns  *)
(* over one ColumnSpace share a region.  Axis vectors, axes UIDs, index    *)
(* flags and conformance of the index spaces are fixed for a ColumnSpace   *)
(* when a client creates it, hence constants.                              *)
(***************************************************************************)
EXTENDS Naturals, FiniteSets, Sequences

CONSTANTS
  Name,        \* column names
  Space,       \* ColumnSpaces a client has created
  Region,      \* identities of logical regions: bounds the regions ever made
  Field,       \* FieldIDs named in TableFields
  NoColumn,    \* "no column of this name"
  NoSpace,     \* "no region with this identity was ever made"
  IndexAxes,   \* axis vector of the table's index ColumnSpace
  AxesOf,      \* axis vector of every ColumnSpace
  IndexSpaces, \* ColumnSpaces with the index flag
  SameUid,     \* ColumnSpaces with the axes UID of the table
  SameRows     \* ColumnSpaces whose domain conforms with the table's index

Column == [cs : Space, region : Region, fid : Field]

TableField == [cs : Space, fid : Field]

ASSUME ForestAssumption ==
  /\ NoColumn \notin Column
  /\ NoSpace \notin Space
  /\ IndexSpaces \subseteq Space
  /\ SameUid \subseteq Space
  /\ SameRows \subseteq Space

VARIABLES
  regions,     \* live logical regions of column values
  home,        \* the ColumnSpace over which a region was made
  fields,      \* fields allocated in the field space of a region
  spaces,      \* ColumnSpaces not yet destroyed
  keywords     \* names of the columns whose Keywords and MeasRef regions live

forest == <<regions, home, fields, spaces, keywords>>

ForestTypeOK ==
  /\ regions \subseteq Region
  /\ home \in [Region -> Space \cup {NoSpace}]
  /\ fields \in [Region -> SUBSET Field]
  /\ spaces \subseteq Space
  /\ keywords \subseteq Name

\* Before any table: the client's ColumnSpaces, and no region of values.
ForestInit ==
  /\ regions = {}
  /\ home = [r \in Region |-> NoSpace]
  /\ fields = [r \in Region |-> {}]
  /\ spaces = Space
  /\ keywords = {}

NoColumns == [n \in Name |-> NoColumn]

Present(cols) == {n \in Name : cols[n] # NoColumn}

Stored(cols, s) == {n \in Present(cols) : cols[n].cs = s}

SpacesOf(cols) == {cols[n].cs : n \in Present(cols)}

IsAxisPrefix(a, b) == Len(a) <= Len(b) /\ SubSeq(b, 1, Len(a)) = a

(***************************************************************************)
(* Table::is_conformant: a ColumnSpace that already stores a column of the *)
(* table, an index ColumnSpace over one of the index axes, or one whose    *)
(* leading axes are the index axes and whose domain agrees with the index. *)
(***************************************************************************)
IsConformant(cols, s) ==
  \/ Stored(cols, s) # {}
  \/ /\ s \in SameUid
     /\ s \notin IndexSpaces
     /\ IsAxisPrefix(IndexAxes, AxesOf[s])
     /\ s \in SameRows
  \/ /\ s \in SameUid
     /\ s \in IndexSpaces
     /\ Len(AxesOf[s]) = 1
     /\ \E i \in 1 .. Len(IndexAxes) : IndexAxes[i] = AxesOf[s][1]

DistinctAxes(S) == \A s, t \in S : AxesOf[s] = AxesOf[t] => s = t

\* The checks of the static add_columns, all made before the first change.
\* The function new gives the ColumnSpace and FieldID of every new column.
MayAdd(cols, new) ==
  /\ \A n \in DOMAIN new : IsConformant(cols, new[n].cs)
  /\ DistinctAxes(SpacesOf(cols) \cup {new[n].cs : n \in DOMAIN new})
  /\ DOMAIN new \cap Present(cols) = {}

\* The region a ColumnSpace's columns share: the one of its stored columns,
\* or a region that is made for it (made is injective on new ColumnSpaces).
RegionFor(cols, made, s) ==
  IF Stored(cols, s) # {}
  THEN cols[CHOOSE n \in Stored(cols, s) : TRUE].region
  ELSE made[s]

NewSpaces(cols, new) ==
  {s \in {new[n].cs : n \in DOMAIN new} : Stored(cols, s) = {}}

\* Logical regions get identities that were never used before.
Makes(cols, new, made) ==
  /\ made \in [NewSpaces(cols, new) -> {r \in Region : home[r] = NoSpace}]
  /\ \A s, t \in DOMAIN made : made[s] = made[t] => s = t

\* The map of a handle after the columns were added.
WithNew(cols, new, made) ==
  [n \in Name |->
     IF n \in DOMAIN new
     THEN [cs |-> new[n].cs,
           region |-> RegionFor(cols, made, new[n].cs),
           fid |-> new[n].fid]
     ELSE cols[n]]

\* The fields that the new columns take in region r.
Taken(cols, new, made, r) ==
  {new[n].fid :
     n \in {m \in DOMAIN new : RegionFor(cols, made, new[m].cs) = r}}

\* A mutant of FieldsFree that forgets to insert new fields into fids.
FieldsFreeBefore(cols, new, made) ==
  \A n \in DOMAIN new :
    new[n].fid \notin fields[RegionFor(cols, made, new[n].cs)]

\* assert(fids.count(tf.fid) == 0), for every new column in its turn.
FieldsFree(cols, new, made) ==
  \A n \in DOMAIN new :
    LET r == RegionFor(cols, made, new[n].cs) IN
    /\ new[n].fid \notin fields[r]
    /\ \A m \in DOMAIN new :
         /\ RegionFor(cols, made, new[m].cs) = r
         /\ new[m].fid = new[n].fid
         => m = n

(***************************************************************************)
(* The static Table::add_columns: make a region for every ColumnSpace that *)
(* has none, allocate one field per column.  kws are the new columns whose *)
(* TableField brings Keywords or a MeasRef.                                *)
(***************************************************************************)
AllocateColumns(cols, new, made, kws) ==
  /\ \A n \in DOMAIN new : new[n].cs \in spaces
  /\ MayAdd(cols, new)
  /\ Makes(cols, new, made)
  /\ FieldsFree(cols, new, made)
  /\ kws \subseteq DOMAIN new
  /\ regions' = regions \cup {made[s] : s \in DOMAIN made}
  /\ home' = [r \in Region |->
       IF \E s \in DOMAIN made : made[s] = r
       THEN CHOOSE s \in DOMAIN made : made[s] = r
       ELSE home[r]]
  /\ fields' = [r \in Region |-> fields[r] \cup Taken(cols, new, made, r)]
  /\ keywords' = keywords \cup kws
  /\ UNCHANGED spaces

\* The fields left in region r when the columns rm are freed.
FieldsLeft(cols, rm, r) ==
  fields[r] \ {cols[n].fid : n \in {m \in rm : cols[m].region = r}}

\* Mutants of Emptied: every region a dropped column used, and the regions
\* that had no field before the columns were freed.
EmptiedAny(cols, rm, dropped) == {cols[n].region : n \in dropped}

EmptiedBefore(cols, rm, dropped) ==
  {r \in {cols[n].region : n \in dropped} : fields[r] = {}}

\* Regions of the columns dropped that are left without a field.
Emptied(cols, rm, dropped) ==
  {r \in {cols[n].region : n \in dropped} : FieldsLeft(cols, rm, r) = {}}

(***************************************************************************)
(* The static Table::remove_columns frees the fields of the columns rm;    *)
(* its two callers then destroy the Keywords and MeasRefs of the columns   *)
(* they drop from their maps and, with its ColumnSpace, every region of    *)
(* those columns that is left without a field.                             *)
(***************************************************************************)
FreeColumns(cols, rm, dropped) ==
  LET gone == Emptied(cols, rm, dropped) IN
  /\ fields' = [r \in Region |-> FieldsLeft(cols, rm, r)]
  /\ regions' = regions \ gone
  /\ spaces' = spaces \
       {cols[n].cs : n \in {m \in dropped : cols[m].region \in gone}}
  /\ keywords' = keywords \ dropped
  /\ UNCHANGED home

\* The map of a handle after it dropped columns.
Without(cols, dropped) ==
  [n \in Name |-> IF n \in dropped THEN NoColumn ELSE cols[n]]

-----------------------------------------------------------------------------
(***************************************************************************)
(* What a handle's map and the forest have to do with each other.          *)
(***************************************************************************)

\* Every column a handle knows has its field, region and ColumnSpace.
Backed(cols) ==
  \A n \in Present(cols) :
    /\ cols[n].region \in regions
    /\ home[cols[n].region] = cols[n].cs
    /\ cols[n].fid \in fields[cols[n].region]
    /\ cols[n].cs \in spaces

\* No two columns share storage, and the columns of one ColumnSpace share
\* one region.
Separate(cols) ==
  \A m, n \in Present(cols) :
    /\ cols[m].cs = cols[n].cs => cols[m].region = cols[n].region
    /\ cols[m].region = cols[n].region /\ cols[m].fid = cols[n].fid => m = n

\* Every allocated field belongs to a column of the handle.
Accounted(cols) ==
  \A r \in regions :
    /\ fields[r] # {}
    /\ \A f \in fields[r] :
         \E n \in Present(cols) : cols[n].region = r /\ cols[n].fid = f

\* A region that is gone took its fields and its ColumnSpace with it.
CleanedUp ==
  \A r \in Region \ regions :
    /\ fields[r] = {}
    /\ home[r] \notin spaces

=============================================================================

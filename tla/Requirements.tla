---------------------------- MODULE Requirements ----------------------------
(***************************************************************************)
(* How a table travels.  Table::requirements and PhysicalTable::           *)
(* requirements flatten the selected columns of a table into a list of     *)
(* region requirements and a descriptor; PhysicalTable::create, in the     *)
(* launched task, and Table::legion_deserialize, for a table returned in a *)
(* future, walk the descriptor and take from the list what belongs to each *)
(* column.  Nothing but the order says which requirement is whose.         *)
(*                                                                         *)
(* A launch over a partition of the table asks for pieces of the columns:  *)
(* the partition of the table is projected onto each ColumnSpace, and the  *)
(* caller destroys, after the launch, the partitions it was given back.    *)
(*                                                                         *)
(* Columns are numbered in the iteration order of the unordered map that   *)
(* holds them, which can be any order.  Projection IDs are left out: they  *)
(* are 0 in all calls of the repository.                                   *)
(***************************************************************************)
EXTENDS Naturals, FiniteSets, SequencesExt

CONSTANTS
  NumColumns,  \* columns of the table
  Region,      \* regions of column values
  Index,       \* the region of the index column
  Tables,      \* tables: for each column its region, FieldID, extras (the
               \*   regions of its Keywords, two, and of its MeasRef, two or
               \*   three, in this order) and reference column, or 0
  Request,     \* Column::Requirements: [values : privilege, coherence, tag,
               \*   meta : those of the ColumnSpace, own : whether a partition
               \*   of the column's region is given]
  Calls,       \* calls: [sender : the class of the table, over : the argument
               \*   table_partition, none, one of the index column or one of
               \*   another ColumnSpace, ask : the requests of the columns]
  Omitted,     \* a column that is not selected
  NoPart,      \* LogicalPartition::NO_PART
  TablePart,   \* the partition that is passed as table_partition
  Default      \* the requirements used when a Table is serialized

Column == 1 .. NumColumns

ASSUME RequirementsAssumption ==
  /\ NumColumns \in Nat
  /\ Index \notin Region
  /\ Default \in Request
  /\ Omitted \notin Request
  /\ {NoPart, TablePart} \cap [of : Region \cup {Index}, nr : Nat] = {}
  /\ \A r \in Request : r.own \in BOOLEAN
  /\ \A t \in Tables : \A m, n \in Column :
       /\ t[m].region \in Region
       /\ t[m].extras \in Seq(STRING \ {"index", "metadata", "values"})
       /\ t[m].region = t[n].region /\ t[m].fid = t[n].fid => m = n
       /\ t[m].refcol \in (Column \cup {0}) \ {m}
       /\ t[m].refcol # 0 => t[m].extras # <<>>
  /\ \A c \in Calls :
       /\ c.sender \in {"table", "physical"}
       /\ c.over \in {"none", "index", "other"}
       /\ c.ask \in [Column -> Request \cup {Omitted}]

VARIABLES
  cols,        \* m_columns, one of Tables
  call,        \* the arguments, one of Calls
  phase,       \* "collect", "gather", "emit", "create", "deserialize", "done",
               \*   "aborted"
  colReqs,     \* column_reqs
  partitions,  \* the map of partitions, by region, and if they are new
  live,        \* partitions that were made and not destroyed
  returned,    \* the list of partitions, but those the caller has destroyed
  valReqs,     \* val_reqs
  reqs,        \* the list of region requirements
  desc,        \* columns of the descriptor, in order
  index,       \* what the receiver takes for the index ColumnSpace
  mdRegions,   \* md_regions of PhysicalTable::create, css of deserialize
  valRegions,  \* value_regions of PhysicalTable::create
  columns      \* what the receiver makes of the columns

sender == <<colReqs, partitions, valReqs>>
receiver == <<index, mdRegions, valRegions, columns>>
vars == <<cols, call, phase, sender, live, returned, reqs, desc, receiver>>

Selected == {n \in Column : call.ask[n] # Omitted}

\* A table is serialized with the default requirements for every column.
Serialized ==
  call.sender = "table" /\ call.over = "none" /\ call.ask = [n \in Column |-> Default]

TypeOK ==
  /\ cols \in Tables
  /\ call \in Calls
  /\ phase \in {"collect", "gather", "emit", "create", "deserialize", "done", "aborted"}
  /\ \A n \in Column : colReqs[n] = Omitted <=> call.ask[n] = Omitted
  /\ live \subseteq [of : Region \cup {Index}, nr : Nat]
  /\ desc \in Seq(Column)
  /\ DOMAIN columns \subseteq Column

Init ==
  /\ cols \in Tables
  /\ call \in Calls
  /\ phase = "collect"
  /\ colReqs = call.ask
  /\ partitions = <<>>
  /\ live = {}
  /\ returned = <<>>
  /\ valReqs = <<>>
  /\ reqs = <<>>
  /\ desc = <<>>
  /\ index = <<>>
  /\ mdRegions = <<>>
  /\ valRegions = <<>>
  /\ columns = <<>>

-----------------------------------------------------------------------------
(***************************************************************************)
(* The sender.                                                             *)
(***************************************************************************)

\* Columns of a region must agree on the metadata of their ColumnSpace, and a
\* selected column's reference column must be selected.
MayAsk ==
  \A m, n \in Selected :
    /\ cols[m].region = cols[n].region => call.ask[m].meta = call.ask[n].meta
    /\ cols[m].refcol # 0 => cols[m].refcol \in Selected

\* Columns whose reference column is n.
Referring(n) == {m \in Selected : cols[m].refcol = n}

\* A partition that the caller gave for a column, and the nr-th that is made.
OwnPart(n) == [of |-> cols[n].region, nr |-> 0]
Projected(r) == [of |-> r, nr |-> Len(partitions) + 1]

\* A Table keeps a partition that it makes and returns it; a PhysicalTable
\* destroys it as soon as it has the logical partition, and does not.
Keeps == call.sender = "table"
Entry(r, part) ==
  [region |-> r, part |-> part, isNew |-> Keeps /\ part = Projected(r)]
Made(part) == IF Keeps THEN {part} ELSE {}

\* A measure reference column is asked for as its value column is; of several
\* value columns, the last one in the iteration has its way.  Then the
\* partition of the table is projected onto the index column, if need be.
Collect ==
  /\ phase = "collect"
  /\ MayAsk
  /\ colReqs' = [n \in Column |->
       IF Referring(n) = {} THEN call.ask[n] ELSE call.ask[Max(Referring(n))]]
  /\ partitions' =
       IF call.over = "none" THEN <<>>
       ELSE <<Entry(Index, IF call.over = "index" THEN TablePart ELSE Projected(Index))>>
  /\ live' = IF call.over = "other" THEN Made(Projected(Index)) ELSE {}
  /\ phase' = "gather"
  /\ UNCHANGED <<cols, call, returned, valReqs, reqs, desc, receiver>>

\* assert(lr_mdreqs[...] == ...), or std::out_of_range of column_reqs.at
Abort ==
  /\ phase = "collect"
  /\ ~MayAsk
  /\ phase' = "aborted"
  /\ UNCHANGED <<cols, call, sender, live, returned, reqs, desc, receiver>>

\* A mutant of Key that puts all columns of a region together.
RegionKey(n) == <<cols[n].region, NoPart, NoPart>>

\* The key of val_reqs; a PhysicalTable does not look at a given partition.
Key(n) ==
  <<cols[n].region, colReqs[n].values,
    IF Keeps /\ colReqs[n].own THEN OwnPart(n) ELSE NoPart>>

Known(n) == Key(n) \in DOMAIN valReqs

Ungathered ==
  {n \in Selected : ~Known(n) \/ cols[n].fid \notin valReqs[Key(n)].fids}

\* The places of the partitions on record that serve a column; any of its
\* region serves one that has not its own.
Serving(n) ==
  {i \in DOMAIN partitions :
     /\ partitions[i].region = cols[n].region
     /\ Key(n)[3] # NoPart => partitions[i].part = Key(n)[3]}

\* The partition of a new requirement: the first that serves, the given one,
\* or a projection of the table's partition.
PartFor(n) ==
  IF call.over = "none" /\ Key(n)[3] = NoPart THEN NoPart
  ELSE IF Serving(n) # {} THEN partitions[Min(Serving(n))].part
  ELSE IF Key(n)[3] # NoPart THEN Key(n)[3]
  ELSE Projected(cols[n].region)

\* One column of the second loop.
Gather ==
  LET n == Min(Ungathered)
      key == Key(n)
      part == IF Known(n) THEN valReqs[key].part ELSE PartFor(n)
      fresh == ~Known(n) /\ part # NoPart /\ Serving(n) = {} IN
  /\ phase = "gather"
  /\ Ungathered # {}
  /\ valReqs' = [k \in DOMAIN valReqs \cup {key} |->
       IF k # key THEN valReqs[k]
       ELSE [part |-> part,
             fids |-> {cols[n].fid} \cup (IF Known(n) THEN valReqs[k].fids ELSE {})]]
  /\ partitions' =
       IF fresh THEN Append(partitions, Entry(cols[n].region, part)) ELSE partitions
  /\ live' = IF fresh /\ part = Projected(cols[n].region)
             THEN live \cup Made(part) ELSE live
  /\ UNCHANGED <<cols, call, phase, colReqs, returned, reqs, desc, receiver>>

IndexReqs ==
  <<[kind |-> "index_metadata"],
    [kind |-> "index",
     part |-> IF partitions = <<>> THEN NoPart ELSE partitions[1].part]>>

\* A mutant of Returned that does not avoid returning the table's partition.
ReturnedAll == [i \in DOMAIN partitions |-> partitions[i].part]

\* The partitions that were made, at their places on record.
Returned ==
  [i \in {j \in DOMAIN partitions : partitions[j].isNew} |-> partitions[i].part]

\* The list starts with the index column; the partitions to return are known.
Begin ==
  /\ phase = "gather"
  /\ Ungathered = {}
  /\ reqs' = IndexReqs
  /\ returned' = Returned
  /\ phase' = "emit"
  /\ UNCHANGED <<cols, call, sender, live, desc, receiver>>

Metadata(n) == [kind |-> "metadata", region |-> cols[n].region]

Values(n) ==
  [kind |-> "values", region |-> cols[n].region, mode |-> colReqs[n].values,
   part |-> valReqs[Key(n)].part, fids |-> valReqs[Key(n)].fids]

Extra(n) ==
  [i \in DOMAIN cols[n].extras |-> [kind |-> cols[n].extras[i], column |-> n]]

\* A mutant of Pushed that sends the metadata of a region for each mode.
PushedTwice(n) ==
  (IF Contains(reqs, Values(n)) THEN <<>> ELSE <<Metadata(n), Values(n)>>)
  \o Extra(n)

\* A mutant of Pushed that forgets to mark a values requirement as added.
PushedAgain(n) ==
  (IF Contains(reqs, Metadata(n)) THEN <<>> ELSE <<Metadata(n)>>)
  \o <<Values(n)>> \o Extra(n)

\* What column n adds to the list: requirements that were not "added" yet.
Pushed(n) ==
  (IF Contains(reqs, Metadata(n)) THEN <<>> ELSE <<Metadata(n)>>)
  \o (IF Contains(reqs, Values(n)) THEN <<>> ELSE <<Values(n)>>)
  \o Extra(n)

Unsent == {n \in Selected : ~Contains(desc, n)}

Emit ==
  LET n == Min(Unsent) IN
  /\ phase = "emit"
  /\ Unsent # {}
  /\ reqs' = reqs \o Pushed(n)
  /\ desc' = Append(desc, n)
  /\ UNCHANGED <<cols, call, phase, sender, live, returned, receiver>>

\* The task is launched, or the buffer of a future written.
Send ==
  /\ phase = "emit"
  /\ Unsent = {}
  /\ \/ phase' = "create"
     \/ Serialized /\ phase' = "deserialize"
  /\ UNCHANGED <<cols, call, sender, live, returned, reqs, desc, receiver>>

\* After the launch the caller destroys the partitions it was given.
Clean ==
  /\ phase \in {"create", "done"}
  /\ \E i \in DOMAIN returned :
       /\ live' = live \ {returned[i]}
       /\ returned' = Restrict(returned, DOMAIN returned \ {i})
  /\ UNCHANGED <<cols, call, phase, sender, reqs, desc, receiver>>

-----------------------------------------------------------------------------
(***************************************************************************)
(* The receivers, which take requirements from the head of reqs.           *)
(***************************************************************************)

\* Both begin with the metadata and the region of the index column.
TakeIndex ==
  /\ phase \in {"create", "deserialize"}
  /\ index = <<>>
  /\ Len(reqs) >= 2
  /\ index' = SubSeq(reqs, 1, 2)
  /\ reqs' = SubSeq(reqs, 3, Len(reqs))
  /\ UNCHANGED <<cols, call, phase, sender, live, returned, desc, mdRegions, valRegions,
                 columns>>

\* PhysicalTable::create, for the next column of the descriptor.
Create ==
  LET n == Head(desc)
      needMd == IF cols[n].region \in DOMAIN mdRegions THEN 0 ELSE 1
      vkey == <<cols[n].region, cols[n].fid>>
      needVal == IF vkey \in DOMAIN valRegions THEN 0 ELSE 1
      taken == needMd + needVal + Len(cols[n].extras)
      md == IF needMd = 0 THEN mdRegions[cols[n].region] ELSE reqs[1]
      val == IF needVal = 0 THEN valRegions[vkey] ELSE reqs[needMd + 1] IN
  /\ phase = "create"
  /\ index # <<>>
  /\ desc # <<>>
  /\ taken <= Len(reqs)
  /\ needVal = 1 => val.kind = "values" /\ val.region = cols[n].region
  /\ reqs' = SubSeq(reqs, taken + 1, Len(reqs))
  /\ desc' = Tail(desc)
  /\ mdRegions' = [r \in DOMAIN mdRegions \cup {cols[n].region} |->
       IF r = cols[n].region THEN md ELSE mdRegions[r]]
  /\ valRegions' = [k \in DOMAIN valRegions \cup
                          {<<cols[n].region, f>> : f \in val.fids} |->
       IF k[1] = cols[n].region /\ k[2] \in val.fids THEN val
       ELSE valRegions[k]]
  /\ columns' = [m \in DOMAIN columns \cup {n} |->
       IF m = n
       THEN [metadata |-> md, values |-> val,
             extras |-> SubSeq(reqs, needMd + needVal + 1, taken)]
       ELSE columns[m]]
  /\ UNCHANGED <<cols, call, phase, sender, live, returned, index>>

\* Table::legion_deserialize: the ColumnSpace of a region is its metadata
\* and the next requirement, whatever field that one was made for.
Deserialize ==
  LET n == Head(desc)
      need == IF cols[n].region \in DOMAIN mdRegions THEN 0 ELSE 2
      taken == need + Len(cols[n].extras)
      cs == IF need = 0 THEN mdRegions[cols[n].region]
            ELSE [md |-> reqs[1], is |-> reqs[2].region] IN
  /\ phase = "deserialize"
  /\ index # <<>>
  /\ desc # <<>>
  /\ taken <= Len(reqs)
  /\ reqs' = SubSeq(reqs, taken + 1, Len(reqs))
  /\ desc' = Tail(desc)
  /\ mdRegions' = [r \in DOMAIN mdRegions \cup {cols[n].region} |->
       IF r = cols[n].region THEN cs ELSE mdRegions[r]]
  /\ columns' = [m \in DOMAIN columns \cup {n} |->
       IF m = n
       THEN [metadata |-> cs.md, space |-> cs.is,
             extras |-> SubSeq(reqs, need + 1, taken)]
       ELSE columns[m]]
  /\ UNCHANGED <<cols, call, phase, sender, live, returned, index, valRegions>>

Received ==
  /\ phase \in {"create", "deserialize"}
  /\ index # <<>>
  /\ desc = <<>>
  /\ phase' = "done"
  /\ UNCHANGED <<cols, call, sender, live, returned, reqs, desc, receiver>>

Next ==
  \/ Collect
  \/ Abort
  \/ Gather
  \/ Begin
  \/ Emit
  \/ Send
  \/ Clean
  \/ TakeIndex
  \/ Create
  \/ Deserialize
  \/ Received

Spec == Init /\ [][Next]_vars /\ WF_vars(Next)

-----------------------------------------------------------------------------
\* The partition that a column's request means: its own, or one made of the
\* table's for its region.
Meant(n) ==
  LET r == cols[n].region IN
  CASE colReqs[n].own -> {OwnPart(n)}
    [] ~colReqs[n].own /\ call.over = "none" -> {NoPart}
    [] OTHER -> [of : {r}, nr : 1 .. Len(partitions)]

\* Of a table that is sent over a partition, columns of one region should all
\* have a partition of their own or none: a Table takes for a column without
\* its own the first one on record for its ColumnSpace, whoever gave it.
Unmixed(n) ==
  call.over # "none" =>
    \A m \in Selected : cols[m].region = cols[n].region => colReqs[m].own = colReqs[n].own

\* A PhysicalTable does not look at the partition that is given for a column:
\* calls that are heeded give it none.
AllHeeded ==
  \A c \in Calls : c.sender = "physical" =>
    \A n \in Column : c.ask[n] # Omitted => ~c.ask[n].own

(***************************************************************************)
(* However the columns share regions, fields, modes, partitions and        *)
(* extras, and in whatever order they are walked, each column gets its own *)
(* metadata, values (with the field, mode and partition that were asked    *)
(* for it), keywords and measure reference, and the columns are the        *)
(* selected ones.                                                          *)
(***************************************************************************)
ColumnsGetTheirOwn ==
  phase = "done" =>
    /\ index = IndexReqs
    /\ DOMAIN columns = Selected
    /\ \A n \in Selected :
         /\ columns[n].metadata = Metadata(n)
         /\ columns[n].extras = Extra(n)
         /\ IF "space" \in DOMAIN columns[n]
            THEN columns[n].space = cols[n].region
            ELSE /\ columns[n].values.region = cols[n].region
                 /\ columns[n].values.mode = colReqs[n].values
                 /\ Unmixed(n) => columns[n].values.part \in Meant(n)
                 /\ cols[n].fid \in columns[n].values.fids

(***************************************************************************)
(* No requirement is left over: PhysicalTable::create returns where it has *)
(* come to in the list, and create_many looks for the requirements of the  *)
(* next table there; create_all_unsafe asserts that the list ends there.   *)
(***************************************************************************)
AllTaken == phase = "done" => reqs = <<>>

(***************************************************************************)
(* "Any ColumnSpacePartitions returned from requirements() should          *)
(* eventually be destroyed by the caller" (Table.h:189-190): a launch of a *)
(* Table names no partition that is destroyed already, the caller destroys *)
(* none twice and none that it passed itself, and in the end none is left. *)
(* A PhysicalTable destroys its partitions before the launch: for it TLC   *)
(* refutes the first part.                                                 *)
(***************************************************************************)
PartitionsHandedOver ==
  Keeps =>
    /\ phase = "emit" =>
         \A i \in DOMAIN reqs :
           (/\ reqs[i].kind \in {"values", "index"}
            /\ reqs[i].part \notin {NoPart, TablePart} \cup {OwnPart(n) : n \in Column})
           => reqs[i].part \in live
    /\ IsInjective(returned) /\ ToSet(returned) \subseteq live
    /\ phase = "done" /\ DOMAIN returned = {} => live = {}

(***************************************************************************)
(* A receiver never runs out of requirements, for which create returns     *)
(* nothing, and never takes another column's for values: a table that can  *)
(* be sent arrives.                                                        *)
(***************************************************************************)
Arrives == <>(phase \in {"done", "aborted"})

=============================================================================

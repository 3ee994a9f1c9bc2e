--------------------------- MODULE MCRequirements ---------------------------
(***************************************************************************)
(* Three columns in up to two regions, with the same FieldIDs in both, of  *)
(* which the second may be the reference column of others; requested for   *)
(* reading or writing, with other modes for the metadata, with partitions  *)
(* of their own, and over partitions of the table.                         *)
(***************************************************************************)
EXTENDS Requirements

CONSTANTS A, B, ro, rw

MCRegion == {A, B}

Extras == {<<>>, <<"type_tags", "kw_values", "mr_metadata", "mr_values", "mr_index">>}

Regions == {r \in [Column -> MCRegion] : r[1] = A}
Fields(r) == [n \in Column |-> Cardinality({m \in 1 .. n : r[m] = r[n]})]

MCTables ==
  {[n \in Column |-> [region |-> r[n], fid |-> Fields(r)[n], extras |-> x[n],
                      refcol |-> IF n \in refs THEN 2 ELSE 0]] :
     <<r, x, refs>> \in
       {c \in Regions \X [Column -> Extras] \X SUBSET (Column \ {2}) :
          \A n \in c[3] : c[2][n] # <<>>}}

Read == [values |-> ro, meta |-> ro, own |-> FALSE]
Write == [Read EXCEPT !.values = rw]
Meta == [Read EXCEPT !.meta = rw]
Piece == [Read EXCEPT !.own = TRUE]

MCRequest == {Read, Write, Meta, Piece}

Asking(senders, over, some) ==
  [sender : senders, over : over, ask : [Column -> some \cup {Omitted}]]

MCCalls ==
  Asking({"table", "physical"}, {"none"}, {Read, Write, Meta})
  \cup Asking({"table", "physical"}, {"index", "other"}, {Read, Write})
  \cup Asking({"table"}, {"none", "other"}, {Read, Piece})

ASSUME MCCallsAreHeeded == AllHeeded

=============================================================================

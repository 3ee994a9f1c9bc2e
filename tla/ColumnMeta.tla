------------------------------ MODULE ColumnMeta ------------------------------
(***************************************************************************)
(* The life of what a column of measures carries: created with the column, *)
(* cloned by PhysicalTable::reindexed, read, written and destroyed.        *)
(***************************************************************************)
EXTENDS ColumnContent

CONSTANT MaxOps      \* bound on the operations of a behaviour

VARIABLE ops

vars == <<mrs, source, refcol, codes, stored, written, kwsets, said, ops>>

(* The references' codes are their types, as get_meas_refs() has them; a   *)
(* column without a column of codes has none.                              *)
CodesOf(indexed, refs) == IF indexed THEN [k \in DOMAIN refs |-> refs[k].rtype] ELSE <<>>

Init ==
  /\ mrs = [s \in Slots |-> Absent] /\ source = [s \in Slots |-> Absent]
  /\ refcol \in BOOLEAN
  /\ codes = [r \in Rows |-> 0]
  /\ stored = [r \in Rows |-> Blank] /\ written = [r \in Rows |-> Absent]
  /\ kwsets = [s \in Slots |-> Absent] /\ said = [s \in Slots |-> Absent]
  /\ ops = 0

Op == ops < MaxOps /\ ops' = ops + 1

(* The column's MeasRef and Keywords, when the table is created: a column  *)
(* without a column of codes has a single reference.                       *)
CreateColumn(s, refs, desc) ==
  /\ Op /\ ~ Live(s) /\ \A t \in Slots : ~ Own(t)
  /\ AcceptRefs(refs) /\ (~ refcol => Len(refs) = 1)
  /\ mrs' = [mrs EXCEPT ![s] = RegionsOf(refs, CodesOf(refcol, refs), Class)]
  /\ source' = [source EXCEPT ![s] = <<refs, CodesOf(refcol, refs), TRUE>>]
  /\ codes' = [r \in Rows |-> refs[1].rtype]
  /\ kwsets' = [kwsets EXCEPT ![s] = CreateKeywords(desc)]
  /\ said' = [said EXCEPT ![s] = [name \in {desc[k][1] : k \in DOMAIN desc} |-> Unwritten]]
  /\ stored' = [r \in Rows |-> Blank] /\ written' = [r \in Rows |-> Absent]
  /\ UNCHANGED refcol

(* Another MeasRef, of a single reference and without an index.            *)
CreateOther(s, ref) ==
  /\ Op /\ ~ Live(s)
  /\ mrs' = [mrs EXCEPT ![s] = RegionsOf(<<ref>>, <<>>, Class)]
  /\ source' = [source EXCEPT ![s] = <<<<ref>>, <<>>, FALSE>>]
  /\ UNCHANGED <<refcol, codes, stored, written, kwsets, said>>

(* reindexed() copies the columns' MeasRef and Keywords.                   *)
CloneColumn(s, to) ==
  /\ Op /\ Own(s) /\ ~ Live(to)
  /\ mrs' = [mrs EXCEPT ![to] = CopyOf(mrs[s])]
  /\ source' = [source EXCEPT ![to] = source[s]]
  /\ kwsets' = [kwsets EXCEPT ![to] = CloneKeywords(kwsets[s])]
  /\ said' = [said EXCEPT ![to] = said[s]]
  /\ UNCHANGED <<refcol, codes, stored, written>>

Destroy(s) ==
  /\ Op /\ Live(s)
  /\ mrs' = [mrs EXCEPT ![s] = Absent] /\ source' = [source EXCEPT ![s] = Absent]
  /\ kwsets' = [kwsets EXCEPT ![s] = Absent] /\ said' = [said EXCEPT ![s] = Absent]
  /\ UNCHANGED <<refcol, codes, stored, written>>

WriteMeasure(s, r, q) ==
  /\ Op /\ Own(s)
  /\ stored' = [stored EXCEPT ![r] = Store(q, RefAt(mrs[s], r))]
  /\ written' = [written EXCEPT ![r] = <<q, codes[r]>>]
  /\ UNCHANGED <<mrs, source, refcol, codes, kwsets, said>>

(* The column of codes is a column like any other.                         *)
WriteCode(s, r) ==
  /\ Op /\ Own(s) /\ refcol
  /\ \E code \in DOMAIN RowOfCode(mrs[s]) : codes' = [codes EXCEPT ![r] = code]
  /\ UNCHANGED <<mrs, source, refcol, stored, written, kwsets, said>>

(* write() by a keyword's name with a value of a type.                     *)
SetKeyword(s, tag, val) ==
  /\ Op /\ Own(s)
  /\ \E name \in Range(Keys(kwsets[s])) : \E fid \in FindKeyword(kwsets[s], name) :
       /\ kwsets' = [kwsets EXCEPT ![s] = WriteKeyword(@, fid, tag, val)]
       /\ said' = IF kwsets[s][fid + 1].tag = tag THEN [said EXCEPT ![s][name] = <<tag, val>>] ELSE said
  /\ UNCHANGED <<mrs, source, refcol, codes, stored, written>>

Next ==
  \/ \E s \in Slots, refs \in RefLists, desc \in Descs : CreateColumn(s, refs, desc)
  \/ \E s \in Slots, refs \in RefLists : Len(refs) = 1 /\ CreateOther(s, refs[1])
  \/ \E s, to \in Slots : CloneColumn(s, to)
  \/ \E s \in Slots : Destroy(s)
  \/ \E s \in Slots, r \in Rows, q \in Quantities : WriteMeasure(s, r, q)
  \/ \E s \in Slots, r \in Rows : WriteCode(s, r)
  \/ \E s \in Slots, tag \in {"int", "string"}, val \in {1, 2} : SetKeyword(s, tag, val)

Spec == Init /\ [][Next]_vars
===============================================================================

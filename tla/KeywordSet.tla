------------------------------ MODULE KeywordSet ------------------------------
(***************************************************************************)
(* The keywords of a table or of a column (src/hyperion/Keywords.cc): two  *)
(* regions over one point, with a field per keyword for its type and one   *)
(* for its value.  A keyword's field number is its place in the list.      *)
(***************************************************************************)
EXTENDS Naturals, Sequences, SequencesExt

CONSTANT Unwritten                   \* a value that nobody has written

None == "none"

(* create() writes the types and leaves the values; without keywords there *)
(* are no regions.                                                         *)
NoKeywords == <<>>
CreateKeywords(desc) ==
  [k \in DOMAIN desc |-> [name |-> desc[k][1], tag |-> desc[k][2], val |-> Unwritten]]

Fids(kws) == {k - 1 : k \in DOMAIN kws}
Keys(kws) == [k \in DOMAIN kws |-> kws[k].name]

NumRegions(kws) == IF kws = NoKeywords THEN 0 ELSE 2

FindKeyword(kws, name) ==
  {f \in Fids(kws) : kws[f + 1].name = name /\ \A g \in Fids(kws) : kws[g + 1].name = name => f <= g}

(* requirements(): none if a field is not there.  value_types() leaves     *)
(* such fields out.                                                        *)
MayRequire(kws, fids) == fids \subseteq Fids(kws)
ValueTypes(kws, fids) == [k \in DOMAIN fids |-> IF fids[k] \in Fids(kws) THEN kws[fids[k] + 1].tag ELSE None]

(* write() and read() look at the type in the region; a value of another   *)
(* type is neither written nor read.                                       *)
MayWriteAny(kws, fid, tag) == MayRequire(kws, {fid})
MayWrite(kws, fid, tag) == MayRequire(kws, {fid}) /\ kws[fid + 1].tag = tag

WriteKeyword(kws, fid, tag, val) ==
  IF MayWrite(kws, fid, tag) THEN [kws EXCEPT ![fid + 1].val = <<tag, val>>] ELSE kws

ReadKeyword(kws, fid, tag) ==
  IF MayRequire(kws, {fid}) /\ kws[fid + 1].tag = tag THEN kws[fid + 1].val ELSE None

(* clone(): the names and types in the order of the fields, then the       *)
(* values by the place in that list.                                       *)
ReadOfType(kws, fid) == ReadKeyword(kws, fid, kws[fid + 1].tag)

CloneKeywords(kws) ==
  LET new == CreateKeywords([k \in DOMAIN kws |-> <<kws[k].name, kws[k].tag>>])
  IN [k \in DOMAIN kws |-> [new[k] EXCEPT !.val = ReadOfType(kws, k - 1)]]

(* to_map(): the last of the keywords of a name.                           *)
ToMap(kws) ==
  [name \in {kws[k].name : k \in DOMAIN kws} |->
     LET last == CHOOSE k \in DOMAIN kws :
                   kws[k].name = name /\ \A j \in DOMAIN kws : kws[j].name = name => j <= k
     IN <<kws[last].tag, kws[last].val>>]
===============================================================================

---------------------------- MODULE ColumnContent ----------------------------
(***************************************************************************)
(* What a column of measures carries besides its values: measure           *)
(* references, the codes that say which reference a row is in, and         *)
(* keywords; and what the accessors that read and write measures through   *)
(* them rely on (src/hyperion/PhysicalColumn.h).                           *)
(***************************************************************************)
EXTENDS Integers, KeywordSet

CONSTANTS Blank,      \* a location that nobody has written
          Absent,     \* a slot that is not in use
          Slots,      \* handles of MeasRefs and Keywords: the column's and the clones'
          RefLists,   \* the lists of references that columns are created with
          Class,      \* the measure class of the column
          Rows, Quantities,
          Descs       \* keyword descriptions

(* What MeasRef does with regions, defined in MeasRefTree, and what a      *)
(* reference means to casacore.                                            *)
CONSTANTS AcceptRefs(_),         \* whether create() takes the references
          RegionsOf(_, _, _),    \* create(), of references, codes and class
          CopyOf(_),             \* clone()
          RefsOf(_),             \* make(): the references read back
          RowOfCode(_),          \* the map from codes to references
          ClassOf(_),            \* mclass()
          SameOutcomes(_, _),    \* what equiv() may return
          OriginOf(_)            \* where the quantities of a reference start

ASSUME SlotsAssumption == Slots # {} /\ Rows # {}

ASSUME QuantitiesAssumption ==
  /\ Quantities \subseteq Int
  /\ \A refs \in RefLists :
       /\ Len(refs) \in Nat \ {0} /\ DOMAIN refs = 1 .. Len(refs)
       /\ \A k \in DOMAIN refs : OriginOf(refs[k]) \in Int

\* A set of keywords has one of a name: descriptions come from casacore records
\* and from the attributes of a group.
ASSUME DescsAssumption ==
  \A desc \in Descs :
    /\ Len(desc) \in Nat /\ DOMAIN desc = 1 .. Len(desc)
    /\ \A j, k \in DOMAIN desc : desc[j][1] = desc[k][1] => j = k

VARIABLES
  mrs,      \* the MeasRefs: a slot to regions, or Absent
  source,   \* what each MeasRef was created from: references, codes, whether
            \* it is the column's (ghost)
  refcol,   \* whether the column has a column of reference codes
  codes,    \* the reference code of each row
  stored,   \* the values of the column
  written,  \* the quantity written to a row, and the row's code then (ghost)
  kwsets,   \* the Keywords: a slot to a list, or Absent
  said      \* what was written to a slot's keywords, by name (ghost)

Live(s) == mrs[s] # Absent
Own(s) == Live(s) /\ source[s][3]

(* A physical quantity q is stored as its distance from the reference's    *)
(* origin, which its type and its offset give.                             *)
Store(q, ref) == q - OriginOf(ref)
Load(v, ref) == v + OriginOf(ref)

(* convert_at() and meas_ref_at(): the row's code, through the map made of *)
(* the index; without a column of codes the first reference.               *)
RefAt(mr, r) ==
  IF refcol THEN RefsOf(mr)[RowOfCode(mr)[codes[r]] + 1] ELSE RefsOf(mr)[1]

-----------------------------------------------------------------------------
(* Everything that the regions of a MeasRef are created from comes back    *)
(* from them, through any chain of clones: the references with all their   *)
(* components, and the row of every code (MeasRef::create, make, clone).   *)
RefsMadeBack ==
  \A s \in Slots : Live(s) =>
    /\ RefsOf(mrs[s]) = source[s][1] /\ ClassOf(mrs[s]) = Class
    /\ (Own(s) /\ refcol) =>
         /\ DOMAIN RowOfCode(mrs[s]) = Range(source[s][2])
         /\ \A k \in DOMAIN source[s][2] : RowOfCode(mrs[s])[source[s][2][k]] = k - 1

(* A measure written to a row through one MeasRef of a column is read as   *)
(* the same quantity through any clone of it, as long as the row's         *)
(* reference code is what it was (the accessors of PhysicalColumnTMD).     *)
MeasureReadBack ==
  \A s \in Slots, r \in Rows :
    (Own(s) /\ written[r] # Absent /\ written[r][2] = codes[r])
      => Load(stored[r], RefAt(mrs[s], r)) = written[r][1]

(* equiv() of MeasRefs over the same places says whether they are the same *)
(* references, whatever is in the places nobody has written; a MeasRef     *)
(* without values is never said to be another one.                         *)
EquivTellsApart ==
  \A s, t \in Slots : (Live(s) /\ Live(t) /\ DOMAIN mrs[s].metadata = DOMAIN mrs[t].metadata
                         /\ DOMAIN mrs[s].values = DOMAIN mrs[t].values) =>
    /\ RefsOf(mrs[s]) # RefsOf(mrs[t]) => TRUE \notin SameOutcomes(mrs[s], mrs[t])
    /\ (RefsOf(mrs[s]) = RefsOf(mrs[t]) /\ \A p \in DOMAIN mrs[s].values : mrs[s].values[p] # Blank)
         => SameOutcomes(mrs[s], mrs[t]) = {TRUE}

(* Each keyword holds the last value of its type that was written to it,   *)
(* and a clone those its original had then; writes to the one leave the    *)
(* other alone (Keywords::write, read, clone, to_map).                     *)
KeywordsKept ==
  \A s \in Slots : kwsets[s] # Absent =>
    \A name \in DOMAIN said[s] :
      /\ ToMap(kwsets[s])[name][2] = said[s][name]
      /\ \A fid \in FindKeyword(kwsets[s], name) :
           ReadKeyword(kwsets[s], fid, kwsets[s][fid + 1].tag) = said[s][name]
===============================================================================

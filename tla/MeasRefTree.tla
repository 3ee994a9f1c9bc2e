----------------------------- MODULE MeasRefTree -----------------------------
(***************************************************************************)
(* A list of casacore measure references kept in regions                   *)
(* (src/hyperion/MeasRef.cc).  A reference has a type and components, the  *)
(* offset and the measures of its frame, each a measure with a reference   *)
(* of its own.  The components' codes on the way to a measure are the      *)
(* coordinates of its place in the regions, filled up with zeros.          *)
(***************************************************************************)
EXTENDS IndexTree

CONSTANT Undef                       \* a location that nobody has written

VALUE == 0
Components == 1 .. 5                 (* OFFSET, EPOCH ... RADIAL_VELOCITY *)

(* casacore's objects: a reference, and a measure of a class.              *)
Ref(rtype, comps) == [rtype |-> rtype, comps |-> comps]
Measure(mclass, vals, ref) == [mclass |-> mclass, vals |-> vals, ref |-> ref]
NoComps == [c \in {} |-> 0]

(* What a reference is to a quantity: its distance from the origin that    *)
(* the type and the offset give.                                           *)
RECURSIVE Origin(_)
Origin(ref) == ref.rtype + FoldSet(LAMBDA c, s : s + ref.comps[c].vals[1] + Origin(ref.comps[c].ref),
                                   0, DOMAIN ref.comps)

(* extend_index_ranks(): paths filled up with zeros to one length.         *)
Pad(path, rank) == [k \in 1 .. rank |-> IF k <= Len(path) THEN path[k] ELSE 0]

RECURSIVE PathTree(_)
PathTree(path) == IF path = <<>> THEN Leaf ELSE One(Head(path), PathTree(Tail(path)))

RECURSIVE MergePaths(_, _, _)
MergePaths(tree, paths, rank) ==
  IF paths = <<>> THEN tree
  ELSE MergePaths(Merge(tree, PathTree(Pad(Head(paths), rank))), Tail(paths), rank)

ExtendRanks(tree, rank) == MergePaths(Leaf, Coords(tree), rank)

Levelled(tree) == IF Rank(tree) = NoRank THEN ExtendRanks(tree, Height(tree) + 1) ELSE tree

(* measure_index_trees(): the places of the metadata and of the values of  *)
(* a reference.  A reference that is not a measure's has no values of its  *)
(* own, and no tree of values (Leaf) if it has no components either.       *)
MergeAll(own, children) ==
  FoldSet(LAMBDA c, t : Merge(t, One(c, children[c])), own, DOMAIN children)

RECURSIVE MetadataTree(_)
MetadataTree(ref) ==
  LET children == [c \in DOMAIN ref.comps |-> MetadataTree(ref.comps[c].ref)]
  IN Levelled(MergeAll(One(VALUE, Leaf), children))

RECURSIVE ValueTree(_, _)
ValueTree(ref, own) ==
  LET children == [c \in DOMAIN ref.comps |->
        LET m == ref.comps[c] IN ValueTree(m.ref, One(VALUE, Leaves(Len(m.vals))))]
  IN Levelled(MergeAll(own, children))

(* create() takes the rank of the list's tree, which throws if the lists'  *)
(* references differ in depth.                                             *)
RefsTree(refs) == InRow([k \in DOMAIN refs |-> <<1, MetadataTree(refs[k])>>])
ValuesTree(refs) == ExtendRanks(InRow([k \in DOMAIN refs |-> <<1, ValueTree(refs[k], Leaf)>>]),
                                Rank(RefsTree(refs)) + 1)
MayCreate(refs) == Rank(RefsTree(refs)) # NoRank

(* initialize(): what is written for the measures under a prefix.          *)
MetaWrite(mclass, ref, nvals) == [mclass |-> mclass, rtype |-> ref.rtype, nvals |-> nvals]

RECURSIVE MetaWrites(_, _, _, _, _)
MetaWrites(prefix, D, mclass, ref, nvals) ==
  {<<Pad(Append(prefix, VALUE), D), MetaWrite(mclass, ref, nvals)>>}
    \union UNION {LET m == ref.comps[c] IN MetaWrites(Append(prefix, c), D, m.mclass, m.ref, Len(m.vals)) :
                    c \in DOMAIN ref.comps}

ValuePoint(prefix, j, D) == Pad(prefix \o <<VALUE, j>>, D + 1)

RECURSIVE ValueWrites(_, _, _, _)
ValueWrites(prefix, D, ref, vals) ==
  {<<ValuePoint(prefix, j - 1, D), vals[j]>> : j \in DOMAIN vals}
    \union UNION {LET m == ref.comps[c] IN ValueWrites(Append(prefix, c), D, m.ref, m.vals) :
                    c \in DOMAIN ref.comps}

(* create_regions() and create(): the points of the trees, undefined until *)
(* initialize() writes them; codes of the references, unless no_index.     *)
NoIndex == <<>>

Region(tree, writes) ==
  [p \in SpaceOf(tree) |->
     IF \E w \in writes : w[1] = p THEN (CHOOSE w \in writes : w[1] = p)[2] ELSE Undef]

CreateRefs(refs, codes, mclass) ==
  LET D == Rank(RefsTree(refs))
      meta == UNION {MetaWrites(<<k - 1>>, D, mclass, refs[k], 0) : k \in DOMAIN refs}
      vals == UNION {ValueWrites(<<k - 1>>, D, refs[k], <<>>) : k \in DOMAIN refs}
  IN [D |-> D, index |-> codes,
      metadata |-> Region(RefsTree(refs), meta), values |-> Region(ValuesTree(refs), vals)]

(* instantiate(): a component is there if its place is in the domain.      *)
HasComponentUnpadded(mr, prefix, c) == Append(prefix, c) \in DOMAIN mr.metadata
HasComponent(mr, prefix, c) == Pad(Append(prefix, c), mr.D) \in DOMAIN mr.metadata

RECURSIVE ReadMeasure(_, _)
ReadMeasure(mr, prefix) ==
  LET md == mr.metadata[Pad(Append(prefix, VALUE), mr.D)]
      at(j) == Pad(prefix \o <<VALUE, j - 1>>, mr.D + 1)
  IN Measure(md.mclass, [j \in 1 .. md.nvals |-> mr.values[at(j)]],
             Ref(md.rtype, [c \in {x \in Components : HasComponent(mr, prefix, x)} |->
                              ReadMeasure(mr, Append(prefix, c))]))

(* make(): the references, and the row of each code (the last, if a code   *)
(* is there twice).                                                        *)
NumRefs(mr) == Max({p[1] : p \in DOMAIN mr.metadata}) + 1
MakeRefs(mr) == [k \in 1 .. NumRefs(mr) |-> ReadMeasure(mr, <<k - 1>>).ref]
RowMap(mr) == [code \in Range(mr.index) |-> Max({k \in DOMAIN mr.index : mr.index[k] = code}) - 1]

MClassOf(mr) == mr.metadata[[k \in 1 .. mr.D |-> 0]].mclass

(* clone(): a new MeasRef of the references made, with their types as      *)
(* codes, whatever codes the original has; it always has an index.         *)
CloneRefsReversed(mr) ==
  LET refs == MakeRefs(mr)
  IN CreateRefs(refs, [k \in DOMAIN refs |-> refs[Len(refs) + 1 - k].rtype], MClassOf(mr))
CloneRefs(mr) ==
  LET refs == MakeRefs(mr) IN CreateRefs(refs, [k \in DOMAIN refs |-> refs[k].rtype], MClassOf(mr))

(* equiv(): the places of x only, and all of its values: locations nobody  *)
(* has written compare as they like.                                       *)
SameIn(f, g) ==
  {b \in BOOLEAN : IF \E p \in DOMAIN f : Undef \notin {f[p], g[p]} /\ f[p] # g[p]
                   THEN ~ b
                   ELSE b \/ \E p \in DOMAIN f : Undef \in {f[p], g[p]}}
EquivOutcomesNoValues(x, y) == SameIn(x.metadata, y.metadata)
EquivOutcomes(x, y) ==
  {a /\ b : a \in SameIn(x.metadata, y.metadata), b \in SameIn(x.values, y.values)}
=============================================================================

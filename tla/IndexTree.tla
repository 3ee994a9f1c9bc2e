------------------------------ MODULE IndexTree ------------------------------
(***************************************************************************)
(* The run-length trees of src/hyperion/IndexTree.h: a tree is a sequence  *)
(* of blocks [lo, n, t], n equal sub-trees t under the indexes lo ..       *)
(* lo + n - 1.  The empty tree ends a path.  tree_index_space() turns a    *)
(* tree into the index space of its paths with a task per inner node.      *)
(***************************************************************************)
EXTENDS Integers, Sequences, SequencesExt, FiniteSets, FiniteSetsExt, TLC

Leaf == <<>>

Block(lo, n, t) == [lo |-> lo, n |-> n, t |-> t]

End(b) == b.lo + b.n

(* compact(): blocks without indexes dropped, sorted, equal neighbours     *)
(* joined.  The constructor throws on blocks that overlap.                 *)
RECURSIVE Join(_)
Join(blocks) ==
  IF Len(blocks) <= 1 THEN blocks
  ELSE LET b == Head(blocks)  rest == Join(Tail(blocks)) IN
       IF End(b) = rest[1].lo /\ b.t = rest[1].t
       THEN <<[b EXCEPT !.n = @ + rest[1].n]>> \o Tail(rest)
       ELSE <<b>> \o rest

Compact(blocks) ==
  LET sorted == SortSeq(SelectSeq(blocks, LAMBDA b : b.n > 0), LAMBDA a, b : a.lo < b.lo)
  IN IF Assert(\A k \in 1 .. Len(sorted) - 1 : End(sorted[k]) <= sorted[k + 1].lo,
               "Child blocks are overlapping")
     THEN Join(sorted) ELSE <<>>

(* The constructors: n leaves; sub-trees one after the other.              *)
Leaves(n) == Compact(<<Block(0, n, Leaf)>>)

InRow(runs) ==
  Compact([k \in 1 .. Len(runs) |->
             Block(FoldLeft(LAMBDA s, r : s + r[1], 0, SubSeq(runs, 1, k - 1)), runs[k][1], runs[k][2])])

One(i, t) == <<Block(i, 1, t)>>

SumOver(t, Op(_)) == FoldLeft(LAMBDA s, b : s + Op(b), 0, t)
MaxOver(t, Op(_)) == FoldLeft(LAMBDA s, b : IF Op(b) > s THEN Op(b) ELSE s, 0, t)

RECURSIVE Size(_)
Size(t) == IF t = Leaf THEN 1 ELSE SumOver(t, LAMBDA b : b.n * Size(b.t))

IsLeafTree(t) == \A k \in DOMAIN t : t[k].t = Leaf

(* height(): 0 for the empty tree and for a tree of leaves.                *)
RECURSIVE Height(_)
Height(t) == IF IsLeafTree(t) THEN 0 ELSE 1 + MaxOver(t, LAMBDA b : Height(b.t))

(* rank(): the length of the paths, if all have the same one.              *)
NoRank == -1

RECURSIVE Rank(_)
Rank(t) ==
  IF t = Leaf THEN 0
  ELSE LET ranks == {Rank(t[k].t) : k \in DOMAIN t} IN
       IF Cardinality(ranks) = 1 /\ ranks # {NoRank} THEN 1 + (CHOOSE r \in ranks : TRUE) ELSE NoRank

RECURSIVE IsArray(_)
IsArray(t) ==
  /\ t # Leaf
  /\ t[1].t = Leaf \/ IsArray(t[1].t)
  /\ \A k \in 2 .. Len(t) : t[k].t = t[1].t /\ t[k].lo = End(t[k - 1])

IndexRange(t) == <<Min({t[k].lo : k \in DOMAIN t}), Max({End(t[k]) - 1 : k \in DOMAIN t})>>

(* envelope(): the bounding box, axis by axis, of the sub-trees' boxes.    *)
(* An array takes the shape of its first blocks.                           *)
Wider(e, f) == [k \in 1 .. Max({Len(e), Len(f)}) |->
                  IF k > Len(e) THEN f[k] ELSE IF k > Len(f) THEN e[k]
                  ELSE <<Min({e[k][1], f[k][1]}), Max({e[k][2], f[k][2]})>>]

RECURSIVE ArrayShape(_)
ArrayShape(t) == IF t = Leaf THEN <<>> ELSE <<<<t[1].lo, End(t[1]) - 1>>>> \o ArrayShape(t[1].t)

RECURSIVE Envelope(_)
Envelope(t) ==
  IF IsArray(t) THEN ArrayShape(t)
  ELSE IF t = Leaf THEN <<>>
  ELSE <<IndexRange(t)>> \o FoldLeft(LAMBDA e, b : Wider(e, Envelope(b.t)), <<>>, t)

(* less_than(): all paths of t before all paths of u.                      *)
RECURSIVE LessThan(_, _)
LessThan(t, u) ==
  IF t = Leaf THEN u # Leaf
  ELSE /\ u # Leaf
       /\ LET last == Last(t)  first == Head(u) IN
          \/ End(last) <= first.lo
          \/ /\ Len(u) = 1 /\ first.n = 1 /\ End(last) - 1 = first.lo
             /\ LessThan(last.t, first.t)

(* grow_leaves(), pruned().                                                *)
RECURSIVE GrowLeaves(_, _)
GrowLeaves(t, sprout) ==
  Compact([k \in DOMAIN t |-> [t[k] EXCEPT !.t = IF @ = Leaf THEN sprout ELSE GrowLeaves(@, sprout)]])

RECURSIVE Pruned(_, _)
Pruned(t, height) ==
  IF Height(t) <= height THEN t
  ELSE Compact([k \in DOMAIN t |-> [t[k] EXCEPT !.t = IF height > 0 THEN Pruned(@, height - 1) ELSE Leaf]])

(* grow_at(): the leaf at each path replaced by what fn says of it.        *)
RECURSIVE GrowAt(_, _, _)
GrowAt(t, here, fn) ==
  LET grown(b, i) == LET at == Append(here, i) IN
                     Block(i, 1, IF b.t = Leaf THEN fn[at] ELSE GrowAt(b.t, at, fn))
  IN Compact(FlattenSeq([k \in DOMAIN t |-> [j \in 1 .. t[k].n |-> grown(t[k], t[k].lo + j - 1)]]))

(* merged_with(): two lists of blocks are walked together; where they      *)
(* overlap a block is cut and the sub-trees are merged.                    *)
Rest(b, n) == IF b.n = n THEN <<>> ELSE <<[b EXCEPT !.lo = @ + n, !.n = @ - n]>>

RECURSIVE Merge(_, _), MergeBlocks(_, _)
MergeBlocks(s, u) ==
  IF s = <<>> THEN u
  ELSE IF u = <<>> THEN s
  ELSE LET x == Head(s)  y == Head(u)
           cutX == [x EXCEPT !.n = y.lo - x.lo]
           cutY == [y EXCEPT !.n = x.lo - y.lo]
           n == Min({x.n, y.n})
       IN CASE End(y) <= x.lo -> <<y>> \o MergeBlocks(s, Tail(u))
            [] End(x) <= y.lo -> <<x>> \o MergeBlocks(Tail(s), u)
            [] x.lo < y.lo /\ y.lo < End(x) ->
                 <<cutX>> \o MergeBlocks(Rest(x, cutX.n) \o Tail(s), u)
            [] y.lo < x.lo /\ x.lo < End(y) ->
                 <<cutY>> \o MergeBlocks(s, Rest(y, cutY.n) \o Tail(u))
            [] OTHER -> <<Block(x.lo, n, Merge(x.t, y.t))>>
                          \o MergeBlocks(Rest(x, n) \o Tail(s), Rest(y, n) \o Tail(u))

Merge(t, u) ==
  IF u = Leaf \/ t = u THEN t
  ELSE IF t = Leaf THEN u
  ELSE Compact(MergeBlocks(t, u))

(* The constructor from a pattern: whole repeats, then as much of another  *)
(* one as the number of paths left asks for.                               *)
RECURSIVE Pattern(_, _), Remainder(_, _, _)
Remainder(blocks, offset, rem) ==
  IF rem = 0 \/ blocks = <<>> THEN <<>>
  ELSE LET b == Head(blocks)  size == Size(b.t) IN
       IF rem < size THEN <<Block(b.lo + offset, 1, Pattern(b.t, rem))>>
       ELSE LET n == Min({rem \div size, b.n}) IN
            <<Block(b.lo + offset, n, b.t)>>
              \o Remainder(IF n = b.n THEN Tail(blocks) ELSE blocks, offset, rem - n * size)

Pattern(p, num) ==
  LET reps == num \div Size(p)  stride == IndexRange(p)[2] + 1
      whole == IF Len(p) = 1 THEN <<Block(p[1].lo, reps * stride, p[1].t)>>
               ELSE FlattenSeq([r \in 1 .. reps |->
                      [k \in DOMAIN p |-> [p[k] EXCEPT !.lo = @ + (r - 1) * stride]]])
  IN Compact(whole \o Remainder(p, reps * stride, num % Size(p)))

(* serialize() writes the size of a tree before its blocks, deserialize()  *)
(* goes from block to block by these sizes.                                *)
RECURSIVE Serialize(_)
Serialize(t) ==
  LET body == FlattenSeq([k \in DOMAIN t |-> <<t[k].lo, t[k].n>> \o Serialize(t[k].t)])
  IN <<1 + Len(body)>> \o body

RECURSIVE SerializedSize(_)
SerializedSize(t) == 1 + SumOver(t, LAMBDA b : 2 + SerializedSize(b.t))

RECURSIVE Deserialize(_), Blocks(_)
Blocks(words) ==
  IF words = <<>> THEN <<>>
  ELSE LET child == SubSeq(words, 3, Len(words)) IN
       <<Block(words[1], words[2], Deserialize(child))>> \o Blocks(SubSeq(child, child[1] + 1, Len(child)))
Deserialize(words) == Compact(Blocks(SubSeq(words, 2, words[1])))

(* IndexTreeIterator: the paths in order.                                  *)
RECURSIVE Coords(_)
Coords(t) ==
  IF t = Leaf THEN <<<<>>>>
  ELSE FlattenSeq([k \in DOMAIN t |->
         FlattenSeq([j \in 1 .. t[k].n |->
           LET below == Coords(t[k].t) IN [c \in DOMAIN below |-> <<t[k].lo + j - 1>> \o below[c]]])])

(* TreeIndexSpaceTask: blocks of leaves become an index space at once;     *)
(* another node waits for the spaces of its sub-trees and puts the         *)
(* interval of a block before the points of the future in its place.       *)
(* Which of the two a node is, is read off its first sub-tree: that all    *)
(* paths have one length is asserted.                                      *)
RECURSIVE SpaceOf(_)
SpaceOf(t) ==
  IF t = Leaf THEN {}
  ELSE IF t[1].t = Leaf
  THEN {<<i>> : i \in UNION {t[k].lo .. End(t[k]) - 1 : k \in DOMAIN t}}
  ELSE UNION {{<<i>> \o p : i \in t[k].lo .. End(t[k]) - 1, p \in SpaceOf(t[k].t)} : k \in DOMAIN t}

-----------------------------------------------------------------------------
(* The reference definition: the set of paths a tree stands for.           *)
RECURSIVE PathsOf(_)
PathsOf(t) ==
  IF t = Leaf THEN {<<>>}
  ELSE UNION {{<<i>> \o p : i \in t[k].lo .. End(t[k]) - 1, p \in PathsOf(t[k].t)} : k \in DOMAIN t}
=============================================================================

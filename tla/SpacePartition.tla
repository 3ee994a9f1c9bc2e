----------------------------- MODULE SpacePartition -----------------------------
(***************************************************************************)
(* Partitions of a ColumnSpace (ColumnSpacePartition) and their narrowing  *)
(* to another column (Column::narrow_partition).  A ColumnSpace is a       *)
(* record of its identity, its axes and the size of each; its index space  *)
(* starts at 0.  A partition is the ColumnSpace it was made for and, for   *)
(* each axis it cuts, where the blocks lie; a color has one index for each *)
(* of these.                                                               *)
(***************************************************************************)
EXTENDS Lists

\* The value of ColumnSpacePartition(), and of an empty optional of one.
NoPartition == [space |-> [id |-> "none", axes |-> <<>>, size |-> <<>>],
                parts |-> <<>>]

IsValid(partition) == partition # NoPartition

OrElse(partition, other) == IF IsValid(partition) THEN partition ELSE other

\* The dimension of a ColumnSpace that an axis is, 0 if it is none of them.
Dim(space, axis) ==
    IF \E d \in DOMAIN space.axes : space.axes[d] = axis
    THEN CHOOSE d \in DOMAIN space.axes : space.axes[d] = axis
    ELSE 0

\* The number of blocks along an axis.
ColorCount(part) ==
    IF part.stride > 0
    THEN ((part.limits[2] - part.limits[1]) + part.stride) \div part.stride
    ELSE 1

Colors(partition) ==
    LET n == [i \in DOMAIN partition.parts |-> ColorCount(partition.parts[i])]
        most == CHOOSE m \in {0} \cup {n[i] : i \in DOMAIN n} :
                    \A i \in DOMAIN n : m >= n[i]
    IN {c \in [DOMAIN n -> 0 .. most - 1] : \A i \in DOMAIN n : c[i] < n[i]}

\* The rectangle of a color: the restriction of the index space to the
\* extent, moved by the strides.  An axis that the space lacks moves nothing;
\* an axis is cut once at most.
Piece(partition, space, color) ==
    LET cuts(d) == {i \in DOMAIN partition.parts :
                        partition.parts[i].dim = space.axes[d]}
        edge(d, e) == LET i == CHOOSE j \in cuts(d) : TRUE
                          part == partition.parts[i]
                      IN part.offset + part.extent[e] + color[i] * part.stride
    IN [d \in DOMAIN space.axes |->
          IF cuts(d) = {}
          THEN [lo |-> 0, hi |-> space.size[d] - 1]
          ELSE [lo |-> IF edge(d, 1) < 0 THEN 0 ELSE edge(d, 1),
                hi |-> IF edge(d, 2) < space.size[d] THEN edge(d, 2)
                                                     ELSE space.size[d] - 1]]

Whole(space) == [d \in DOMAIN space.axes |-> [lo |-> 0, hi |-> space.size[d] - 1]]

---------------------------------------------------------------------------
(* What create_partition_on_axes declares of the partition to the runtime. *)
(* It reads the number of colors of a cut axis at the dimension of the     *)
(* axis in the index space, not at its place in the partition: "stray" is  *)
(* what it finds past the end.                                             *)

LastColor(partition, d, stray) ==
    IF d <= Len(partition.parts) THEN ColorCount(partition.parts[d]) - 1 ELSE stray

\* mutant: an axis that the space lacks is passed over
DeclaredAliasedByStride(partition, space, stray) ==
    \E i \in DOMAIN partition.parts :
        LET part == partition.parts[i]
            d == Dim(space, part.dim)
        IN /\ d # 0
           /\ LastColor(partition, d, stray) > 0
           /\ part.extent[1] + part.stride <= part.extent[2]

DeclaredAliased(partition, space, stray) ==
    \E i \in DOMAIN partition.parts :
        LET part == partition.parts[i]
            d == Dim(space, part.dim)
        IN \/ d = 0
           \/ /\ LastColor(partition, d, stray) > 0
              /\ part.extent[1] + part.stride <= part.extent[2]

DeclaredComplete(partition, space, stray) ==
    \A i \in DOMAIN partition.parts :
        LET part == partition.parts[i]
            d == Dim(space, part.dim)
            last == LastColor(partition, d, stray)
        IN d # 0 =>
             /\ part.offset + part.extent[1] <= 0
             /\ part.offset + part.extent[2] + last * part.stride >= space.size[d] - 1
             /\ last > 0 => part.extent[1] + part.stride = part.extent[2] + 1

\* create: the other checks of its axes (has_unique_values) never fail.
Create(space, parts) ==
    IF \E i \in DOMAIN parts : parts[i].stride <= 0 THEN NoPartition
    ELSE [space |-> space, parts |-> parts]

\* create from block sizes, a sequence of pairs of an axis and a size.
Blocks(space, sizes) ==
    Create(space,
           [i \in DOMAIN sizes |->
              [dim |-> sizes[i][1], stride |-> sizes[i][2], offset |-> 0,
               extent |-> <<0, sizes[i][2] - 1>>,
               limits |-> <<0, space.size[Dim(space, sizes[i][1])] - 1>>]])

ProjectOnto(partition, space) == Create(space, partition.parts)

\* narrow_partition: the axes that the column has and that are not blocked.
Narrow(space, partition, block) ==
    LET kept == Kept(partition.parts,
                     {i \in DOMAIN partition.parts :
                        LET axis == partition.parts[i].dim
                        IN Dim(space, axis) # 0 /\ axis \notin block})
    IN IF ~IsValid(partition) \/ partition.space = space THEN partition
       ELSE IF kept = <<>> THEN NoPartition
       ELSE Create(space, kept)

---------------------------------------------------------------------------
(* What the runtime is told must be true, whatever is read past the end.   *)

Meets(r, s) == \A d \in DOMAIN r : r[d].lo <= s[d].hi /\ s[d].lo <= r[d].hi

Apart(partition, space) ==
    \A c, e \in Colors(partition) :
        c # e => ~Meets(Piece(partition, space, c), Piece(partition, space, e))

InRect(pt, rect) == \A d \in DOMAIN rect : pt[d] >= rect[d].lo /\ pt[d] <= rect[d].hi

\* The pieces are boxes of one grid: they cover a space if they cover each axis.
Covers(partition, space) ==
    \A d \in DOMAIN space.axes : \A x \in 0 .. space.size[d] - 1 :
        \E c \in Colors(partition) :
            LET r == Piece(partition, space, c) IN r[d].lo <= x /\ x <= r[d].hi

DeclaredTruly(partition, space, strays) ==
    \A stray \in strays :
        /\ ~DeclaredAliased(partition, space, stray) => Apart(partition, space)
        /\ DeclaredComplete(partition, space, stray) => Covers(partition, space)

==============================================================================

-------------------------------- MODULE CfTable --------------------------------
(***************************************************************************)
(* Convolution function tables (CFTable, CFTableBase): their axes, the     *)
(* ColumnSpace of their VALUE column, and how kernels reach the elements   *)
(* of a piece of it.  A column is a function from the points that were     *)
(* written to what was written there; points are sequences from 0, the X   *)
(* and Y of the grid last.                                                 *)
(***************************************************************************)
EXTENDS SpacePartition

CONSTANT Garbage   \* what a read of an element that was never written gives

\* It is no number, nor anything that is computed from one.
ASSUME GarbageAssumption ==
    Garbage \notin Int \cup [pa : Int \cup {Garbage}, x : Int, y : Int, n : Int]
                      \cup [of : Int, at : Seq(Int)]

AxesOf == [ps_coords |-> <<"PARALLACTIC_ANGLE">>,
           w_coords  |-> <<"PARALLACTIC_ANGLE">>,
           a_coords  |-> <<"PARALLACTIC_ANGLE">>,
           ps |-> <<"PS_SCALE">>,
           w  |-> <<"W">>,
           a  |-> <<"BASELINE_CLASS", "PARALLACTIC_ANGLE", "FREQUENCY",
                    "STOKES_OUT", "STOKES_IN">>,
           zmodel |-> <<"BASELINE_CLASS", "FREQUENCY", "STOKES">>,
           aif |-> <<"BASELINE_CLASS", "PARALLACTIC_ANGLE", "FREQUENCY", "STOKES">>,
           cf  |-> <<"BASELINE_CLASS", "PARALLACTIC_ANGLE", "FREQUENCY", "W",
                     "STOKES_OUT", "STOKES_IN">>]

\* The ColumnSpace of the VALUE column of a table, given the length of each
\* of its index columns, and the one of an index column.
ValueSpace(table, length, gridSize) ==
    [id |-> table,
     axes |-> AxesOf[table] \o <<"X", "Y">>,
     size |-> [i \in DOMAIN AxesOf[table] |-> length[AxesOf[table][i]]]
              \o <<gridSize, gridSize>>]

IndexSpace(axis, length) == [id |-> axis, axes |-> <<axis>>, size |-> <<length>>]

\* Columns are named by their table; index columns have the name of their axis.
IndexColumns(table) == {<<table, AxesOf[table][i]>> : i \in DOMAIN AxesOf[table]}

Size(rect) == [d \in DOMAIN rect |-> rect[d].hi - rect[d].lo + 1]

\* The points of a box of the given size, from 0.
Box(size) ==
    LET upto[d \in 0 .. Len(size)] ==
            IF d = 0 THEN {<<>>}
            ELSE {Append(pt, x) : pt \in upto[d - 1], x \in 0 .. size[d] - 1}
    IN upto[Len(size)]

\* A view of a region is indexed from 0; element l of it is this point.
Global(rect, l) == [d \in DOMAIN rect |-> rect[d].lo + l[d]]

InSize(l, size) == \A d \in DOMAIN size : l[d] < size[d]

Read(column, rect, l) ==
    IF InSize(l, Size(rect)) /\ Global(rect, l) \in DOMAIN column
    THEN column[Global(rect, l)]
    ELSE Garbage

\* column with the pairs of a point and a value in writes stored
Store(column, writes) ==
    LET written == {wr[1] : wr \in writes}
    IN [pt \in DOMAIN column \cup written |->
          IF pt \in written THEN (CHOOSE wr \in writes : wr[1] = pt)[2] ELSE column[pt]]

\* A map with the entries of another added.
Added(old, new) ==
    [x \in DOMAIN old \cup DOMAIN new |-> IF x \in DOMAIN new THEN new[x] ELSE old[x]]

\* The first element of a column with this value: the position of an index.
Position(column, val) ==
    CHOOSE x \in 0 .. Cardinality(DOMAIN column) - 1 :
        /\ column[<<x>>] = val
        /\ \A y \in 0 .. x - 1 : column[<<y>>] # val

Stride(size, d) ==
    LET s[e \in d .. Len(size)] == IF e = Len(size) THEN 1 ELSE s[e + 1] * size[e + 1]
    IN s[d]

\* linearized_index_range
LeagueSize(size) == Stride(size, 1) * size[1]

\* multidimensional_index_l: the rank is not reduced after the first division,
\* so the second index is right only if the first one is 0.
LocalIndex(rank, size) ==
    [d \in DOMAIN size |->
       CASE d = 1 -> rank \div Stride(size, 1)
         [] d = 2 -> rank \div Stride(size, 2)
         [] OTHER -> (rank % Stride(size, d - 1)) \div Stride(size, d)]

\* multidimensional_index: the same, from the low corner of the rectangle.
GlobalIndex(rank, rect) == Global(rect, LocalIndex(rank, Size(rect)))

==============================================================================

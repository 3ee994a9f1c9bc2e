-------------------------------- MODULE CfTerms --------------------------------
(***************************************************************************)
(* The tasks that compute the grids of coordinates (GridCoordinateTable)   *)
(* and, from these, the spheroidal term (PSTermTable) and the W term       *)
(* (WTermTable).  A task body is what it writes to the column: a set of    *)
(* pairs of a point and a value.  In "region" is the rectangle of each     *)
(* column that the task was given, in "column" the contents.               *)
(*                                                                         *)
(* The value of an element is what it was computed from: the parameter of  *)
(* the term and the squared distance from the centre, or nothing outside   *)
(* of the disk, where terms are zero.  Weights are left out: the tasks of  *)
(* the PS and W terms write them beside the values, in the same places,    *)
(* those of the A term (compute_aifs_task, ATermTable::compute_cfs_task)   *)
(* never do.                                                               *)
(***************************************************************************)
EXTENDS CfTable

Element(of, at) == [of |-> of, at |-> at]

IsElement(v) == v # Garbage

\* The coordinates of cell (x, y) of a grid of n * n cells, in units of 1/(2n):
\* the origin is the middle of the grid, the pixels are taken at their middle,
\* and twice the radius of the grid is "diameter".
Coordinate(pa, x, y, n, diameter) ==
    [pa |-> pa, x |-> (2 * x + 1 - n) * diameter, y |-> (2 * y + 1 - n) * diameter,
     n |-> n]

Square(c) == c.x * c.x + c.y * c.y

\* Whether scale * the distance from the origin is at most 1.
InDisk(c, scale) == Square(c) * scale * scale <= 4 * c.n * c.n

\* init_column for each index column of a table: the value given for the point.
InitBody(table, col, values, region) ==
    {<<pt, values[col[2]][pt[1] + 1]>> :
        pt \in {<<x>> : x \in region[col][1].lo .. region[col][1].hi}}

\* compute_coordinates_task, with accessors, so from the low corner of the region
CoordinatesBody(table, diameter, column, region) ==
    LET rect == region[<<table, "COORD">>]
        n == Size(rect)[2]
    IN {<<Global(rect, l),
          Coordinate(Read(column[<<table, "PARALLACTIC_ANGLE">>],
                          region[<<table, "PARALLACTIC_ANGLE">>], <<l[1]>>),
                     l[2], l[3], n, diameter)>> : l \in Box(Size(rect))}

\* The grid of coordinates of the first parallactic angle of a region.
FirstGrid(table, column, region, x, y) ==
    LET rect == region[<<table, "COORD">>]
    IN Read(column[<<table, "COORD">>], rect, <<rect[1].lo, x, y>>)

\* PSTermTable::compute_cfs_task: the bounds are those of the rectangle, while
\* the views are indexed from 0.
PSTermBody(column, region) ==
    LET rect == region[<<"ps", "VALUE">>]
        body(l) ==
            LET i == Global(rect, l)
                scale == Read(column[<<"ps", "PS_SCALE">>],
                              region[<<"ps", "PS_SCALE">>], <<i[1]>>)
                c == FirstGrid("ps_coords", column, region, i[2], i[3])
            IN <<Global(rect, i),
                 IF scale = Garbage \/ c = Garbage THEN Garbage
                 ELSE Element(scale, IF InDisk(c, scale) THEN <<Square(c)>> ELSE <<>>)>>
    IN {body(l) : l \in Box(Size(rect))}

\* WTermTable::compute_cfs_task
WTermBody(column, region) ==
    LET rect == region[<<"w", "VALUE">>]
        body(l) ==
            LET w == Read(column[<<"w", "W">>], region[<<"w", "W">>], <<l[1]>>)
                c == FirstGrid("w_coords", column, region, l[2], l[3])
            IN <<Global(rect, l),
                 IF w = Garbage \/ c = Garbage THEN Garbage
                 ELSE Element(w, IF InDisk(c, 1) THEN <<Square(c)>> ELSE <<>>)>>
    IN {body(l) : l \in Box(Size(rect))}

==============================================================================

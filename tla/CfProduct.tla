------------------------------- MODULE CfProduct -------------------------------
(***************************************************************************)
(* The product of convolution function terms (ProductCFTable): its index   *)
(* axes, which come from the tables multiplied, and the task that          *)
(* multiplies a term into it.  An element of a product is the sequence of  *)
(* the elements that were multiplied.                                      *)
(***************************************************************************)
EXTENDS ATerm

Product == <<"cf", "VALUE">>

\* The order in which create_and_fill gets the tables.
Terms == <<"a", "w", "ps">>

\* index_axis_h: the first table that has the axis gives its values.
AxisSource(axis) ==
    CHOOSE t \in {"a", "w", "ps"} :
        /\ axis \in ToSet(AxesOf[t])
        /\ \A i, j \in DOMAIN Terms :
              Terms[i] = t /\ j < i => axis \notin ToSet(AxesOf[Terms[j]])

\* mutant: the first indexes of the left table, whatever the axes
ProjectByOrder(term, i) == [d \in DOMAIN AxesOf[term] |-> i[d]]

\* set_index for each axis of the right table: the index of the left one at
\* that axis, and 0 if it lacks the axis.
Project(term, i) ==
    [d \in DOMAIN AxesOf[term] |->
        LET axis == AxesOf[term][d]
            e == CHOOSE e \in 0 .. Len(AxesOf["cf"]) :
                    IF e = 0 THEN axis \notin ToSet(AxesOf["cf"])
                    ELSE AxesOf["cf"][e] = axis
        IN IF e = 0 THEN 0 ELSE i[e]]

\* cf_multiply of the values, by a grid that may be smaller than the one of the
\* product and lies in the middle of it.  The indexes are those of the
\* rectangle, while the views are indexed from 0.
MultiplyBody(term, doMultiply, column, region) ==
    LET left == region[Product]
        right == region[<<term, "VALUE">>]
        outer == SubSeq(left, 1, Len(AxesOf["cf"]))
        n == Size(right)[Len(right)]
        edge == (Size(left)[Len(left)] - n) \div 2
        times(i, xy) ==
            LET at == i \o [d \in DOMAIN xy |-> edge + xy[d]]
                old == Read(column[Product], left, at)
                factor == Read(column[<<term, "VALUE">>], right, Project(term, i) \o xy)
            IN <<Global(left, at),
                 IF factor = Garbage \/ (doMultiply /\ old = Garbage) THEN Garbage
                 ELSE Element((IF doMultiply THEN old.of ELSE <<>>) \o <<factor>>,
                              SubSeq(at, Len(i) + 1, Len(at)))>>
    IN {times(GlobalIndex(rank, outer), xy) :
            rank \in 0 .. LeagueSize(Size(outer)) - 1, xy \in Box(<<n, n>>)}

==============================================================================

--------------------------- MODULE MCTableColumns ---------------------------
(***************************************************************************)
(* A table indexed by TIME (axis 1) and ROW (axis 0): the index column of  *)
(* TIME, scalar columns, array columns over one more axis, a second space  *)
(* with the axes of the scalars and one that does not conform.             *)
(***************************************************************************)
EXTENDS TableColumns, TLC

CONSTANTS n1, n2, n3, f1, f2, r1, r2, r3, ti, sc, ar, sc2, un

MCName == {n1, n2, n3}
MCField == {f1, f2}
MCRegion == {r1, r2, r3}
MCSpace == {ti, sc, ar, sc2, un}
MCIndexAxes == <<1, 0>>
MCAxesOf == ti :> <<1>> @@ sc :> <<1, 0>> @@ ar :> <<1, 0, 2>>
            @@ sc2 :> <<1, 0>> @@ un :> <<0, 1>>
MCIndexSpaces == {ti}
MCSameUid == MCSpace
MCSameRows == {sc, ar, sc2}

Symmetry ==
  Permutations(MCName) \cup Permutations(MCField) \cup Permutations(MCRegion)
=============================================================================

--------------------------- MODULE MCTableSession ---------------------------
(***************************************************************************)
(* Two columns in the file and two that the application adds, over         *)
(* scalar and array ColumnSpaces of a table indexed by ROW.                *)
(***************************************************************************)
EXTENDS TableSession, TLC

CONSTANTS a, b, x, y, f1, f2, f3, r1, r2, sc, ar, plain, mapped

MCName == {a, b, x, y}
MCFileName == {a, b}
MCField == {f1, f2, f3}
MCRegion == {r1, r2}
MCSpace == {sc, ar}
MCMode == {plain, mapped}
MCIndexAxes == <<0>>
MCAxesOf == sc :> <<0>> @@ ar :> <<0, 1>>

Symmetry ==
  Permutations({a, b}) \cup Permutations({x, y}) \cup Permutations(MCField)
  \cup Permutations(MCRegion) \cup Permutations(MCMode)
=============================================================================

----------------------------- MODULE ZernikeSeries -----------------------------
(***************************************************************************)
(* The expansion of a series of Zernike coefficients, one polynomial after *)
(* the other (zernike_series_::expand), for every order of a basis.  All   *)
(* coefficients differ from zero: the coefficient at a place is the place. *)
(***************************************************************************)
EXTENDS Zernike, FiniteSets

VARIABLES
    order,   \* the order of the basis
    done,    \* the number of polynomials that are expanded
    array    \* what they have added to the array, as in Expanded

vars == <<order, done, array>>

Init ==
    /\ order \in 0 .. zernike_max_order
    /\ done = 0
    /\ array = {}

Expand ==
    /\ Expandable(order)
    /\ done < Len(Series(order))
    /\ LET z == Series(order)[done + 1]
           terms == TermsOf(z.m, z.n)
       IN array' = array \cup {<<terms[t][1], terms[t][2], Place(order, done + 1), terms[t][3]>> :
                                  t \in DOMAIN terms}
    /\ done' = done + 1
    /\ UNCHANGED order

Next == Expand

Spec == Init /\ [][Next]_vars

---------------------------------------------------------------------------

\* The factor of x^px * y^py in what the coefficient at a place has added.
Factor(place, px, py) ==
    LET added == {e \in array : e[1] = px /\ e[2] = py /\ e[3] = place}
    IN IF added = {} THEN 0 ELSE (CHOOSE e \in added : TRUE)[4]

\* Zernike's equation, r the distance from the origin, which the polynomials of
\* degree n that are orthogonal on the disk to all of a lower degree satisfy,
\* and no others:
\*     Z_xx + Z_yy - (r d/dr)^2 Z - 2 r d/dr Z + n (n + 2) Z = 0
IsZernike(place, n) ==
    \A px, py \in 0 .. n :
        LET d == px + py
        IN (px + 1) * (px + 2) * Factor(place, px + 2, py)
           + (py + 1) * (py + 2) * Factor(place, px, py + 2)
           + (n * (n + 2) - d * (d + 2)) * Factor(place, px, py) = 0

\* compute_pcs_task is to expand "a linear combination of Zernike polynomials
\* Z_(m, n) with coefficients z(m, n)": what a coefficient has added is a
\* Zernike polynomial of order n, whichever of these its label m stands for.
ExpandsZernikePolynomials ==
    \A k \in 1 .. done :
        LET z == Series(order)[k]
        IN IsZernike(zernike_index(z.m, z.n), z.n)

================================================================================

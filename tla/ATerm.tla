--------------------------------- MODULE ATerm ---------------------------------
(***************************************************************************)
(* The aperture term: the Zernike coefficients for each baseline class,    *)
(* frequency and Stokes value (ATermZernikeModel), the illumination        *)
(* function evaluated from these and transformed                           *)
(* (ATermIlluminationFunction), and the Mueller matrix elements            *)
(* (ATermTable).  The axes of the orders of polynomials are left out: the  *)
(* coefficients of one polynomial are one value.                           *)
(***************************************************************************)
EXTENDS CfTerms, Zernike

CONSTANT Tolerance   \* a frequency is exact within 1 / Tolerance of itself

ASSUME ToleranceAssumption == Tolerance \in Nat \ {0}

Distance(f, g) == IF f > g THEN f - g ELSE g - f

\* The scan for the nearest frequency over coefficients in some order: it ends
\* at one within the tolerance.  <<>> is the NaN of a scan that met nothing.
Nearest(zcs, frq) ==
    LET d(f) == Distance(frq, f)
        scan[k \in 0 .. Len(zcs)] ==
            IF k = 0 THEN <<>>
            ELSE LET nearest == scan[k - 1]
                     this == zcs[k].frq
                 IN IF /\ nearest # <<>>
                       /\ \/ d(nearest[1]) * Tolerance <= frq
                          \/ d(this) >= d(nearest[1])
                    THEN nearest
                    ELSE <<this>>
    IN scan[Len(zcs)]

\* The order of the largest polynomial that has a coefficient.
ZernikeOrder(zcs) ==
    CHOOSE order \in {0} \cup {zc.n : zc \in zcs} : \A zc \in zcs : zc.n <= order

\* The coefficients that are copied, each to the place of its polynomial, where
\* a later one replaces an earlier one; no coefficient is zero.
Placed(given, order) ==
    [place \in 0 .. zernike_num_terms(order) - 1 |->
       LET here == {k \in DOMAIN given : zernike_index(given[k].m, given[k].n) = place}
       IN {given[k].value : k \in {k \in here : \A j \in here : j <= k}}]

\* mutant: the frequency of the coefficients is not compared
CoefficientsOfAny(zcs, frq, order) == Placed(zcs, order)

\* What init_zc_region writes for a baseline class, a frequency and a Stokes
\* value, std::partition having left the coefficients of the class and Stokes
\* value in the order "zcs".
Coefficients(zcs, frq, order) ==
    LET nearest == Nearest(zcs, frq)
    IN Placed(SelectSeq(zcs, LAMBDA zc : nearest # <<>> /\ zc.frq = nearest[1]), order)

\* Every order in which std::partition, which is not stable, may leave them.
Orders(zcs) == SetToSeqs(zcs)

Candidates(order, blc, sto) == SelectSeq(order, LAMBDA zc : zc.blc = blc /\ zc.sto = sto)

\* Sorted and without duplicates: what std::set makes of the Stokes values.
StokesValues(out, in) ==
    SetToSortSeq({out[i] : i \in DOMAIN out} \cup {in[i] : i \in DOMAIN in}, <)

\* A polynomial: what is added to its elements, and what they hold before that.
Polynomial(start, sum) == [start |-> start, sum |-> sum]

\* compute_pcs_task: expand adds to elements that nobody has set, the views being
\* of a region with no contents; "memory" is what an element then starts with.
PcsBody(order, memory, column, region) ==
    LET rect == region[<<"zmodel", "ZC">>]
        zc(l) == Read(column[<<"zmodel", "ZC">>], rect, l)
    IN {<<Global(region[<<"zmodel", "PC">>], l),
          IF zc(l) = Garbage THEN Garbage
          ELSE [poly |-> Polynomial(memory, Expanded(order, zc(l)))]>> : l \in Box(Size(rect))}

\* compute_epts_task: the powers of the coordinates, zero outside of the disk
EptsBody(column, region) ==
    LET rect == region[<<"a_coords", "COORD">>]
        c(l) == Read(column[<<"a_coords", "COORD">>], rect, l)
    IN {<<Global(region[<<"a_coords", "EPT">>], l),
          IF c(l) = Garbage THEN Garbage
          ELSE [at |-> c(l), on |-> InDisk(c(l), 1)]>> : l \in Box(Size(rect))}

\* compute_aifs_task: the polynomial at a point; a team for every element
AifsBody(column, region) ==
    LET rect == region[<<"aif", "VALUE">>]
        body(rank) ==
            LET l == LocalIndex(rank, Size(rect))
                pc == Read(column[<<"zmodel", "PC">>], region[<<"zmodel", "PC">>],
                           <<l[1], l[3], l[4]>>)
                ept == Read(column[<<"a_coords", "EPT">>], region[<<"a_coords", "EPT">>],
                            <<l[2], l[5], l[6]>>)
            IN <<l, IF pc = Garbage \/ ept = Garbage THEN Garbage
                    ELSE Element(<<pc.poly, ept.at.pa>>,
                                 IF ept.on THEN <<ept.at.x, ept.at.y>> ELSE <<>>)>>
    IN {<<Global(rect, wr[1]), wr[2]>> :
           wr \in {wr \in {body(rank) : rank \in 0 .. LeagueSize(Size(rect)) - 1} :
                       InSize(wr[1], Size(rect))}}

\* get_paramsN: the last "rank" dimensions are those of an array, the others
\* number the arrays.
Arrays(size, rank) == Box(SubSeq(size, 1, Len(size) - rank))

ArraySize(size, rank) == SubSeq(size, Len(size) - rank + 1, Len(size))

\* rotate_arrays: where the element comes from that is at "xy" afterwards
RotatedFrom(xy, n) == [d \in DOMAIN xy |-> (xy[d] + n[d] \div 2 + 1) % n[d]]

\* FFT::in_place on a region, with rotate_out: each of its grids is replaced by
\* a transform, every element of which depends on all elements of the grid.
\* The place of an element is its frequency; what makes it is what the elements
\* of the grid were made of.  rotate_in changes phases, which are left out.
FftBody(col, column, region) ==
    LET rect == region[col]
        n == ArraySize(Size(rect), 2)
        transforms(l) ==
            LET grid == {Read(column[col], rect, l \o xy) : xy \in Box(n)}
                made == {v.of : v \in grid}
            IN {<<Global(rect, l \o xy),
                  IF Garbage \in grid THEN Garbage ELSE Element(made, RotatedFrom(xy, n))>> :
                  xy \in Box(n)}
    IN UNION {transforms(l) : l \in Arrays(Size(rect), 2)}

\* ATermTable::compute_cfs_task.  stokes_indexes is made from the Stokes values
\* of the illumination functions; the values of STOKES_OUT serve for STOKES_IN
\* too.
ATermBody(column, region) ==
    LET rect == region[<<"a", "VALUE">>]
        size == Size(rect)
        out(l) == Read(column[<<"a", "STOKES_OUT">>], region[<<"a", "STOKES_OUT">>], <<l>>)
        jones(l, sto) ==
            Read(column[<<"aif", "VALUE">>], region[<<"aif", "VALUE">>],
                 <<l[1], l[2], l[3], Position(column[<<"aif", "STOKES">>], sto)>>
                 \o SubSeq(l, 6, 7))
        element(l) ==
            LET left == jones(l, out(l[4]))
                right == jones(l, out(l[5]))
            IN IF left = Garbage \/ right = Garbage THEN Garbage
               ELSE Element(<<left, right>>, SubSeq(l, 6, 7))
        outer == SubSeq(size, 1, 5)
    IN {<<Global(rect, l), element(l)>> :
          l \in {l \in {LocalIndex(rank, outer) \o xy :
                           rank \in 0 .. LeagueSize(outer) - 1, xy \in Box(SubSeq(size, 6, 7))} :
                     InSize(l, size)}}

==============================================================================

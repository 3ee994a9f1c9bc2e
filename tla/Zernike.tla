-------------------------------- MODULE Zernike --------------------------------
(***************************************************************************)
(* The Zernike basis (synthesis/Zernike.h): a table of terms for each      *)
(* polynomial, the places of coefficients in a series, and the expansion   *)
(* of a series of coefficients to a polynomial in x and y.                 *)
(*                                                                         *)
(* In Order<n> are the tables Zernike<m, n>::terms for m = -n, 2-n .. n; a *)
(* term <<px, py, c>> is c * x^px * y^py.                                  *)
(***************************************************************************)
EXTENDS Integers, Sequences, SequencesExt

Order0 == <<
   <<<<0,0,1>>>> >>

Order1 == <<
   <<<<0,1,1>>>>,
   <<<<1,0,1>>>> >>

Order2 == <<
   <<<<2,0,2>>, <<0,0,-1>>, <<0,2,2>>>>,
   <<<<1,1,2>>>>,
   <<<<2,0,-1>>, <<0,2,1>>>> >>

Order3 == <<
   <<<<3,0,-1>>, <<1,2,3>>>>,
   <<<<3,0,3>>, <<1,0,-2>>, <<1,2,3>>>>,
   <<<<2,1,3>>, <<0,1,-2>>, <<0,3,3>>>>,
   <<<<2,1,-3>>, <<0,3,1>>>> >>

Order4 == <<
   <<<<3,1,-4>>, <<1,3,4>>>>,
   <<<<3,1,8>>, <<1,1,-6>>, <<1,3,8>>>>,
   <<<<4,0,6>>, <<2,0,-6>>, <<2,2,12>>, <<0,0,1>>, <<0,2,-6>>, <<0,4,6>>>>,
   <<<<4,0,-4>>, <<2,0,3>>, <<0,2,-3>>, <<0,4,4>>>>,
   <<<<4,0,1>>, <<2,2,-6>>, <<0,4,1>>>> >>

Order5 == <<
   <<<<5,0,1>>, <<3,2,-10>>, <<1,4,5>>>>,
   <<<<5,0,-5>>, <<3,0,4>>, <<3,2,10>>, <<1,2,-12>>, <<1,4,15>>>>,
   <<<<5,0,10>>, <<3,0,-12>>, <<3,2,20>>, <<1,0,3>>, <<1,2,-12>>, <<1,4,10>>>>,
   <<<<4,1,10>>, <<2,1,-12>>, <<2,3,20>>, <<0,1,3>>, <<0,3,-12>>, <<0,5,10>>>>,
   <<<<4,1,-15>>, <<2,1,12>>, <<2,3,-10>>, <<0,3,-4>>, <<0,5,5>>>>,
   <<<<4,1,5>>, <<2,3,-10>>, <<0,5,1>>>> >>

Order6 == <<
   <<<<5,1,6>>, <<3,3,-20>>, <<1,5,6>>>>,
   <<<<5,1,-24>>, <<3,1,20>>, <<1,3,-20>>, <<1,5,24>>>>,
   <<<<1,1,12>>, <<3,1,40>>, <<1,3,-40>>, <<5,1,30>>, <<3,3,60>>, <<1,5,-30>>>>,
   <<<<6,0,20>>, <<4,0,-30>>, <<4,2,60>>, <<2,0,12>>, <<2,2,-60>>, <<2,4,60>>, <<0,6,20>>,
      <<0,4,-30>>, <<0,2,12>>, <<0,0,-1>>>>,
   <<<<6,0,-15>>, <<4,0,20>>, <<4,2,-15>>, <<2,0,-6>>, <<2,4,15>>, <<0,2,6>>, <<0,4,-20>>,
      <<0,6,15>>>>,
   <<<<6,0,6>>, <<4,0,-5>>, <<4,2,-30>>, <<2,2,30>>, <<2,4,-30>>, <<0,4,-5>>, <<0,6,6>>>>,
   <<<<6,0,-1>>, <<4,2,15>>, <<2,4,-15>>, <<0,6,1>>>> >>

Order7 == <<
   <<<<7,0,-1>>, <<5,2,21>>, <<3,4,-35>>, <<1,6,7>>>>,
   <<<<7,0,7>>, <<5,0,-6>>, <<5,2,-63>>, <<3,2,60>>, <<3,4,-35>>, <<1,4,-30>>, <<1,6,35>>>>,
   <<<<7,0,-21>>, <<5,0,30>>, <<5,2,21>>, <<3,0,-10>>, <<3,2,-60>>, <<3,4,105>>, <<1,2,30>>,
      <<1,4,-90>>, <<1,6,63>>>>,
   <<<<7,0,35>>, <<5,0,-60>>, <<5,2,105>>, <<3,0,30>>, <<3,2,-120>>, <<3,4,105>>, <<1,0,-4>>,
      <<1,2,30>>, <<1,4,-60>>, <<1,6,35>>>>,
   <<<<6,1,35>>, <<4,1,-60>>, <<4,3,105>>, <<2,1,30>>, <<2,3,-120>>, <<2,5,105>>, <<0,1,-4>>,
      <<0,3,30>>, <<0,5,-60>>, <<0,7,35>>>>,
   <<<<6,1,-63>>, <<4,1,90>>, <<4,3,-105>>, <<2,1,-30>>, <<2,3,60>>, <<2,5,-21>>, <<0,3,10>>,
      <<0,5,-30>>, <<0,7,21>>>>,
   <<<<6,1,35>>, <<4,1,-30>>, <<4,3,-35>>, <<2,3,60>>, <<2,5,-63>>, <<0,5,-6>>, <<0,7,7>>>>,
   <<<<6,1,-7>>, <<4,3,35>>, <<2,5,-21>>, <<0,7,1>>>> >>

Order8 == <<
   <<<<7,1,-8>>, <<5,3,56>>, <<3,5,-56>>, <<1,7,8>>>>,
   <<<<7,1,48>>, <<5,1,-42>>, <<5,3,-112>>, <<3,3,140>>, <<3,5,-112>>, <<1,5,-42>>, <<1,7,48>>>>,
   <<<<7,1,-112>>, <<5,1,168>>, <<5,3,-112>>, <<3,1,-60>>, <<3,5,112>>, <<1,3,60>>, <<1,5,-168>>,
      <<1,7,112>>>>,
   <<<<7,1,-112>>, <<5,1,-210>>, <<5,3,336>>, <<3,1,120>>, <<3,3,-420>>, <<3,5,336>>, <<1,1,-20>>,
      <<1,3,120>>, <<1,5,-210>>, <<1,7,112>>>>,
   <<<<8,0,70>>, <<6,0,-140>>, <<6,2,280>>, <<4,0,90>>, <<4,2,-420>>, <<4,4,420>>, <<2,0,-20>>,
      <<2,2,180>>, <<2,4,-420>>, <<2,6,280>>, <<0,0,1>>, <<0,2,-20>>, <<0,4,90>>, <<0,6,-140>>,
      <<0,8,70>>>>,
   <<<<8,0,-56>>, <<6,0,105>>, <<6,2,-112>>, <<4,0,-60>>, <<4,2,105>>, <<2,0,10>>, <<2,4,-105>>,
      <<2,6,112>>, <<0,2,-10>>, <<0,4,60>>, <<0,6,-105>>, <<0,8,56>>>>,
   <<<<8,0,28>>, <<6,0,-42>>, <<6,2,-112>>, <<4,0,15>>, <<4,2,210>>, <<4,4,-280>>, <<2,2,-90>>,
      <<2,4,210>>, <<2,6,-112>>, <<0,4,15>>, <<0,6,-42>>, <<0,8,28>>>>,
   <<<<8,0,-8>>, <<6,0,7>>, <<6,2,112>>, <<4,2,-105>>, <<2,4,105>>, <<2,6,-112>>, <<0,6,-7>>,
      <<0,8,8>>>>,
   <<<<8,0,1>>, <<6,2,-28>>, <<4,4,70>>, <<2,6,-28>>, <<0,8,1>>>> >>

Order9 == <<
   <<<<9,0,1>>, <<7,2,-36>>, <<5,4,126>>, <<3,6,-84>>, <<1,8,9>>>>,
   <<<<9,0,-9>>, <<7,0,8>>, <<7,2,180>>, <<5,2,-168>>, <<5,4,-126>>, <<3,4,280>>, <<3,6,-252>>,
      <<1,6,-56>>, <<1,8,63>>>>,
   <<<<9,0,36>>, <<7,0,-56>>, <<7,2,-288>>, <<5,0,21>>, <<5,2,504>>, <<5,4,-504>>, <<3,2,-210>>,
      <<3,4,280>>, <<1,4,105>>, <<1,6,-280>>, <<1,8,180>>>>,
   <<<<9,0,-84>>, <<7,0,168>>, <<5,0,-105>>, <<5,2,-168>>, <<5,4,504>>, <<3,0,20>>, <<3,2,210>>,
      <<3,4,-840>>, <<3,6,672>>, <<1,2,-60>>, <<1,4,315>>, <<1,6,-504>>, <<1,8,252>>>>,
   <<<<9,0,126>>, <<7,0,-280>>, <<7,2,504>>, <<5,0,210>>, <<5,2,-840>>, <<5,4,756>>, <<3,0,-60>>,
      <<3,2,420>>, <<3,4,-840>>, <<3,6,504>>, <<1,0,5>>, <<1,2,-60>>, <<1,4,210>>, <<1,6,-280>>,
      <<1,8,126>>>>,
   <<<<8,1,126>>, <<6,1,-280>>, <<6,3,504>>, <<4,1,210>>, <<4,3,-840>>, <<4,5,756>>, <<2,1,-60>>,
      <<2,3,420>>, <<2,5,-840>>, <<2,7,504>>, <<0,1,5>>, <<0,3,-60>>, <<0,5,210>>, <<0,7,-280>>,
      <<0,9,126>>>>,
   <<<<8,1,-252>>, <<6,1,504>>, <<6,3,-672>>, <<4,1,-315>>, <<4,3,840>>, <<4,5,-504>>, <<2,1,60>>,
      <<2,3,-210>>, <<2,5,168>>, <<0,3,-20>>, <<0,5,105>>, <<0,7,-168>>, <<0,9,84>>>>,
   <<<<8,1,180>>, <<6,1,-280>>, <<4,1,105>>, <<4,3,280>>, <<4,5,-504>>, <<2,3,-210>>, <<2,5,504>>,
      <<2,7,-288>>, <<0,5,21>>, <<0,7,-56>>, <<0,9,36>>>>,
   <<<<8,1,-63>>, <<6,1,56>>, <<6,3,-252>>, <<4,3,-280>>, <<4,5,126>>, <<2,5,168>>, <<2,7,-180>>,
      <<0,7,-8>>, <<0,9,9>>>>,
   <<<<8,1,9>>, <<6,3,-84>>, <<4,5,126>>, <<2,7,-36>>, <<0,9,1>>>> >>

Order10 == <<
   <<<<9,1,10>>, <<7,3,-120>>, <<5,5,252>>, <<3,7,-120>>, <<1,9,10>>>>,
   <<<<9,1,-80>>, <<7,1,72>>, <<7,3,480>>, <<5,3,-504>>, <<3,5,504>>, <<3,7,-480>>, <<1,7,-72>>,
      <<1,9,80>>>>,
   <<<<9,1,270>>, <<7,1,-432>>, <<7,3,-360>>, <<5,1,168>>, <<5,3,1008>>, <<5,5,-1260>>,
      <<3,3,-560>>, <<3,5,1008>>, <<3,7,-360>>, <<1,5,168>>, <<1,7,-432>>, <<1,9,270>>>>,
   <<<<9,1,-480>>, <<7,1,1008>>, <<7,3,-960>>, <<5,1,-672>>, <<5,3,1008>>, <<3,1,140>>,
      <<3,5,-1008>>, <<3,7,960>>, <<1,3,-140>>, <<1,5,672>>, <<1,7,-1008>>, <<1,9,480>>>>,
   <<<<9,1,420>>, <<7,1,-1008>>, <<7,3,1680>>, <<5,1,840>>, <<5,3,-3024>>, <<5,5,2520>>,
      <<3,1,-280>>, <<3,3,1680>>, <<3,5,-3024>>, <<3,7,1680>>, <<1,1,30>>, <<1,3,-280>>,
      <<1,5,840>>, <<1,7,-1008>>, <<1,9,420>>>>,
   <<<<10,0,252>>, <<8,0,-630>>, <<8,2,1260>>, <<6,0,560>>, <<6,2,-2520>>, <<6,4,2520>>,
      <<4,0,-210>>, <<4,2,1680>>, <<4,4,-3780>>, <<4,6,2520>>, <<2,0,30>>, <<2,2,-420>>,
      <<2,4,1680>>, <<2,6,-2520>>, <<2,8,1260>>, <<0,0,-1>>, <<0,2,30>>, <<0,4,-210>>,
      <<0,6,560>>, <<0,8,-630>>, <<0,10,252>>>>,
   <<<<10,0,-210>>, <<8,0,504>>, <<8,2,-630>>, <<6,0,-420>>, <<6,2,1008>>, <<6,4,-420>>,
      <<4,0,140>>, <<4,2,-420>>, <<4,6,420>>, <<2,0,-15>>, <<2,4,420>>, <<2,6,-1008>>,
      <<2,8,630>>, <<0,2,15>>, <<0,4,-140>>, <<0,6,420>>, <<0,8,-504>>, <<0,10,210>>>>,
   <<<<10,0,120>>, <<8,0,-252>>, <<8,2,-360>>, <<6,0,168>>, <<6,2,1008>>, <<6,4,-1680>>,
      <<4,0,-35>>, <<4,2,-840>>, <<4,4,2520>>, <<4,6,-1680>>, <<2,2,210>>, <<2,4,-840>>,
      <<2,6,1008>>, <<2,8,-360>>, <<0,4,-35>>, <<0,6,168>>, <<0,8,-252>>, <<0,10,120>>>>,
   <<<<10,0,-45>>, <<8,0,72>>, <<8,2,585>>, <<6,0,-28>>, <<6,2,-1008>>, <<6,4,630>>, <<4,2,420>>,
      <<4,6,-630>>, <<2,4,-420>>, <<2,6,1008>>, <<2,8,-585>>, <<0,6,28>>, <<0,8,-72>>,
      <<0,10,45>>>>,
   <<<<10,0,10>>, <<8,0,-9>>, <<8,2,-270>>, <<6,2,252>>, <<6,4,420>>, <<4,4,-630>>, <<4,6,420>>,
      <<2,6,252>>, <<2,8,-270>>, <<0,8,-9>>, <<0,10,10>>>>,
   <<<<10,0,-1>>, <<8,2,45>>, <<6,4,-210>>, <<4,6,210>>, <<2,8,-45>>, <<0,10,1>>>> >>
Orders0To10 == <<Order0, Order1, Order2, Order3, Order4, Order5, Order6, Order7,
                 Order8, Order9, Order10>>

zernike_max_order == 10

TermsOf(m, n) == Orders0To10[n + 1][(m + n) \div 2 + 1]

\* Zernike<m, n>::N::value, which is n but for one of them.
DeclaredOrder(m, n) == IF m = 8 /\ n = 8 THEN 9 ELSE n

zernike_num_terms(order) == ((order + 1) * (order + 2)) \div 2

zernike_index(m, n) == (n * (n + 2) + m) \div 2

\* The labels of number i: the last order that starts at or before i.
zernike_inverse_index(i) ==
    LET starts == {n \in 0 .. zernike_max_order : zernike_num_terms(n - 1) <= i}
        n == CHOOSE n \in starts : \A k \in starts : k <= n
    IN [m |-> 2 * i - n * (n + 2), n |-> n]

\* zernike_basis::series: the polynomials of the orders up to "order", in turn
Series(order) ==
    FlattenSeq([n \in 1 .. order + 1 |-> [k \in 1 .. n |-> [m |-> 2 * k - 1 - n, n |-> n - 1]]])

\* zernike_series_::max_n
SeriesOrder(order) ==
    LET series == Series(order)
        declared == {DeclaredOrder(series[k].m, series[k].n) : k \in DOMAIN series}
    IN CHOOSE n \in declared : \A k \in declared : k <= n

\* What expand asserts of the array, which has the order's size.
Expandable(order) == SeriesOrder(order) = order

\* The place of the coefficient of polynomial k of a series, counted from the
\* end of the series that has the declared order.
Place(order, k) == zernike_num_terms(SeriesOrder(order)) - (Len(Series(order)) - k + 1)

\* zernike_series_::expand: each polynomial adds its terms, times its
\* coefficient, to elements of the array.  An element is the set of what was
\* added to it: the sum of <<px, py, coefficient, c>>.  A coefficient is a set,
\* which is empty for zero.
Expanded(order, coefficients) ==
    UNION {LET z == Series(order)[k]
               terms == TermsOf(z.m, z.n)
           IN {<<terms[t][1], terms[t][2], c, terms[t][3]>> :
                  t \in DOMAIN terms, c \in coefficients[Place(order, k)]} :
           k \in DOMAIN Series(order)}

================================================================================

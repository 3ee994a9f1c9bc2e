------------------------- MODULE RowMapping_proofs -------------------------
(***************************************************************************)
(* For tables of any size and any values, and whatever order the tasks run *)
(* in, reindexing writes the row map that is meant, and every row of it at *)
(* most once.                                                              *)
(***************************************************************************)
EXTENDS RowMapping, Lemmas

(***************************************************************************)
(* The order of rows.                                                      *)
(***************************************************************************)

\* A set of points that Before puts in an order.
Ordered(R) ==
  /\ \A a \in R : ~Before(a, a)
  /\ \A a, b, c \in R : Before(a, b) /\ Before(b, c) => Before(a, c)
  /\ \A a, b \in R : a = b \/ Before(a, b) \/ Before(b, a)

\* The lexicographic order is one, for points of as many coordinates.
LEMMA PointsOrdered ==
  ASSUME NEW R \in SUBSET Seq(Nat), NEW n \in Nat, \A r \in R : Len(r) = n
  PROVE  Ordered(R)
<1>1. ASSUME NEW a \in R PROVE ~Before(a, a)
  <2>1. \A i \in 1 .. Len(a) : a[i] \in Nat
    OBVIOUS
  <2>2. \A i \in 1 .. Len(a) : ~(a[i] < a[i])
    BY <2>1
  <2> QED BY <2>2 DEF Before
<1>2. ASSUME NEW a \in R, NEW b \in R, NEW c \in R, Before(a, b), Before(b, c)
      PROVE  Before(a, c)
  <2>1. /\ Len(a) = n /\ Len(b) = n /\ Len(c) = n
        /\ \A i \in 1 .. n : a[i] \in Nat /\ b[i] \in Nat /\ c[i] \in Nat
    OBVIOUS
  <2>2. PICK i \in 1 .. n : a[i] < b[i] /\ \A j \in 1 .. i - 1 : a[j] = b[j]
    BY <1>2, <2>1 DEF Before
  <2>3. PICK k \in 1 .. n : b[k] < c[k] /\ \A j \in 1 .. k - 1 : b[j] = c[j]
    BY <1>2, <2>1 DEF Before
  <2>4. CASE i < k
    <3>1. i \in 1 .. k - 1 /\ \A j \in 1 .. i - 1 : j \in 1 .. k - 1
      BY <2>4
    <3>2. a[i] < c[i] /\ \A j \in 1 .. i - 1 : a[j] = c[j]
      BY <2>2, <2>3, <3>1
    <3> QED BY <2>1, <3>2 DEF Before
  <2>5. CASE i = k
    <3>1. a[i] < c[i]
      BY <2>1, <2>2, <2>3, <2>5
    <3> QED BY <2>1, <2>2, <2>3, <2>5, <3>1 DEF Before
  <2>6. CASE k < i
    <3>1. k \in 1 .. i - 1 /\ \A j \in 1 .. k - 1 : j \in 1 .. i - 1
      BY <2>6
    <3>2. a[k] < c[k] /\ \A j \in 1 .. k - 1 : a[j] = c[j]
      BY <2>2, <2>3, <3>1
    <3> QED BY <2>1, <3>2 DEF Before
  <2> QED BY <2>4, <2>5, <2>6
<1>3. ASSUME NEW a \in R, NEW b \in R, a # b
      PROVE  Before(a, b) \/ Before(b, a)
  <2> DEFINE Differ == {i \in 1 .. n : a[i] # b[i]}
  <2>1. /\ Len(a) = n /\ Len(b) = n
        /\ \A i \in 1 .. n : a[i] \in Nat /\ b[i] \in Nat
    OBVIOUS
  <2>2. Differ # {}
    <3>1. a \in Seq(Nat) /\ b \in Seq(Nat)
      OBVIOUS
    <3>2. (\A i \in 1 .. n : a[i] = b[i]) => a = b
      BY <2>1, <3>1, SeqEqual
    <3> QED BY <1>3, <3>2
  <2>3. PICK i \in Differ : \A j \in Differ : i <= j
    <3>1. Differ \in SUBSET Nat
      OBVIOUS
    <3> HIDE DEF Differ
    <3> QED BY <2>2, <3>1, Least
  <2>4. i \in 1 .. n /\ a[i] # b[i]
    BY <2>3
  <2>5. \A j \in 1 .. i - 1 : a[j] = b[j]
    <3> SUFFICES ASSUME NEW j \in 1 .. i - 1, a[j] # b[j] PROVE FALSE
      OBVIOUS
    <3>1. j \in 1 .. n /\ ~(i <= j)
      BY <2>4
    <3> QED BY <2>3, <3>1
  <2>6. a[i] < b[i] \/ b[i] < a[i]
    BY <2>1, <2>4
  <2> QED BY <2>1, <2>4, <2>5, <2>6 DEF Before
<1> QED BY <1>1, <1>2, <1>3 DEF Ordered

\* A list in order has no row twice.
LEMMA OrderedOnce ==
  ASSUME NEW R, Ordered(R), NEW s \in Seq(R), InOrder(s)
  PROVE  IsInjective(s)
<1>1. /\ \A i \in DOMAIN s : i \in Nat /\ s[i] \in R
  OBVIOUS
<1>2. \A i, j \in DOMAIN s : i < j => s[i] # s[j]
  BY <1>1 DEF InOrder, Ordered
<1>3. \A i, j \in DOMAIN s : i = j \/ i < j \/ j < i
  BY <1>1
<1> QED BY <1>2, <1>3 DEF IsInjective

-----------------------------------------------------------------------------
(***************************************************************************)
(* std::set_intersection, for lists in order.                              *)
(***************************************************************************)

\* What has been put out is what both lists have before their iterators, and
\* no row that is behind one iterator is ahead of the other.
Merging(R, s, t, m) ==
  /\ m \in [i : 1 .. Len(s) + 1, j : 1 .. Len(t) + 1, out : Seq(R)]
  /\ InOrder(m.out)
  /\ \A x \in ToSet(m.out) : \E a \in 1 .. m.i - 1, b \in 1 .. m.j - 1 : x = s[a] /\ x = t[b]
  /\ \A a \in 1 .. m.i - 1, b \in 1 .. m.j - 1 : s[a] = t[b] => s[a] \in ToSet(m.out)
  /\ \A a \in 1 .. m.i - 1, b \in m.j .. Len(t) : Before(s[a], t[b])
  /\ \A a \in m.i .. Len(s), b \in 1 .. m.j - 1 : Before(t[b], s[a])

\* A row that comes after all of a list in order can be appended to it.
LEMMA AppendedInOrder ==
  ASSUME NEW R, NEW s \in Seq(R), NEW r \in R, InOrder(s),
         \A x \in ToSet(s) : Before(x, r)
  PROVE  /\ Append(s, r) \in Seq(R) /\ InOrder(Append(s, r))
         /\ ToSet(Append(s, r)) = ToSet(s) \cup {r}
<1> DEFINE n == Len(s)
           u == Append(s, r)
<1>1. n \in Nat /\ DOMAIN s = 1 .. n
  OBVIOUS
<1>2. /\ u \in Seq(R) /\ Len(u) = n + 1
      /\ \A i \in 1 .. n : u[i] = s[i]
      /\ u[n + 1] = r
  BY AppendProperties
<1> HIDE DEF u
<1>3. DOMAIN u = 1 .. n + 1
  BY <1>2
<1>4. \A i \in 1 .. n : s[i] \in ToSet(s)
  BY <1>1 DEF ToSet
<1> HIDE DEF n
<1>5. InOrder(u)
  <2> SUFFICES ASSUME NEW i \in 1 .. n + 1, NEW j \in 1 .. n + 1, i < j
               PROVE  Before(u[i], u[j])
    BY <1>3 DEF InOrder
  <2>1. CASE j = n + 1
    <3>1. i \in 1 .. n
      BY <1>1, <2>1
    <3> QED BY <1>2, <1>4, <2>1, <3>1
  <2>2. CASE j # n + 1
    <3>1. i \in 1 .. n /\ j \in 1 .. n
      BY <1>1, <2>2
    <3> QED BY <1>1, <1>2, <3>1 DEF InOrder
  <2> QED BY <2>1, <2>2
<1>6. ToSet(u) = ToSet(s) \cup {r}
  <2>1. \A i \in 1 .. n + 1 : i = n + 1 \/ i \in 1 .. n
    BY <1>1
  <2>2. \A i \in 1 .. n : i \in 1 .. n + 1
    BY <1>1
  <2>3. n + 1 \in 1 .. n + 1
    BY <1>1
  <2> QED BY <1>1, <1>2, <1>3, <2>1, <2>2, <2>3 DEF ToSet
<1> QED BY <1>2, <1>5, <1>6 DEF u

\* A turn keeps that, and either the loop has ended or an iterator moves on.
LEMMA TurnKeeps ==
  ASSUME NEW R, Ordered(R), NEW s \in Seq(R), NEW t \in Seq(R), InOrder(s), InOrder(t),
         NEW m, Merging(R, s, t, m)
  PROVE  /\ Merging(R, s, t, Turn(s, t, m))
         /\ \/ (m.i > Len(s) \/ m.j > Len(t)) /\ Turn(s, t, m) = m
            \/ Turn(s, t, m).i + Turn(s, t, m).j > m.i + m.j
<1> DEFINE i == m.i
           j == m.j
           out == m.out
           M == [i : 1 .. Len(s) + 1, j : 1 .. Len(t) + 1, out : Seq(R)]
<1>1. /\ Len(s) \in Nat /\ DOMAIN s = 1 .. Len(s) /\ \A a \in 1 .. Len(s) : s[a] \in R
      /\ Len(t) \in Nat /\ DOMAIN t = 1 .. Len(t) /\ \A b \in 1 .. Len(t) : t[b] \in R
  OBVIOUS
<1>2. /\ i \in 1 .. Len(s) + 1 /\ j \in 1 .. Len(t) + 1 /\ out \in Seq(R)
      /\ m = [i |-> i, j |-> j, out |-> out]
  BY DEF Merging
<1>3. /\ InOrder(out)
      /\ \A x \in ToSet(out) : \E a \in 1 .. i - 1, b \in 1 .. j - 1 : x = s[a] /\ x = t[b]
      /\ \A a \in 1 .. i - 1, b \in 1 .. j - 1 : s[a] = t[b] => s[a] \in ToSet(out)
      /\ \A a \in 1 .. i - 1, b \in j .. Len(t) : Before(s[a], t[b])
      /\ \A a \in i .. Len(s), b \in 1 .. j - 1 : Before(t[b], s[a])
  BY DEF Merging
<1>4. /\ \A a, b \in 1 .. Len(s) : a < b => Before(s[a], s[b])
      /\ \A a, b \in 1 .. Len(t) : a < b => Before(t[a], t[b])
  BY <1>1 DEF InOrder
<1>5. CASE i > Len(s) \/ j > Len(t)
  BY <1>5 DEF Turn
<1>6. ASSUME ~(i > Len(s) \/ j > Len(t)), Before(s[i], t[j])
      PROVE  /\ Merging(R, s, t, Turn(s, t, m))
             /\ Turn(s, t, m).i + Turn(s, t, m).j > m.i + m.j
  <2>1. i \in 1 .. Len(s) /\ j \in 1 .. Len(t)
    BY <1>1, <1>2, <1>6
  <2>2. Turn(s, t, m) = [i |-> i + 1, j |-> j, out |-> out]
    BY <1>2, <1>6 DEF Turn
  <2>3. Turn(s, t, m) \in M
    BY <1>1, <1>2, <2>1, <2>2
  <2>4. \A b \in j .. Len(t) : Before(s[i], t[b])
    <3> SUFFICES ASSUME NEW b \in j .. Len(t), b # j PROVE Before(s[i], t[b])
      BY <1>6
    <3>1. b \in 1 .. Len(t) /\ j < b
      BY <2>1
    <3>2. Before(t[j], t[b]) /\ s[i] \in R /\ t[j] \in R /\ t[b] \in R
      BY <1>1, <1>4, <2>1, <3>1
    <3> QED BY <1>6, <3>2 DEF Ordered
  <2>5. /\ \A a \in 1 .. (i + 1) - 1 : a = i \/ a \in 1 .. i - 1
        /\ \A a \in 1 .. i - 1 : a \in 1 .. (i + 1) - 1
        /\ \A a \in i + 1 .. Len(s) : a \in i .. Len(s)
        /\ i \in i .. Len(s)
    BY <1>1, <2>1
  <2>6. /\ \A x \in ToSet(out) : \E a \in 1 .. (i + 1) - 1, b \in 1 .. j - 1 : x = s[a] /\ x = t[b]
        /\ \A a \in 1 .. (i + 1) - 1, b \in j .. Len(t) : Before(s[a], t[b])
        /\ \A a \in i + 1 .. Len(s), b \in 1 .. j - 1 : Before(t[b], s[a])
    BY <1>3, <2>4, <2>5
  <2>7. \A a \in 1 .. (i + 1) - 1, b \in 1 .. j - 1 : s[a] = t[b] => s[a] \in ToSet(out)
    <3>1. \A b \in 1 .. j - 1 : Before(t[b], s[i]) /\ s[i] \in R
      BY <1>1, <1>3, <2>1, <2>5
    <3>2. \A b \in 1 .. j - 1 : s[i] # t[b]
      BY <3>1 DEF Ordered
    <3> QED BY <1>3, <2>5, <3>2
  <2>8. (i + 1) + j > i + j
    BY <2>1
  <2> HIDE DEF i, j, out
  <2>9. Merging(R, s, t, Turn(s, t, m))
    BY <1>3, <2>2, <2>3, <2>6, <2>7 DEF Merging
  <2> QED BY <2>2, <2>8, <2>9 DEF i, j
<1>7. ASSUME ~(i > Len(s) \/ j > Len(t)), ~Before(s[i], t[j]), Before(t[j], s[i])
      PROVE  /\ Merging(R, s, t, Turn(s, t, m))
             /\ Turn(s, t, m).i + Turn(s, t, m).j > m.i + m.j
  <2>1. i \in 1 .. Len(s) /\ j \in 1 .. Len(t)
    BY <1>1, <1>2, <1>7
  <2>2. Turn(s, t, m) = [i |-> i, j |-> j + 1, out |-> out]
    BY <1>2, <1>7 DEF Turn
  <2>3. Turn(s, t, m) \in M
    BY <1>1, <1>2, <2>1, <2>2
  <2>4. \A a \in i .. Len(s) : Before(t[j], s[a])
    <3> SUFFICES ASSUME NEW a \in i .. Len(s), a # i PROVE Before(t[j], s[a])
      BY <1>7
    <3>1. a \in 1 .. Len(s) /\ i < a
      BY <2>1
    <3>2. Before(s[i], s[a]) /\ s[i] \in R /\ t[j] \in R /\ s[a] \in R
      BY <1>1, <1>4, <2>1, <3>1
    <3> QED BY <1>7, <3>2 DEF Ordered
  <2>5. /\ \A b \in 1 .. (j + 1) - 1 : b = j \/ b \in 1 .. j - 1
        /\ \A b \in 1 .. j - 1 : b \in 1 .. (j + 1) - 1
        /\ \A b \in j + 1 .. Len(t) : b \in j .. Len(t)
        /\ j \in j .. Len(t)
    BY <1>1, <2>1
  <2>6. /\ \A x \in ToSet(out) : \E a \in 1 .. i - 1, b \in 1 .. (j + 1) - 1 : x = s[a] /\ x = t[b]
        /\ \A a \in 1 .. i - 1, b \in j + 1 .. Len(t) : Before(s[a], t[b])
        /\ \A a \in i .. Len(s), b \in 1 .. (j + 1) - 1 : Before(t[b], s[a])
    BY <1>3, <2>4, <2>5
  <2>7. \A a \in 1 .. i - 1, b \in 1 .. (j + 1) - 1 : s[a] = t[b] => s[a] \in ToSet(out)
    <3>1. \A a \in 1 .. i - 1 : Before(s[a], t[j]) /\ t[j] \in R
      BY <1>1, <1>3, <2>1, <2>5
    <3>2. \A a \in 1 .. i - 1 : s[a] # t[j]
      BY <3>1 DEF Ordered
    <3> QED BY <1>3, <2>5, <3>2
  <2>8. i + (j + 1) > i + j
    BY <2>1
  <2> HIDE DEF i, j, out
  <2>9. Merging(R, s, t, Turn(s, t, m))
    BY <1>3, <2>2, <2>3, <2>6, <2>7 DEF Merging
  <2> QED BY <2>2, <2>8, <2>9 DEF i, j
<1>8. ASSUME ~(i > Len(s) \/ j > Len(t)), ~Before(s[i], t[j]), ~Before(t[j], s[i])
      PROVE  /\ Merging(R, s, t, Turn(s, t, m))
             /\ Turn(s, t, m).i + Turn(s, t, m).j > m.i + m.j
  <2>1. i \in 1 .. Len(s) /\ j \in 1 .. Len(t)
    BY <1>1, <1>2, <1>8
  <2> DEFINE more == Append(out, s[i])
  <2>2. Turn(s, t, m) = [i |-> i + 1, j |-> j + 1, out |-> more]
    BY <1>2, <1>8 DEF Turn
  <2>3. s[i] = t[j] /\ s[i] \in R
    BY <1>1, <1>8, <2>1 DEF Ordered
  <2>4. /\ \A a \in 1 .. (i + 1) - 1 : a = i \/ a \in 1 .. i - 1
        /\ \A a \in 1 .. i - 1 : a \in 1 .. (i + 1) - 1 /\ a \in 1 .. Len(s) /\ a < i
        /\ \A a \in i + 1 .. Len(s) : a \in i .. Len(s) /\ a \in 1 .. Len(s) /\ i < a
        /\ i \in 1 .. (i + 1) - 1 /\ i \in i .. Len(s)
        /\ \A b \in 1 .. (j + 1) - 1 : b = j \/ b \in 1 .. j - 1
        /\ \A b \in 1 .. j - 1 : b \in 1 .. (j + 1) - 1 /\ b \in 1 .. Len(t) /\ b < j
        /\ \A b \in j + 1 .. Len(t) : b \in j .. Len(t) /\ b \in 1 .. Len(t) /\ j < b
        /\ j \in 1 .. (j + 1) - 1 /\ j \in j .. Len(t)
    BY <1>1, <2>1
  <2>5. \A x \in ToSet(out) : Before(x, s[i])
    BY <1>3, <1>4, <2>1, <2>4
  <2>6. more \in Seq(R) /\ InOrder(more) /\ ToSet(more) = ToSet(out) \cup {s[i]}
    BY <1>2, <1>3, <2>3, <2>5, AppendedInOrder
  <2> HIDE DEF more
  <2>7. Turn(s, t, m) \in M
    BY <1>1, <1>2, <2>1, <2>2, <2>6
  <2>8. \A x \in ToSet(more) : \E a \in 1 .. (i + 1) - 1, b \in 1 .. (j + 1) - 1 : x = s[a] /\ x = t[b]
    BY <1>3, <2>3, <2>4, <2>6
  <2>9. /\ \A b \in j + 1 .. Len(t) : Before(s[i], t[b])
        /\ \A a \in i + 1 .. Len(s) : Before(t[j], s[a])
    BY <1>4, <2>1, <2>3, <2>4
  <2>10. /\ \A a \in 1 .. (i + 1) - 1, b \in j + 1 .. Len(t) : Before(s[a], t[b])
         /\ \A a \in i + 1 .. Len(s), b \in 1 .. (j + 1) - 1 : Before(t[b], s[a])
    BY <1>3, <2>4, <2>9
  <2>11. \A a \in 1 .. (i + 1) - 1, b \in 1 .. (j + 1) - 1 : s[a] = t[b] => s[a] \in ToSet(more)
    <3>1. s[i] \in ToSet(more) /\ \A x \in ToSet(out) : x \in ToSet(more)
      BY <2>6
    <3>2. ASSUME NEW a \in 1 .. i - 1 PROVE s[a] # t[j]
      <4>1. Before(s[a], t[j]) /\ t[j] \in R
        BY <1>1, <1>3, <2>1, <2>4
      <4> QED BY <4>1 DEF Ordered
    <3> QED BY <1>3, <2>3, <2>4, <3>1, <3>2
  <2>12. (i + 1) + (j + 1) > i + j
    BY <2>1
  <2> HIDE DEF i, j, out
  <2>13. Merging(R, s, t, Turn(s, t, m))
    <3> DEFINE u == Turn(s, t, m)
    <3>1. u.i = i + 1 /\ u.j = j + 1 /\ u.out = more
      BY <2>2
    <3>2. u \in M
      BY <2>7
    <3> HIDE DEF u
    <3>3. InOrder(u.out)
      BY <2>6, <3>1
    <3>7. \A x \in ToSet(u.out) : \E a \in 1 .. u.i - 1, b \in 1 .. u.j - 1 : x = s[a] /\ x = t[b]
      BY <2>8, <3>1
    <3>4. \A a \in 1 .. u.i - 1, b \in 1 .. u.j - 1 : s[a] = t[b] => s[a] \in ToSet(u.out)
      BY <2>11, <3>1
    <3>5. /\ \A a \in 1 .. u.i - 1, b \in u.j .. Len(t) : Before(s[a], t[b])
          /\ \A a \in u.i .. Len(s), b \in 1 .. u.j - 1 : Before(t[b], s[a])
      BY <2>10, <3>1
    <3>6. Merging(R, s, t, u)
      BY <3>2, <3>3, <3>4, <3>5, <3>7, Zenon DEF Merging
    <3> QED BY <3>6 DEF u
  <2> QED BY <2>2, <2>12, <2>13 DEF i, j
<1> QED BY <1>5, <1>6, <1>7, <1>8

\* The intersection of two lists in order lists in order what both have.
LEMMA IntersectionIs ==
  ASSUME NEW R, Ordered(R), NEW s \in Seq(R), NEW t \in Seq(R), InOrder(s), InOrder(t)
  PROVE  /\ Intersection(s, t) \in Seq(R) /\ InOrder(Intersection(s, t))
         /\ ToSet(Intersection(s, t)) = ToSet(s) \cap ToSet(t)
<1> DEFINE N == Len(s) + Len(t)
           first == [i |-> 1, j |-> 1, out |-> <<>>]
           M == {m \in [i : 1 .. Len(s) + 1, j : 1 .. Len(t) + 1, out : Seq(R)] :
                   Merging(R, s, t, m)}
           f == CHOOSE g : g = [n \in 0 .. N |->
                                  IF n = 0 THEN first ELSE Turn(s, t, g[n - 1])]
           After(n) == /\ Merging(R, s, t, f[n])
                       /\ \/ f[n].i > Len(s) \/ f[n].j > Len(t)
                          \/ f[n].i + f[n].j >= n + 2
<1>1. /\ Len(s) \in Nat /\ DOMAIN s = 1 .. Len(s) /\ N \in Nat
      /\ Len(t) \in Nat /\ DOMAIN t = 1 .. Len(t)
  OBVIOUS
<1>2. Merging(R, s, t, first)
  <2>1. first.i = 1 /\ first.j = 1 /\ first.out = <<>>
    OBVIOUS
  <2>2. first \in [i : 1 .. Len(s) + 1, j : 1 .. Len(t) + 1, out : Seq(R)]
    BY <1>1
  <2>3. DOMAIN <<>> = {} /\ ToSet(<<>>) = {} /\ InOrder(<<>>)
    <3>1. DOMAIN <<>> = {}
      OBVIOUS
    <3> QED BY <3>1 DEF ToSet, InOrder
  <2>4. 1 .. 1 - 1 = {}
    OBVIOUS
  <2> HIDE DEF first
  <2> QED BY <2>1, <2>2, <2>3, <2>4 DEF Merging
<1>3. \A m : Merging(R, s, t, m) <=> m \in M
  BY DEF Merging
<1>4. \A m \in M : Turn(s, t, m) \in M
  <2> HIDE DEF M
  <2> QED BY <1>3, TurnKeeps
<1>5. f = [n \in 0 .. N |-> IF n = 0 THEN first ELSE Turn(s, t, f[n - 1])]
  <2> DEFINE h == [n \in 1 .. N |-> [m \in M |-> Turn(s, t, m)]]
  <2>1. first \in M
    BY <1>2, <1>3
  <2> HIDE DEF M, first
  <2>2. h \in Loops(N, M)
    BY <1>4 DEF Loops
  <2> HIDE DEF N
  <2>3. \A n \in 1 .. N : \A m \in M : h[n][m] = Turn(s, t, m)
    OBVIOUS
  <2> HIDE DEF h
  <2>4. PICK g : IsRun(g, N, M, first, h)
    BY <1>1, <2>1, <2>2, LoopRuns
  <2>5. \A n \in 0 .. N : n # 0 => n \in 1 .. N /\ n - 1 \in 0 .. N
    BY <1>1
  <2>6. \A n \in 0 .. N : g[n] = IF n = 0 THEN first ELSE Turn(s, t, g[n - 1])
    BY <2>3, <2>4, <2>5 DEF IsRun
  <2>7. g = [n \in 0 .. N |-> IF n = 0 THEN first ELSE Turn(s, t, g[n - 1])]
    BY <2>4, <2>6 DEF IsRun
  <2> QED BY <2>7
<1>6. Intersection(s, t) = f[N].out
  BY DEF Intersection
<1> HIDE DEF f
<1>7. f[0] = first /\ \A n \in 1 .. N : f[n] = Turn(s, t, f[n - 1])
  <2>1. \A n \in 0 .. N : f[n] = IF n = 0 THEN first ELSE Turn(s, t, f[n - 1])
    BY <1>5
  <2> HIDE DEF first, N
  <2> QED BY <1>1, <2>1
<1>8. After(N)
  <2> DEFINE G == {n \in 0 .. N : After(n)}
  <2>1. 0 \in G
    <3>1. first.i + first.j >= 0 + 2
      OBVIOUS
    <3> HIDE DEF first
    <3> QED BY <1>1, <1>2, <1>7, <3>1
  <2>2. ASSUME NEW n \in 1 .. N, n - 1 \in G
        PROVE  n \in G
    <3> DEFINE m == f[n - 1]
               w == Turn(s, t, m)
    <3>1. Merging(R, s, t, m) /\ (m.i > Len(s) \/ m.j > Len(t) \/ m.i + m.j >= (n - 1) + 2)
      BY <2>2
    <3>2. f[n] = w
      BY <1>7
    <3>3. /\ Merging(R, s, t, w)
          /\ \/ (m.i > Len(s) \/ m.j > Len(t)) /\ w = m
             \/ w.i + w.j > m.i + m.j
      BY <3>1, TurnKeeps
    <3> HIDE DEF m, w
    <3>4. m.i \in Nat /\ m.j \in Nat /\ w.i \in Nat /\ w.j \in Nat
      BY <1>1, <3>1, <3>3 DEF Merging
    <3>5. w.i > Len(s) \/ w.j > Len(t) \/ w.i + w.j >= n + 2
      <4>1. CASE (m.i > Len(s) \/ m.j > Len(t)) /\ w = m
        BY <4>1
      <4>2. CASE ~(m.i > Len(s) \/ m.j > Len(t)) /\ w.i + w.j > m.i + m.j
        BY <3>1, <3>4, <4>2
      <4>3. CASE (m.i > Len(s) \/ m.j > Len(t)) /\ w # m
        <5>1. w = m
          BY <3>1, <4>3 DEF Turn, w
        <5> QED BY <4>3, <5>1
      <4> QED BY <3>3, <4>1, <4>2, <4>3
    <3> QED BY <3>2, <3>3, <3>5
  <2> HIDE DEF G
  <2>3. 0 .. N \subseteq G
    <3> HIDE DEF N
    <3> QED BY <1>1, <2>1, <2>2, GoesOn
  <2>4. N \in 0 .. N
    BY <1>1
  <2>5. N \in G
    BY <2>3, <2>4
  <2> QED BY <2>5 DEF G
<1> DEFINE m == f[N]
<1>9. /\ Merging(R, s, t, m)
      /\ m.i > Len(s) \/ m.j > Len(t) \/ m.i + m.j >= N + 2
  BY <1>8
<1> HIDE DEF m
<1>10. /\ m.i \in 1 .. Len(s) + 1 /\ m.j \in 1 .. Len(t) + 1 /\ m.out \in Seq(R)
       /\ InOrder(m.out)
       /\ \A x \in ToSet(m.out) : \E a \in 1 .. m.i - 1, b \in 1 .. m.j - 1 : x = s[a] /\ x = t[b]
       /\ \A a \in 1 .. m.i - 1, b \in 1 .. m.j - 1 : s[a] = t[b] => s[a] \in ToSet(m.out)
       /\ \A a \in 1 .. m.i - 1, b \in m.j .. Len(t) : Before(s[a], t[b])
       /\ \A a \in m.i .. Len(s), b \in 1 .. m.j - 1 : Before(t[b], s[a])
  BY <1>9 DEF Merging
<1>11. m.i = Len(s) + 1 \/ m.j = Len(t) + 1
  BY <1>1, <1>9, <1>10
<1>12. ToSet(m.out) \subseteq ToSet(s) \cap ToSet(t)
  <2>1. 1 .. m.i - 1 \subseteq DOMAIN s /\ 1 .. m.j - 1 \subseteq DOMAIN t
    BY <1>1, <1>10
  <2> QED BY <1>10, <2>1 DEF ToSet
<1>13. ASSUME NEW a \in 1 .. Len(s), NEW b \in 1 .. Len(t), s[a] = t[b]
       PROVE  s[a] \in ToSet(m.out)
  <2>1. s[a] \in R /\ t[b] \in R
    OBVIOUS
  <2>2. ~Before(s[a], t[b]) /\ ~Before(t[b], s[a])
    BY <1>13, <2>1 DEF Ordered
  <2>3. /\ ~(a \in 1 .. m.i - 1 /\ b \in m.j .. Len(t))
        /\ ~(a \in m.i .. Len(s) /\ b \in 1 .. m.j - 1)
    BY <1>10, <2>2
  <2>4. a \in 1 .. m.i - 1 /\ b \in 1 .. m.j - 1
    BY <1>1, <1>10, <1>11, <2>3
  <2> QED BY <1>10, <1>13, <2>4
<1>14. ToSet(s) \cap ToSet(t) \subseteq ToSet(m.out)
  BY <1>1, <1>13 DEF ToSet
<1>15. Intersection(s, t) = m.out
  BY <1>6 DEF m
<1> QED BY <1>10, <1>12, <1>14, <1>15

\* With one list there is nothing to intersect.
LEMMA CommonOfOne ==
  ASSUME NEW lists, Len(lists) = 1
  PROVE  Common(lists) = lists[1]
<1> DEFINE f == CHOOSE g : g = [i \in 0 .. Len(lists) - 1 |->
                 IF i = 0 THEN lists[1] ELSE Intersection(g[i - 1], lists[i + 1])]
           one == [i \in 0 .. 0 |-> lists[1]]
<1>1. one = [i \in 0 .. Len(lists) - 1 |->
               IF i = 0 THEN lists[1] ELSE Intersection(one[i - 1], lists[i + 1])]
  <2>1. 0 .. Len(lists) - 1 = 0 .. 0 /\ \A i \in 0 .. 0 : i = 0
    OBVIOUS
  <2> QED BY <2>1
<1> HIDE DEF one
<1>2. f = [i \in 0 .. Len(lists) - 1 |->
             IF i = 0 THEN lists[1] ELSE Intersection(f[i - 1], lists[i + 1])]
  BY <1>1
<1>3. Common(lists) = f[Len(lists) - 1]
  BY DEF Common
<1> HIDE DEF f
<1>4. 0 \in 0 .. Len(lists) - 1 /\ Len(lists) - 1 = 0
  OBVIOUS
<1>5. f[0] = lists[1]
  BY <1>2, <1>4
<1> QED BY <1>3, <1>4, <1>5

\* Of lists in order, Common lists in order what all of them have.
LEMMA CommonIs ==
  ASSUME NEW R, Ordered(R), NEW lists \in Seq(Seq(R)), lists # <<>>,
         \A k \in 1 .. Len(lists) : InOrder(lists[k])
  PROVE  /\ Common(lists) \in Seq(R) /\ InOrder(Common(lists))
         /\ ToSet(Common(lists)) = {r \in R : \A k \in 1 .. Len(lists) : r \in ToSet(lists[k])}
<1> DEFINE N == Len(lists) - 1
           first == lists[1]
           M == {u \in Seq(R) : InOrder(u)}
           f == CHOOSE g : g = [i \in 0 .. Len(lists) - 1 |->
                  IF i = 0 THEN lists[1] ELSE Intersection(g[i - 1], lists[i + 1])]
           In(n) == /\ f[n] \in M
                    /\ \A r : r \in ToSet(f[n]) <=>
                                \A k \in 1 .. n + 1 : r \in ToSet(lists[k])
<1>1. N \in Nat /\ Len(lists) = N + 1 /\ 1 \in 1 .. Len(lists)
  BY EmptySeq
<1>2. \A k \in 1 .. Len(lists) : lists[k] \in M
  <2>1. \A k \in 1 .. Len(lists) : lists[k] \in Seq(R)
    OBVIOUS
  <2> QED BY <2>1
<1>3. \A u, w \in M : /\ Intersection(u, w) \in M
                      /\ ToSet(Intersection(u, w)) = ToSet(u) \cap ToSet(w)
  BY IntersectionIs
<1>4. f = [i \in 0 .. Len(lists) - 1 |->
             IF i = 0 THEN lists[1] ELSE Intersection(f[i - 1], lists[i + 1])]
  <2> DEFINE h == [n \in 1 .. N |-> [u \in M |-> Intersection(u, lists[n + 1])]]
  <2>1. first \in M
    BY <1>1, <1>2
  <2>2. \A n \in 1 .. N : n + 1 \in 1 .. Len(lists)
    BY <1>1
  <2> HIDE DEF M, first, N
  <2>3. \A n \in 1 .. N : \A u \in M : Intersection(u, lists[n + 1]) \in M
    BY <1>2, <1>3, <2>2
  <2>4. h \in Loops(N, M)
    BY <2>3 DEF Loops
  <2>5. \A n \in 1 .. N : \A u \in M : h[n][u] = Intersection(u, lists[n + 1])
    OBVIOUS
  <2> HIDE DEF h
  <2>6. PICK g : IsRun(g, N, M, first, h)
    BY <1>1, <2>1, <2>4, LoopRuns
  <2>7. \A n \in 0 .. N : n # 0 => n \in 1 .. N /\ n - 1 \in 0 .. N
    BY <1>1
  <2>8. \A n \in 0 .. N : g[n] = IF n = 0 THEN first ELSE Intersection(g[n - 1], lists[n + 1])
    BY <2>5, <2>6, <2>7 DEF IsRun
  <2>9. g = [n \in 0 .. N |-> IF n = 0 THEN first ELSE Intersection(g[n - 1], lists[n + 1])]
    BY <2>6, <2>8 DEF IsRun
  <2> QED BY <2>9 DEF N, first
<1>5. Common(lists) = f[N]
  BY DEF Common
<1> HIDE DEF f
<1>6. f[0] = first /\ \A n \in 1 .. N : f[n] = Intersection(f[n - 1], lists[n + 1])
  <2>1. \A n \in 0 .. N : f[n] = IF n = 0 THEN first ELSE Intersection(f[n - 1], lists[n + 1])
    BY <1>4
  <2> HIDE DEF first, N
  <2> QED BY <1>1, <2>1
<1>7. In(N)
  <2> DEFINE G == {n \in 0 .. N : In(n)}
  <2>1. 0 \in G
    <3>1. \A k \in 1 .. 0 + 1 : k = 1
      OBVIOUS
    <3>2. 1 \in 1 .. 0 + 1 /\ 0 \in 0 .. N
      BY <1>1
    <3> HIDE DEF M, N
    <3> QED BY <1>1, <1>2, <1>6, <3>1, <3>2
  <2>2. ASSUME NEW n \in 1 .. N, n - 1 \in G
        PROVE  n \in G
    <3>1. f[n - 1] \in M /\ lists[n + 1] \in M
      <4>1. n + 1 \in 1 .. Len(lists)
        BY <1>1
      <4> QED BY <1>2, <2>2, <4>1
    <3>2. f[n] \in M /\ ToSet(f[n]) = ToSet(f[n - 1]) \cap ToSet(lists[n + 1])
      <4> HIDE DEF M
      <4> QED BY <1>3, <1>6, <3>1
    <3>3. \A r : r \in ToSet(f[n - 1]) <=> \A k \in 1 .. (n - 1) + 1 : r \in ToSet(lists[k])
      BY <2>2
    <3>4. /\ \A k \in 1 .. n + 1 : k = n + 1 \/ k \in 1 .. (n - 1) + 1
          /\ \A k \in 1 .. (n - 1) + 1 : k \in 1 .. n + 1
          /\ n + 1 \in 1 .. n + 1 /\ n \in 0 .. N
      BY <1>1
    <3> HIDE DEF M, N
    <3>5. \A r : r \in ToSet(f[n]) <=> \A k \in 1 .. n + 1 : r \in ToSet(lists[k])
      BY <3>2, <3>3, <3>4
    <3> QED BY <3>2, <3>4, <3>5
  <2> HIDE DEF G
  <2>3. 0 .. N \subseteq G
    <3> HIDE DEF N
    <3> QED BY <1>1, <2>1, <2>2, GoesOn
  <2>4. N \in 0 .. N
    BY <1>1
  <2>5. N \in G
    BY <2>3, <2>4
  <2> QED BY <2>5 DEF G
<1> HIDE DEF N, first
<1>8. \A r \in ToSet(f[N]) : r \in R
  <2>1. f[N] \in Seq(R)
    BY <1>7
  <2> QED BY <2>1 DEF ToSet
<1>9. N + 1 = Len(lists)
  BY <1>1
<1> QED BY <1>5, <1>7, <1>8, <1>9

-----------------------------------------------------------------------------
(***************************************************************************)
(* The rows of a point task.                                               *)
(***************************************************************************)

\* What no step changes.
Fixed ==
  /\ shape \in Shapes
  /\ valueOf \in [Column -> [Row -> Value]]
  /\ extent \in [Row -> Extents]

\* Rows are points of as many coordinates, listed once each.
LEMMA TableFacts ==
  ASSUME Fixed
  PROVE  /\ shape.rows \in Seq(Row) /\ shape.rows # <<>> /\ IsInjective(shape.rows)
         /\ Row \in SUBSET Seq(Nat) /\ Row # {} /\ IsFiniteSet(Row) /\ Ordered(Row)
         /\ RowDim \in Nat \ {0} /\ Above \in Nat /\ \A r \in Row : Len(r) = RowDim
         /\ shape.columns \in Nat \ {0} /\ shape.allowRows \in BOOLEAN
<1> DEFINE rows == shape.rows
<1>1. /\ shape.columns \in Nat \ {0} /\ shape.allowRows \in BOOLEAN
      /\ rows \in Seq(Seq(Nat) \ {<<>>}) /\ rows # <<>> /\ IsInjective(rows)
      /\ \A i \in DOMAIN rows : Len(rows[i]) = Len(rows[1])
  BY RowMappingAssumption DEF Fixed
<1>2. rows \in Seq(Row)
  BY <1>1, ListOfItsOwn DEF Row
<1> HIDE DEF rows
<1>3. Len(rows) \in Nat \ {0} /\ DOMAIN rows = 1 .. Len(rows) /\ 1 \in DOMAIN rows
  BY <1>1, EmptySeq
<1>4. Row = {rows[i] : i \in DOMAIN rows} /\ \A i \in DOMAIN rows : rows[i] \in Seq(Nat) \ {<<>>}
  <2>1. \A i \in DOMAIN rows : rows[i] \in Seq(Nat) \ {<<>>}
    BY <1>1
  <2>2. Row = {rows[i] : i \in DOMAIN rows}
    BY DEF Row, ToSet, rows
  <2> QED BY <2>1, <2>2
<1>5. Row \in SUBSET Seq(Nat) /\ Row # {}
  BY <1>3, <1>4
<1>6. RowDim \in Nat \ {0} /\ Above \in Nat
  <2>1. rows[1] \in Seq(Nat) /\ rows[1] # <<>>
    BY <1>3, <1>4
  <2>2. Len(rows[1]) \in Nat \ {0}
    BY <2>1, EmptySeq
  <2> QED BY <2>2 DEF RowDim, Above, rows
<1>7. \A r \in Row : Len(r) = RowDim
  BY <1>1, <1>4 DEF RowDim, rows
<1>8. Ordered(Row)
  BY <1>5, <1>6, <1>7, PointsOrdered
<1>9. IsFiniteSet(Row)
  <2>1. rows \in Surjection(DOMAIN rows, Row)
    BY <1>1, <1>4 DEF Surjection
  <2>2. IsFiniteSet(DOMAIN rows)
    BY <1>3, FS_Interval
  <2> QED BY <2>1, <2>2, FS_Surjection
<1> QED BY <1>1, <1>2, <1>5, <1>6, <1>7, <1>8, <1>9 DEF rows

\* Keeping some rows of a list keeps its order, and no row twice.
LEMMA KeptRows ==
  ASSUME NEW R, NEW s \in Seq(R), NEW P \in SUBSET DOMAIN s
  PROVE  /\ InOrder(s) => InOrder(Kept(s, P))
         /\ IsInjective(s) => IsInjective(Kept(s, P))
<1> DEFINE k == Kept(s, P)
<1>1. /\ k \in Seq(R)
      /\ \A i, j \in DOMAIN k : i < j => \E a, b \in P : a < b /\ k[i] = s[a] /\ k[j] = s[b]
  BY KeptInOrder
<1>2. (\A i \in DOMAIN k : i \in Nat) /\ \A a \in P : a \in DOMAIN s /\ a \in Nat
  BY <1>1
<1> HIDE DEF k
<1>3. InOrder(s) => InOrder(k)
  BY <1>1, <1>2 DEF InOrder
<1>4. ASSUME IsInjective(s), NEW i \in DOMAIN k, NEW j \in DOMAIN k, i < j
      PROVE  k[i] # k[j]
  <2>1. PICK a \in P, b \in P : a < b /\ k[i] = s[a] /\ k[j] = s[b]
    BY <1>1, <1>4
  <2>2. a # b
    BY <1>2, <2>1
  <2> QED BY <1>2, <1>4, <2>1, <2>2 DEF IsInjective
<1>5. \A i, j \in DOMAIN k : i = j \/ i < j \/ j < i
  BY <1>2
<1>6. IsInjective(s) => IsInjective(k)
  BY <1>4, <1>5 DEF IsInjective
<1> QED BY <1>3, <1>6 DEF k

\* An index column lists the rows with a value, as create_index meets them.
LEMMA ListedIs ==
  ASSUME Fixed, NEW k \in Column, NEW v
  PROVE  /\ Listed(k, v) \in Seq(Row)
         /\ ToSet(Listed(k, v)) = {r \in Row : valueOf[k][r] = v}
         /\ IsInjective(Listed(k, v))
         /\ InOrder(shape.rows) => InOrder(Listed(k, v))
<1> DEFINE rows == shape.rows
           P == {i \in DOMAIN rows : valueOf[k][rows[i]] = v}
<1>1. rows \in Seq(Row) /\ IsInjective(rows) /\ Row = {rows[i] : i \in DOMAIN rows}
  BY TableFacts DEF Row, ToSet
<1>2. Listed(k, v) = Kept(rows, P)
  BY DEF Listed
<1> HIDE DEF rows
<1>3. P \in SUBSET DOMAIN rows
  OBVIOUS
<1> HIDE DEF P
<1>4. /\ Kept(rows, P) \in Seq(Row) /\ ToSet(Kept(rows, P)) = {rows[a] : a \in P}
      /\ IsInjective(Kept(rows, P))
      /\ InOrder(rows) => InOrder(Kept(rows, P))
  BY <1>1, <1>3, KeptInOrder, KeptRows
<1>5. {rows[a] : a \in P} = {r \in Row : valueOf[k][r] = v}
  BY <1>1 DEF P
<1> QED BY <1>2, <1>4, <1>5 DEF rows

\* A point task finds the rows that stand at its point.
LEMMA HereRowsIs ==
  ASSUME Fixed, Reindexable, NEW p
  PROVE  /\ HereRows(p) \in Seq(Row) /\ IsInjective(HereRows(p))
         /\ shape.allowRows => InOrder(HereRows(p))
         /\ ToSet(HereRows(p)) = {r \in Row : /\ \A i \in 1 .. Above : r[i] = p[i]
                                              /\ \A k \in Column : valueOf[k][r] = p[Above + k]}
<1> DEFINE lists == [k \in Column |-> Listed(k, p[Above + k])]
           c == CommonRows(p)
           r2 == Above - (IF shape.allowRows THEN 1 ELSE 0)
           P == {n \in DOMAIN c : \A i \in 1 .. r2 : c[n][i] = p[i]}
           S == {r \in Row : \A k \in Column : valueOf[k][r] = p[Above + k]}
<1>1. /\ shape.columns \in Nat \ {0} /\ shape.allowRows \in BOOLEAN /\ Ordered(Row)
      /\ Above \in Nat /\ Column = 1 .. shape.columns
  BY TableFacts DEF Column
<1>2. lists \in Seq(Seq(Row)) /\ lists # <<>> /\ Len(lists) = shape.columns
  <2>1. \A k \in Column : Listed(k, p[Above + k]) \in Seq(Row)
    BY ListedIs
  <2>2. lists \in [1 .. shape.columns -> Seq(Row)]
    BY <1>1, <2>1
  <2> HIDE DEF lists
  <2> QED BY <1>1, <2>2
<1>3. /\ shape.columns > 1 \/ shape.allowRows => InOrder(shape.rows)
      /\ shape.allowRows => Above = 0
  <2>1. /\ shape.columns > 1 \/ shape.allowRows => InOrder(shape.rows)
        /\ shape.allowRows => RowDim = 1
    BY DEF Fixed, Reindexable, RowDim
  <2> QED BY <2>1 DEF Above
<1>4. /\ c \in Seq(Row) /\ IsInjective(c) /\ ToSet(c) = S
      /\ shape.allowRows => InOrder(c)
  <2>1. c = Common(lists)
    BY DEF CommonRows
  <2>2. \A k \in Column : /\ lists[k] = Listed(k, p[Above + k])
                          /\ lists[k] \in Seq(Row) /\ IsInjective(lists[k])
                          /\ ToSet(lists[k]) = {r \in Row : valueOf[k][r] = p[Above + k]}
                          /\ InOrder(shape.rows) => InOrder(lists[k])
    BY ListedIs
  <2> HIDE DEF lists, c
  <2>3. CASE shape.columns > 1 \/ shape.allowRows
    <3>1. \A k \in 1 .. Len(lists) : InOrder(lists[k])
      BY <1>1, <1>2, <1>3, <2>2, <2>3
    <3>2. /\ c \in Seq(Row) /\ InOrder(c)
          /\ ToSet(c) = {r \in Row : \A k \in 1 .. Len(lists) : r \in ToSet(lists[k])}
      BY <1>1, <1>2, <2>1, <3>1, CommonIs
    <3>3. IsInjective(c)
      BY <1>1, <3>2, OrderedOnce
    <3>4. ToSet(c) = S
      BY <1>1, <1>2, <2>2, <3>2
    <3> QED BY <3>2, <3>3, <3>4
  <2>4. CASE ~(shape.columns > 1 \/ shape.allowRows)
    <3>1. shape.columns = 1 /\ 1 \in Column /\ \A k \in Column : k = 1
      BY <1>1, <2>4
    <3>2. c = lists[1]
      BY <1>2, <2>1, <3>1, CommonOfOne
    <3>3. S = {r \in Row : valueOf[1][r] = p[Above + 1]}
      BY <3>1
    <3> QED BY <2>2, <2>4, <3>1, <3>2, <3>3
  <2> QED BY <2>3, <2>4
<1>5. HereRows(p) = Kept(c, P)
  BY DEF HereRows
<1>6. P = {n \in DOMAIN c : \A i \in 1 .. Above : c[n][i] = p[i]}
  <2>1. 1 .. r2 = 1 .. Above
    BY <1>1, <1>3
  <2> QED BY <2>1
<1> HIDE DEF c, S, r2
<1>7. P \in SUBSET DOMAIN c
  OBVIOUS
<1> HIDE DEF P
<1>8. /\ Kept(c, P) \in Seq(Row) /\ ToSet(Kept(c, P)) = {c[a] : a \in P}
      /\ IsInjective(Kept(c, P))
      /\ shape.allowRows => InOrder(Kept(c, P))
  BY <1>4, <1>7, KeptInOrder, KeptRows
<1>9. {c[a] : a \in P} = {r \in S : \A i \in 1 .. Above : r[i] = p[i]}
  <2>1. S = {c[n] : n \in DOMAIN c}
    BY <1>4 DEF ToSet
  <2> QED BY <1>6, <2>1
<1> QED BY <1>5, <1>8, <1>9 DEF S

\* Coordinates and bounds of the index launch, as in Points.
Coords(i) == {r[i] : r \in Row}

Bounds(i) ==
  IF i <= Above THEN Min(Coords(i)) .. Max(Coords(i)) ELSE Positions(i - Above)

\* The image of a finite set of rows is one of numbers with bounds.
LEMMA ImageBounded ==
  ASSUME NEW R, R # {}, IsFiniteSet(R), NEW f \in [R -> Nat]
  PROVE  LET S == {f[r] : r \in R} IN
         /\ S \in SUBSET Nat /\ IsFiniteSet(S)
         /\ Min(S) \in Nat /\ Max(S) \in Nat
         /\ \A r \in R : Min(S) <= f[r] /\ f[r] <= Max(S)
<1> DEFINE S == {f[r] : r \in R}
<1>1. S \in SUBSET Nat /\ S # {} /\ \A r \in R : f[r] \in S
  OBVIOUS
<1>2. f \in Surjection(R, S)
  BY DEF Surjection
<1> HIDE DEF S
<1>3. IsFiniteSet(S)
  BY <1>2, FS_Surjection
<1>4. /\ Min(S) \in S /\ \A y \in S : Min(S) <= y
      /\ Max(S) \in S /\ \A y \in S : y <= Max(S)
  BY <1>1, <1>3, MinIsLeast, Greatest
<1> QED BY <1>1, <1>3, <1>4 DEF S

\* Every row has a point of the launch, which tells what it stands for.
LEMMA PointOfRow ==
  ASSUME Fixed
  PROVE  /\ \A p \in Points : p \in [1 .. Above + shape.columns -> Nat] /\ p \in Seq(Nat)
         /\ \A r \in Row : PointOf(r) \in Points
         /\ \A p \in Points, r \in Row :
              PointOf(r) = p <=> /\ \A i \in 1 .. Above : r[i] = p[i]
                                 /\ \A k \in Column : valueOf[k][r] = p[Above + k]
<1> DEFINE n == Above + shape.columns
<1>1. /\ Above \in Nat /\ shape.columns \in Nat \ {0} /\ Column = 1 .. shape.columns
      /\ Row # {} /\ IsFiniteSet(Row)
      /\ \A r \in Row : \A i \in 1 .. Above : r[i] \in Nat
  <2>1. \A r \in Row : r \in Seq(Nat) /\ Len(r) = RowDim
    BY TableFacts
  <2>2. RowDim \in Nat \ {0} /\ Above = RowDim - 1
    BY TableFacts DEF Above
  <2>3. \A r \in Row : \A i \in 1 .. Above : r[i] \in Nat
    BY <2>1, <2>2
  <2> QED BY <2>3, TableFacts DEF Column
<1>2. \A k \in Column : \A r \in Row : valueOf[k][r] \in Nat
  BY RowMappingAssumption DEF Fixed
<1>3. Points = {p \in [1 .. n -> UNION {Bounds(i) : i \in 1 .. n}] :
                  \A i \in 1 .. n : p[i] \in Bounds(i)}
  BY DEF Points, Bounds, Coords
<1>4. ASSUME NEW i \in 1 .. Above
      PROVE  Bounds(i) \in SUBSET Nat /\ \A r \in Row : r[i] \in Bounds(i)
  <2> DEFINE f == [r \in Row |-> r[i]]
             S == {f[r] : r \in Row}
  <2>1. S = Coords(i) /\ f \in [Row -> Nat]
    BY <1>1 DEF Coords
  <2>2. \A r \in Row : f[r] = r[i]
    OBVIOUS
  <2> HIDE DEF f
  <2>3. Min(S) \in Nat /\ Max(S) \in Nat /\ \A r \in Row : Min(S) <= f[r] /\ f[r] <= Max(S)
    BY <1>1, <2>1, ImageBounded
  <2> HIDE DEF S
  <2>4. Bounds(i) = Min(S) .. Max(S)
    BY <2>1 DEF Bounds
  <2> QED BY <1>1, <2>2, <2>3, <2>4
<1>5. ASSUME NEW k \in Column
      PROVE  Bounds(Above + k) \in SUBSET Nat /\ \A r \in Row : valueOf[k][r] \in Bounds(Above + k)
  <2> DEFINE f == valueOf[k]
             S == {f[r] : r \in Row}
  <2>1. f \in [Row -> Nat]
    BY <1>2 DEF Fixed
  <2> HIDE DEF f
  <2>2. Max(S) \in Nat /\ \A r \in Row : f[r] <= Max(S)
    BY <1>1, <2>1, ImageBounded
  <2>3. Positions(k) = 0 .. Max(S)
    BY DEF Positions, f
  <2> HIDE DEF S
  <2>4. Bounds(Above + k) = Positions(k)
    <3>1. ~(Above + k <= Above) /\ (Above + k) - Above = k
      BY <1>1
    <3> QED BY <3>1 DEF Bounds
  <2>5. \A r \in Row : f[r] \in Nat
    BY <2>1
  <2> QED BY <2>2, <2>3, <2>4, <2>5 DEF f
<1>6. \A i \in 1 .. n : i \in 1 .. Above \/ (i - Above \in Column /\ Above + (i - Above) = i /\ ~(i <= Above))
  BY <1>1
<1>7. \A i \in 1 .. n : Bounds(i) \in SUBSET Nat
  BY <1>4, <1>5, <1>6
<1>8. n \in Nat /\ (\A i \in 1 .. Above : i \in 1 .. n /\ i <= Above)
      /\ \A k \in Column : Above + k \in 1 .. n /\ ~(Above + k <= Above) /\ (Above + k) - Above = k
  BY <1>1
<1>9. ASSUME NEW p \in Points
      PROVE  p \in [1 .. n -> Nat] /\ p \in Seq(Nat)
  <2>1. \A i \in 1 .. n : p[i] \in Nat
    BY <1>3, <1>7
  <2>2. p \in [1 .. n -> UNION {Bounds(i) : i \in 1 .. n}]
    BY <1>3
  <2> HIDE DEF n
  <2>3. p \in [1 .. n -> Nat]
    BY <2>1, <2>2
  <2> QED BY <1>8, <2>3
<1>10. ASSUME NEW r \in Row
       PROVE  PointOf(r) \in Points
  <2> DEFINE p == PointOf(r)
  <2>1. p = [i \in 1 .. n |-> IF i <= Above THEN r[i] ELSE valueOf[i - Above][r]]
    BY DEF PointOf
  <2> HIDE DEF p
  <2>2. \A i \in 1 .. n : p[i] \in Bounds(i)
    <3> SUFFICES ASSUME NEW i \in 1 .. n PROVE p[i] \in Bounds(i)
      OBVIOUS
    <3>1. CASE i \in 1 .. Above
      BY <1>4, <1>8, <2>1, <3>1
    <3>2. CASE i \notin 1 .. Above
      <4>1. i - Above \in Column /\ Above + (i - Above) = i /\ ~(i <= Above)
        BY <1>6, <3>2
      <4>2. p[i] = valueOf[i - Above][r]
        BY <2>1, <4>1
      <4> QED BY <1>5, <4>1, <4>2
    <3> QED BY <3>1, <3>2
  <2> HIDE DEF n
  <2>3. DOMAIN p = 1 .. n /\ p = [i \in 1 .. n |-> p[i]]
    BY <2>1
  <2>4. \A i \in 1 .. n : p[i] \in UNION {Bounds(j) : j \in 1 .. n}
    BY <2>2
  <2>5. p \in [1 .. n -> UNION {Bounds(j) : j \in 1 .. n}]
    BY <2>3, <2>4
  <2>6. p \in Points
    BY <1>3, <2>2, <2>5
  <2> QED BY <2>6 DEF p
<1>11. ASSUME NEW p \in Points, NEW r \in Row
       PROVE  PointOf(r) = p <=> /\ \A i \in 1 .. Above : r[i] = p[i]
                                 /\ \A k \in Column : valueOf[k][r] = p[Above + k]
  <2> DEFINE q == PointOf(r)
  <2>1. q = [i \in 1 .. n |-> IF i <= Above THEN r[i] ELSE valueOf[i - Above][r]]
    BY DEF PointOf
  <2> HIDE DEF q
  <2>2. /\ \A i \in 1 .. Above : q[i] = r[i]
        /\ \A k \in Column : q[Above + k] = valueOf[k][r]
    BY <1>8, <2>1
  <2>3. p = [i \in 1 .. n |-> p[i]] /\ q = [i \in 1 .. n |-> q[i]]
    BY <1>9, <2>1
  <2>4. (\A i \in 1 .. n : q[i] = p[i]) => q = p
    <3> HIDE DEF n
    <3> QED BY <2>3
  <2>5. ASSUME \A i \in 1 .. Above : r[i] = p[i],
               \A k \in Column : valueOf[k][r] = p[Above + k]
        PROVE  q = p
    <3> SUFFICES ASSUME NEW i \in 1 .. n PROVE q[i] = p[i]
      BY <2>4
    <3> QED BY <1>6, <2>2, <2>5
  <2> QED BY <2>2, <2>5 DEF q
<1> QED BY <1>9, <1>10, <1>11

\* A task writes the rows at its point, if they can be told apart.
LEMMA RowsToWriteIs ==
  ASSUME Fixed, Reindexable, NEW p \in Points
  PROVE  /\ RowsToWrite(p) \in Seq(Row) /\ IsInjective(RowsToWrite(p))
         /\ shape.allowRows => InOrder(RowsToWrite(p))
         /\ ToSet(RowsToWrite(p)) =
              {r \in Row : PointOf(r) = p /\ (shape.allowRows \/ Fellows(r) = {r})}
<1> DEFINE h == HereRows(p)
           w == RowsToWrite(p)
           S == {r \in Row : PointOf(r) = p}
           T == {r \in Row : PointOf(r) = p /\ (shape.allowRows \/ Fellows(r) = {r})}
<1> SUFFICES /\ w \in Seq(Row) /\ IsInjective(w) /\ ToSet(w) = T
             /\ shape.allowRows => InOrder(w)
  OBVIOUS
<1>1. /\ h \in Seq(Row) /\ IsInjective(h) /\ ToSet(h) = S
      /\ shape.allowRows => InOrder(h)
  <2>1. S = {r \in Row : /\ \A i \in 1 .. Above : r[i] = p[i]
                         /\ \A k \in Column : valueOf[k][r] = p[Above + k]}
    BY PointOfRow
  <2> HIDE DEF S, h
  <2>2. /\ h \in Seq(Row) /\ IsInjective(h)
        /\ shape.allowRows => InOrder(h)
        /\ ToSet(h) = {r \in Row : /\ \A i \in 1 .. Above : r[i] = p[i]
                                   /\ \A k \in Column : valueOf[k][r] = p[Above + k]}
    BY HereRowsIs DEF h
  <2> QED BY <2>1, <2>2
<1>2. w = IF shape.allowRows \/ Len(h) = 1 THEN h ELSE <<>>
  BY DEF RowsToWrite
<1>3. \A r \in S : Fellows(r) = S
  BY DEF Fellows
<1>4. T = {r \in S : shape.allowRows \/ S = {r}}
  BY <1>3
<1> HIDE DEF h, w, S, T
<1>5. Len(h) \in Nat /\ DOMAIN h = 1 .. Len(h)
  BY <1>1
<1>6. CASE shape.allowRows
  <2>1. T = S
    BY <1>4, <1>6
  <2> QED BY <1>1, <1>2, <1>6, <2>1
<1>7. CASE ~shape.allowRows /\ Len(h) = 1
  <2>1. S = {h[1]}
    <3>1. DOMAIN h = {1}
      BY <1>5, <1>7
    <3> QED BY <1>1, <3>1 DEF ToSet
  <2>2. T = S
    BY <1>4, <1>7, <2>1
  <2> QED BY <1>1, <1>2, <1>7, <2>2
<1>8. CASE ~shape.allowRows /\ Len(h) # 1
  <2>1. ~ \E r : S = {r}
    <3> SUFFICES ASSUME NEW r, S = {r} PROVE FALSE
      OBVIOUS
    <3>1. \A i \in DOMAIN h : h[i] = r
      BY <1>1 DEF ToSet
    <3>2. DOMAIN h # {}
      BY <1>1 DEF ToSet
    <3>3. 1 \in DOMAIN h /\ 2 \in DOMAIN h
      BY <1>5, <1>8, <3>2
    <3>4. h[1] = h[2]
      BY <3>1, <3>3
    <3> QED BY <1>1, <3>3, <3>4 DEF IsInjective
  <2>2. DOMAIN <<>> = {} /\ <<>> \in Seq(Row)
    OBVIOUS
  <2>3. ToSet(<<>>) = {} /\ IsInjective(<<>>)
    BY <2>2 DEF ToSet, IsInjective
  <2>4. T = {}
    BY <1>4, <1>8, <2>1
  <2>5. w = <<>>
    BY <1>2, <1>8
  <2> QED BY <1>8, <2>2, <2>3, <2>4, <2>5
<1> QED BY <1>6, <1>7, <1>8

\* What a task writes for a row is what reindexing means: with a row axis, as
\* many rows of its point come before it in the list as in the order of rows.
LEMMA RectIsMeant ==
  ASSUME Fixed, Reindexable, NEW p \in Points, NEW i \in 0 .. Len(RowsToWrite(p)) - 1
  PROVE  LET r == RowsToWrite(p)[i + 1] IN
         r \in Row /\ PointOf(r) = p /\ RectOf(p, i, r) = Meant(r)
<1> DEFINE w == RowsToWrite(p)
           r == w[i + 1]
<1>1. /\ w \in Seq(Row) /\ IsInjective(w)
      /\ shape.allowRows => InOrder(w)
      /\ ToSet(w) = {q \in Row : PointOf(q) = p /\ (shape.allowRows \/ Fellows(q) = {q})}
  BY RowsToWriteIs
<1>2. i \in Nat /\ i \in 0 .. Len(w) - 1
  OBVIOUS
<1> HIDE DEF w
<1>3. Len(w) \in Nat /\ DOMAIN w = 1 .. Len(w) /\ i + 1 \in DOMAIN w
  BY <1>1, <1>2
<1>4. r \in Row /\ PointOf(r) = p /\ (shape.allowRows \/ Fellows(r) = {r})
  BY <1>1, <1>3 DEF ToSet
<1> HIDE DEF r
<1>5. ASSUME shape.allowRows
      PROVE  Cardinality({q \in Fellows(r) : Before(q, r)}) = i
  <2> DEFINE B == {q \in Fellows(r) : Before(q, r)}
             f == [j \in 1 .. i |-> w[j]]
  <2>1. Fellows(r) = {w[j] : j \in DOMAIN w}
    BY <1>1, <1>4, <1>5 DEF Fellows, ToSet
  <2>2. \A j \in DOMAIN w : w[j] \in Row /\ (Before(w[j], r) <=> j \in 1 .. i)
    <3> SUFFICES ASSUME NEW j \in DOMAIN w
                 PROVE  w[j] \in Row /\ (Before(w[j], r) <=> j \in 1 .. i)
      OBVIOUS
    <3>1. Ordered(Row) /\ w[j] \in Row /\ w[i + 1] = r /\ r \in Row
      BY <1>1, <1>4, TableFacts DEF r
    <3>2. CASE j \in 1 .. i
      <4>1. j < i + 1
        BY <1>2, <3>2
      <4> QED BY <1>1, <1>3, <1>5, <3>1, <3>2, <4>1 DEF InOrder
    <3>3. CASE j = i + 1
      <4>1. j \notin 1 .. i
        BY <1>2, <3>3
      <4> QED BY <3>1, <3>3, <4>1 DEF Ordered
    <3>4. CASE i + 1 < j
      <4>1. j \notin 1 .. i
        BY <1>2, <3>4
      <4>2. Before(r, w[j])
        BY <1>1, <1>3, <1>5, <3>1, <3>4 DEF InOrder
      <4> QED BY <3>1, <4>1, <4>2 DEF Ordered
    <3> QED BY <1>2, <1>3, <3>2, <3>3, <3>4
  <2>3. 1 .. i \subseteq DOMAIN w
    BY <1>2, <1>3
  <2>4. B = {w[j] : j \in 1 .. i}
    BY <2>1, <2>2, <2>3
  <2>5. f \in Bijection(1 .. i, B)
    <3>1. \A j, k \in 1 .. i : w[j] = w[k] => j = k
      BY <1>1, <2>3 DEF IsInjective
    <3> HIDE DEF B
    <3> QED BY <2>4, <3>1 DEF Bijection, Injection, Surjection, IsInjective
  <2>6. IsFiniteSet(1 .. i) /\ Cardinality(1 .. i) = i
    BY <1>2, FS_Interval
  <2>7. ExistsBijection(1 .. i, B)
    BY <2>5 DEF ExistsBijection
  <2> HIDE DEF B
  <2>8. Cardinality(B) = i
    BY <2>6, <2>7, FS_Bijection
  <2> QED BY <2>8 DEF B
<1>6. RectOf(p, i, r) = Meant(r)
  BY <1>4, <1>5 DEF RectOf, Meant
<1> QED BY <1>4, <1>6 DEF r, w

-----------------------------------------------------------------------------
(***************************************************************************)
(* The steps.                                                              *)
(***************************************************************************)

\* The task at the point of a row has written it.
Wrote(r) ==
  \E i \in 1 .. written[PointOf(r)] : RowsToWrite(PointOf(r))[i] = r

\* A task does not write more rows than it has found.
Progress ==
  /\ written \in [Points -> Nat]
  /\ \A p \in Points : written[p] <= Len(RowsToWrite(p))

\* What is written is what is meant.
MapSoFar == rects = [r \in Row |-> IF Wrote(r) THEN Meant(r) ELSE NoRect]

\* The new space is made of the whole row map.
Made ==
  space # NoSpace =>
    /\ \A p \in Points : written[p] = Len(RowsToWrite(p))
    /\ space = {c \in UNION {CellsOf(rects[r]) : r \in Row} : InBounds(c)}

\* A row that has been copied, which none is before the new space is made,
\* has its values in its own rectangle.
Copied ==
  IF space = NoSpace THEN uncopied = Row
  ELSE
    \A r \in Row : r \notin uncopied =>
      \A c \in space : c \in CellsOf(rects[r]) => cells[c] = <<r, c[2]>>

IInv == Fixed /\ Progress /\ MapSoFar /\ Made /\ Copied

\* No step changes the table, nor what is defined by it alone.
LEMMA StaysTheSame ==
  ASSUME UNCHANGED <<shape, valueOf, extent>>
  PROVE  /\ Row' = Row /\ Column' = Column /\ Points' = Points /\ (Fixed <=> Fixed')
         /\ \A p : RowsToWrite(p)' = RowsToWrite(p)
         /\ \A r : PointOf(r)' = PointOf(r) /\ Meant(r)' = Meant(r)
         /\ \A c : InBounds(c)' = InBounds(c)
<1>1. Row' = Row /\ RowDim' = RowDim /\ Above' = Above /\ Column' = Column
  BY DEF Row, RowDim, Above, Column
<1>2. Points' = Points
  BY <1>1 DEF Points, Positions
<1>3. Fixed <=> Fixed'
  BY <1>1 DEF Fixed
<1>4. \A k, v : Listed(k, v)' = Listed(k, v)
  BY DEF Listed
<1>5. \A p : CommonRows(p)' = CommonRows(p)
  BY <1>1, <1>4 DEF CommonRows
<1>6. \A p : HereRows(p)' = HereRows(p)
  BY <1>1, <1>5 DEF HereRows
<1>7. \A p : RowsToWrite(p)' = RowsToWrite(p)
  BY <1>6 DEF RowsToWrite
<1>8. \A r : PointOf(r)' = PointOf(r)
  BY <1>1 DEF PointOf
<1>9. \A r : Fellows(r)' = Fellows(r)
  BY <1>1, <1>8 DEF Fellows
<1>10. \A r : Meant(r)' = Meant(r)
  BY <1>8, <1>9 DEF Meant
<1>11. \A c : InBounds(c)' = InBounds(c)
  BY <1>1 DEF InBounds
<1> QED BY <1>1, <1>2, <1>3, <1>7, <1>8, <1>10, <1>11

\* A row with a rectangle has it at its point, followed by its rank.
LEMMA MeantIs ==
  ASSUME Fixed, NEW r \in Row
  PROVE  /\ PointOf(r) \in Seq(Nat) /\ Len(PointOf(r)) = Above + shape.columns
         /\ Cardinality({q \in Fellows(r) : Before(q, r)}) \in Nat
         /\ IsFiniteSet(Fellows(r))
         /\ Meant(r) # NoRect <=> (shape.allowRows \/ Fellows(r) = {r})
<1> DEFINE rank == Cardinality({q \in Fellows(r) : Before(q, r)})
<1>1. IsFiniteSet(Fellows(r))
  BY TableFacts, FS_Subset DEF Fellows
<1>2. rank \in Nat
  <2>1. {q \in Fellows(r) : Before(q, r)} \subseteq Fellows(r)
    OBVIOUS
  <2> QED BY <1>1, <2>1, FS_Subset, FS_CardinalityType
<1>3. /\ PointOf(r) \in [1 .. Above + shape.columns -> Nat]
      /\ Above + shape.columns \in Nat
  BY PointOfRow, TableFacts
<1>4. PointOf(r) \in Seq(Nat) /\ Len(PointOf(r)) = Above + shape.columns
  BY <1>3
<1> DEFINE tail == IF shape.allowRows THEN <<rank>> ELSE <<>>
           rect == [at |-> PointOf(r) \o tail, extent |-> extent[r]]
<1>5. Meant(r) = IF shape.allowRows \/ Fellows(r) = {r} THEN rect ELSE NoRect
  BY DEF Meant
<1>6. rect # NoRect
  <2>1. tail \in Seq(Nat)
    BY <1>2
  <2> HIDE DEF tail
  <2>2. PointOf(r) \o tail \in Seq(Nat)
    BY <1>4, <2>1
  <2>3. extent[r] \in Extents
    BY DEF Fixed
  <2>4. rect \in [at : Seq(Nat), extent : Extents]
    BY <2>2, <2>3
  <2> HIDE DEF rect
  <2> QED BY <2>4, RowMappingAssumption
<1> HIDE DEF rect
<1> QED BY <1>1, <1>2, <1>4, <1>5, <1>6

\* Two rows of one point have different ranks there.
LEMMA RanksDiffer ==
  ASSUME Fixed, NEW q \in Row, NEW r \in Row, Before(q, r), PointOf(q) = PointOf(r)
  PROVE  Cardinality({x \in Fellows(q) : Before(x, q)})
           # Cardinality({x \in Fellows(r) : Before(x, r)})
<1> DEFINE Q == {x \in Fellows(q) : Before(x, q)}
           R == {x \in Fellows(r) : Before(x, r)}
<1>1. Ordered(Row) /\ Fellows(q) = Fellows(r) /\ q \in Fellows(r) /\ Fellows(r) \subseteq Row
  BY TableFacts DEF Fellows
<1>2. Q \in SUBSET R /\ q \in R /\ q \notin Q
  BY <1>1 DEF Ordered
<1>3. IsFiniteSet(R)
  <2>1. R \subseteq Fellows(r)
    OBVIOUS
  <2>2. IsFiniteSet(Fellows(r))
    BY MeantIs
  <2> QED BY <2>1, <2>2, FS_Subset
<1> HIDE DEF Q, R
<1>4. Q \in SUBSET R /\ Q # R
  BY <1>2
<1>5. Cardinality(Q) # Cardinality(R)
  BY <1>3, <1>4, FS_Subset
<1> QED BY <1>5 DEF Q, R

\* No two rows have a cell in common.
LEMMA CellsApart ==
  ASSUME Fixed, NEW q \in Row, NEW r \in Row, q # r
  PROVE  CellsOf(Meant(q)) \cap CellsOf(Meant(r)) = {}
<1> SUFFICES ASSUME NEW c \in CellsOf(Meant(q)), c \in CellsOf(Meant(r)) PROVE FALSE
  OBVIOUS
<1> DEFINE Rank(x) == Cardinality({y \in Fellows(x) : Before(y, x)})
           n == Above + shape.columns
<1>1. /\ Meant(q) # NoRect /\ Meant(r) # NoRect
      /\ Meant(q).at = Meant(r).at
  BY DEF CellsOf
<1>2. \A x \in Row : /\ PointOf(x) \in Seq(Nat) /\ Len(PointOf(x)) = n /\ Rank(x) \in Nat
                     /\ Meant(x) # NoRect <=> (shape.allowRows \/ Fellows(x) = {x})
  BY MeantIs
<1>3. \A x \in Row : Meant(x) # NoRect =>
        Meant(x).at = PointOf(x) \o (IF shape.allowRows THEN <<Rank(x)>> ELSE <<>>)
  BY <1>2 DEF Meant
<1> HIDE DEF Rank, n
<1>5. CASE shape.allowRows
  <2>1. PointOf(q) \o <<Rank(q)>> = PointOf(r) \o <<Rank(r)>>
    BY <1>1, <1>3, <1>5
  <2>2. PointOf(q) = PointOf(r) /\ Rank(q) = Rank(r)
    <3>1. /\ PointOf(q) \in Seq(Nat) /\ Rank(q) \in Nat
          /\ PointOf(r) \in Seq(Nat) /\ Rank(r) \in Nat
      BY <1>2
    <3>2. Append(PointOf(q), Rank(q)) = Append(PointOf(r), Rank(r))
      BY <2>1, <3>1, AppendIsConcat
    <3> QED BY <3>1, <3>2, AppendInjective
  <2>3. Before(q, r) \/ Before(r, q)
    BY TableFacts DEF Ordered
  <2> QED BY <2>2, <2>3, RanksDiffer DEF Rank
<1>6. CASE ~shape.allowRows
  <2>1. PointOf(q) \o <<>> = PointOf(r) \o <<>>
    BY <1>1, <1>3, <1>6
  <2>2. PointOf(q) = PointOf(r)
    BY <1>2, <2>1
  <2>3. q \in Fellows(r) /\ Fellows(r) = {r}
    BY <1>1, <1>2, <1>6, <2>2 DEF Fellows
  <2> QED BY <2>3
<1> QED BY <1>5, <1>6

\* When all tasks have ended, the row map is the one that is meant.
LEMMA AllWritten ==
  ASSUME Fixed, Reindexable, MapSoFar, \A p \in Points : written[p] = Len(RowsToWrite(p))
  PROVE  rects = [r \in Row |-> Meant(r)]
<1> SUFFICES ASSUME NEW r \in Row, ~Wrote(r) PROVE Meant(r) = NoRect
  BY DEF MapSoFar
<1> DEFINE w == RowsToWrite(PointOf(r))
<1>1. PointOf(r) \in Points
  BY PointOfRow
<1>2. /\ w \in Seq(Row) /\ written[PointOf(r)] = Len(w)
      /\ ToSet(w) = {q \in Row : PointOf(q) = PointOf(r) /\ (shape.allowRows \/ Fellows(q) = {q})}
  BY <1>1, RowsToWriteIs
<1>3. ~ \E i \in 1 .. Len(w) : w[i] = r
  BY <1>2 DEF Wrote
<1> HIDE DEF w
<1>4. r \notin ToSet(w)
  <2>1. DOMAIN w = 1 .. Len(w)
    BY <1>2
  <2> QED BY <1>3, <2>1 DEF ToSet
<1>5. ~(shape.allowRows \/ Fellows(r) = {r})
  BY <1>2, <1>4
<1> QED BY <1>5, MeantIs

\* The row a task writes next has no rectangle yet.
LEMMA NextRow ==
  ASSUME Fixed, Reindexable, Progress, MapSoFar, NEW p \in Points, MapRow(p)
  PROVE  LET r == RowsToWrite(p)[written[p] + 1] IN
         /\ r \in Row /\ PointOf(r) = p /\ ~Wrote(r)
         /\ rects[r] = NoRect
         /\ rects' = [rects EXCEPT ![r] = Meant(r)]
<1> DEFINE w == RowsToWrite(p)
           i == written[p]
           r == w[i + 1]
<1>1. w \in Seq(Row) /\ IsInjective(w)
  BY RowsToWriteIs
<1>2. i \in Nat /\ i < Len(w) /\ rects' = [rects EXCEPT ![r] = RectOf(p, i, r)]
  BY DEF Progress, MapRow
<1>3. Len(w) \in Nat /\ DOMAIN w = 1 .. Len(w)
  BY <1>1
<1>4. i \in 0 .. Len(w) - 1
  BY <1>2, <1>3
<1>5. r \in Row /\ PointOf(r) = p /\ RectOf(p, i, r) = Meant(r)
  BY <1>4, RectIsMeant
<1>6. ~Wrote(r)
  <2> SUFFICES ASSUME NEW j \in 1 .. i, w[j] = w[i + 1] PROVE FALSE
    BY <1>5 DEF Wrote
  <2> HIDE DEF w, i
  <2>1. j \in DOMAIN w /\ i + 1 \in DOMAIN w /\ j # i + 1
    BY <1>2, <1>3
  <2> QED BY <1>1, <2>1 DEF IsInjective
<1>7. rects[r] = NoRect
  BY <1>5, <1>6 DEF MapSoFar
<1> QED BY <1>2, <1>5, <1>6, <1>7

\* Nothing is written at first.
LEMMA InitHolds ==
  ASSUME Reindexable, Init
  PROVE  IInv
<1>1. Fixed
  <2>1. shape \in Shapes /\ extent \in [Row -> Extents]
    BY DEF Init
  <2>2. valueOf \in [Column -> [Row -> Value]]
    BY Zenon DEF Init
  <2> QED BY <2>1, <2>2 DEF Fixed
<1>2. written = [p \in Points |-> 0] /\ rects = [r \in Row |-> NoRect]
      /\ space = NoSpace /\ uncopied = Row
  BY DEF Init
<1>3. Progress
  <2>1. ASSUME NEW p \in Points PROVE written[p] <= Len(RowsToWrite(p))
    <3>1. RowsToWrite(p) \in Seq(Row)
      BY <1>1, RowsToWriteIs
    <3>2. Len(RowsToWrite(p)) \in Nat
      BY <3>1
    <3> QED BY <1>2, <3>2
  <2> QED BY <1>2, <2>1 DEF Progress
<1>4. \A r \in Row : ~Wrote(r)
  <2>1. \A r \in Row : PointOf(r) \in Points
    BY <1>1, PointOfRow
  <2>2. \A r \in Row : written[PointOf(r)] = 0
    BY <1>2, <2>1
  <2> QED BY <2>2 DEF Wrote
<1>5. MapSoFar
  BY <1>2, <1>4 DEF MapSoFar
<1> QED BY <1>1, <1>2, <1>3, <1>5 DEF IInv, Made, Copied

\* A point task writes one row more.
LEMMA MapRowKeeps ==
  ASSUME Reindexable, IInv, NEW p \in Points, MapRow(p)
  PROVE  IInv'
<1> DEFINE w == RowsToWrite(p)
           i == written[p]
           row == w[i + 1]
<1>1. Fixed /\ Progress /\ MapSoFar
  BY DEF IInv
<1>2. /\ UNCHANGED <<shape, valueOf, extent>>
      /\ i < Len(w)
      /\ space = NoSpace /\ space' = NoSpace /\ uncopied' = uncopied
      /\ written' = [written EXCEPT ![p] = i + 1]
  BY DEF MapRow
<1>3. /\ Row' = Row /\ Column' = Column /\ Points' = Points /\ Fixed'
      /\ \A q : RowsToWrite(q)' = RowsToWrite(q)
      /\ \A r : PointOf(r)' = PointOf(r) /\ Meant(r)' = Meant(r)
  BY <1>1, <1>2, StaysTheSame
<1>4. /\ row \in Row /\ PointOf(row) = p
      /\ rects' = [rects EXCEPT ![row] = Meant(row)]
  BY <1>1, NextRow
<1>5. written \in [Points -> Nat] /\ i \in Nat /\ w \in Seq(Row)
      /\ \A q \in Points : written[q] <= Len(RowsToWrite(q))
  BY <1>1, RowsToWriteIs DEF Progress
<1>6. Progress'
  <2>1. Len(w) \in Nat
    BY <1>5
  <2>2. i + 1 \in Nat /\ i + 1 <= Len(w)
    BY <1>2, <1>5, <2>1
  <2> HIDE DEF i
  <2>3. written' \in [Points -> Nat]
    BY <1>2, <1>5, <2>2
  <2>4. \A q \in Points : written'[q] <= Len(RowsToWrite(q))
    BY <1>2, <1>5, <2>2
  <2> QED BY <1>3, <2>3, <2>4 DEF Progress
<1>7. ASSUME NEW r \in Row
      PROVE  Wrote(r)' <=> (Wrote(r) \/ r = row)
  <2>1. Wrote(r)' <=> \E j \in 1 .. written'[PointOf(r)] : RowsToWrite(PointOf(r))[j] = r
    BY <1>3 DEF Wrote
  <2>2. PointOf(r) \in Points
    BY <1>1, PointOfRow
  <2>3. CASE PointOf(r) # p
    <3>1. written'[PointOf(r)] = written[PointOf(r)] /\ r # row
      BY <1>2, <1>4, <1>5, <2>2, <2>3
    <3> QED BY <2>1, <3>1 DEF Wrote
  <2>4. CASE PointOf(r) = p
    <3>1. written'[p] = i + 1
      BY <1>2, <1>5
    <3>2. /\ Wrote(r)' <=> \E j \in 1 .. i + 1 : w[j] = r
          /\ Wrote(r) <=> \E j \in 1 .. i : w[j] = r
      BY <2>1, <2>4, <3>1 DEF Wrote
    <3> HIDE DEF w, i
    <3>3. \A j : j \in 1 .. i + 1 <=> (j \in 1 .. i \/ j = i + 1)
      BY <1>5
    <3> QED BY <3>2, <3>3 DEF row
  <2> QED BY <2>3, <2>4
<1>8. MapSoFar'
  <2>1. rects = [r \in Row |-> IF Wrote(r) THEN Meant(r) ELSE NoRect]
    BY <1>1 DEF MapSoFar
  <2> HIDE DEF row
  <2>2. rects' = [r \in Row |-> IF r = row THEN Meant(row) ELSE rects[r]]
    BY <1>4, <2>1
  <2>3. \A r \in Row : rects'[r] = IF Wrote(r)' THEN Meant(r) ELSE NoRect
    BY <1>7, <2>1, <2>2
  <2>4. \A r \in Row : rects'[r] = IF Wrote(r)' THEN Meant(r)' ELSE NoRect
    BY <1>3, <2>3
  <2>5. rects' = [r \in Row |-> rects'[r]]
    BY <2>2
  <2> QED BY <1>3, <2>4, <2>5 DEF MapSoFar
<1>9. Made' /\ Copied'
  BY <1>2, <1>3 DEF IInv, Made, Copied
<1> QED BY <1>3, <1>6, <1>8, <1>9 DEF IInv

\* The new space is the image of the whole row map.
LEMMA MakeSpaceKeeps ==
  ASSUME IInv, MakeSpace
  PROVE  IInv'
<1>1. Fixed /\ Progress /\ MapSoFar
  BY DEF IInv
<1>2. /\ UNCHANGED <<shape, valueOf, extent>> /\ UNCHANGED <<written, rects, uncopied>>
      /\ \A p \in Points : written[p] = Len(RowsToWrite(p))
      /\ space' = {c \in UNION {CellsOf(rects[r]) : r \in Row} : InBounds(c)}
  BY DEF MakeSpace
<1>3. /\ Row' = Row /\ Points' = Points /\ Fixed'
      /\ \A q : RowsToWrite(q)' = RowsToWrite(q)
      /\ \A r : PointOf(r)' = PointOf(r) /\ Meant(r)' = Meant(r)
      /\ \A c : InBounds(c)' = InBounds(c)
  BY <1>1, <1>2, StaysTheSame
<1>4. Progress'
  BY <1>1, <1>2, <1>3 DEF Progress
<1>5. \A r : Wrote(r)' <=> Wrote(r)
  BY <1>2, <1>3 DEF Wrote
<1>6. MapSoFar'
  BY <1>1, <1>2, <1>3, <1>5 DEF MapSoFar
<1>7. \A r : CellsOf(rects[r])' = CellsOf(rects[r])
  BY <1>2 DEF CellsOf
<1>8. Made'
  BY <1>2, <1>3, <1>7 DEF Made
<1>9. uncopied = Row
  BY DEF IInv, Copied, MakeSpace
<1>10. Copied'
  BY <1>2, <1>3, <1>9 DEF Copied
<1> QED BY <1>3, <1>4, <1>6, <1>8, <1>10 DEF IInv

\* A copy task writes only the cells of its own row.
LEMMA CopyRowKeeps ==
  ASSUME Reindexable, IInv, NEW row \in Row, CopyRow(row)
  PROVE  IInv'
<1>1. Fixed /\ Progress /\ MapSoFar /\ Made /\ Copied
  BY DEF IInv
<1>2. /\ UNCHANGED <<shape, valueOf, extent>> /\ UNCHANGED <<written, rects, space>>
      /\ space # NoSpace
      /\ uncopied' = uncopied \ {row}
      /\ cells' = [c \in space |-> IF c \in CellsOf(rects[row]) THEN <<row, c[2]>> ELSE cells[c]]
  BY DEF CopyRow
<1>3. /\ Row' = Row /\ Points' = Points /\ Fixed'
      /\ \A q : RowsToWrite(q)' = RowsToWrite(q)
      /\ \A r : PointOf(r)' = PointOf(r) /\ Meant(r)' = Meant(r)
      /\ \A c : InBounds(c)' = InBounds(c)
  BY <1>1, <1>2, StaysTheSame
<1>4. Progress'
  BY <1>1, <1>2, <1>3 DEF Progress
<1>5. \A r : Wrote(r)' <=> Wrote(r)
  BY <1>2, <1>3 DEF Wrote
<1>6. MapSoFar'
  BY <1>1, <1>2, <1>3, <1>5 DEF MapSoFar
<1>7. \A r : CellsOf(rects[r])' = CellsOf(rects[r])
  BY <1>2 DEF CellsOf
<1>8. Made'
  BY <1>1, <1>2, <1>3, <1>7 DEF Made
<1>9. \A r \in Row : rects[r] = Meant(r)
  BY <1>1, <1>2, AllWritten DEF Made
<1>10. ASSUME NEW r \in Row, r \notin uncopied', NEW c \in space, c \in CellsOf(rects[r])
       PROVE  cells'[c] = <<r, c[2]>>
  <2>1. CASE r = row
    BY <1>2, <1>10, <2>1
  <2>2. CASE r # row
    <3>1. c \notin CellsOf(rects[row])
      BY <1>1, <1>9, <1>10, <2>2, CellsApart
    <3>2. r \notin uncopied
      BY <1>2, <1>10, <2>2
    <3> QED BY <1>1, <1>2, <1>10, <3>1, <3>2 DEF Copied
  <2> QED BY <2>1, <2>2
<1>11. Copied'
  BY <1>2, <1>3, <1>7, <1>10 DEF Copied
<1> QED BY <1>3, <1>4, <1>6, <1>8, <1>11 DEF IInv

\* Every step keeps what was said above.
LEMMA NextKeeps ==
  ASSUME Reindexable, IInv, [Next]_vars
  PROVE  IInv'
<1>1. CASE \E p \in Points : MapRow(p)
  BY <1>1, MapRowKeeps
<1>2. CASE MakeSpace
  BY <1>2, MakeSpaceKeeps
<1>3. CASE \E r \in Row : CopyRow(r)
  BY <1>3, CopyRowKeeps
<1>4. CASE UNCHANGED vars
  <2>1. /\ UNCHANGED <<shape, valueOf, extent>>
        /\ UNCHANGED <<written, rects, space, uncopied, cells>>
    BY <1>4 DEF vars
  <2>2. /\ Row' = Row /\ Points' = Points /\ (Fixed <=> Fixed')
        /\ \A q : RowsToWrite(q)' = RowsToWrite(q)
        /\ \A r : PointOf(r)' = PointOf(r) /\ Meant(r)' = Meant(r)
        /\ \A c : InBounds(c)' = InBounds(c)
    BY <2>1, StaysTheSame
  <2>3. \A r : (Wrote(r)' <=> Wrote(r)) /\ CellsOf(rects[r])' = CellsOf(rects[r])
    BY <2>1, <2>2 DEF Wrote, CellsOf
  <2>4. Fixed' /\ Progress' /\ MapSoFar'
    BY <2>1, <2>2, <2>3 DEF IInv, Progress, MapSoFar
  <2>5. Made' /\ Copied'
    BY <2>1, <2>2, <2>3 DEF IInv, Made, Copied
  <2> QED BY <2>4, <2>5 DEF IInv
<1> QED BY <1>1, <1>2, <1>3, <1>4 DEF Next

\* The row map is written as it is meant to be, and copying follows it.
THEOREM InvariantHolds ==
  ASSUME Reindexable
  PROVE  Spec => []IInv
<1>1. Init => IInv
  BY InitHolds
<1>2. IInv /\ [Next]_vars => IInv'
  BY NextKeeps
<1> QED BY <1>1, <1>2, PTL DEF Spec

\* When the space has been made, the row map is the one that is meant.
LEMMA MapMeant ==
  ASSUME Reindexable, IInv, space # NoSpace
  PROVE  \A r \in Row : rects[r] = Meant(r)
BY AllWritten DEF IInv, Made

\* In whatever order the point tasks run, the row map they leave is the one
\* that reindexing means: every row at its point and its rank there, and
\* without a row axis only the rows that are alone at their point.
THEOREM MapIsMeant ==
  ASSUME Reindexable
  PROVE  Spec => []RowMapExact
<1>1. IInv => RowMapExact
  BY MapMeant DEF RowMapExact
<1> QED BY <1>1, InvariantHolds, PTL

\* No two point tasks write the same row, nor does one write it twice.
THEOREM WrittenOnce ==
  ASSUME Reindexable
  PROVE  Spec => RowsWrittenOnce
<1>1. ASSUME IInv, [Next]_vars
      PROVE  \A r \in Row : rects[r] # NoRect => rects'[r] = rects[r]
  <2> SUFFICES ASSUME NEW r \in Row, rects[r] # NoRect PROVE rects'[r] = rects[r]
    OBVIOUS
  <2>1. ASSUME NEW p \in Points, MapRow(p) PROVE rects'[r] = rects[r]
    <3> DEFINE row == RowsToWrite(p)[written[p] + 1]
    <3>1. rects[row] = NoRect /\ rects' = [rects EXCEPT ![row] = Meant(row)]
      BY <1>1, <2>1, NextRow DEF IInv
    <3>2. rects = [q \in Row |-> IF Wrote(q) THEN Meant(q) ELSE NoRect]
      BY <1>1 DEF IInv, MapSoFar
    <3> HIDE DEF row
    <3> QED BY <3>1, <3>2
  <2>2. MakeSpace \/ (\E q \in Row : CopyRow(q)) \/ UNCHANGED vars => rects'[r] = rects[r]
    BY DEF MakeSpace, CopyRow, vars
  <2> QED BY <1>1, <2>1, <2>2 DEF Next
<1>2. IInv /\ [Next]_vars => [\A r \in Row : rects[r] # NoRect => rects'[r] = rects[r]]_vars
  BY <1>1
<1> QED BY <1>2, InvariantHolds, PTL DEF Spec, RowsWrittenOnce

\* The rank of a row is within the bounds of the row axis: no more rows come
\* before it at its point than there are numbers below its own.
LEMMA RankInBounds ==
  ASSUME Fixed, Reindexable, RowsFromZero, shape.allowRows, NEW r \in Row
  PROVE  LET Rows == {q[RowDim] : q \in Row} IN
         Cardinality({q \in Fellows(r) : Before(q, r)}) \in Min(Rows) .. Max(Rows)
<1> DEFINE f == [q \in Row |-> q[1]]
           Rows == {f[q] : q \in Row}
           B == {q \in Fellows(r) : Before(q, r)}
           g == [q \in B |-> q[1]]
<1>1. RowDim = 1 /\ <<0>> \in Row
  BY DEF Fixed, Reindexable, RowsFromZero, RowDim, Row
<1>2. \A q \in Row : q \in Seq(Nat) /\ Len(q) = 1 /\ q[1] \in Nat
  <2>1. \A q \in Row : q \in Seq(Nat) /\ Len(q) = 1
    BY <1>1, TableFacts
  <2>2. 1 \in 1 .. 1
    OBVIOUS
  <2> QED BY <2>1, <2>2
<1>3. f \in [Row -> Nat]
  BY <1>2
<1>4. {q[RowDim] : q \in Row} = Rows
  BY <1>1
<1>5. f[<<0>>] = 0 /\ \A q \in Row : f[q] = q[1]
  BY <1>1
<1> HIDE DEF f
<1>6. /\ Min(Rows) \in Nat /\ Max(Rows) \in Nat
      /\ \A q \in Row : Min(Rows) <= f[q] /\ f[q] <= Max(Rows)
  BY <1>3, TableFacts, ImageBounded
<1> HIDE DEF Rows
<1>7. Min(Rows) = 0
  BY <1>1, <1>5, <1>6
<1>8. \A q \in B : q \in Row /\ q[1] < r[1]
  <2> SUFFICES ASSUME NEW q \in B PROVE q \in Row /\ q[1] < r[1]
    OBVIOUS
  <2>1. q \in Row /\ Before(q, r)
    BY DEF Fellows
  <2>2. Len(q) = 1
    BY <1>2, <2>1
  <2>3. \A i \in 1 .. 1 : i = 1
    OBVIOUS
  <2> QED BY <2>1, <2>2, <2>3 DEF Before
<1> HIDE DEF B
<1>9. g \in Injection(B, 0 .. r[1] - 1)
  <2>1. \A q \in B : q[1] \in 0 .. r[1] - 1
    <3> SUFFICES ASSUME NEW q \in B PROVE q[1] \in 0 .. r[1] - 1
      OBVIOUS
    <3>1. q[1] \in Nat /\ r[1] \in Nat /\ q[1] < r[1]
      BY <1>2, <1>8
    <3> QED BY <3>1
  <2>2. \A q, s \in B : q[1] = s[1] => q = s
    <3> SUFFICES ASSUME NEW q \in B, NEW s \in B, q[1] = s[1] PROVE q = s
      OBVIOUS
    <3>1. q \in Seq(Nat) /\ s \in Seq(Nat) /\ Len(q) = 1 /\ Len(s) = 1
      BY <1>2, <1>8
    <3>2. \A i \in 1 .. Len(q) : q[i] = s[i]
      <4>1. \A i \in 1 .. 1 : i = 1
        OBVIOUS
      <4> QED BY <3>1, <4>1
    <3> QED BY <3>1, <3>2, SeqEqual
  <2> QED BY <2>1, <2>2 DEF Injection, IsInjective
<1>10. r[1] \in Nat
  BY <1>2
<1>11. IsFiniteSet(0 .. r[1] - 1) /\ Cardinality(0 .. r[1] - 1) = r[1]
  <2>1. 0 \in Int /\ r[1] - 1 \in Int /\ (0 > r[1] - 1 => r[1] = 0) /\ (r[1] - 1) - 0 + 1 = r[1]
    BY <1>10
  <2> QED BY <2>1, FS_Interval
<1> HIDE DEF g
<1>12. IsFiniteSet(B) /\ Cardinality(B) <= r[1]
  BY <1>9, <1>11, FS_Injection
<1>13. Cardinality(B) \in Nat
  BY <1>12, FS_CardinalityType
<1>14. r[1] <= Max(Rows)
  BY <1>5, <1>6
<1>15. Cardinality(B) \in Min(Rows) .. Max(Rows)
  BY <1>6, <1>7, <1>10, <1>12, <1>13, <1>14
<1> QED BY <1>4, <1>15 DEF B

\* Every cell of a row that is mapped is within the bounds of the new space.
LEMMA CellsInBounds ==
  ASSUME Fixed, Reindexable, RowsFromZero, NEW r \in Row, NEW c \in CellsOf(Meant(r))
  PROVE  InBounds(c)
<1> DEFINE Rows == {q[RowDim] : q \in Row}
           rank == Cardinality({q \in Fellows(r) : Before(q, r)})
<1> SUFFICES ASSUME shape.allowRows PROVE Last(c[1]) \in Min(Rows) .. Max(Rows)
  BY DEF InBounds
<1>1. c[1] = PointOf(r) \o <<rank>>
  BY DEF CellsOf, Meant
<1>2. PointOf(r) \in Seq(Nat) /\ rank \in Nat
  BY MeantIs
<1>3. rank \in Min(Rows) .. Max(Rows)
  BY RankInBounds
<1> HIDE DEF rank
<1>4. Last(PointOf(r) \o <<rank>>) = rank
  <2>1. PointOf(r) \o <<rank>> = Append(PointOf(r), rank)
    BY <1>2, AppendIsConcat
  <2>2. /\ Len(Append(PointOf(r), rank)) = Len(PointOf(r)) + 1
        /\ Append(PointOf(r), rank)[Len(PointOf(r)) + 1] = rank
    BY <1>2, AppendProperties
  <2> QED BY <2>1, <2>2 DEF Last
<1> QED BY <1>1, <1>3, <1>4

\* The new space has the cells of the rectangles, and no others.
LEMMA SpaceIs ==
  ASSUME Reindexable, RowsFromZero, IInv, space # NoSpace
  PROVE  space = UNION {CellsOf(rects[r]) : r \in Row}
<1>1. space = {c \in UNION {CellsOf(rects[r]) : r \in Row} : InBounds(c)}
  BY DEF IInv, Made
<1>2. \A r \in Row : rects[r] = Meant(r)
  BY MapMeant
<1>3. ASSUME NEW r \in Row, NEW c \in CellsOf(rects[r]) PROVE InBounds(c)
  BY <1>2, CellsInBounds DEF IInv
<1> QED BY <1>1, <1>3

\* The image of the row map is disjoint and complete, as the copy launch
\* declares it: ranks are within the row axis when rows are counted from zero.
THEOREM DisjointComplete ==
  ASSUME Reindexable, RowsFromZero
  PROVE  Spec => []ImageDisjointComplete
<1>1. IInv => ImageDisjointComplete
  <2> SUFFICES ASSUME IInv, space # NoSpace
               PROVE  /\ \A q, r \in Row : q # r => CellsOf(rects[q]) \cap CellsOf(rects[r]) = {}
                      /\ space = UNION {CellsOf(rects[r]) : r \in Row}
    BY DEF ImageDisjointComplete
  <2>1. \A r \in Row : rects[r] = Meant(r)
    BY MapMeant
  <2>2. \A q, r \in Row : q # r => CellsOf(rects[q]) \cap CellsOf(rects[r]) = {}
    BY <2>1, CellsApart DEF IInv
  <2> QED BY <2>2, SpaceIs
<1> QED BY <1>1, InvariantHolds, PTL

\* Every value of a row that is mapped is found once in the new column, and
\* where a reader of the reindexed table looks for it.
THEOREM ValuesFound ==
  ASSUME Reindexable, RowsFromZero
  PROVE  Spec => []ValuesMoved
<1>1. IInv => ValuesMoved
  <2> SUFFICES ASSUME IInv, Finished, NEW r \in Row, Meant(r) # NoRect,
                      NEW e \in 0 .. extent[r] - 1
               PROVE  {c \in space : cells[c] = <<r, e>>} = {<<Meant(r).at, e>>}
    BY DEF ValuesMoved
  <2>1. space # NoSpace /\ uncopied = {}
    BY DEF Finished
  <2>2. \A q \in Row : rects[q] = Meant(q)
    BY <2>1, MapMeant
  <2>3. space = UNION {CellsOf(rects[q]) : q \in Row}
    BY <2>1, SpaceIs
  <2>4. \A q \in Row : \A c \in CellsOf(rects[q]) : cells[c] = <<q, c[2]>>
    BY <2>1, <2>3 DEF IInv, Copied
  <2>5. CellsOf(rects[r]) = {<<Meant(r).at, d>> : d \in 0 .. extent[r] - 1}
    <3>1. Meant(r).extent = extent[r]
      BY DEF Meant
    <3> QED BY <2>2, <3>1 DEF CellsOf
  <2>6. /\ <<Meant(r).at, e>> \in CellsOf(rects[r])
        /\ \A c \in CellsOf(rects[r]) : c = <<Meant(r).at, c[2]>>
    BY <2>5
  <2>7. cells[<<Meant(r).at, e>>] = <<r, e>>
    BY <2>4, <2>6
  <2>8. ASSUME NEW c \in space, cells[c] = <<r, e>> PROVE c = <<Meant(r).at, e>>
    <3>1. PICK q \in Row : c \in CellsOf(rects[q])
      BY <2>3
    <3>2. q = r /\ c[2] = e
      BY <2>4, <2>8, <3>1
    <3> QED BY <2>6, <3>1, <3>2
  <2> QED BY <2>3, <2>6, <2>7, <2>8
<1> QED BY <1>1, InvariantHolds, PTL

=============================================================================

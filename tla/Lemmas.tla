------------------------------- MODULE Lemmas -------------------------------
(***************************************************************************)
(* What the proofs of several components use: least numbers, where the     *)
(* code walks a list and stops at the first place that will do, and lists. *)
(***************************************************************************)
EXTENDS Lists, SequencesExt, FiniteSetTheorems, SequenceTheorems,
        WellFoundedInduction, TLAPS

\* Not empty sets of numbers have a least one.
LEMMA Least ==
  ASSUME NEW S \in SUBSET Nat, S # {}
  PROVE  \E x \in S : \A y \in S : x <= y
<1> DEFINE T == {0 .. i - 1 : i \in S}
<1>1. \A i \in S : 0 .. i - 1 \in FiniteSubsetsOf(Nat)
  <2> SUFFICES ASSUME NEW i \in S PROVE 0 .. i - 1 \in FiniteSubsetsOf(Nat)
    OBVIOUS
  <2>1. IsFiniteSet(0 .. i - 1)
    BY FS_Interval
  <2> QED BY <2>1 DEF FiniteSubsetsOf
<1>2. IsWellFoundedOn(StrictSubsetOrdering(Nat), FiniteSubsetsOf(Nat))
  BY FS_StrictSubsetOrderingWellFounded
<1>3. PICK X \in T : \A Y \in T : ~(<<Y, X>> \in StrictSubsetOrdering(Nat))
  <2>1. T \subseteq FiniteSubsetsOf(Nat) /\ T # {}
    BY <1>1
  <2> HIDE DEF T
  <2> QED BY <2>1, <1>2, WFMin
<1>4. PICK x \in S : X = 0 .. x - 1
  BY DEF T
<1>5. ASSUME NEW y \in S, y < x PROVE FALSE
  <2>1. /\ 0 .. y - 1 \in T
        /\ 0 .. y - 1 \in SUBSET Nat /\ X \in SUBSET Nat
        /\ 0 .. y - 1 \subseteq X /\ y \in X /\ y \notin 0 .. y - 1
    BY <1>4, <1>5
  <2>2. 0 .. y - 1 # X
    BY <2>1
  <2>3. <<0 .. y - 1, X>> \in StrictSubsetOrdering(Nat)
    <3>1. \A A, B \in SUBSET Nat :
            A \subseteq B /\ A # B => <<A, B>> \in StrictSubsetOrdering(Nat)
      BY Zenon DEF StrictSubsetOrdering
    <3> QED BY <3>1, <2>1, <2>2
  <2> QED BY <2>1, <2>3, <1>3
<1> QED BY <1>5

\* Hence Min, a choice of a least one, is one.
LEMMA MinIsLeast ==
  ASSUME NEW S \in SUBSET Nat, S # {}
  PROVE  Min(S) \in S /\ \A y \in S : Min(S) <= y
<1>1. \E x \in S : \A y \in S : x <= y
  BY Least
<1> QED BY <1>1 DEF Min

\* A list is a list of its elements.
LEMMA ListOfItsOwn ==
  ASSUME NEW S, NEW s \in Seq(S)
  PROVE  s \in Seq(ToSet(s))
<1>1. /\ Len(s) \in Nat /\ DOMAIN s = 1 .. Len(s)
      /\ s = [i \in 1 .. Len(s) |-> s[i]]
  OBVIOUS
<1>2. \A i \in 1 .. Len(s) : s[i] \in ToSet(s)
  BY <1>1 DEF ToSet
<1>3. s \in [1 .. Len(s) -> ToSet(s)]
  BY <1>1, <1>2
<1> QED BY <1>1, <1>3

\* Adding to a list.
LEMMA Joined ==
  ASSUME NEW S, NEW T, NEW s \in Seq(S), NEW t \in Seq(T)
  PROVE  /\ s \o t \in Seq(ToSet(s \o t))
         /\ ToSet(s \o t) = ToSet(s) \cup ToSet(t)
<1>1. s \in Seq(S \cup T) /\ t \in Seq(S \cup T)
  OBVIOUS
<1>2. s \o t \in Seq(S \cup T)
  BY <1>1
<1>3. /\ Len(s) \in Nat /\ Len(t) \in Nat
      /\ DOMAIN s = 1 .. Len(s) /\ DOMAIN t = 1 .. Len(t)
      /\ DOMAIN (s \o t) = 1 .. Len(s) + Len(t)
      /\ \A i \in 1 .. Len(s) + Len(t) :
           (s \o t)[i] = IF i <= Len(s) THEN s[i] ELSE t[i - Len(s)]
  BY <1>1, <1>2
<1>4. ToSet(s \o t) \subseteq ToSet(s) \cup ToSet(t)
  <2> SUFFICES ASSUME NEW i \in 1 .. Len(s) + Len(t)
               PROVE  (s \o t)[i] \in ToSet(s) \cup ToSet(t)
    BY <1>3 DEF ToSet
  <2>1. CASE i <= Len(s)
    BY <1>3, <2>1 DEF ToSet
  <2>2. CASE ~(i <= Len(s))
    <3>1. i - Len(s) \in 1 .. Len(t)
      BY <1>3, <2>2
    <3> QED BY <1>3, <2>2, <3>1 DEF ToSet
  <2> QED BY <2>1, <2>2
<1>5. ToSet(s) \subseteq ToSet(s \o t)
  BY <1>3 DEF ToSet
<1>6. ToSet(t) \subseteq ToSet(s \o t)
  <2> SUFFICES ASSUME NEW j \in 1 .. Len(t)
               PROVE  t[j] \in ToSet(s \o t)
    BY <1>3 DEF ToSet
  <2>1. Len(s) + j \in 1 .. Len(s) + Len(t) /\ (s \o t)[Len(s) + j] = t[j]
    BY <1>3
  <2> QED BY <1>3, <2>1 DEF ToSet
<1> QED BY <1>2, <1>4, <1>5, <1>6, ListOfItsOwn

\* An element that is not the first is in the rest.
LEMMA HeadAndTail ==
  ASSUME NEW S, NEW s \in Seq(S), s # <<>>
  PROVE  /\ Head(s) \in S /\ Head(s) = s[1] /\ Len(s) \in Nat \ {0}
         /\ Tail(s) \in Seq(S) /\ Len(Tail(s)) = Len(s) - 1
         /\ \A i \in 1 .. Len(s) - 1 : Tail(s)[i] = s[i + 1]
         /\ ToSet(s) = {Head(s)} \cup ToSet(Tail(s))
<1>1. /\ Len(s) \in Nat \ {0} /\ DOMAIN s = 1 .. Len(s)
      /\ Head(s) \in S /\ Head(s) = s[1]
  BY EmptySeq
<1>2. /\ Tail(s) \in Seq(S) /\ Len(Tail(s)) = Len(s) - 1
      /\ DOMAIN Tail(s) = 1 .. Len(s) - 1
      /\ \A i \in 1 .. Len(s) - 1 : Tail(s)[i] = s[i + 1]
  BY <1>1, HeadTailProperties
<1>3. ToSet(s) \subseteq {Head(s)} \cup ToSet(Tail(s))
  <2> SUFFICES ASSUME NEW i \in 1 .. Len(s), i # 1
               PROVE  s[i] \in ToSet(Tail(s))
    BY <1>1 DEF ToSet
  <2>1. i - 1 \in 1 .. Len(s) - 1 /\ Tail(s)[i - 1] = s[i]
    BY <1>1, <1>2
  <2> QED BY <1>2, <2>1 DEF ToSet
<1>4. ToSet(Tail(s)) \subseteq ToSet(s)
  <2> SUFFICES ASSUME NEW i \in 1 .. Len(s) - 1
               PROVE  Tail(s)[i] \in ToSet(s)
    BY <1>2 DEF ToSet
  <2>1. i + 1 \in DOMAIN s
    BY <1>1
  <2> QED BY <1>2, <2>1 DEF ToSet
<1>5. Head(s) \in ToSet(s)
  BY <1>1 DEF ToSet
<1> QED BY <1>1, <1>2, <1>3, <1>4, <1>5

\* What InsertAt does to the places before and after the new element.
LEMMA Inserted ==
  ASSUME NEW S, NEW s \in Seq(S), NEW i \in 1 .. Len(s), NEW e \in S
  PROVE  /\ InsertAt(s, i, e) \in Seq(S)
         /\ Len(InsertAt(s, i, e)) = Len(s) + 1
         /\ \A j \in 1 .. Len(s) + 1 :
              InsertAt(s, i, e)[j] = IF j < i THEN s[j] ELSE IF j = i THEN e ELSE s[j - 1]
         /\ ToSet(InsertAt(s, i, e)) = ToSet(s) \cup {e}
<1> DEFINE a == SubSeq(s, 1, i - 1)
           c == SubSeq(s, i, Len(s))
           t == InsertAt(s, i, e)
<1>1. Len(s) \in Nat /\ DOMAIN s = 1 .. Len(s) /\ \A j \in 1 .. Len(s) : s[j] \in S
  OBVIOUS
<1>2. /\ a \in Seq(S) /\ Len(a) = i - 1
      /\ \A j \in 1 .. i - 1 : a[j] = s[j]
  BY <1>1, SubSeqProperties
<1>3. /\ c \in Seq(S) /\ Len(c) = Len(s) - i + 1
      /\ \A j \in 1 .. Len(s) - i + 1 : c[j] = s[i + j - 1]
  BY <1>1, SubSeqProperties
<1>4. <<e>> \in Seq(S) /\ Len(<<e>>) = 1 /\ <<e>>[1] = e
  OBVIOUS
<1> HIDE DEF a, c
<1>5. /\ a \o <<e>> \in Seq(S) /\ Len(a \o <<e>>) = i
      /\ \A j \in 1 .. i : (a \o <<e>>)[j] = IF j < i THEN s[j] ELSE e
  <2>1. /\ a \o <<e>> \in Seq(S) /\ Len(a \o <<e>>) = i
        /\ \A j \in 1 .. i : (a \o <<e>>)[j] = IF j <= i - 1 THEN a[j] ELSE <<e>>[j - (i - 1)]
    BY <1>2, <1>4, ConcatProperties
  <2> QED BY <1>2, <1>4, <2>1
<1>6. /\ t \in Seq(S) /\ Len(t) = Len(s) + 1
      /\ \A j \in 1 .. Len(s) + 1 :
           t[j] = IF j < i THEN s[j] ELSE IF j = i THEN e ELSE s[j - 1]
  <2>1. t = (a \o <<e>>) \o c
    BY DEF InsertAt, a, c
  <2> DEFINE b == a \o <<e>>
  <2>2. b \in Seq(S) /\ Len(b) = i
    BY <1>5
  <2>3. \A j \in 1 .. i : b[j] = IF j < i THEN s[j] ELSE e
    BY <1>5
  <2> HIDE DEF b
  <2>4. /\ b \o c \in Seq(S) /\ Len(b \o c) = Len(b) + Len(c)
        /\ \A j \in 1 .. Len(b) + Len(c) :
             (b \o c)[j] = IF j <= Len(b) THEN b[j] ELSE c[j - Len(b)]
    BY <1>3, <2>2, ConcatProperties
  <2>5. Len(b) + Len(c) = Len(s) + 1 /\ t = b \o c
    <3>1. t = b \o c
      BY <2>1 DEF b
    <3>2. Len(b) + Len(c) = Len(s) + 1
      BY <1>1, <1>3, <2>2
    <3> QED BY <3>1, <3>2
  <2> HIDE DEF t
  <2>6. ASSUME NEW j \in 1 .. Len(s) + 1
        PROVE  t[j] = IF j < i THEN s[j] ELSE IF j = i THEN e ELSE s[j - 1]
    <3>1. CASE j <= i
      BY <2>2, <2>3, <2>4, <2>5, <3>1
    <3>2. CASE j > i
      <4>1. j - i \in 1 .. Len(s) - i + 1 /\ i + (j - i) - 1 = j - 1
        BY <1>1, <3>2
      <4>2. t[j] = c[j - i]
        BY <2>2, <2>4, <2>5, <3>2
      <4> QED BY <1>3, <3>2, <4>1, <4>2
    <3> QED BY <3>1, <3>2
  <2> QED BY <2>4, <2>5, <2>6
<1> HIDE DEF t
<1>7. ToSet(t) \subseteq ToSet(s) \cup {e}
  <2> SUFFICES ASSUME NEW j \in 1 .. Len(s) + 1
               PROVE  t[j] \in ToSet(s) \cup {e}
    BY <1>6 DEF ToSet
  <2>1. CASE j = i
    BY <1>6, <2>1
  <2>2. CASE j < i
    BY <1>1, <1>6, <2>2 DEF ToSet
  <2>3. CASE j > i
    <3>1. j - 1 \in DOMAIN s /\ t[j] = s[j - 1]
      BY <1>1, <1>6, <2>3
    <3> QED BY <3>1 DEF ToSet
  <2> QED BY <2>1, <2>2, <2>3
<1>8. ToSet(s) \cup {e} \subseteq ToSet(t)
  <2>1. i \in DOMAIN t /\ t[i] = e
    BY <1>1, <1>6
  <2>2. \A j \in 1 .. Len(s) : (j < i => j \in DOMAIN t /\ t[j] = s[j])
                             /\ (~(j < i) => j + 1 \in DOMAIN t /\ t[j + 1] = s[j])
    BY <1>1, <1>6
  <2> QED BY <1>1, <2>1, <2>2 DEF ToSet
<1> QED BY <1>6, <1>7, <1>8 DEF t

-----------------------------------------------------------------------------
(***************************************************************************)
(* ListOf lists a set in order.                                            *)
(***************************************************************************)

\* The numbers of a set that are less than r.
Less(S, r) == {q \in S : q < r}

\* A part of a finite set is finite.
LEMMA LessIsFinite ==
  ASSUME NEW S \in SUBSET Nat, IsFiniteSet(S), NEW r
  PROVE  IsFiniteSet(Less(S, r)) /\ Cardinality(Less(S, r)) \in Nat
BY FS_Subset, FS_CardinalityType DEF Less

\* Ranks tell the members of a set apart and order them.
LEMMA RanksInOrder ==
  ASSUME NEW S \in SUBSET Nat, IsFiniteSet(S), NEW r \in S, NEW t \in S, r < t
  PROVE  Cardinality(Less(S, r)) < Cardinality(Less(S, t))
<1>1. /\ Less(S, r) \in SUBSET Less(S, t)
      /\ r \in Less(S, t) /\ r \notin Less(S, r)
  <2>1. r \in Nat /\ t \in Nat /\ \A q \in S : q \in Nat
    OBVIOUS
  <2>2. \A q \in S : q < r => q < t
    BY <2>1
  <2>3. ~(r < r)
    BY <2>1
  <2> QED BY <2>2, <2>3 DEF Less
<1>2. IsFiniteSet(Less(S, t))
  BY LessIsFinite
<1>3. /\ Cardinality(Less(S, r)) <= Cardinality(Less(S, t))
      /\ Cardinality(Less(S, r)) # Cardinality(Less(S, t))
  BY <1>1, <1>2, FS_Subset
<1>4. Cardinality(Less(S, r)) \in Nat /\ Cardinality(Less(S, t)) \in Nat
  BY LessIsFinite
<1> QED BY <1>3, <1>4

\* Every rank is some member's: the next one is the least that is greater.
LEMMA RankTaken ==
  ASSUME NEW S \in SUBSET Nat, IsFiniteSet(S), NEW n \in Nat, n < Cardinality(S)
  PROVE  \E r \in S : Cardinality(Less(S, r)) = n
<1> DEFINE Missing == {m \in Nat : m < Cardinality(S) /\ ~ \E r \in S : Cardinality(Less(S, r)) = m}
<1> SUFFICES ASSUME Missing # {} PROVE FALSE
  OBVIOUS
<1>1. PICK m \in Missing : \A k \in Missing : m <= k
  <2> Missing \in SUBSET Nat
    OBVIOUS
  <2> HIDE DEF Missing
  <2> QED BY Least
<1>2. /\ m \in Nat /\ m < Cardinality(S) /\ Cardinality(S) \in Nat
      /\ \A r \in S : Cardinality(Less(S, r)) # m
  BY <1>1, FS_CardinalityType
<1>3. CASE m = 0
  <2>1. S # {}
    BY <1>2, <1>3, FS_EmptySet
  <2>2. PICK r \in S : \A q \in S : r <= q
    BY <2>1, Least
  <2>3. Less(S, r) = {}
    <3>1. r \in Nat /\ \A q \in S : q \in Nat
      OBVIOUS
    <3>2. \A q \in S : ~(q < r)
      BY <2>2, <3>1
    <3> QED BY <3>2 DEF Less
  <2> QED BY <1>2, <1>3, <2>3, FS_EmptySet
<1>4. CASE m > 0
  <2>1. m - 1 \in Nat /\ m - 1 < Cardinality(S) /\ m - 1 \notin Missing
    BY <1>1, <1>2, <1>4
  <2>2. PICK r \in S : Cardinality(Less(S, r)) = m - 1
    BY <2>1
  <2> DEFINE Upto == Less(S, r) \cup {r}
             Rest == S \ Upto
  <2>3. IsFiniteSet(Upto) /\ Cardinality(Upto) = m
    <3>1. r \notin Less(S, r)
      BY DEF Less
    <3> QED BY <1>2, <2>2, <3>1, LessIsFinite, FS_AddElement
  <2>4. Rest # {}
    <3>1. Upto # S
      BY <1>2, <2>3
    <3>2. Upto \subseteq S
      BY DEF Less
    <3> QED BY <3>1, <3>2
  <2>5. PICK t \in Rest : \A q \in Rest : t <= q
    <3> Rest \in SUBSET Nat
      OBVIOUS
    <3> HIDE DEF Rest
    <3> QED BY <2>4, Least
  <2>6. Less(S, t) = Upto
    <3>1. r \in Nat /\ t \in Nat /\ \A q \in S : q \in Nat
      OBVIOUS
    <3>2. t # r /\ ~(t < r) /\ \A q \in S : q < t => q \in Upto
      BY <2>5, <3>1 DEF Less
    <3>3. r < t
      BY <3>1, <3>2
    <3>4. \A q \in S : q < r => q < t
      BY <3>1, <3>3
    <3> QED BY <3>2, <3>3, <3>4 DEF Less
  <2> QED BY <1>2, <2>3, <2>5, <2>6
<1> QED BY <1>2, <1>3, <1>4

\* A finite set of numbers is listed in order, each of them once.
LEMMA ListsInOrder ==
  ASSUME NEW S \in SUBSET Nat, IsFiniteSet(S)
  PROVE  /\ ListOf(S) \in Seq(S)
         /\ ToSet(ListOf(S)) = S
         /\ Ascending(ListOf(S))
<1> DEFINE n == Cardinality(S)
           s == ListOf(S)
<1>1. n \in Nat
  BY FS_CardinalityType
<1>2. s = [i \in 1 .. n |-> CHOOSE r \in S : Cardinality(Less(S, r)) = i - 1]
  BY DEF ListOf, Less
<1> HIDE DEF s
<1>3. ASSUME NEW i \in 1 .. n
      PROVE  s[i] \in S /\ Cardinality(Less(S, s[i])) = i - 1
  <2>1. i - 1 \in Nat /\ i - 1 < n
    BY <1>1
  <2>2. \E r \in S : Cardinality(Less(S, r)) = i - 1
    BY <2>1, RankTaken
  <2> QED BY <1>2, <2>2
<1>4. s \in [1 .. n -> S] /\ DOMAIN s = 1 .. n
  BY <1>2, <1>3
<1>5. s \in Seq(S)
  BY <1>1, <1>4
<1>6. Ascending(s)
  <2> SUFFICES ASSUME NEW i \in 1 .. n, NEW j \in 1 .. n, i < j
               PROVE  s[i] < s[j]
    BY <1>4 DEF Ascending
  <2>1. s[i] \in Nat /\ s[j] \in Nat
    BY <1>3
  <2>2. ~(s[j] < s[i])
    <3>1. s[i] \in S /\ s[j] \in S
      BY <1>3
    <3>2. s[j] < s[i] => Cardinality(Less(S, s[j])) < Cardinality(Less(S, s[i]))
      BY <3>1, RanksInOrder
    <3>3. Cardinality(Less(S, s[j])) = j - 1 /\ Cardinality(Less(S, s[i])) = i - 1
      BY <1>3
    <3> QED BY <3>2, <3>3
  <2>3. s[i] # s[j]
    BY <1>3
  <2> QED BY <2>1, <2>2, <2>3
<1>7. ASSUME NEW r \in S
      PROVE  r \in ToSet(s)
  <2> DEFINE k == Cardinality(Less(S, r))
  <2>1. k \in Nat /\ k < n
    <3>1. Less(S, r) \in SUBSET S /\ Less(S, r) # S
      BY DEF Less
    <3>2. Cardinality(Less(S, r)) <= n /\ Cardinality(Less(S, r)) # n
      BY <3>1, FS_Subset
    <3> QED BY <1>1, <3>2, LessIsFinite
  <2>2. k + 1 \in 1 .. n /\ (k + 1) - 1 = k
    BY <1>1, <2>1
  <2>3. s[k + 1] \in S /\ Cardinality(Less(S, s[k + 1])) = Cardinality(Less(S, r))
    BY <1>3, <2>2
  <2>4. s[k + 1] = r
    <3>1. ~(s[k + 1] < r) /\ ~(r < s[k + 1])
      <4>1. /\ s[k + 1] < r => Cardinality(Less(S, s[k + 1])) < k
            /\ r < s[k + 1] => k < Cardinality(Less(S, s[k + 1]))
        BY <2>3, RanksInOrder
      <4>2. Cardinality(Less(S, s[k + 1])) = k
        BY <2>3
      <4> HIDE DEF k
      <4> QED BY <2>1, <4>1, <4>2
    <3>2. s[k + 1] \in Nat /\ r \in Nat
      BY <2>3
    <3> QED BY <3>1, <3>2
  <2> QED BY <1>4, <2>2, <2>4 DEF ToSet
<1>8. ToSet(s) = S
  BY <1>3, <1>4, <1>7 DEF ToSet
<1> QED BY <1>5, <1>6, <1>8 DEF s

\* A list in order has no element twice.
LEMMA NoneTwice ==
  ASSUME NEW s \in Seq(Nat), Ascending(s)
  PROVE  IsInjective(s)
<1>1. DOMAIN s \subseteq Nat /\ \A i \in DOMAIN s : s[i] \in Nat
  OBVIOUS
<1> QED BY <1>1 DEF Ascending, IsInjective

\* Hence a finite set of numbers has a greatest one: the last in rank.
LEMMA Greatest ==
  ASSUME NEW S \in SUBSET Nat, IsFiniteSet(S), S # {}
  PROVE  Max(S) \in S /\ \A y \in S : y <= Max(S)
<1>1. Cardinality(S) \in Nat /\ Cardinality(S) # 0
  BY FS_CardinalityType, FS_EmptySet
<1>2. PICK r \in S : Cardinality(Less(S, r)) = Cardinality(S) - 1
  BY <1>1, RankTaken
<1>3. ASSUME NEW y \in S, r < y PROVE FALSE
  <2>1. Less(S, y) \in SUBSET S /\ Less(S, y) # S
    BY DEF Less
  <2>2. Cardinality(Less(S, y)) <= Cardinality(S) /\ Cardinality(Less(S, y)) # Cardinality(S)
    BY <2>1, FS_Subset
  <2>3. Cardinality(Less(S, r)) < Cardinality(Less(S, y))
    BY <1>3, RanksInOrder
  <2>4. Cardinality(Less(S, y)) \in Nat
    BY LessIsFinite
  <2> QED BY <1>1, <1>2, <2>2, <2>3, <2>4
<1>4. \A y \in S : y <= r
  <2>1. r \in Nat /\ \A y \in S : y \in Nat
    OBVIOUS
  <2> QED BY <1>3, <2>1
<1>5. \E x \in S : \A y \in S : x >= y
  BY <1>4
<1> QED BY <1>5 DEF Max

\* Elements that are kept are in the order in which they were.
LEMMA KeptInOrder ==
  ASSUME NEW S, NEW s \in Seq(S), NEW P \in SUBSET DOMAIN s
  PROVE  /\ Kept(s, P) \in Seq(S)
         /\ ToSet(Kept(s, P)) = {s[a] : a \in P}
         /\ \A i, j \in DOMAIN Kept(s, P) : i < j =>
              \E a, b \in P : a < b /\ Kept(s, P)[i] = s[a] /\ Kept(s, P)[j] = s[b]
<1> DEFINE places == ListOf(P)
           k == Kept(s, P)
<1>1. Len(s) \in Nat /\ DOMAIN s = 1 .. Len(s) /\ \A a \in DOMAIN s : s[a] \in S
  OBVIOUS
<1>2. P \in SUBSET Nat /\ IsFiniteSet(P)
  <2>1. IsFiniteSet(DOMAIN s) /\ DOMAIN s \in SUBSET Nat
    BY <1>1, FS_Interval
  <2> QED BY <2>1, FS_Subset
<1>3. places \in Seq(P) /\ ToSet(places) = P /\ Ascending(places)
  BY <1>2, ListsInOrder
<1>4. k = [i \in DOMAIN places |-> s[places[i]]]
  BY DEF Kept
<1> HIDE DEF places, k
<1>5. /\ Len(places) \in Nat /\ DOMAIN places = 1 .. Len(places)
      /\ \A i \in DOMAIN places : places[i] \in P
  BY <1>3
<1>6. DOMAIN k = DOMAIN places /\ \A i \in DOMAIN k : k[i] = s[places[i]]
  BY <1>4
<1>7. k \in Seq(S)
  <2>1. \A i \in 1 .. Len(places) : s[places[i]] \in S
    BY <1>1, <1>5
  <2>2. k \in [1 .. Len(places) -> S]
    BY <1>4, <1>5, <2>1
  <2> QED BY <1>5, <2>2
<1>8. ToSet(k) = {s[a] : a \in P}
  <2>1. \A i \in DOMAIN k : k[i] \in {s[a] : a \in P}
    BY <1>5, <1>6
  <2>2. \A a \in P : \E i \in DOMAIN places : places[i] = a
    BY <1>3 DEF ToSet
  <2>3. \A a \in P : \E i \in DOMAIN k : k[i] = s[a]
    BY <1>6, <2>2
  <2> QED BY <2>1, <2>3 DEF ToSet
<1>9. ASSUME NEW i \in DOMAIN k, NEW j \in DOMAIN k, i < j
      PROVE  \E a, b \in P : a < b /\ k[i] = s[a] /\ k[j] = s[b]
  <2>1. places[i] < places[j]
    BY <1>3, <1>6, <1>9 DEF Ascending
  <2> QED BY <1>5, <1>6, <2>1
<1> QED BY <1>7, <1>8, <1>9 DEF k

-----------------------------------------------------------------------------
(***************************************************************************)
(* Loops that go on from what they have come to.                           *)
(***************************************************************************)

\* What holds at first and goes on to hold holds to the end.
LEMMA GoesOn ==
  ASSUME NEW N \in Nat, NEW G, 0 \in G, \A n \in 1 .. N : n - 1 \in G => n \in G
  PROVE  0 .. N \subseteq G
<1> DEFINE Not == {n \in 0 .. N : n \notin G}
<1> SUFFICES ASSUME Not # {} PROVE FALSE
  OBVIOUS
<1>1. PICK n \in Not : \A m \in Not : n <= m
  <2> Not \in SUBSET Nat
    OBVIOUS
  <2> HIDE DEF Not
  <2> QED BY Least
<1>2. n \in 1 .. N /\ n \notin G
  BY <1>1
<1>3. n - 1 \in 0 .. N /\ ~(n <= n - 1)
  BY <1>2
<1>4. n - 1 \in G
  BY <1>1, <1>3
<1> QED BY <1>2, <1>4

\* A loop whose n-th turn makes h[n][x] of x, and what it has come to when.
Loops(N, M) == [1 .. N -> [M -> M]]

IsRun(f, N, M, first, h) ==
  /\ f \in [0 .. N -> M]
  /\ \A n \in 0 .. N : f[n] = IF n = 0 THEN first ELSE h[n][f[n - 1]]

\* It can be run.
LEMMA LoopRuns ==
  ASSUME NEW N \in Nat, NEW M, NEW first \in M, NEW h \in Loops(N, M)
  PROVE  \E f : IsRun(f, N, M, first, h)
<1> h \in [1 .. N -> [M -> M]]
  BY DEF Loops
<1> DEFINE Runs(f, n) ==
             \A k \in 0 .. n : f[k] = IF k = 0 THEN first ELSE h[k][f[k - 1]]
           G == {n \in 0 .. N : \E f \in [0 .. N -> M] : Runs(f, n)}
<1>1. 0 \in G
  <2> DEFINE c == [k \in 0 .. N |-> first]
  <2>1. c \in [0 .. N -> M] /\ c[0] = first
    OBVIOUS
  <2> HIDE DEF c
  <2>2. \A k \in 0 .. 0 : k = 0
    OBVIOUS
  <2>3. Runs(c, 0)
    BY <2>1, <2>2
  <2>4. 0 \in 0 .. N
    OBVIOUS
  <2> QED BY <2>1, <2>3, <2>4
<1>2. ASSUME NEW n \in 1 .. N, n - 1 \in G
      PROVE  n \in G
  <2>1. PICK f \in [0 .. N -> M] : Runs(f, n - 1)
    BY <1>2
  <2> DEFINE g == [k \in 0 .. N |-> IF k = 0 THEN first ELSE h[k][f[k - 1]]]
  <2>2. g \in [0 .. N -> M]
    <3>1. \A k \in 0 .. N : k # 0 => k \in 1 .. N /\ k - 1 \in 0 .. N
      OBVIOUS
    <3>2. \A k \in 1 .. N : \A x \in M : h[k][x] \in M
      OBVIOUS
    <3>3. \A k \in 0 .. N : k # 0 => h[k][f[k - 1]] \in M
      BY <3>1, <3>2
    <3> QED BY <3>3
  <2>3. \A k \in 0 .. n - 1 : g[k] = f[k]
    <3>1. 0 .. n - 1 \subseteq 0 .. N
      OBVIOUS
    <3> QED BY <2>1, <3>1
  <2>4. Runs(g, n)
    <3> SUFFICES ASSUME NEW k \in 0 .. n
                 PROVE  g[k] = IF k = 0 THEN first ELSE h[k][g[k - 1]]
      OBVIOUS
    <3>1. k \in 0 .. N
      OBVIOUS
    <3>2. k # 0 => k - 1 \in 0 .. n - 1
      OBVIOUS
    <3>3. g[k] = IF k = 0 THEN first ELSE h[k][f[k - 1]]
      BY <3>1
    <3>4. k # 0 => g[k - 1] = f[k - 1]
      BY <2>3, <3>2
    <3> HIDE DEF g
    <3> QED BY <3>3, <3>4
  <2> HIDE DEF g
  <2> QED BY <2>2, <2>4
<1>3. N \in G
  <2> HIDE DEF G
  <2>1. 0 .. N \subseteq G
    BY <1>1, <1>2, GoesOn
  <2> QED BY <2>1
<1>4. PICK f \in [0 .. N -> M] : Runs(f, N)
  BY <1>3
<1> QED BY <1>4 DEF IsRun

=============================================================================

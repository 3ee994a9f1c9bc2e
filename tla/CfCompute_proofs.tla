--------------------------- MODULE CfCompute_proofs ---------------------------
(***************************************************************************)
(* Every partition that a launch of cfcompute_task uses is what the        *)
(* runtime was told of it: for all grids, terms, lengths of the axes, cuts *)
(* and block sizes, all orders of the pieces and any window.               *)
(*                                                                         *)
(* What a launch is over is cut from axes whose lengths are known (Cuts),  *)
(* and the ColumnSpaces that its columns have, which were made by earlier  *)
(* steps of the program and stay (SpacesStay), have these lengths on the   *)
(* axes that may be cut (Measured).  From there it is arithmetic: blocks   *)
(* of any size cover such a space (CutsCover), and they are apart if it    *)
(* has every axis that was cut (CutsApart).  That the columns which are    *)
(* written do, after a partition of the rows was narrowed to the axes of   *)
(* the coefficients, is what the invariant carries (ByCuts).               *)
(*                                                                         *)
(* And what is printed of a term is that term.  Of two steps that touch    *)
(* the same elements, and one of which writes them, the earlier is over    *)
(* before a piece of the later runs (Standing); so what has happened to a  *)
(* term and to the tables it is made of follows the order of the program   *)
(* (StepsFollow), and a point of the term either waits for a piece that is *)
(* still to run (Ahead) or has its value for good (Right).  A print, which *)
(* needs all of it, finds no point of the first kind (TermMade).           *)
(***************************************************************************)
EXTENDS CfCompute, Lemmas

-----------------------------------------------------------------------------
(***************************************************************************)
(* Cuts of axes whose lengths are known, and ColumnSpaces that fit them.   *)
(***************************************************************************)

Cut(lengths) ==
  {part \in [dim : DOMAIN lengths, stride : Nat \ {0}, offset : {0},
             extent : Nat \X Nat, limits : Nat \X Nat] :
     /\ part.extent = <<0, part.stride - 1>>
     /\ part.limits = <<0, lengths[part.dim] - 1>>}

Cuts(lengths) ==
  {parts \in Seq(Cut(lengths)) :
     \A i, j \in DOMAIN parts : i # j => parts[i].dim # parts[j].dim}

Counted(lengths) == \A axis \in DOMAIN lengths : lengths[axis] \in Nat \ {0}

Fits(cs, lengths) ==
  /\ cs.id # "none"
  /\ \A d \in DOMAIN cs.axes :
       cs.axes[d] \in DOMAIN lengths => cs.size[d] = lengths[cs.axes[d]]

Has(cs, axis) == \E d \in DOMAIN cs.axes : cs.axes[d] = axis

\* What a cut is, place by place.
LEMMA CutsParts ==
  ASSUME NEW lengths, Counted(lengths), NEW parts \in Cuts(lengths)
  PROVE  /\ Len(parts) \in Nat /\ DOMAIN parts = 1 .. Len(parts)
         /\ \A i \in DOMAIN parts :
              /\ parts[i].dim \in DOMAIN lengths /\ lengths[parts[i].dim] \in Nat \ {0}
              /\ parts[i].stride \in Nat \ {0} /\ parts[i].offset = 0
              /\ parts[i].extent[1] = 0 /\ parts[i].extent[2] = parts[i].stride - 1
              /\ parts[i].limits[1] = 0 /\ parts[i].limits[2] = lengths[parts[i].dim] - 1
         /\ \A i, j \in DOMAIN parts : i # j => parts[i].dim # parts[j].dim
<1>1. parts \in Seq(Cut(lengths))
  BY DEF Cuts
<1>2. \A p \in Cut(lengths) :
        /\ p.dim \in DOMAIN lengths
        /\ p.stride \in Nat \ {0} /\ p.offset = 0
        /\ p.extent[1] = 0 /\ p.extent[2] = p.stride - 1
        /\ p.limits[1] = 0 /\ p.limits[2] = lengths[p.dim] - 1
  BY DEF Cut
<1>3. \A axis \in DOMAIN lengths : lengths[axis] \in Nat \ {0}
  BY DEF Counted
<1>4. \A i \in DOMAIN parts : parts[i] \in Cut(lengths)
  BY <1>1
<1> QED BY <1>1, <1>2, <1>3, <1>4 DEF Cuts

\* A cut, from its axis and its size.
LEMMA CutIs ==
  ASSUME NEW lengths, Counted(lengths), NEW axis \in DOMAIN lengths, NEW size \in Nat \ {0}
  PROVE  [dim |-> axis, stride |-> size, offset |-> 0, extent |-> <<0, size - 1>>,
          limits |-> <<0, lengths[axis] - 1>>] \in Cut(lengths)
BY DEF Cut, Counted

\* A function on 1 .. n is a list of length n.
LEMMA OfLength ==
  ASSUME NEW S, NEW n \in Nat, NEW f \in [1 .. n -> S]
  PROVE  f \in Seq(S) /\ Len(f) = n
OBVIOUS

\* Division, as the blocks of an axis need it.
LEMMA Divided ==
  ASSUME NEW a \in Nat, NEW b \in Nat \ {0}
  PROVE  a \div b \in Nat /\ (a \div b) * b <= a /\ a < (a \div b + 1) * b
OBVIOUS

\* The blocks of a cut are enough for its axis: every place is in one.
LEMMA BlockOf ==
  ASSUME NEW n \in Nat \ {0}, NEW s \in Nat \ {0}, NEW x \in 0 .. n - 1
  PROVE  LET q == ((n - 1) + s) \div s
         IN /\ q \in Nat \ {0}
            /\ x \div s \in 0 .. q - 1
            /\ (x \div s) * s <= x /\ x <= (x \div s) * s + s - 1
<1> DEFINE q == ((n - 1) + s) \div s
           k == x \div s
<1>1. q \in Nat /\ q * s <= n - 1 + s /\ n - 1 + s < (q + 1) * s
  BY Divided
<1>2. k \in Nat /\ k * s <= x /\ x < (k + 1) * s
  BY Divided
<1> HIDE DEF q, k
<1>3. (q + 1) * s = q * s + s /\ (k + 1) * s = k * s + s /\ q * s \in Nat /\ k * s \in Nat
  BY <1>1, <1>2
<1>4. k < q
  <2> SUFFICES ASSUME q <= k PROVE FALSE
    BY <1>1, <1>2
  <2>1. PICK d \in Nat : k = q + d
    BY <1>1, <1>2
  <2>2. k * s = q * s + d * s /\ d * s \in Nat
    BY <1>1, <2>1
  <2> QED BY <1>1, <1>2, <1>3, <2>2
<1> QED BY <1>1, <1>2, <1>3, <1>4 DEF q, k

\* The colors of a partition by cuts: any block of each of the axes.
LEMMA ColorsOfCuts ==
  ASSUME NEW lengths, Counted(lengths), NEW partition, partition.parts \in Cuts(lengths),
         NEW c
  PROVE  c \in Colors(partition) <=>
           /\ c \in [DOMAIN partition.parts -> Nat]
           /\ \A i \in DOMAIN partition.parts : c[i] < ColorCount(partition.parts[i])
<1> DEFINE parts == partition.parts
           n == [i \in DOMAIN parts |-> ColorCount(parts[i])]
           S == {0} \cup {n[i] : i \in DOMAIN n}
           Top(m) == m \in S /\ \A i \in DOMAIN n : m >= n[i]
           most == CHOOSE m \in S : \A i \in DOMAIN n : m >= n[i]
<1>1. /\ Len(parts) \in Nat /\ DOMAIN parts = 1 .. Len(parts)
      /\ \A i \in DOMAIN parts : ColorCount(parts[i]) \in Nat
  <2>1. ASSUME NEW i \in DOMAIN parts PROVE ColorCount(parts[i]) \in Nat
    <3> DEFINE p == parts[i]
    <3>1. /\ p.stride \in Nat \ {0} /\ p.limits[1] = 0
          /\ p.limits[2] = lengths[p.dim] - 1 /\ lengths[p.dim] \in Nat \ {0}
      BY CutsParts
    <3>2. ColorCount(p) = ((lengths[p.dim] - 1) + p.stride) \div p.stride
      BY <3>1 DEF ColorCount
    <3>3. (lengths[p.dim] - 1) + p.stride \in Nat
      BY <3>1
    <3> HIDE DEF p
    <3> QED BY <3>1, <3>2, <3>3, Divided DEF p
  <2> QED BY <2>1, CutsParts
<1> HIDE DEF parts
<1>2. Top(most)
  <2>1. S \in SUBSET Nat /\ S # {}
    BY <1>1
  <2>2. IsFiniteSet(S)
    <3>1. IsFiniteSet(DOMAIN n)
      BY <1>1, FS_Interval
    <3>2. IsFiniteSet({n[i] : i \in DOMAIN n})
      <4>1. n \in Surjection(DOMAIN n, {n[i] : i \in DOMAIN n})
        BY DEF Surjection
      <4> HIDE DEF n
      <4> QED BY <3>1, <4>1, FS_Surjection
    <3> QED BY <3>2, FS_Singleton, FS_Union
  <2>3. PICK m \in S : \A y \in S : y <= m
    <3> HIDE DEF S
    <3> QED BY <2>1, <2>2, Greatest
  <2>4. \A i \in DOMAIN n : n[i] \in S /\ n[i] \in Nat
    BY <1>1
  <2>5. \A i \in DOMAIN n : m >= n[i]
    BY <2>1, <2>3, <2>4
  <2> HIDE DEF n, S
  <2> QED BY <2>5
<1> HIDE DEF most
<1>3. most \in Nat
  BY <1>1, <1>2
<1>4. Colors(partition) = {d \in [DOMAIN n -> 0 .. most - 1] : \A i \in DOMAIN n : d[i] < n[i]}
  BY DEF Colors, most, parts
<1>5. \A i \in DOMAIN parts : n[i] = ColorCount(parts[i])
  OBVIOUS
<1>6. ASSUME c \in [DOMAIN parts -> Nat], \A i \in DOMAIN parts : c[i] < n[i]
      PROVE  c \in [DOMAIN n -> 0 .. most - 1]
  <2>1. \A i \in DOMAIN parts : c[i] \in 0 .. most - 1
    BY <1>1, <1>2, <1>3, <1>6
  <2> QED BY <1>6, <2>1
<1>7. ASSUME c \in [DOMAIN n -> 0 .. most - 1] PROVE c \in [DOMAIN parts -> Nat]
  BY <1>3, <1>7
<1> HIDE DEF n
<1> QED BY <1>4, <1>5, <1>6, <1>7 DEF parts, n

\* The piece of color c lies on axis d at the block of the i-th cut.
Sits(partition, cs, lengths, c, d, i) ==
  LET part == partition.parts[i]
      r == Piece(partition, cs, c)[d]
      first == c[i] * part.stride
      last == first + part.stride - 1
      end == lengths[part.dim] - 1
  IN r.lo = first /\ r.hi = (IF last <= end THEN last ELSE end)

\* Where the piece of a color lies on an axis: at the block of the color if the
\* axis is cut, everywhere if it is not.
LEMMA PieceOfCuts ==
  ASSUME NEW lengths, Counted(lengths), NEW partition, partition.parts \in Cuts(lengths),
         NEW cs, Fits(cs, lengths), NEW c \in Colors(partition), NEW d \in DOMAIN cs.axes
  PROVE  /\ DOMAIN Piece(partition, cs, c) = DOMAIN cs.axes
         /\ \A i \in DOMAIN partition.parts :
              partition.parts[i].dim = cs.axes[d] => Sits(partition, cs, lengths, c, d, i)
         /\ (\A i \in DOMAIN partition.parts : partition.parts[i].dim # cs.axes[d]) =>
              Piece(partition, cs, c)[d] = [lo |-> 0, hi |-> cs.size[d] - 1]
<1> DEFINE parts == partition.parts
           cuts(e) == {i \in DOMAIN parts : parts[i].dim = cs.axes[e]}
           edge(e, b) == LET i == CHOOSE j \in cuts(e) : TRUE
                         IN parts[i].offset + parts[i].extent[b] + c[i] * parts[i].stride
           P == Piece(partition, cs, c)
<1>1. P = [e \in DOMAIN cs.axes |->
             IF cuts(e) = {}
             THEN [lo |-> 0, hi |-> cs.size[e] - 1]
             ELSE [lo |-> IF edge(e, 1) < 0 THEN 0 ELSE edge(e, 1),
                   hi |-> IF edge(e, 2) < cs.size[e] THEN edge(e, 2) ELSE cs.size[e] - 1]]
  BY DEF Piece
<1>2. c \in [DOMAIN parts -> Nat]
  BY ColorsOfCuts
<1>3. ASSUME NEW i \in DOMAIN parts, parts[i].dim = cs.axes[d]
      PROVE  Sits(partition, cs, lengths, c, d, i)
  <2>1. cuts(d) = {i}
    BY <1>3, CutsParts
  <2>2. (CHOOSE j \in cuts(d) : TRUE) = i
    BY <2>1
  <2>3. /\ parts[i].stride \in Nat \ {0} /\ parts[i].offset = 0
        /\ parts[i].extent[1] = 0 /\ parts[i].extent[2] = parts[i].stride - 1
        /\ lengths[parts[i].dim] \in Nat \ {0} /\ cs.size[d] = lengths[parts[i].dim]
    BY <1>3, CutsParts DEF Fits
  <2> DEFINE first == c[i] * parts[i].stride
  <2>4. first \in Nat
    BY <1>2, <2>3
  <2>5. /\ edge(d, 1) = 0 + 0 + first
        /\ edge(d, 2) = 0 + (parts[i].stride - 1) + first
    BY <2>2, <2>3
  <2>6. P[d] = [lo |-> IF edge(d, 1) < 0 THEN 0 ELSE edge(d, 1),
                hi |-> IF edge(d, 2) < cs.size[d] THEN edge(d, 2) ELSE cs.size[d] - 1]
    BY <1>1, <2>1
  <2> HIDE DEF P, edge, cuts, first
  <2>7. /\ P[d].lo = first
        /\ P[d].hi = IF first + parts[i].stride - 1 <= lengths[parts[i].dim] - 1
                     THEN first + parts[i].stride - 1 ELSE lengths[parts[i].dim] - 1
    BY <2>3, <2>4, <2>5, <2>6
  <2> QED BY <2>7 DEF first, Sits, P, parts
<1>4. ASSUME \A i \in DOMAIN parts : parts[i].dim # cs.axes[d]
      PROVE  P[d] = [lo |-> 0, hi |-> cs.size[d] - 1]
  <2>1. cuts(d) = {}
    BY <1>4
  <2> QED BY <1>1, <2>1
<1>5. DOMAIN P = DOMAIN cs.axes
  BY <1>1
<1> QED BY <1>3, <1>4, <1>5

\* The pieces of a ColumnSpace that fits cover it, whatever axes it lacks.
LEMMA CutsCover ==
  ASSUME NEW lengths, Counted(lengths), NEW partition, partition.parts \in Cuts(lengths),
         NEW cs, Fits(cs, lengths)
  PROVE  Covers(partition, cs)
<1> DEFINE parts == partition.parts
<1> SUFFICES ASSUME NEW d \in DOMAIN cs.axes, NEW x \in 0 .. cs.size[d] - 1
             PROVE  \E c \in Colors(partition) :
                      LET r == Piece(partition, cs, c) IN r[d].lo <= x /\ x <= r[d].hi
  BY DEF Covers
<1> DEFINE block(i) == IF parts[i].dim = cs.axes[d] THEN x \div parts[i].stride ELSE 0
           c == [i \in DOMAIN parts |-> block(i)]
<1>1. ASSUME NEW i \in DOMAIN parts
      PROVE  /\ ColorCount(parts[i]) \in Nat \ {0}
             /\ block(i) \in Nat /\ block(i) < ColorCount(parts[i])
             /\ parts[i].dim = cs.axes[d] =>
                  /\ block(i) * parts[i].stride <= x
                  /\ x <= block(i) * parts[i].stride + parts[i].stride - 1
  <2> DEFINE n == lengths[parts[i].dim]
             s == parts[i].stride
  <2>1. /\ s \in Nat \ {0} /\ n \in Nat \ {0}
        /\ parts[i].limits[1] = 0 /\ parts[i].limits[2] = n - 1
        /\ parts[i].dim = cs.axes[d] => cs.size[d] = n
    BY CutsParts DEF Fits
  <2>2. ColorCount(parts[i]) = ((n - 1) + s) \div s
    BY <2>1 DEF ColorCount
  <2> HIDE DEF n, s
  <2>3. ((n - 1) + s) \div s \in Nat \ {0}
    <3>1. 0 \in 0 .. n - 1
      BY <2>1
    <3> QED BY <2>1, <3>1, BlockOf
  <2>4. ASSUME parts[i].dim = cs.axes[d]
        PROVE  /\ x \div s \in 0 .. (((n - 1) + s) \div s) - 1
               /\ (x \div s) * s <= x /\ x <= (x \div s) * s + s - 1
    <3>1. x \in 0 .. n - 1
      BY <2>1, <2>4
    <3> QED BY <2>1, <3>1, BlockOf
  <2>5. CASE parts[i].dim = cs.axes[d]
    <3>1. block(i) = x \div s
      BY <2>5 DEF s
    <3>2. x \div s \in Nat /\ x \div s < ColorCount(parts[i])
      BY <2>2, <2>3, <2>4, <2>5
    <3> HIDE DEF block
    <3> QED BY <2>2, <2>3, <2>4, <2>5, <3>1, <3>2 DEF s
  <2>6. CASE parts[i].dim # cs.axes[d]
    BY <2>2, <2>3, <2>6
  <2> QED BY <2>5, <2>6
<1>2. \A i \in DOMAIN parts : c[i] = block(i)
  OBVIOUS
<1>3. c \in [DOMAIN parts -> Nat]
  BY <1>1
<1> HIDE DEF c, block
<1>4. c \in Colors(partition)
  BY <1>1, <1>2, <1>3, ColorsOfCuts
<1> DEFINE r == Piece(partition, cs, c)[d]
<1>5. CASE \A i \in DOMAIN parts : parts[i].dim # cs.axes[d]
  <2>1. r = [lo |-> 0, hi |-> cs.size[d] - 1]
    BY <1>4, <1>5, PieceOfCuts
  <2>2. 0 <= x /\ x <= cs.size[d] - 1
    OBVIOUS
  <2> QED BY <1>4, <2>1, <2>2
<1>6. ASSUME NEW i \in DOMAIN parts, parts[i].dim = cs.axes[d]
      PROVE  r.lo <= x /\ x <= r.hi
  <2> DEFINE last == c[i] * parts[i].stride + parts[i].stride - 1
             end == lengths[parts[i].dim] - 1
  <2>1. /\ r.lo = c[i] * parts[i].stride
        /\ r.hi = IF last <= end THEN last ELSE end
    <3>1. Sits(partition, cs, lengths, c, d, i)
      BY <1>4, <1>6, PieceOfCuts
    <3> QED BY <3>1 DEF Sits
  <2>2. x <= end
    <3>1. cs.size[d] = lengths[parts[i].dim]
      BY <1>6, CutsParts DEF Fits
    <3> QED BY <3>1
  <2>3. c[i] * parts[i].stride <= x /\ x <= last
    BY <1>1, <1>2, <1>6
  <2> QED BY <2>1, <2>2, <2>3
<1> QED BY <1>4, <1>5, <1>6


\* Blocks of one axis that are not the same do not meet.
LEMMA BlocksApart ==
  ASSUME NEW s \in Nat \ {0}, NEW j \in Nat, NEW k \in Nat, j < k
  PROVE  j * s + s - 1 < k * s
<1>1. PICK e \in Nat : k = j + 1 + e
  BY k - j - 1 \in Nat
<1>2. k * s = j * s + s + e * s /\ j * s \in Nat /\ e * s \in Nat
  BY <1>1
<1> QED BY <1>2

\* The pieces of a ColumnSpace that has all of the axes are apart.
LEMMA CutsApart ==
  ASSUME NEW lengths, Counted(lengths), NEW partition, partition.parts \in Cuts(lengths),
         NEW cs, Fits(cs, lengths),
         \A i \in DOMAIN partition.parts : Has(cs, partition.parts[i].dim)
  PROVE  Apart(partition, cs)
<1> DEFINE parts == partition.parts
           P(c) == Piece(partition, cs, c)
<1> SUFFICES ASSUME NEW c \in Colors(partition), NEW e \in Colors(partition), c # e
             PROVE  ~Meets(P(c), P(e))
  BY DEF Apart
<1>1. c \in [DOMAIN parts -> Nat] /\ e \in [DOMAIN parts -> Nat]
  BY ColorsOfCuts
<1>2. PICK i \in DOMAIN parts : c[i] # e[i]
  BY <1>1
<1>3. PICK d \in DOMAIN cs.axes : cs.axes[d] = parts[i].dim
  BY DEF Has
<1> DEFINE s == parts[i].stride
           end == lengths[parts[i].dim] - 1
<1>4. s \in Nat \ {0} /\ end \in Nat
  BY CutsParts
<1>5. ASSUME NEW f \in Colors(partition)
      PROVE  LET last == f[i] * s + s - 1
             IN /\ DOMAIN P(f) = DOMAIN cs.axes
                /\ P(f)[d].lo = f[i] * s
                /\ P(f)[d].hi = IF last <= end THEN last ELSE end
  <2>1. Sits(partition, cs, lengths, f, d, i)
    BY <1>3, PieceOfCuts
  <2>2. DOMAIN P(f) = DOMAIN cs.axes
    BY DEF Piece
  <2> QED BY <2>1, <2>2 DEF Sits
<1> HIDE DEF P, s, end
<1>6. ASSUME NEW f \in Colors(partition), NEW g \in Colors(partition), f[i] < g[i],
             f[i] \in Nat, g[i] \in Nat
      PROVE  P(f)[d].hi < P(g)[d].lo
  <2>1. f[i] * s + s - 1 < g[i] * s
    BY <1>4, <1>6, BlocksApart
  <2>2. f[i] * s \in Nat /\ g[i] * s \in Nat
    BY <1>4, <1>6
  <2>3. P(f)[d].hi <= f[i] * s + s - 1
    BY <1>4, <1>5, <2>2
  <2>4. P(f)[d].hi \in Int
    BY <1>4, <1>5, <2>2
  <2> QED BY <1>4, <1>5, <2>1, <2>2, <2>3, <2>4
<1>7. c[i] \in Nat /\ e[i] \in Nat
  BY <1>1
<1>8. \/ P(c)[d].hi < P(e)[d].lo
      \/ P(e)[d].hi < P(c)[d].lo
  <2>1. c[i] < e[i] \/ e[i] < c[i]
    BY <1>2, <1>7
  <2> QED BY <1>6, <1>7, <2>1
<1>9. /\ P(c)[d].hi \in Int /\ P(c)[d].lo \in Int
      /\ P(e)[d].hi \in Int /\ P(e)[d].lo \in Int
  <2>1. c[i] * s \in Nat /\ e[i] * s \in Nat
    BY <1>4, <1>7
  <2> QED BY <1>4, <1>5, <2>1
<1>10. ~(P(c)[d].lo <= P(e)[d].hi /\ P(e)[d].lo <= P(c)[d].hi)
  BY <1>8, <1>9
<1> QED BY <1>5, <1>10 DEF Meets

\* Hence what the runtime is told of a partition by cuts is true, whatever is
\* read for the number of colors: it is complete, and if it is called disjoint
\* then there is no axis that the ColumnSpace lacks.
LEMMA CutsDeclared ==
  ASSUME NEW lengths, Counted(lengths), NEW partition, partition.parts \in Cuts(lengths),
         NEW cs, Fits(cs, lengths), NEW strays
  PROVE  DeclaredTruly(partition, cs, strays)
<1>1. ASSUME NEW stray \in strays, ~DeclaredAliased(partition, cs, stray)
      PROVE  Apart(partition, cs)
  <2>1. ASSUME NEW i \in DOMAIN partition.parts
        PROVE  Has(cs, partition.parts[i].dim)
    <3>1. Dim(cs, partition.parts[i].dim) # 0
      BY <1>1 DEF DeclaredAliased
    <3> QED BY <3>1 DEF Dim, Has
  <2> QED BY <2>1, CutsApart
<1>2. Covers(partition, cs)
  BY CutsCover
<1> QED BY <1>1, <1>2 DEF DeclaredTruly

-----------------------------------------------------------------------------
(***************************************************************************)
(* The steps of the driver, each after those it relies on.                 *)
(***************************************************************************)

\* The tables whose ColumnSpaces a step goes by.
Needed(step) ==
  CASE step = Step("Cfs", "w") -> {"w_coords", "w"}
    [] step \in {Step("Create", "zmodel"), Step("Create", "aif")} -> {"a"}
    [] step = Step("Pcs", "zmodel") -> {"a", "zmodel"}
    [] step \in {Step("Epts", "a_coords"), Step("Aifs", "aif"), Step("Fft", "aif"),
                 Step("Cfs", "a")} -> {"a_coords", "a", "zmodel", "aif"}
    [] OTHER -> {}

Deeds == {"Create", "Coordinates", "Cfs", "Show", "Destroy", "Zernike", "Pcs", "Epts",
          "Aifs", "Fft", "Overwrite", "Multiply"}
Things == {"ps_coords", "w_coords", "a_coords", "ps", "w", "a", "zmodel", "aif", "cf",
           "PSTerm", "WTerm", "ATerm", "Pre-FFT CF", "Post-FFT CF"}

Steps == {Step(do, on) : do \in Deeds, on \in Things}

\* A list of steps, its length, and its steps one by one.
LEMMA TermStepsAre ==
  ASSUME NEW coords \in Things, NEW term \in Things, NEW title \in Things
  PROVE  /\ TermSteps(coords, term, title) \in Seq(Steps)
         /\ Len(TermSteps(coords, term, title)) = 6
BY DEF TermSteps, Steps, Deeds

\* What these steps are.
LEMMA TermStepsHas ==
  ASSUME NEW coords, NEW term, NEW title
  PROVE  LET s == TermSteps(coords, term, title)
         IN /\ s[1] = Step("Create", coords) /\ s[2] = Step("Coordinates", coords)
            /\ s[3] = Step("Create", term) /\ s[4] = Step("Cfs", term)
            /\ s[5] = Step("Show", title) /\ s[6] = Step("Destroy", coords)
BY DEF TermSteps

\* The steps of the aperture terms.
LEMMA ATermStepsAre == ATermSteps \in Seq(Steps) /\ Len(ATermSteps) = 10
BY DEF ATermSteps, Steps, Deeds, Things

\* What these steps are.
LEMMA ATermStepsHas ==
  LET s == ATermSteps
  IN /\ s[1] = Step("Create", "zmodel") /\ s[2] = Step("Zernike", "zmodel")
     /\ s[3] = Step("Pcs", "zmodel") /\ s[4] = Step("Create", "aif")
     /\ s[5] = Step("Epts", "a_coords") /\ s[6] = Step("Aifs", "aif")
     /\ s[7] = Step("Fft", "aif") /\ s[8] = Step("Destroy", "zmodel")
     /\ s[9] = Step("Cfs", "a") /\ s[10] = Step("Destroy", "aif")
BY DEF ATermSteps

\* The steps of one list after another.
LEMMA Joining ==
  ASSUME NEW S, NEW s \in Seq(S), NEW t \in Seq(S)
  PROVE  /\ s \o t \in Seq(S) /\ Len(s \o t) = Len(s) + Len(t)
         /\ \A i \in 1 .. Len(s) : (s \o t)[i] = s[i]
         /\ \A i \in Len(s) + 1 .. Len(s) + Len(t) : (s \o t)[i] = t[i - Len(s)]
OBVIOUS

\* The steps one by one.
LEMMA ProgramSteps ==
  /\ Len(Program) = 38 /\ \A n \in 1 .. 38 : Program[n] \in Steps
  /\ Program[1] = Step("Create", "ps_coords") /\ Program[2] = Step("Coordinates", "ps_coords")
  /\ Program[3] = Step("Create", "ps") /\ Program[4] = Step("Cfs", "ps")
  /\ Program[5] = Step("Show", "PSTerm") /\ Program[6] = Step("Destroy", "ps_coords")
  /\ Program[7] = Step("Create", "w_coords") /\ Program[8] = Step("Coordinates", "w_coords")
  /\ Program[9] = Step("Create", "w") /\ Program[10] = Step("Cfs", "w")
  /\ Program[11] = Step("Show", "WTerm") /\ Program[12] = Step("Destroy", "w_coords")
  /\ Program[13] = Step("Create", "a_coords") /\ Program[14] = Step("Coordinates", "a_coords")
  /\ Program[15] = Step("Create", "a") /\ Program[16] = Step("Create", "zmodel")
  /\ Program[17] = Step("Zernike", "zmodel") /\ Program[18] = Step("Pcs", "zmodel")
  /\ Program[19] = Step("Create", "aif") /\ Program[20] = Step("Epts", "a_coords")
  /\ Program[21] = Step("Aifs", "aif") /\ Program[22] = Step("Fft", "aif")
  /\ Program[23] = Step("Destroy", "zmodel") /\ Program[24] = Step("Cfs", "a")
  /\ Program[25] = Step("Destroy", "aif") /\ Program[26] = Step("Show", "ATerm")
  /\ Program[27] = Step("Destroy", "a_coords") /\ Program[28] = Step("Create", "cf")
  /\ Program[29] = Step("Overwrite", "a") /\ Program[30] = Step("Multiply", "w")
  /\ Program[31] = Step("Multiply", "ps") /\ Program[32] = Step("Show", "Pre-FFT CF")
  /\ Program[33] = Step("Fft", "cf") /\ Program[34] = Step("Show", "Post-FFT CF")
  /\ Program[35] = Step("Destroy", "ps") /\ Program[36] = Step("Destroy", "w")
  /\ Program[37] = Step("Destroy", "a") /\ Program[38] = Step("Destroy", "cf")
<1> DEFINE ps == TermSteps("ps_coords", "ps", "PSTerm")
           w == TermSteps("w_coords", "w", "WTerm")
           a == <<Step("Create", "a_coords"), Step("Coordinates", "a_coords"),
                  Step("Create", "a")>>
           terms == ATermSteps
           rest == <<Step("Show", "ATerm"), Step("Destroy", "a_coords"), Step("Create", "cf"),
         Step("Overwrite", "a"), Step("Multiply", "w"), Step("Multiply", "ps"),
         Step("Show", "Pre-FFT CF"), Step("Fft", "cf"), Step("Show", "Post-FFT CF"),
         Step("Destroy", "ps"), Step("Destroy", "w"), Step("Destroy", "a"),
         Step("Destroy", "cf")>>
           s2 == ps \o w
           s3 == s2 \o a
           s4 == s3 \o terms
           s5 == s4 \o rest
<1>1. ps \in Seq(Steps) /\ w \in Seq(Steps) /\ a \in Seq(Steps) /\ terms \in Seq(Steps)
      /\ rest \in Seq(Steps)
  <2>1. ps \in Seq(Steps)
    BY TermStepsAre DEF Things
  <2>2. w \in Seq(Steps)
    BY TermStepsAre DEF Things
  <2>3. a \in Seq(Steps)
    BY DEF Steps, Deeds, Things
  <2>4. rest \in Seq(Steps)
    BY DEF Steps, Deeds, Things
  <2> QED BY <2>1, <2>2, <2>3, <2>4, ATermStepsAre
<1>2. Len(ps) = 6 /\ Len(w) = 6 /\ Len(a) = 3 /\ Len(terms) = 10 /\ Len(rest) = 13
  <2>1. Len(ps) = 6
    BY TermStepsAre DEF Things
  <2>2. Len(w) = 6
    BY TermStepsAre DEF Things
  <2> QED BY <2>1, <2>2, ATermStepsAre
<1>3. Program = s5
  BY DEF Program
<1>4. /\ a[1] = Step("Create", "a_coords") /\ a[2] = Step("Coordinates", "a_coords")
      /\ a[3] = Step("Create", "a")
  OBVIOUS
<1>5. /\ rest[1] = Step("Show", "ATerm") /\ rest[2] = Step("Destroy", "a_coords")
      /\ rest[3] = Step("Create", "cf") /\ rest[4] = Step("Overwrite", "a")
      /\ rest[5] = Step("Multiply", "w") /\ rest[6] = Step("Multiply", "ps")
      /\ rest[7] = Step("Show", "Pre-FFT CF") /\ rest[8] = Step("Fft", "cf")
      /\ rest[9] = Step("Show", "Post-FFT CF") /\ rest[10] = Step("Destroy", "ps")
      /\ rest[11] = Step("Destroy", "w") /\ rest[12] = Step("Destroy", "a")
      /\ rest[13] = Step("Destroy", "cf")
  OBVIOUS
<1> HIDE DEF ps, w, a, terms, rest, s2, s3, s4, s5
<1>6. s2 \in Seq(Steps) /\ s3 \in Seq(Steps) /\ s4 \in Seq(Steps) /\ s5 \in Seq(Steps)
  <2>1. s2 \in Seq(Steps)
    BY <1>1 DEF s2
  <2>2. s3 \in Seq(Steps)
    BY <1>1, <2>1 DEF s3
  <2>3. s4 \in Seq(Steps)
    BY <1>1, <2>2 DEF s4
  <2>4. s5 \in Seq(Steps)
    BY <1>1, <2>3 DEF s5
  <2> QED BY <2>1, <2>2, <2>3, <2>4
<1>7. /\ Len(s2) = Len(ps) + Len(w)
      /\ \A i \in 1 .. Len(ps) : s2[i] = ps[i]
      /\ \A i \in Len(ps) + 1 .. Len(ps) + Len(w) : s2[i] = w[i - Len(ps)]
  BY <1>1, Joining, Zenon DEF s2
<1>8. /\ Len(s3) = Len(s2) + Len(a)
      /\ \A i \in 1 .. Len(s2) : s3[i] = s2[i]
      /\ \A i \in Len(s2) + 1 .. Len(s2) + Len(a) : s3[i] = a[i - Len(s2)]
  BY <1>1, <1>6, Joining, Zenon DEF s3
<1>9. /\ Len(s4) = Len(s3) + Len(terms)
      /\ \A i \in 1 .. Len(s3) : s4[i] = s3[i]
      /\ \A i \in Len(s3) + 1 .. Len(s3) + Len(terms) : s4[i] = terms[i - Len(s3)]
  BY <1>1, <1>6, Joining, Zenon DEF s4
<1>10. /\ Len(s5) = Len(s4) + Len(rest)
       /\ \A i \in 1 .. Len(s4) : s5[i] = s4[i]
       /\ \A i \in Len(s4) + 1 .. Len(s4) + Len(rest) : s5[i] = rest[i - Len(s4)]
  BY <1>1, <1>6, Joining, Zenon DEF s5
<1>11. Len(s2) = 12 /\ Len(s3) = 15 /\ Len(s4) = 25 /\ Len(s5) = 38
  BY <1>2, <1>7, <1>8, <1>9, <1>10
<1>12. /\ \A i \in 1 .. 6 : Program[i] = ps[i]
       /\ \A i \in 7 .. 12 : Program[i] = w[i - 6]
       /\ \A i \in 13 .. 15 : Program[i] = a[i - 12]
       /\ \A i \in 16 .. 25 : Program[i] = terms[i - 15]
       /\ \A i \in 26 .. 38 : Program[i] = rest[i - 25]
  BY <1>2, <1>3, <1>7, <1>8, <1>9, <1>10, <1>11
<1>13. /\ Program[1] = Step("Create", "ps_coords") /\ Program[2] = Step("Coordinates", "ps_coords")
       /\ Program[3] = Step("Create", "ps") /\ Program[4] = Step("Cfs", "ps")
       /\ Program[5] = Step("Show", "PSTerm") /\ Program[6] = Step("Destroy", "ps_coords")
       /\ Program[7] = Step("Create", "w_coords") /\ Program[8] = Step("Coordinates", "w_coords")
       /\ Program[9] = Step("Create", "w") /\ Program[10] = Step("Cfs", "w")
       /\ Program[11] = Step("Show", "WTerm") /\ Program[12] = Step("Destroy", "w_coords")
  BY <1>12, TermStepsHas DEF ps, w
<1>14. /\ Program[13] = Step("Create", "a_coords") /\ Program[14] = Step("Coordinates", "a_coords")
       /\ Program[15] = Step("Create", "a")
  BY <1>4, <1>12
<1>15. /\ Program[16] = Step("Create", "zmodel") /\ Program[17] = Step("Zernike", "zmodel")
       /\ Program[18] = Step("Pcs", "zmodel") /\ Program[19] = Step("Create", "aif")
       /\ Program[20] = Step("Epts", "a_coords") /\ Program[21] = Step("Aifs", "aif")
       /\ Program[22] = Step("Fft", "aif") /\ Program[23] = Step("Destroy", "zmodel")
       /\ Program[24] = Step("Cfs", "a") /\ Program[25] = Step("Destroy", "aif")
  BY <1>12, ATermStepsHas DEF terms
<1>16. /\ Program[26] = Step("Show", "ATerm") /\ Program[27] = Step("Destroy", "a_coords")
       /\ Program[28] = Step("Create", "cf") /\ Program[29] = Step("Overwrite", "a")
       /\ Program[30] = Step("Multiply", "w") /\ Program[31] = Step("Multiply", "ps")
       /\ Program[32] = Step("Show", "Pre-FFT CF") /\ Program[33] = Step("Fft", "cf")
       /\ Program[34] = Step("Show", "Post-FFT CF") /\ Program[35] = Step("Destroy", "ps")
       /\ Program[36] = Step("Destroy", "w") /\ Program[37] = Step("Destroy", "a")
       /\ Program[38] = Step("Destroy", "cf")
  <2>1. \A i \in 26 .. 38 : Program[i] = rest[i - 25]
    BY <1>12
  <2>2. /\ Program[26] = rest[1] /\ Program[27] = rest[2] /\ Program[28] = rest[3]
        /\ Program[29] = rest[4] /\ Program[30] = rest[5] /\ Program[31] = rest[6]
        /\ Program[32] = rest[7]
    BY <2>1
  <2>3. /\ Program[33] = rest[8] /\ Program[34] = rest[9] /\ Program[35] = rest[10]
        /\ Program[36] = rest[11] /\ Program[37] = rest[12] /\ Program[38] = rest[13]
    BY <2>1
  <2> QED BY <1>5, <2>2, <2>3
<1>17. Len(Program) = 38 /\ \A n \in 1 .. 38 : Program[n] \in Steps
  <2>1. \A n \in 1 .. Len(s5) : s5[n] \in Steps
    BY <1>6
  <2> QED BY <1>3, <1>11, <2>1
<1> QED BY <1>13, <1>14, <1>15, <1>16, <1>17

\* Every step of the driver comes after the tables it goes by are made.
LEMMA ProgramInOrder ==
  \A n \in 1 .. Len(Program) :
    /\ Program[n] \in Steps
    /\ \A table \in Needed(Program[n]) :
         \E k \in 1 .. n - 1 : Program[k] = Step("Create", table)
<1>1. Len(Program) = 38 /\ \A n \in 1 .. Len(Program) : Program[n] \in Steps
  BY ProgramSteps
<1>2. /\ Program[1] = Step("Create", "ps_coords") /\ Program[2] = Step("Coordinates", "ps_coords")
      /\ Program[3] = Step("Create", "ps") /\ Program[4] = Step("Cfs", "ps")
      /\ Program[5] = Step("Show", "PSTerm") /\ Program[6] = Step("Destroy", "ps_coords")
      /\ Program[7] = Step("Create", "w_coords") /\ Program[8] = Step("Coordinates", "w_coords")
      /\ Program[9] = Step("Create", "w") /\ Program[10] = Step("Cfs", "w")
      /\ Program[11] = Step("Show", "WTerm") /\ Program[12] = Step("Destroy", "w_coords")
  BY ProgramSteps, Zenon
<1>3. /\ Program[13] = Step("Create", "a_coords") /\ Program[14] = Step("Coordinates", "a_coords")
      /\ Program[15] = Step("Create", "a")
  BY ProgramSteps, Zenon
<1>4. /\ Program[16] = Step("Create", "zmodel") /\ Program[17] = Step("Zernike", "zmodel")
      /\ Program[18] = Step("Pcs", "zmodel") /\ Program[19] = Step("Create", "aif")
      /\ Program[20] = Step("Epts", "a_coords") /\ Program[21] = Step("Aifs", "aif")
      /\ Program[22] = Step("Fft", "aif") /\ Program[23] = Step("Destroy", "zmodel")
      /\ Program[24] = Step("Cfs", "a") /\ Program[25] = Step("Destroy", "aif")
  BY ProgramSteps, Zenon
<1>5. /\ Program[26] = Step("Show", "ATerm") /\ Program[27] = Step("Destroy", "a_coords")
      /\ Program[28] = Step("Create", "cf") /\ Program[29] = Step("Overwrite", "a")
      /\ Program[30] = Step("Multiply", "w") /\ Program[31] = Step("Multiply", "ps")
      /\ Program[32] = Step("Show", "Pre-FFT CF") /\ Program[33] = Step("Fft", "cf")
      /\ Program[34] = Step("Show", "Post-FFT CF") /\ Program[35] = Step("Destroy", "ps")
      /\ Program[36] = Step("Destroy", "w") /\ Program[37] = Step("Destroy", "a")
      /\ Program[38] = Step("Destroy", "cf")
  BY ProgramSteps, Zenon
<1> DEFINE Free(n) == Needed(Program[n]) = {}
<1>6. /\ Free(1) /\ Free(2) /\ Free(3) /\ Free(4) /\ Free(5) /\ Free(6) /\ Free(7)
       /\ Free(8) /\ Free(9) /\ Free(11) /\ Free(12) /\ Needed(Program[10]) = {"w_coords", "w"}
  BY <1>2 DEF Needed, Step
<1>7. Free(13) /\ Free(14) /\ Free(15)
  BY <1>3 DEF Needed, Step
<1>8. /\ Needed(Program[16]) = {"a"} /\ Needed(Program[19]) = {"a"}
       /\ Needed(Program[18]) = {"a", "zmodel"}
       /\ \A n \in {20, 21, 22, 24} : Needed(Program[n]) = {"a_coords", "a", "zmodel", "aif"}
       /\ Free(17) /\ Free(23) /\ Free(25)
  BY <1>4 DEF Needed, Step
<1>9. /\ Free(26) /\ Free(27) /\ Free(28) /\ Free(29) /\ Free(30) /\ Free(31) /\ Free(32)
       /\ Free(33) /\ Free(34) /\ Free(35) /\ Free(36) /\ Free(37) /\ Free(38)
  <2>1. \A on : /\ Needed(Step("Show", on)) = {} /\ Needed(Step("Destroy", on)) = {}
                /\ Needed(Step("Overwrite", on)) = {} /\ Needed(Step("Multiply", on)) = {}
    BY DEF Needed, Step
  <2>2. Needed(Step("Create", "cf")) = {} /\ Needed(Step("Fft", "cf")) = {}
    BY DEF Needed, Step
  <2> QED BY <1>5, <2>1, <2>2, Zenon
<1>10. ASSUME NEW n \in 1 .. 38, NEW table \in Needed(Program[n])
       PROVE  \E k \in 1 .. n - 1 : Program[k] = Step("Create", table)
  <2>1. n \in {10, 16, 18, 19, 20, 21, 22, 24}
    BY <1>6, <1>7, <1>8, <1>9, <1>10
  <2>2. CASE n = 10
    BY <1>2, <1>6, <1>10, <2>2
  <2>3. CASE n # 10
    BY <1>3, <1>4, <1>8, <1>10, <2>1, <2>3
  <2> QED BY <2>2, <2>3
<1> QED BY <1>1, <1>10


-----------------------------------------------------------------------------
(***************************************************************************)
(* The invariant.                                                          *)
(***************************************************************************)

\* The tables reached by cuts of the WTerm, and by cuts of the rows of the
\* ATermTable; and the lengths of the axes that may be cut.
TablesCut == [w |-> {"w_coords", "w"}, a |-> {"a_coords", "a", "zmodel", "aif"}]

LengthsCut ==
  [w |-> [axis \in {"W", "X", "Y"} |->
            IF axis = "W" THEN Len(input.ws) ELSE input.grid.w],
   a |-> [axis \in ToSet(AxesOf["a"]) |-> Len(IndexValues("a")[axis])]]

\* The axes of a column.
AxesIn(col) ==
  CASE col[2] \in {"VALUE", "COORD", "EPT"} -> AxesOf[col[1]] \o <<"X", "Y">>
    [] col[2] \in {"ZC", "PC"} -> AxesOf[col[1]]
    [] OTHER -> <<col[2]>>

\* The ColumnSpace has these axes, those that may be cut at their lengths.
Measured(cs, axes, lengths) ==
  /\ cs = [id |-> cs.id, axes |-> axes, size |-> cs.size]
  /\ cs.size \in Seq(ToSet(cs.size)) /\ Len(cs.size) = Len(axes)
  /\ Fits(cs, lengths)

SpacesMeasured ==
  \A g \in {"w", "a"} : \A col \in DOMAIN space :
    col[1] \in TablesCut[g] => Measured(space[col], AxesIn(col), LengthsCut[g])

\* The columns of the tables made so far have their ColumnSpaces for good.
SpacesStay ==
  \A k \in 1 .. next - 1 :
    Program[k].do = "Create" => ColumnsOf(Program[k].on) \subseteq DOMAIN space

\* A launch is of a partition by cuts of axes that what it writes has.
ByCuts(task) ==
  IsValid(task.partition) =>
    \E g \in {"w", "a"} :
      /\ task.partition.parts \in Cuts(LengthsCut[g])
      /\ \A col \in Uses(task) : col \in DOMAIN space /\ col[1] \in TablesCut[g]
      /\ \A col \in Writes(task.step) : \A i \in DOMAIN task.partition.parts :
           task.partition.parts[i].dim \in ToSet(AxesIn(col))

Recorded(task) ==
  task = [step |-> task.step, partition |-> task.partition, values |-> task.values,
          left |-> task.left]

IInv ==
  /\ input \in Inputs
  /\ next \in Nat \ {0}
  /\ SpacesMeasured
  /\ SpacesStay
  /\ tasks \in Seq(ToSet(tasks))
  /\ \A t \in ToSet(tasks) : Recorded(t) /\ ByCuts(t)


-----------------------------------------------------------------------------
(***************************************************************************)
(* The partitions that the steps use.                                      *)
(***************************************************************************)

\* The axes of a partition are axes of the ColumnSpace it was made for.
Owned(partition) ==
  \A i \in DOMAIN partition.parts : Has(partition.space, partition.parts[i].dim)

\* A partition by blocks is one by cuts.
LEMMA BlocksAreCuts ==
  ASSUME NEW lengths, Counted(lengths), NEW cs, Fits(cs, lengths),
         NEW cut \in Seq((DOMAIN lengths) \X Int),
         \A i, j \in DOMAIN cut : i # j => cut[i][1] # cut[j][1],
         \A axis \in DOMAIN lengths : Has(cs, axis),
         IsValid(Blocks(cs, cut))
  PROVE  /\ Blocks(cs, cut).space = cs
         /\ Blocks(cs, cut).parts \in Cuts(lengths)
         /\ \A i \in DOMAIN cut :
              /\ i \in DOMAIN Blocks(cs, cut).parts
              /\ Blocks(cs, cut).parts[i].dim = cut[i][1]
         /\ Owned(Blocks(cs, cut))
<1> DEFINE size(i) == cs.size[Dim(cs, cut[i][1])]
           parts == [i \in DOMAIN cut |->
                       [dim |-> cut[i][1], stride |-> cut[i][2], offset |-> 0,
                        extent |-> <<0, cut[i][2] - 1>>, limits |-> <<0, size(i) - 1>>]]
           b == Blocks(cs, cut)
<1>1. b = IF \E i \in DOMAIN parts : parts[i].stride <= 0 THEN NoPartition
          ELSE [space |-> cs, parts |-> parts]
  BY DEF Blocks, Create
<1>2. b = [space |-> cs, parts |-> parts] /\ \A i \in DOMAIN parts : ~(parts[i].stride <= 0)
  BY <1>1 DEF IsValid
<1>3. Len(cut) \in Nat /\ DOMAIN cut = 1 .. Len(cut)
  OBVIOUS
<1>4. ASSUME NEW i \in DOMAIN cut
      PROVE  cut[i][1] \in DOMAIN lengths /\ cut[i][2] \in Nat \ {0}
  <2>1. cut[i][1] \in DOMAIN lengths /\ cut[i][2] \in Int
    OBVIOUS
  <2>2. ~(cut[i][2] <= 0)
    BY <1>2
  <2> QED BY <2>1, <2>2
<1>5. ASSUME NEW axis \in DOMAIN lengths
      PROVE  cs.size[Dim(cs, axis)] = lengths[axis]
  <2>1. Dim(cs, axis) \in DOMAIN cs.axes /\ cs.axes[Dim(cs, axis)] = axis
    BY DEF Dim, Has
  <2> QED BY <2>1 DEF Fits
<1>6. ASSUME NEW i \in DOMAIN cut PROVE parts[i] \in Cut(lengths)
  <2>1. size(i) = lengths[cut[i][1]]
    BY <1>4, <1>5
  <2> DEFINE axis == cut[i][1]
             stride == cut[i][2]
  <2>2. parts[i] = [dim |-> axis, stride |-> stride, offset |-> 0,
                    extent |-> <<0, stride - 1>>, limits |-> <<0, lengths[axis] - 1>>]
    BY <2>1
  <2>3. axis \in DOMAIN lengths /\ stride \in Nat \ {0}
    BY <1>4
  <2> HIDE DEF axis, stride, parts
  <2>4. [dim |-> axis, stride |-> stride, offset |-> 0, extent |-> <<0, stride - 1>>,
         limits |-> <<0, lengths[axis] - 1>>] \in Cut(lengths)
    BY <2>3, CutIs
  <2> QED BY <2>2, <2>4
<1>7. DOMAIN parts = 1 .. Len(cut) /\ \A i \in DOMAIN cut : parts[i].dim = cut[i][1]
  BY <1>3
<1> HIDE DEF parts, b
<1>8. parts \in Seq(Cut(lengths))
  <2>1. parts = [i \in 1 .. Len(cut) |-> parts[i]]
    BY <1>3 DEF parts
  <2>2. parts \in [1 .. Len(cut) -> Cut(lengths)]
    BY <1>3, <1>6, <2>1
  <2> QED BY <1>3, <2>2, OfLength
<1>9. parts \in Cuts(lengths)
  BY <1>3, <1>7, <1>8 DEF Cuts
<1>10. \A i \in DOMAIN parts : Has(cs, parts[i].dim)
  BY <1>3, <1>4, <1>7
<1>11. b.space = cs /\ b.parts = parts
  BY <1>2
<1> QED BY <1>3, <1>7, <1>9, <1>10, <1>11 DEF Owned, b

\* A partition that is narrowed is one by some of its cuts.
LEMMA NarrowedCuts ==
  ASSUME NEW lengths, NEW partition, NEW cs, NEW block,
         partition.parts \in Cuts(lengths), Owned(partition),
         IsValid(Narrow(cs, partition, block))
  PROVE  /\ Narrow(cs, partition, block).space = cs
         /\ Narrow(cs, partition, block).parts \in Cuts(lengths)
         /\ Owned(Narrow(cs, partition, block))
<1> DEFINE places == {i \in DOMAIN partition.parts :
                        LET axis == partition.parts[i].dim
                        IN Dim(cs, axis) # 0 /\ axis \notin block}
           kept == Kept(partition.parts, places)
           q == Narrow(cs, partition, block)
<1>1. q = IF ~IsValid(partition) \/ partition.space = cs THEN partition
          ELSE IF kept = <<>> THEN NoPartition ELSE Create(cs, kept)
  BY DEF Narrow
<1>2. CASE partition.space = cs
  BY <1>1, <1>2
<1>3. CASE partition.space # cs
  <2>1. q = Create(cs, kept)
    BY <1>1, <1>3 DEF IsValid
  <2>2. q = [space |-> cs, parts |-> kept]
    BY <2>1 DEF Create, IsValid
  <2>3. partition.parts \in Seq(Cut(lengths)) /\ places \in SUBSET DOMAIN partition.parts
    BY DEF Cuts
  <2>4. /\ kept \in Seq(Cut(lengths))
        /\ ToSet(kept) = {partition.parts[a] : a \in places}
        /\ \A i, j \in DOMAIN kept : i < j =>
             \E a, b \in places : a < b /\ kept[i] = partition.parts[a]
                                        /\ kept[j] = partition.parts[b]
    <3> HIDE DEF places
    <3> QED BY <2>3, KeptInOrder
  <2>5. /\ \A a \in places : Dim(cs, partition.parts[a].dim) # 0
        /\ DOMAIN partition.parts \in SUBSET Nat
    BY <2>3
  <2>6. \A a, b \in places : a < b => partition.parts[a].dim # partition.parts[b].dim
    BY <2>3, <2>5 DEF Cuts
  <2> HIDE DEF places, kept
  <2>7. \A i, j \in DOMAIN kept : i # j => kept[i].dim # kept[j].dim
    <3>1. \A i, j \in DOMAIN kept : i < j => kept[i].dim # kept[j].dim
      BY <2>4, <2>6
    <3>2. DOMAIN kept \in SUBSET Nat
      BY <2>4
    <3> QED BY <3>1, <3>2
  <2>8. \A i \in DOMAIN kept : Has(cs, kept[i].dim)
    <3>1. \A i \in DOMAIN kept : \E a \in places : kept[i] = partition.parts[a]
      BY <2>4 DEF ToSet
    <3>2. \A axis : Dim(cs, axis) # 0 => Has(cs, axis)
      BY DEF Dim, Has
    <3> QED BY <2>5, <3>1, <3>2
  <2> QED BY <2>2, <2>4, <2>7, <2>8 DEF Cuts, Owned
<1> QED BY <1>2, <1>3


-----------------------------------------------------------------------------
(***************************************************************************)
(* The ColumnSpaces that the constructors of tables make.                  *)
(***************************************************************************)

Axes == {"PARALLACTIC_ANGLE", "W", "BASELINE_CLASS", "FREQUENCY", "STOKES_OUT",
         "STOKES_IN", "STOKES"}

CutTables == {"w_coords", "w", "a_coords", "a", "zmodel", "aif"}

\* The index axes of a table are listed.
LEMMA AxesListed ==
  ASSUME NEW table \in CutTables
  PROVE  AxesOf[table] \in Seq(Axes) /\ table \in DOMAIN AxesOf
<1>1. CASE table = "w_coords"
  BY <1>1 DEF AxesOf, Axes
<1>2. CASE table = "w"
  BY <1>2 DEF AxesOf, Axes
<1>3. CASE table = "a_coords"
  BY <1>3 DEF AxesOf, Axes
<1>4. CASE table = "a"
  BY <1>4 DEF AxesOf, Axes
<1>5. CASE table = "zmodel"
  BY <1>5 DEF AxesOf, Axes
<1>6. CASE table = "aif"
  BY <1>6 DEF AxesOf, Axes
<1> QED BY <1>1, <1>2, <1>3, <1>4, <1>5, <1>6 DEF CutTables

\* The lengths of a pair that is put at the end of a list, and the list again.
LEMMA Extended ==
  ASSUME NEW S, NEW s \in Seq(S), NEW x, NEW y
  PROVE  /\ s \o <<x, y>> \in Seq(ToSet(s \o <<x, y>>))
         /\ Len(s \o <<x, y>>) = Len(s) + 2
         /\ \A d \in DOMAIN (s \o <<x, y>>) :
              \/ d \in DOMAIN s /\ (s \o <<x, y>>)[d] = s[d]
              \/ d = Len(s) + 1 /\ (s \o <<x, y>>)[d] = x
              \/ d = Len(s) + 2 /\ (s \o <<x, y>>)[d] = y
         /\ SubSeq(s \o <<x, y>>, 1, Len(s)) = s
<1> DEFINE t == <<x, y>>
           T == S \cup {x, y}
<1>1. s \in Seq(T) /\ t \in Seq(T) /\ Len(t) = 2 /\ t[1] = x /\ t[2] = y
  OBVIOUS
<1> HIDE DEF t, T
<1>2. /\ s \o t \in Seq(T) /\ Len(s \o t) = Len(s) + Len(t)
      /\ \A i \in 1 .. Len(s) : (s \o t)[i] = s[i]
      /\ \A i \in Len(s) + 1 .. Len(s) + Len(t) : (s \o t)[i] = t[i - Len(s)]
  BY <1>1, Joining, Zenon
<1> DEFINE r == s \o t
<1>3. r \in Seq(ToSet(r))
  BY <1>2, ListOfItsOwn
<1> HIDE DEF r
<1>4. Len(s) \in Nat /\ DOMAIN s = 1 .. Len(s)
  OBVIOUS
<1>5. /\ Len(r) = Len(s) + 2
      /\ \A i \in 1 .. Len(s) : r[i] = s[i]
      /\ \A i \in Len(s) + 1 .. Len(s) + 2 : r[i] = t[i - Len(s)]
  BY <1>1, <1>2 DEF r
<1>6. ASSUME NEW d \in DOMAIN r
      PROVE  \/ d \in DOMAIN s /\ r[d] = s[d]
             \/ d = Len(s) + 1 /\ r[d] = x
             \/ d = Len(s) + 2 /\ r[d] = y
  <2>1. d \in 1 .. Len(r)
    BY <1>3
  <2> QED BY <1>1, <1>4, <1>5, <2>1
<1>7. SubSeq(r, 1, Len(s)) = s
  BY <1>2, <1>4, <1>5 DEF r
<1> QED BY <1>3, <1>5, <1>6, <1>7 DEF r, t


\* A ColumnSpace by its fields.
LEMMA ByItsFields ==
  ASSUME NEW cs, cs = [f \in {"id", "axes", "size"} |-> cs[f]]
  PROVE  cs = [id |-> cs.id, axes |-> cs.axes, size |-> cs.size]
OBVIOUS

\* The ColumnSpaces of a new table have the lengths of its index values and the
\* size of its grid.
LEMMA NewSpacesMeasured ==
  ASSUME NEW table \in CutTables, NEW values, NEW lengths,
         \A i \in DOMAIN AxesOf[table] : AxesOf[table][i] \in DOMAIN values,
         \A axis \in ToSet(AxesOf[table]) \cap DOMAIN lengths :
           Len(values[axis]) = lengths[axis],
         \A axis \in {"X", "Y"} \cap DOMAIN lengths : GridSize(table) = lengths[axis],
         NEW col \in ColumnsOf(table)
  PROVE  /\ col[1] = table /\ col \in DOMAIN SpacesOf(table, values)
         /\ Measured(SpacesOf(table, values)[col], AxesIn(col), lengths)
<1> DEFINE index == AxesOf[table]
           g == GridSize(table)
           length == [axis \in DOMAIN values |-> Len(values[axis])]
           sizes == [i \in DOMAIN index |-> length[index[i]]]
           all == ValueSpace(table, length, g)
           part(name) == [all EXCEPT !.id = name, !.axes = SubSeq(@, 1, Len(index)),
                                     !.size = SubSeq(@, 1, Len(index))]
           ept == [all EXCEPT !.id = "EPT"]
           cs == SpacesOf(table, values)[col]
<1>1. index \in Seq(Axes) /\ Len(index) \in Nat /\ DOMAIN index = 1 .. Len(index)
  BY AxesListed
<1>2. all = [id |-> table, axes |-> index \o <<"X", "Y">>, size |-> sizes \o <<g, g>>]
  BY DEF ValueSpace
<1>3. cs = CASE col[2] \in {"VALUE", "COORD"} -> all
             [] col[2] = "EPT" -> ept
             [] col[2] \in {"ZC", "PC"} -> part(col[2])
             [] OTHER -> IndexSpace(col[2], Len(values[col[2]]))
  BY DEF SpacesOf
<1>4. /\ sizes \in Seq({sizes[i] : i \in 1 .. Len(index)}) /\ Len(sizes) = Len(index)
      /\ \A i \in DOMAIN index : sizes[i] = Len(values[index[i]])
  <2>1. \A i \in DOMAIN index : sizes[i] = Len(values[index[i]])
    BY <1>1
  <2>2. sizes \in [1 .. Len(index) -> {sizes[i] : i \in 1 .. Len(index)}]
    BY <1>1
  <2> DEFINE all_sizes == {sizes[i] : i \in 1 .. Len(index)}
  <2> HIDE DEF sizes, index, all_sizes
  <2>3. sizes \in Seq(all_sizes) /\ Len(sizes) = Len(index)
    BY <1>1, <2>2, OfLength DEF all_sizes
  <2> QED BY <2>1, <2>3 DEF all_sizes
<1>5. ASSUME NEW i \in DOMAIN index, index[i] \in DOMAIN lengths
      PROVE  sizes[i] = lengths[index[i]]
  BY <1>4, <1>5 DEF ToSet
<1> HIDE DEF index, sizes, length, g
<1> DEFINE axes == index \o <<"X", "Y">>
           size == sizes \o <<g, g>>
<1>6. /\ Len(axes) = Len(index) + 2
      /\ \A d \in DOMAIN axes :
           \/ d \in DOMAIN index /\ axes[d] = index[d]
           \/ d = Len(index) + 1 /\ axes[d] = "X"
           \/ d = Len(index) + 2 /\ axes[d] = "Y"
      /\ SubSeq(axes, 1, Len(index)) = index
      /\ axes \in Seq(ToSet(axes))
  BY <1>1, Extended
<1>7. /\ Len(size) = Len(sizes) + 2
      /\ \A d \in DOMAIN size :
           \/ d \in DOMAIN sizes /\ size[d] = sizes[d]
           \/ d = Len(sizes) + 1 /\ size[d] = g
           \/ d = Len(sizes) + 2 /\ size[d] = g
      /\ SubSeq(size, 1, Len(sizes)) = sizes
      /\ size \in Seq(ToSet(size))
  BY <1>4, Extended
<1>8. \A axis \in {"X", "Y"} \cap DOMAIN lengths : g = lengths[axis]
  BY DEF g
<1> HIDE DEF axes, size
<1>9. ASSUME NEW d \in DOMAIN axes, axes[d] \in DOMAIN lengths
      PROVE  size[d] = lengths[axes[d]]
  <2>1. DOMAIN axes = 1 .. Len(axes) /\ DOMAIN size = 1 .. Len(size)
        /\ DOMAIN sizes = 1 .. Len(sizes)
    BY <1>4, <1>6, <1>7
  <2>2. d \in DOMAIN size
    BY <1>4, <1>6, <1>7, <2>1
  <2>3. CASE d \in DOMAIN index
    <3>1. size[d] = sizes[d] /\ axes[d] = index[d]
      BY <1>1, <1>4, <1>6, <1>7, <2>2, <2>3
    <3> QED BY <1>5, <1>9, <2>3, <3>1
  <2>4. CASE d \notin DOMAIN index
    <3>1. axes[d] \in {"X", "Y"} /\ size[d] = g
      BY <1>1, <1>4, <1>6, <1>7, <2>2, <2>4
    <3> QED BY <1>8, <1>9, <3>1
  <2> QED BY <2>3, <2>4
<1>10. all = [id |-> table, axes |-> axes, size |-> size]
  BY <1>2 DEF axes, size
<1>11. ASSUME NEW x, x = [id |-> x.id, axes |-> axes, size |-> size], x.id # "none"
       PROVE  Measured(x, axes, lengths)
  <2>1. x.axes = axes /\ x.size = size
    BY <1>11
  <2> QED BY <1>4, <1>6, <1>7, <1>9, <1>11, <2>1 DEF Measured, Fits
<1>12. ASSUME NEW x, x = [id |-> x.id, axes |-> index, size |-> sizes], x.id # "none"
       PROVE  Measured(x, index, lengths)
  <2>1. x.axes = index /\ x.size = sizes
    BY <1>12
  <2>2. sizes \in Seq(ToSet(sizes))
    BY <1>4, ListOfItsOwn
  <2> QED BY <1>4, <1>5, <1>12, <2>1, <2>2 DEF Measured, Fits
<1>13. col[1] = table
  BY DEF ColumnsOf, IndexColumns, Value, CutTables
<1>14. ASSUME col[2] \in {"VALUE", "COORD", "EPT"} PROVE Measured(cs, AxesIn(col), lengths)
  <2>1. AxesIn(col) = axes
    BY <1>13, <1>14 DEF AxesIn, axes, index
  <2>2. cs = [id |-> cs.id, axes |-> axes, size |-> size] /\ cs.id \in {table, "EPT"}
    BY <1>3, <1>10, <1>14
  <2>3. cs.id # "none"
    BY <2>2 DEF CutTables
  <2> HIDE DEF cs
  <2> QED BY <1>11, <2>1, <2>2, <2>3
<1>15. ASSUME col[2] \in {"ZC", "PC"} PROVE Measured(cs, AxesIn(col), lengths)
  <2>1. AxesIn(col) = index
    BY <1>13, <1>15 DEF AxesIn, index
  <2>2. cs = part(col[2])
    BY <1>3, <1>15
  <2>3. cs = [id |-> col[2], axes |-> index, size |-> sizes]
    <3>1. SubSeq(axes, 1, Len(index)) = index /\ SubSeq(size, 1, Len(index)) = sizes
      BY <1>4, <1>6, <1>7
    <3>2. part(col[2]) = [id |-> col[2], axes |-> SubSeq(axes, 1, Len(index)),
                          size |-> SubSeq(size, 1, Len(index))]
      <4> DEFINE short == part(col[2])
      <4>1. all.axes = axes /\ all.size = size /\ DOMAIN all = {"id", "axes", "size"}
        BY <1>10
      <4> HIDE DEF all, axes, size, index
      <4>2. /\ short.id = col[2] /\ short.axes = SubSeq(axes, 1, Len(index))
            /\ short.size = SubSeq(size, 1, Len(index))
            /\ short = [f \in {"id", "axes", "size"} |-> short[f]]
        BY <4>1
      <4> HIDE DEF short
      <4>3. short = [id |-> short.id, axes |-> short.axes, size |-> short.size]
        BY <4>2, ByItsFields
      <4> QED BY <4>2, <4>3 DEF short
    <3> QED BY <2>2, <3>1, <3>2
  <2>4. cs.id # "none"
    BY <1>15, <2>3
  <2> HIDE DEF cs
  <2> QED BY <1>12, <2>1, <2>3, <2>4
<1>16. ASSUME col[2] \notin {"VALUE", "COORD", "EPT", "ZC", "PC"}
       PROVE  Measured(cs, AxesIn(col), lengths)
  <2>1. col \in IndexColumns(table)
    BY <1>16 DEF ColumnsOf, Value, CutTables
  <2>2. PICK i \in DOMAIN index : col = <<table, index[i]>>
    BY <2>1 DEF IndexColumns, index
  <2> DEFINE axis == index[i]
             n == Len(values[axis])
  <2>3. cs = [id |-> axis, axes |-> <<axis>>, size |-> <<n>>]
    BY <1>3, <1>16, <2>2 DEF IndexSpace
  <2>4. AxesIn(col) = <<axis>>
    BY <1>16, <2>2 DEF AxesIn
  <2>5. axis # "none"
    BY <1>1, <2>2 DEF Axes
  <2>6. axis \in DOMAIN lengths => n = lengths[axis]
    BY <1>4, <1>5, <2>2
  <2> HIDE DEF cs, axis, n
  <2>7. <<n>> \in Seq(ToSet(<<n>>)) /\ Len(<<n>>) = Len(<<axis>>)
    <3>1. <<n>> \in Seq({n})
      OBVIOUS
    <3> QED BY <3>1, ListOfItsOwn
  <2>8. cs.id = axis /\ cs.axes = <<axis>> /\ cs.size = <<n>>
    BY <2>3
  <2>9. Fits(cs, lengths)
    BY <2>5, <2>6, <2>8 DEF Fits
  <2> QED BY <2>3, <2>4, <2>7, <2>8, <2>9 DEF Measured
<1>17. col \in DOMAIN SpacesOf(table, values)
  BY DEF SpacesOf
<1>18. Measured(cs, AxesIn(col), lengths)
  <2> HIDE DEF cs
  <2> QED BY <1>14, <1>15, <1>16
<1> QED BY <1>13, <1>17, <1>18


\* The axes of the rows of the ATermTable.
RowAxes == {"BASELINE_CLASS", "PARALLACTIC_ANGLE", "FREQUENCY", "STOKES_OUT", "STOKES_IN"}

\* They are the axes of its index columns.
LEMMA RowAxesAre ==
  ToSet(AxesOf["a"]) = RowAxes
<1>1. DOMAIN AxesOf["a"] = 1 .. 5
  BY DEF AxesOf
<1>2. /\ AxesOf["a"][1] = "BASELINE_CLASS" /\ AxesOf["a"][2] = "PARALLACTIC_ANGLE"
      /\ AxesOf["a"][3] = "FREQUENCY" /\ AxesOf["a"][4] = "STOKES_OUT"
      /\ AxesOf["a"][5] = "STOKES_IN"
  BY DEF AxesOf
<1> QED BY <1>1, <1>2 DEF ToSet, RowAxes

\* The lengths of the axes that may be cut are those of the arguments.
LEMMA LengthsAre ==
  /\ DOMAIN LengthsCut["w"] = {"W", "X", "Y"}
  /\ LengthsCut["w"]["W"] = Len(input.ws)
  /\ LengthsCut["w"]["X"] = input.grid.w /\ LengthsCut["w"]["Y"] = input.grid.w
  /\ DOMAIN LengthsCut["a"] = RowAxes
  /\ LengthsCut["a"]["BASELINE_CLASS"] = Len(input.blcs)
  /\ LengthsCut["a"]["PARALLACTIC_ANGLE"] = Len(input.pas)
  /\ LengthsCut["a"]["FREQUENCY"] = Len(input.frqs)
  /\ LengthsCut["a"]["STOKES_OUT"] = Len(input.out)
  /\ LengthsCut["a"]["STOKES_IN"] = Len(input.in)
<1>1. /\ LengthsCut["w"] = [axis \in {"W", "X", "Y"} |->
                              IF axis = "W" THEN Len(input.ws) ELSE input.grid.w]
      /\ LengthsCut["a"] = [axis \in RowAxes |-> Len(IndexValues("a")[axis])]
  BY RowAxesAre DEF LengthsCut
<1>2. IndexValues("a") =
        [BASELINE_CLASS |-> input.blcs, PARALLACTIC_ANGLE |-> input.pas,
         FREQUENCY |-> input.frqs, STOKES_OUT |-> input.out, STOKES_IN |-> input.in]
  BY DEF IndexValues
<1>3. \A axis \in RowAxes : LengthsCut["a"][axis] = Len(IndexValues("a")[axis])
  BY <1>1
<1> QED BY <1>1, <1>2, <1>3 DEF RowAxes

\* Inputs that serve have a value on every axis that may be cut.
LEMMA LengthsCounted ==
  ASSUME InputsServe, input \in Inputs
  PROVE  Counted(LengthsCut["w"]) /\ Counted(LengthsCut["a"])
<1>1. /\ input.grid.w \in Nat \ {0} /\ Len(input.ws) \in Nat \ {0}
      /\ Len(input.blcs) \in Nat \ {0} /\ Len(input.pas) \in Nat \ {0}
      /\ Len(input.frqs) \in Nat \ {0} /\ Len(input.out) \in Nat \ {0}
      /\ Len(input.in) \in Nat \ {0}
  <2>1. \A list \in Seq(Int) : list # <<>> => Len(list) \in Nat \ {0}
    OBVIOUS
  <2> QED BY <2>1 DEF InputsServe
<1> QED BY <1>1, LengthsAre DEF Counted, RowAxes

\* The cuts of the arguments.
LEMMA CutsGiven ==
  ASSUME InputsServe, input \in Inputs
  PROVE  /\ input.cut \in Seq((DOMAIN LengthsCut["a"]) \X Int)
         /\ \A i, j \in DOMAIN input.cut : i # j => input.cut[i][1] # input.cut[j][1]
         /\ input.cut # <<>> =>
              \E i \in DOMAIN input.cut : input.cut[i][1] \in {"BASELINE_CLASS", "FREQUENCY"}
         /\ input.wcut \in Seq((DOMAIN LengthsCut["w"]) \X Int)
         /\ \A i, j \in DOMAIN input.wcut : i # j => input.wcut[i][1] # input.wcut[j][1]
<1> DEFINE rows == {"BASELINE_CLASS", "PARALLACTIC_ANGLE", "FREQUENCY"}
<1>1. rows \subseteq DOMAIN LengthsCut["a"] /\ DOMAIN LengthsCut["w"] = {"W", "X", "Y"}
  BY LengthsAre DEF RowAxes
<1>2. rows \X Int \subseteq (DOMAIN LengthsCut["a"]) \X Int
  BY <1>1
<1>3. input.cut \in Seq(rows \X Int)
  BY DEF InputsServe
<1>4. input.cut \in Seq((DOMAIN LengthsCut["a"]) \X Int)
  BY <1>2, <1>3
<1> QED BY <1>1, <1>4 DEF InputsServe

\* A table that cuts reach is made with ColumnSpaces that have their lengths.
LEMMA MadeMeasured ==
  ASSUME InputsServe, input \in Inputs, SpacesMeasured,
         NEW g \in {"w", "a"}, NEW table \in TablesCut[g],
         table \in {"zmodel", "aif"} => ColumnsOf("a") \subseteq DOMAIN space,
         NEW col \in ColumnsOf(table)
  PROVE  /\ col[1] = table /\ col \in DOMAIN SpacesOf(table, IndexValues(table))
         /\ Measured(SpacesOf(table, IndexValues(table))[col], AxesIn(col), LengthsCut[g])
<1> DEFINE values == IndexValues(table)
           index == AxesOf[table]
<1>1. table \in CutTables
  BY DEF TablesCut, CutTables
<1>2. ASSUME table \in {"zmodel", "aif"}, NEW axis \in ToSet(index)
      PROVE  /\ axis \in DOMAIN values
             /\ axis \in RowAxes => Len(values[axis]) = LengthsCut["a"][axis]
             /\ g = "a"
  <2>1. values = [a \in ToSet(AxesOf[table]) |->
               IF a = "STOKES"
               THEN StokesValues(ValuesOf("a", "STOKES_OUT"), ValuesOf("a", "STOKES_IN"))
               ELSE ValuesOf("a", a)]
    BY <1>2 DEF IndexValues
  <2>2. ASSUME axis \in RowAxes PROVE Len(ValuesOf("a", axis)) = LengthsCut["a"][axis]
    <3> DEFINE c == <<"a", axis>>
    <3>1. c \in ColumnsOf("a")
      BY <2>2, RowAxesAre DEF ColumnsOf, IndexColumns, ToSet
    <3>2. c \in DOMAIN space
      BY <1>2, <3>1
    <3>3. Measured(space[c], AxesIn(c), LengthsCut["a"])
      BY <3>2 DEF SpacesMeasured, TablesCut
    <3>4. AxesIn(c) = <<axis>>
      BY <2>2 DEF AxesIn, RowAxes
    <3>5. space[c].size[1] = LengthsCut["a"][axis]
      <4>1. space[c].axes = <<axis>>
        BY <3>3, <3>4 DEF Measured
      <4>2. axis \in DOMAIN LengthsCut["a"]
        BY <2>2, LengthsAre
      <4>3. 1 \in DOMAIN space[c].axes /\ space[c].axes[1] = axis
        BY <4>1
      <4> HIDE DEF c
      <4> QED BY <3>3, <4>2, <4>3 DEF Measured, Fits
    <3>6. LengthsCut["a"][axis] \in Nat
      BY <2>2, LengthsCounted, LengthsAre DEF Counted
    <3> QED BY <3>5, <3>6 DEF ValuesOf
  <2>3. g = "a"
    BY <1>2 DEF TablesCut
  <2> QED BY <2>1, <2>2, <2>3 DEF RowAxes
<1>3. /\ \A axis \in ToSet(index) : axis \in DOMAIN values
      /\ \A axis \in ToSet(index) \cap DOMAIN LengthsCut[g] :
           Len(values[axis]) = LengthsCut[g][axis]
  <2>1. CASE table \in {"zmodel", "aif"}
    BY <1>2, <2>1, LengthsAre
  <2>2. CASE table \in {"w_coords", "a_coords"}
    <3>1. ToSet(index) = {"PARALLACTIC_ANGLE"}
      BY <2>2 DEF AxesOf, ToSet
    <3>2. CASE table = "w_coords"
      <4>1. g = "w" /\ DOMAIN values = {"PARALLACTIC_ANGLE"}
        BY <3>2 DEF TablesCut, IndexValues
      <4> QED BY <3>1, <4>1, LengthsAre
    <3>3. CASE table = "a_coords"
      <4>1. g = "a" /\ values = [PARALLACTIC_ANGLE |-> input.pas]
        BY <3>3 DEF TablesCut, IndexValues
      <4> QED BY <3>1, <4>1, LengthsAre
    <3> QED BY <2>2, <3>2, <3>3
  <2>3. CASE table = "w"
    <3>1. ToSet(index) = {"W"}
      BY <2>3 DEF AxesOf, ToSet
    <3>2. g = "w" /\ values = [W |-> input.ws]
      BY <2>3 DEF TablesCut, IndexValues
    <3> QED BY <3>1, <3>2, LengthsAre
  <2>4. CASE table = "a"
    <3>1. ToSet(index) = RowAxes
      BY <2>4, RowAxesAre
    <3>2. values = [BASELINE_CLASS |-> input.blcs, PARALLACTIC_ANGLE |-> input.pas,
                    FREQUENCY |-> input.frqs, STOKES_OUT |-> input.out, STOKES_IN |-> input.in]
      BY <2>4 DEF IndexValues
    <3>3. g = "a"
      BY <2>4 DEF TablesCut
    <3> QED BY <3>1, <3>2, <3>3, LengthsAre DEF RowAxes
  <2> QED BY <1>1, <2>1, <2>2, <2>3, <2>4 DEF CutTables
<1>4. \A i \in DOMAIN index : index[i] \in DOMAIN values
  BY <1>3 DEF ToSet
<1>5. \A axis \in {"X", "Y"} \cap DOMAIN LengthsCut[g] : GridSize(table) = LengthsCut[g][axis]
  <2>1. CASE g = "w"
    <3>1. GridSize(table) = input.grid.w
      BY <2>1 DEF TablesCut, GridSize
    <3> QED BY <2>1, <3>1, LengthsAre
  <2>2. CASE g = "a"
    BY <2>2, LengthsAre DEF RowAxes
  <2> QED BY <2>1, <2>2
<1> HIDE DEF values, index
<1> QED BY <1>1, <1>3, <1>4, <1>5, NewSpacesMeasured DEF values, index


-----------------------------------------------------------------------------
(***************************************************************************)
(* The partition of each launch.                                           *)
(***************************************************************************)

\* The axes of a column with a grid: those of its table, X and Y.
LEMMA AxesOfGrid ==
  ASSUME NEW table \in CutTables
  PROVE  ToSet(AxesOf[table] \o <<"X", "Y">>) = ToSet(AxesOf[table]) \cup {"X", "Y"}
<1> DEFINE index == AxesOf[table]
           axes == index \o <<"X", "Y">>
<1>1. index \in Seq(Axes)
  BY AxesListed
<1> HIDE DEF index
<1>2. /\ \A d \in DOMAIN axes :
           \/ d \in DOMAIN index /\ axes[d] = index[d]
           \/ d = Len(index) + 1 /\ axes[d] = "X"
           \/ d = Len(index) + 2 /\ axes[d] = "Y"
      /\ Len(axes) = Len(index) + 2 /\ axes \in Seq(ToSet(axes))
  BY <1>1, Extended
<1>3. DOMAIN axes = 1 .. Len(axes) /\ DOMAIN index = 1 .. Len(index) /\ Len(index) \in Nat
  BY <1>1, <1>2
<1> HIDE DEF axes
<1>4. ASSUME NEW axis \in ToSet(index) PROVE axis \in ToSet(axes)
  <2>1. PICK d \in DOMAIN index : axis = index[d]
    BY DEF ToSet
  <2>2. d \in DOMAIN axes /\ axes[d] = index[d]
    BY <1>2, <1>3, <2>1
  <2> QED BY <2>1, <2>2 DEF ToSet
<1>5. "X" \in ToSet(axes) /\ "Y" \in ToSet(axes)
  <2>1. Len(index) + 1 \in DOMAIN axes /\ axes[Len(index) + 1] = "X"
    BY <1>2, <1>3
  <2>2. Len(index) + 2 \in DOMAIN axes /\ axes[Len(index) + 2] = "Y"
    BY <1>2, <1>3
  <2> QED BY <2>1, <2>2 DEF ToSet
<1>6. ASSUME NEW axis \in ToSet(axes) PROVE axis \in ToSet(index) \cup {"X", "Y"}
  BY <1>2 DEF ToSet
<1> QED BY <1>4, <1>5, <1>6 DEF axes, index

\* What a ColumnSpace has is what its axes are.
LEMMA HasItsAxes ==
  ASSUME NEW cs, NEW axes, NEW lengths, Measured(cs, axes, lengths), NEW axis
  PROVE  Has(cs, axis) <=> axis \in ToSet(axes)
<1>1. cs.axes = axes
  BY DEF Measured
<1> QED BY <1>1 DEF Has, ToSet

\* A partition is narrowed to one if an axis is left.
LEMMA NarrowedIsValid ==
  ASSUME NEW lengths, NEW partition, NEW cs, NEW block,
         partition.parts \in Cuts(lengths), IsValid(partition), cs.id # "none",
         NEW i \in DOMAIN partition.parts, Has(cs, partition.parts[i].dim),
         partition.parts[i].dim \notin block,
         \A d \in DOMAIN cs.axes : d # 0
  PROVE  IsValid(Narrow(cs, partition, block))
<1> DEFINE places == {k \in DOMAIN partition.parts :
                        LET axis == partition.parts[k].dim
                        IN Dim(cs, axis) # 0 /\ axis \notin block}
           kept == Kept(partition.parts, places)
<1>1. Narrow(cs, partition, block) =
        IF ~IsValid(partition) \/ partition.space = cs THEN partition
        ELSE IF kept = <<>> THEN NoPartition ELSE Create(cs, kept)
  BY DEF Narrow
<1>2. i \in places
  BY DEF Dim, Has
<1>3. partition.parts \in Seq(Cut(lengths)) /\ places \in SUBSET DOMAIN partition.parts
  BY DEF Cuts
<1> HIDE DEF places
<1>4. kept \in Seq(Cut(lengths)) /\ ToSet(kept) = {partition.parts[a] : a \in places}
  BY <1>3, KeptInOrder
<1>5. kept # <<>>
  <2>1. ToSet(kept) # {}
    BY <1>2, <1>4
  <2> QED BY <2>1 DEF ToSet
<1>6. \A k \in DOMAIN kept : kept[k].stride \in Nat \ {0}
  <2>1. \A part \in Cut(lengths) : part.stride \in Nat \ {0}
    BY DEF Cut
  <2> QED BY <1>4, <2>1
<1> HIDE DEF kept
<1>7. ~\E k \in DOMAIN kept : kept[k].stride <= 0
  BY <1>6
<1>8. Create(cs, kept) = [space |-> cs, parts |-> kept]
  BY <1>7 DEF Create
<1>9. [space |-> cs, parts |-> kept] # NoPartition
  BY <1>5 DEF NoPartition
<1> QED BY <1>1, <1>5, <1>8, <1>9 DEF IsValid

\* The partition of the rows of the ATermTable.
LEMMA RowPartitionCuts ==
  ASSUME InputsServe, input \in Inputs, SpacesMeasured, Value("a") \in DOMAIN space,
         IsValid(RowPartition)
  PROVE  /\ RowPartition.parts \in Cuts(LengthsCut["a"])
         /\ Owned(RowPartition)
         /\ \E i \in DOMAIN RowPartition.parts :
              RowPartition.parts[i].dim \in {"BASELINE_CLASS", "FREQUENCY"}
<1> DEFINE cols == space[Value("a")]
           index == AxesOf["a"]
           rows == [cols EXCEPT !.id = "a_rows", !.axes = SubSeq(@, 1, Len(index)),
                                !.size = SubSeq(@, 1, Len(index))]
           lengths == LengthsCut["a"]
<1>1. input.cut # <<>> /\ RowPartition = Blocks(rows, input.cut)
  BY DEF RowPartition, IsValid
<1>2. Measured(cols, index \o <<"X", "Y">>, lengths)
  <2>1. Measured(cols, AxesIn(Value("a")), lengths)
    BY DEF SpacesMeasured, TablesCut, Value
  <2>2. AxesIn(Value("a")) = index \o <<"X", "Y">>
    BY DEF AxesIn, Value
  <2> QED BY <2>1, <2>2
<1>3. index \in Seq(Axes) /\ Len(index) \in Nat /\ DOMAIN index = 1 .. Len(index)
  BY AxesListed DEF CutTables
<1> HIDE DEF cols, index, lengths
<1> DEFINE axes == index \o <<"X", "Y">>
<1>4. /\ Len(axes) = Len(index) + 2 /\ axes \in Seq(ToSet(axes))
      /\ SubSeq(axes, 1, Len(index)) = index
      /\ \A d \in DOMAIN axes :
           \/ d \in DOMAIN index /\ axes[d] = index[d]
           \/ d = Len(index) + 1 /\ axes[d] = "X"
           \/ d = Len(index) + 2 /\ axes[d] = "Y"
  BY <1>3, Extended
<1> HIDE DEF axes
<1>5. /\ cols = [id |-> cols.id, axes |-> axes, size |-> cols.size]
      /\ cols.size \in Seq(ToSet(cols.size)) /\ Len(cols.size) = Len(axes)
      /\ Fits(cols, lengths)
  BY <1>2 DEF Measured, axes
<1>6. /\ rows.id = "a_rows" /\ rows.axes = index
      /\ rows.size = SubSeq(cols.size, 1, Len(index))
  BY <1>4, <1>5
<1> HIDE DEF rows
<1>7. Fits(rows, lengths)
  <2>1. ASSUME NEW d \in DOMAIN index, index[d] \in DOMAIN lengths
        PROVE  rows.size[d] = lengths[index[d]]
    <3>1. d \in DOMAIN axes /\ axes[d] = index[d]
      BY <1>3, <1>4
    <3>2. cols.size[d] = lengths[axes[d]]
      <4>1. cols.axes = axes
        BY <1>5
      <4> QED BY <1>5, <2>1, <3>1, <4>1 DEF Fits
    <3>3. SubSeq(cols.size, 1, Len(index))[d] = cols.size[d]
      BY <1>3, <1>4, <1>5
    <3> QED BY <1>6, <3>1, <3>2, <3>3
  <2> QED BY <1>6, <2>1 DEF Fits
<1>8. \A axis \in DOMAIN lengths : Has(rows, axis)
  <2>1. DOMAIN lengths = ToSet(index)
    BY LengthsAre, RowAxesAre DEF lengths, index
  <2> QED BY <1>6, <2>1 DEF Has, ToSet
<1>9. /\ input.cut \in Seq((DOMAIN lengths) \X Int)
      /\ \A i, j \in DOMAIN input.cut : i # j => input.cut[i][1] # input.cut[j][1]
      /\ \E i \in DOMAIN input.cut : input.cut[i][1] \in {"BASELINE_CLASS", "FREQUENCY"}
  BY <1>1, CutsGiven DEF lengths
<1>10. Counted(lengths)
  BY LengthsCounted DEF lengths
<1>11. IsValid(Blocks(rows, input.cut))
  BY <1>1
<1>12. /\ Blocks(rows, input.cut).parts \in Cuts(lengths)
       /\ \A i \in DOMAIN input.cut :
            /\ i \in DOMAIN Blocks(rows, input.cut).parts
            /\ Blocks(rows, input.cut).parts[i].dim = input.cut[i][1]
       /\ Owned(Blocks(rows, input.cut))
  BY <1>7, <1>8, <1>9, <1>10, <1>11, BlocksAreCuts
<1> QED BY <1>1, <1>9, <1>12 DEF lengths


\* The ColumnSpace of a VALUE column, and what it has.
LEMMA ValueHas ==
  ASSUME SpacesMeasured, NEW g \in {"w", "a"}, NEW table \in TablesCut[g],
         Value(table) \in DOMAIN space
  PROVE  /\ Fits(space[Value(table)], LengthsCut[g])
         /\ space[Value(table)].id # "none"
         /\ \A d \in DOMAIN space[Value(table)].axes : d # 0
         /\ \A axis : Has(space[Value(table)], axis) <=>
                        axis \in ToSet(AxesOf[table]) \cup {"X", "Y"}
<1> DEFINE cs == space[Value(table)]
           axes == AxesOf[table] \o <<"X", "Y">>
<1>1. table \in CutTables
  BY DEF TablesCut, CutTables
<1>2. AxesIn(Value(table)) = axes
  BY DEF AxesIn, Value
<1>3. Measured(cs, axes, LengthsCut[g])
  <2>1. Value(table)[1] = table
    BY DEF Value
  <2>2. Measured(cs, AxesIn(Value(table)), LengthsCut[g])
    BY <2>1 DEF SpacesMeasured
  <2> QED BY <1>2, <2>2
<1>4. axes \in Seq(ToSet(axes))
  BY <1>1, AxesListed, Extended
<1> HIDE DEF cs
<1>5. \A axis : Has(cs, axis) <=> axis \in ToSet(axes)
  BY <1>3, HasItsAxes
<1>6. ToSet(axes) = ToSet(AxesOf[table]) \cup {"X", "Y"}
  BY <1>1, AxesOfGrid
<1>7. \A d \in DOMAIN cs.axes : d # 0
  <2>1. cs.axes = axes
    BY <1>3 DEF Measured
  <2>2. \A d \in DOMAIN axes : d # 0
    <3> HIDE DEF axes
    <3> QED BY <1>4
  <2> QED BY <2>1, <2>2
<1>8. Fits(cs, LengthsCut[g]) /\ cs.id # "none"
  BY <1>3 DEF Measured, Fits
<1> QED BY <1>5, <1>6, <1>7, <1>8 DEF cs

\* Partitions of the rows as other tables have them: by cuts of axes of theirs.
LEMMA RowsNarrowed ==
  ASSUME InputsServe, input \in Inputs, SpacesMeasured, Value("a") \in DOMAIN space,
         NEW table \in {"zmodel", "aif", "a"}, Value(table) \in DOMAIN space,
         NEW block \in SUBSET {"X", "Y"}, NEW q,
         q = OrElse(Narrow(space[Value(table)], RowPartition, block), RowPartition),
         IsValid(q)
  PROVE  /\ q.parts \in Cuts(LengthsCut["a"]) /\ Owned(q)
         /\ q.space = space[Value(table)]
<1> DEFINE cs == space[Value(table)]
           n == Narrow(cs, RowPartition, block)
<1>1. IsValid(RowPartition)
  <2> SUFFICES ASSUME ~IsValid(RowPartition) PROVE FALSE
    OBVIOUS
  <2>1. n = RowPartition
    BY DEF Narrow
  <2> QED BY <2>1 DEF OrElse
<1>2. /\ RowPartition.parts \in Cuts(LengthsCut["a"]) /\ Owned(RowPartition)
      /\ \E i \in DOMAIN RowPartition.parts :
           RowPartition.parts[i].dim \in {"BASELINE_CLASS", "FREQUENCY"}
  BY <1>1, RowPartitionCuts
<1>3. PICK i \in DOMAIN RowPartition.parts :
        RowPartition.parts[i].dim \in {"BASELINE_CLASS", "FREQUENCY"}
  BY <1>2
<1>4. "BASELINE_CLASS" \in ToSet(AxesOf[table]) /\ "FREQUENCY" \in ToSet(AxesOf[table])
  <2>1. CASE table = "zmodel"
    <3>1. /\ 1 \in DOMAIN AxesOf[table] /\ AxesOf[table][1] = "BASELINE_CLASS"
          /\ 2 \in DOMAIN AxesOf[table] /\ AxesOf[table][2] = "FREQUENCY"
      BY <2>1 DEF AxesOf
    <3> QED BY <3>1 DEF ToSet
  <2>2. CASE table = "aif"
    <3>1. /\ 1 \in DOMAIN AxesOf[table] /\ AxesOf[table][1] = "BASELINE_CLASS"
          /\ 3 \in DOMAIN AxesOf[table] /\ AxesOf[table][3] = "FREQUENCY"
      BY <2>2 DEF AxesOf
    <3> QED BY <3>1 DEF ToSet
  <2>3. CASE table = "a"
    BY <2>3, RowAxesAre DEF RowAxes
  <2> QED BY <2>1, <2>2, <2>3
<1>5. /\ cs.id # "none" /\ \A d \in DOMAIN cs.axes : d # 0
      /\ Has(cs, RowPartition.parts[i].dim)
  <2>1. table \in TablesCut["a"]
    BY DEF TablesCut
  <2> QED BY <1>3, <1>4, <2>1, ValueHas
<1>6. RowPartition.parts[i].dim \notin block
  BY <1>3
<1> HIDE DEF cs
<1>7. IsValid(n)
  BY <1>1, <1>2, <1>5, <1>6, NarrowedIsValid
<1>8. q = n
  BY <1>7 DEF OrElse, cs
<1> QED BY <1>2, <1>7, <1>8, NarrowedCuts DEF cs

\* The partitions that the launches of the ATermTable use, with the column they
\* were narrowed to.
LEMMA LaunchedByCuts ==
  ASSUME InputsServe, IInv, next <= Len(Program), NEW p,
         p = PartitionOf(Program[next]), IsValid(p)
  PROVE  \E g \in {"w", "a"} :
           /\ p.parts \in Cuts(LengthsCut[g])
           /\ \A col \in Reads(Program[next]) \cup Writes(Program[next]) :
                col \in DOMAIN space /\ col[1] \in TablesCut[g]
           /\ \A col \in Writes(Program[next]) : \A i \in DOMAIN p.parts :
                p.parts[i].dim \in ToSet(AxesIn(col))
<1> DEFINE step == Program[next]
<1>1. step \in Steps /\ input \in Inputs /\ SpacesMeasured /\ SpacesStay
      /\ next \in 1 .. Len(Program)
  <2>1. Len(Program) \in Nat
    BY ProgramInOrder
  <2> QED BY <2>1, ProgramInOrder DEF IInv
<1>2. \A table \in Needed(step) : ColumnsOf(table) \subseteq DOMAIN space
  <2>1. ASSUME NEW table \in Needed(step) PROVE ColumnsOf(table) \subseteq DOMAIN space
    <3>1. PICK k \in 1 .. next - 1 : Program[k] = Step("Create", table)
      BY <1>1, ProgramInOrder
    <3>2. Program[k].do = "Create" /\ Program[k].on = table
      BY <3>1 DEF Step
    <3> QED BY <1>1, <3>2 DEF SpacesStay
  <2> QED BY <2>1
<1>3. CASE step = Step("Cfs", "w")
  <2> DEFINE cs == space[Value("w")]
  <2>1. Needed(step) = {"w_coords", "w"}
    BY <1>3 DEF Needed, Step
  <2>2. /\ Reads(step) = {<<"w_coords", "COORD">>} \cup IndexColumns("w")
        /\ Writes(step) = {Value("w")}
    BY <1>3 DEF Reads, Writes, Step
  <2>3. \A col \in Reads(step) \cup Writes(step) : col \in DOMAIN space /\ col[1] \in TablesCut["w"]
    <3>1. /\ {<<"w_coords", "COORD">>} \subseteq ColumnsOf("w_coords")
          /\ IndexColumns("w") \cup {Value("w")} \subseteq ColumnsOf("w")
      BY DEF ColumnsOf
    <3>2. \A col \in Reads(step) \cup Writes(step) : col[1] \in {"w_coords", "w"}
      BY <2>2 DEF IndexColumns, Value
    <3> QED BY <1>2, <2>1, <2>2, <3>1, <3>2 DEF TablesCut
  <2>4. p = Blocks(cs, input.wcut)
    <3>1. step # Step("Pcs", "zmodel") /\ step # Step("Epts", "a_coords")
          /\ step # Step("Aifs", "aif") /\ step # Step("Fft", "aif") /\ step # Step("Cfs", "a")
      BY <1>3 DEF Step
    <3> QED BY <1>3, <3>1 DEF PartitionOf, IsValid
  <2>5. Value("w") \in DOMAIN space
    BY <2>2, <2>3
  <2>6. Fits(cs, LengthsCut["w"]) /\ \A axis \in {"W", "X", "Y"} : Has(cs, axis)
    <3>1. "W" \in ToSet(AxesOf["w"])
      <4>1. 1 \in DOMAIN AxesOf["w"] /\ AxesOf["w"][1] = "W"
        BY DEF AxesOf
      <4> QED BY <4>1 DEF ToSet
    <3>2. "w" \in TablesCut["w"]
      BY DEF TablesCut
    <3> QED BY <1>1, <2>5, <3>1, <3>2, ValueHas
  <2> HIDE DEF cs
  <2>7. p.parts \in Cuts(LengthsCut["w"])
    <3>1. Counted(LengthsCut["w"])
      BY <1>1, LengthsCounted
    <3>2. \A axis \in DOMAIN LengthsCut["w"] : Has(cs, axis)
      BY <2>6, LengthsAre
    <3>3. /\ input.wcut \in Seq((DOMAIN LengthsCut["w"]) \X Int)
          /\ \A i, j \in DOMAIN input.wcut : i # j => input.wcut[i][1] # input.wcut[j][1]
      BY <1>1, CutsGiven
    <3>4. IsValid(Blocks(cs, input.wcut))
      BY <2>4
    <3>5. Blocks(cs, input.wcut).parts \in Cuts(LengthsCut["w"])
      BY <2>6, <3>1, <3>2, <3>3, <3>4, BlocksAreCuts
    <3> QED BY <2>4, <3>5
  <2>8. \A i \in DOMAIN p.parts : p.parts[i].dim \in {"W", "X", "Y"}
    BY <2>7, CutsParts, LengthsCounted, LengthsAre, <1>1
  <2>9. ToSet(AxesIn(Value("w"))) = {"W", "X", "Y"}
    <3>1. ToSet(AxesOf["w"]) = {"W"}
      BY DEF AxesOf, ToSet
    <3>2. AxesIn(Value("w")) = AxesOf["w"] \o <<"X", "Y">>
      BY DEF AxesIn, Value
    <3> QED BY <3>1, <3>2, AxesOfGrid DEF CutTables
  <2> QED BY <2>2, <2>3, <2>7, <2>8, <2>9
<1> DEFINE Rows == LengthsCut["a"]
           Places(cols) == \A col \in cols : col \in DOMAIN space /\ col[1] \in TablesCut["a"]
<1>4. ASSUME NEW parts \in Cuts(Rows), NEW i \in DOMAIN parts
      PROVE  parts[i].dim \in RowAxes
  BY <1>1, CutsParts, LengthsCounted, LengthsAre
<1>5. CASE step = Step("Pcs", "zmodel")
  <2> DEFINE cs == space[Value("zmodel")]
  <2>1. Needed(step) = {"a", "zmodel"}
    BY <1>5 DEF Needed, Step
  <2>2. Reads(step) = {<<"zmodel", "ZC">>} /\ Writes(step) = {<<"zmodel", "PC">>}
    BY <1>5 DEF Reads, Writes, Step
  <2>3. Places(Reads(step) \cup Writes(step)) /\ Value("a") \in DOMAIN space
        /\ Value("zmodel") \in DOMAIN space
    <3>1. {<<"zmodel", "ZC">>, <<"zmodel", "PC">>, Value("zmodel")} \subseteq ColumnsOf("zmodel")
          /\ Value("a") \in ColumnsOf("a")
      BY DEF ColumnsOf
    <3> QED BY <1>2, <2>1, <2>2, <3>1 DEF TablesCut
  <2>4. p = OrElse(Narrow(cs, RowPartition, {}), RowPartition)
    <3>1. step # Step("Cfs", "w") /\ step # Step("Epts", "a_coords")
          /\ step # Step("Aifs", "aif") /\ step # Step("Fft", "aif") /\ step # Step("Cfs", "a")
      BY <1>5 DEF Step
    <3> QED BY <1>5, <3>1 DEF PartitionOf
  <2>5. p.parts \in Cuts(Rows) /\ Owned(p) /\ p.space = cs
    BY <1>1, <2>3, <2>4, RowsNarrowed
  <2>6. \A axis : Has(cs, axis) <=> axis \in ToSet(AxesOf["zmodel"]) \cup {"X", "Y"}
    <3>1. "zmodel" \in TablesCut["a"]
      BY DEF TablesCut
    <3> QED BY <1>1, <2>3, <3>1, ValueHas
  <2>7. AxesIn(<<"zmodel", "PC">>) = AxesOf["zmodel"]
    BY DEF AxesIn
  <2>8. \A i \in DOMAIN p.parts : p.parts[i].dim \in ToSet(AxesOf["zmodel"])
    <3>1. \A i \in DOMAIN p.parts : p.parts[i].dim \in RowAxes
      BY <1>4, <2>5
    <3> QED BY <2>5, <2>6, <3>1 DEF Owned, RowAxes
  <2> QED BY <2>2, <2>3, <2>5, <2>7, <2>8
<1>6. ASSUME Needed(step) = {"a_coords", "a", "zmodel", "aif"}
      PROVE  /\ Places({<<"zmodel", "PC">>, <<"a_coords", "COORD">>, <<"a_coords", "EPT">>,
                        Value("aif"), Value("a"), <<"aif", "STOKES">>, <<"a", "STOKES_OUT">>,
                        <<"a", "STOKES_IN">>})
             /\ IsValid(JonesPartition) =>
                  /\ JonesPartition.parts \in Cuts(Rows) /\ Owned(JonesPartition)
                  /\ JonesPartition.space = space[Value("aif")]
             /\ \A axis : Has(space[Value("aif")], axis) => axis \in ToSet(AxesIn(Value("aif")))
             /\ \A axis : Has(space[Value("a")], axis) => axis \in ToSet(AxesIn(Value("a")))
  <2>1. /\ <<"zmodel", "PC">> \in ColumnsOf("zmodel")
        /\ {<<"a_coords", "COORD">>, <<"a_coords", "EPT">>} \subseteq ColumnsOf("a_coords")
        /\ Value("aif") \in ColumnsOf("aif") /\ Value("a") \in ColumnsOf("a")
    BY DEF ColumnsOf
  <2>2. /\ <<"aif", "STOKES">> \in ColumnsOf("aif")
        /\ {<<"a", "STOKES_OUT">>, <<"a", "STOKES_IN">>} \subseteq ColumnsOf("a")
    <3>1. /\ 4 \in DOMAIN AxesOf["aif"] /\ AxesOf["aif"][4] = "STOKES"
          /\ 4 \in DOMAIN AxesOf["a"] /\ AxesOf["a"][4] = "STOKES_OUT"
          /\ 5 \in DOMAIN AxesOf["a"] /\ AxesOf["a"][5] = "STOKES_IN"
      BY DEF AxesOf
    <3> QED BY <3>1 DEF ColumnsOf, IndexColumns
  <2>3. Places({<<"zmodel", "PC">>, <<"a_coords", "COORD">>, <<"a_coords", "EPT">>,
                Value("aif"), Value("a"), <<"aif", "STOKES">>, <<"a", "STOKES_OUT">>,
                <<"a", "STOKES_IN">>})
    <3>1. ColumnsOf("a_coords") \cup ColumnsOf("a") \cup ColumnsOf("zmodel") \cup ColumnsOf("aif")
            \subseteq DOMAIN space
      BY <1>2, <1>6
    <3>2. {"a_coords", "a", "zmodel", "aif"} \subseteq TablesCut["a"]
      BY DEF TablesCut
    <3>3. Places({<<"zmodel", "PC">>, <<"a_coords", "COORD">>, <<"a_coords", "EPT">>})
      BY <2>1, <3>1, <3>2
    <3>4. Places({Value("aif"), <<"aif", "STOKES">>})
      BY <2>1, <2>2, <3>1, <3>2 DEF Value
    <3>5. Places({Value("a"), <<"a", "STOKES_OUT">>, <<"a", "STOKES_IN">>})
      BY <2>1, <2>2, <3>1, <3>2 DEF Value
    <3> QED BY <3>3, <3>4, <3>5
  <2>4. IsValid(JonesPartition) =>
          /\ JonesPartition.parts \in Cuts(Rows) /\ Owned(JonesPartition)
          /\ JonesPartition.space = space[Value("aif")]
    BY <1>1, <2>3, RowsNarrowed DEF JonesPartition
  <2>5. ASSUME NEW table \in {"aif", "a"}
        PROVE  \A axis : Has(space[Value(table)], axis) => axis \in ToSet(AxesIn(Value(table)))
    <3>1. Value(table) \in DOMAIN space /\ table \in TablesCut["a"] /\ Value(table)[1] = table
      BY <2>3 DEF TablesCut, Value
    <3>2. Measured(space[Value(table)], AxesIn(Value(table)), LengthsCut["a"])
      BY <1>1, <3>1 DEF SpacesMeasured
    <3> QED BY <3>2, HasItsAxes
  <2> QED BY <2>3, <2>4, <2>5
<1>7. CASE step = Step("Epts", "a_coords")
  <2> DEFINE cs == space[<<"a_coords", "COORD">>]
  <2>1. Needed(step) = {"a_coords", "a", "zmodel", "aif"}
    BY <1>7 DEF Needed, Step
  <2>2. Reads(step) = {<<"a_coords", "COORD">>} /\ Writes(step) = {<<"a_coords", "EPT">>}
    BY <1>7 DEF Reads, Writes, Step
  <2>3. p = Narrow(cs, JonesPartition, {})
    <3>1. step # Step("Cfs", "w") /\ step # Step("Pcs", "zmodel")
          /\ step # Step("Aifs", "aif") /\ step # Step("Fft", "aif") /\ step # Step("Cfs", "a")
      BY <1>7 DEF Step
    <3> QED BY <1>7, <3>1 DEF PartitionOf
  <2>4. IsValid(JonesPartition)
    BY <2>3 DEF Narrow
  <2>5. p.parts \in Cuts(Rows) /\ Owned(p) /\ p.space = cs
    BY <1>6, <2>1, <2>3, <2>4, NarrowedCuts
  <2>6. AxesIn(<<"a_coords", "EPT">>) = AxesIn(<<"a_coords", "COORD">>)
    BY DEF AxesIn
  <2>7. Measured(cs, AxesIn(<<"a_coords", "COORD">>), Rows)
    BY <1>1, <1>6, <2>1 DEF SpacesMeasured, TablesCut
  <2>8. \A i \in DOMAIN p.parts : p.parts[i].dim \in ToSet(AxesIn(<<"a_coords", "EPT">>))
    BY <2>5, <2>6, <2>7, HasItsAxes DEF Owned
  <2> QED BY <1>6, <2>1, <2>2, <2>5, <2>8
<1>8. CASE step = Step("Aifs", "aif")
  <2>1. Needed(step) = {"a_coords", "a", "zmodel", "aif"}
    BY <1>8 DEF Needed, Step
  <2>2. Reads(step) = {<<"zmodel", "PC">>, <<"a_coords", "EPT">>} /\ Writes(step) = {Value("aif")}
    BY <1>8 DEF Reads, Writes, Step
  <2>3. p = JonesPartition
    <3>1. step # Step("Cfs", "w") /\ step # Step("Pcs", "zmodel")
          /\ step # Step("Epts", "a_coords") /\ step # Step("Fft", "aif") /\ step # Step("Cfs", "a")
      BY <1>8 DEF Step
    <3> QED BY <1>8, <3>1 DEF PartitionOf
  <2>4. \A i \in DOMAIN p.parts : p.parts[i].dim \in ToSet(AxesIn(Value("aif")))
    BY <1>6, <2>1, <2>3 DEF Owned
  <2> QED BY <1>6, <2>1, <2>2, <2>3, <2>4
<1>9. CASE step = Step("Fft", "aif")
  <2>1. Needed(step) = {"a_coords", "a", "zmodel", "aif"}
    BY <1>9 DEF Needed, Step
  <2>2. Reads(step) = {} /\ Writes(step) = {Value("aif")}
    BY <1>9 DEF Reads, Writes, Step
  <2>3. p = Narrow(space[Value("aif")], JonesPartition, {"X", "Y"})
    <3>1. step # Step("Cfs", "w") /\ step # Step("Pcs", "zmodel")
          /\ step # Step("Epts", "a_coords") /\ step # Step("Aifs", "aif") /\ step # Step("Cfs", "a")
      BY <1>9 DEF Step
    <3> QED BY <1>9, <3>1 DEF PartitionOf
  <2>4. IsValid(JonesPartition)
    BY <2>3 DEF Narrow
  <2>5. p.parts \in Cuts(Rows) /\ Owned(p) /\ p.space = space[Value("aif")]
    BY <1>6, <2>1, <2>3, <2>4, NarrowedCuts
  <2>6. \A i \in DOMAIN p.parts : p.parts[i].dim \in ToSet(AxesIn(Value("aif")))
    BY <1>6, <2>1, <2>5 DEF Owned
  <2> QED BY <1>6, <2>1, <2>2, <2>5, <2>6
<1>10. CASE step = Step("Cfs", "a")
  <2>1. Needed(step) = {"a_coords", "a", "zmodel", "aif"}
    BY <1>10 DEF Needed, Step
  <2>2. /\ Reads(step) = {Value("aif"), <<"aif", "STOKES">>, <<"a", "STOKES_OUT">>,
                          <<"a", "STOKES_IN">>}
        /\ Writes(step) = {Value("a")}
    BY <1>10 DEF Reads, Writes, Step
  <2>3. p = OrElse(Narrow(space[Value("a")], RowPartition, {}), RowPartition)
    <3>1. step # Step("Cfs", "w") /\ step # Step("Pcs", "zmodel")
          /\ step # Step("Epts", "a_coords") /\ step # Step("Aifs", "aif") /\ step # Step("Fft", "aif")
      BY <1>10 DEF Step
    <3> QED BY <1>10, <3>1 DEF PartitionOf
  <2>4. p.parts \in Cuts(Rows) /\ Owned(p) /\ p.space = space[Value("a")]
    BY <1>1, <1>6, <2>1, <2>3, RowsNarrowed
  <2>5. \A i \in DOMAIN p.parts : p.parts[i].dim \in ToSet(AxesIn(Value("a")))
    BY <1>6, <2>1, <2>4 DEF Owned
  <2> QED BY <1>6, <2>1, <2>2, <2>4, <2>5
<1> QED BY <1>3, <1>5, <1>7, <1>8, <1>9, <1>10 DEF PartitionOf, IsValid

-----------------------------------------------------------------------------
(***************************************************************************)
(* The steps keep the invariant.                                           *)
(***************************************************************************)

\* The lengths are those of the arguments, which stay.
LEMMA LengthsStay ==
  ASSUME input' = input
  PROVE  LengthsCut' = LengthsCut
<1>1. /\ IndexValues("a") =
           [BASELINE_CLASS |-> input.blcs, PARALLACTIC_ANGLE |-> input.pas,
            FREQUENCY |-> input.frqs, STOKES_OUT |-> input.out, STOKES_IN |-> input.in]
      /\ IndexValues("a")' =
           [BASELINE_CLASS |-> input'.blcs, PARALLACTIC_ANGLE |-> input'.pas,
            FREQUENCY |-> input'.frqs, STOKES_OUT |-> input'.out, STOKES_IN |-> input'.in]
  BY DEF IndexValues
<1>2. IndexValues("a")' = IndexValues("a")
  BY <1>1
<1> QED BY <1>2 DEF LengthsCut

\* A launch stays as it is told while columns are added.
LEMMA ByCutsStays ==
  ASSUME input' = input, DOMAIN space \subseteq DOMAIN space',
         NEW task, NEW new, ByCuts(task),
         new.step = task.step, new.partition = task.partition
  PROVE  ByCuts(new)'
<1>1. LengthsCut' = LengthsCut
  BY LengthsStay
<1> QED BY <1>1 DEF ByCuts, Uses

\* A list without one of its elements.
LEMMA Removed ==
  ASSUME NEW S, NEW s \in Seq(S), NEW i \in DOMAIN s
  PROVE  RemoveAt(s, i) \in Seq(ToSet(RemoveAt(s, i))) /\ ToSet(RemoveAt(s, i)) \subseteq ToSet(s)
<1>1. /\ Len(s) \in Nat /\ DOMAIN s = 1 .. Len(s) /\ s \in Seq(ToSet(s))
  BY ListOfItsOwn
<1> DEFINE a == SubSeq(s, 1, i - 1)
           b == SubSeq(s, i + 1, Len(s))
<1>2. a \in Seq(ToSet(s)) /\ b \in Seq(ToSet(s))
  <2>1. \A k \in 1 .. Len(s) : s[k] \in ToSet(s)
    BY <1>1 DEF ToSet
  <2>2. a = [k \in 1 .. i - 1 |-> s[k]] /\ i - 1 \in Nat
    <3>1. \A k \in 1 .. i - 1 : 1 + k - 1 = k
      BY <1>1
    <3> QED BY <1>1, <3>1
  <2>3. a \in Seq(ToSet(s))
    BY <1>1, <2>1, <2>2
  <2>4. b \in Seq(ToSet(s))
    BY <1>1, <2>1, SubSeqProperties
  <2> QED BY <2>3, <2>4
<1> HIDE DEF a, b
<1>3. RemoveAt(s, i) = a \o b
  BY DEF RemoveAt, a, b
<1>4. ToSet(a) \subseteq ToSet(s) /\ ToSet(b) \subseteq ToSet(s)
  BY <1>2 DEF ToSet
<1> QED BY <1>2, <1>3, <1>4, Joined

\* A piece of a launch is done: what stays pending is what it was.
LEMMA PieceDone ==
  ASSUME IInv, NEW i \in DOMAIN tasks, NEW color, UNCHANGED <<input, next, space>>,
         tasks' = IF tasks[i].left = {color} THEN RemoveAt(tasks, i)
                  ELSE [tasks EXCEPT ![i].left = @ \ {color}]
  PROVE  IInv'
<1>1. /\ input \in Inputs /\ next \in Nat \ {0} /\ SpacesMeasured /\ SpacesStay
      /\ tasks \in Seq(ToSet(tasks)) /\ \A t \in ToSet(tasks) : Recorded(t) /\ ByCuts(t)
  BY DEF IInv
<1>2. LengthsCut' = LengthsCut
  BY LengthsStay
<1>3. /\ (input \in Inputs)' /\ (next \in Nat \ {0})' /\ SpacesMeasured' /\ SpacesStay'
  BY <1>1, <1>2 DEF SpacesMeasured, SpacesStay
<1>4. CASE tasks[i].left = {color}
  <2>1. tasks' = RemoveAt(tasks, i)
    BY <1>4
  <2>2. tasks' \in Seq(ToSet(tasks')) /\ ToSet(tasks') \subseteq ToSet(tasks)
    <3> DEFINE rest == RemoveAt(tasks, i)
    <3>1. rest \in Seq(ToSet(rest)) /\ ToSet(rest) \subseteq ToSet(tasks)
      BY <1>1, Removed
    <3> QED BY <2>1, <3>1, Zenon
  <2>3. \A t \in ToSet(tasks') : Recorded(t)' /\ ByCuts(t)'
    BY <1>1, <2>2, ByCutsStays DEF Recorded
  <2> QED BY <1>3, <2>2, <2>3 DEF IInv
<1>5. CASE tasks[i].left # {color}
  <2> DEFINE left == tasks[i].left \ {color}
             new == [tasks[i] EXCEPT !.left = left]
  <2>1. /\ Len(tasks) \in Nat /\ DOMAIN tasks = 1 .. Len(tasks)
        /\ \A k \in DOMAIN tasks : tasks[k] \in ToSet(tasks)
    BY <1>1 DEF ToSet
  <2>2. tasks[i] = [step |-> tasks[i].step, partition |-> tasks[i].partition,
                    values |-> tasks[i].values, left |-> tasks[i].left]
    BY <1>1, <2>1 DEF Recorded
  <2>3. new.step = tasks[i].step /\ new.partition = tasks[i].partition /\ Recorded(new)
    <3>1. new = [step |-> tasks[i].step, partition |-> tasks[i].partition,
                 values |-> tasks[i].values, left |-> left]
      BY <2>2
    <3> HIDE DEF new
    <3> QED BY <3>1 DEF Recorded
  <2>4. tasks' = [k \in 1 .. Len(tasks) |-> IF k = i THEN new ELSE tasks[k]]
    BY <1>5, <2>1
  <2> HIDE DEF new
  <2>5. tasks' \in Seq(ToSet(tasks) \cup {new})
    <3> DEFINE f == [k \in 1 .. Len(tasks) |-> IF k = i THEN new ELSE tasks[k]]
    <3>1. f \in [1 .. Len(tasks) -> ToSet(tasks) \cup {new}]
      BY <2>1
    <3> HIDE DEF f
    <3>2. f \in Seq(ToSet(tasks) \cup {new})
      BY <2>1, <3>1, OfLength
    <3> QED BY <2>4, <3>2 DEF f
  <2>6. ToSet(tasks') \subseteq ToSet(tasks) \cup {new}
    <3> DEFINE T == ToSet(tasks) \cup {new}
    <3>1. ASSUME NEW s \in Seq(T) PROVE ToSet(s) \subseteq T
      BY DEF ToSet
    <3> HIDE DEF T
    <3>2. tasks' \in Seq(T)
      BY <2>5 DEF T
    <3>3. ToSet(tasks') \subseteq T
      BY <3>1, <3>2
    <3> QED BY <3>3 DEF T
  <2>7. \A t \in ToSet(tasks) \cup {new} : Recorded(t)' /\ ByCuts(t)'
    <3> SUFFICES ASSUME NEW t \in ToSet(tasks) \cup {new} PROVE Recorded(t)' /\ ByCuts(t)'
      OBVIOUS
    <3>1. CASE t = new
      <4>1. ByCuts(tasks[i]) /\ t.step = tasks[i].step /\ t.partition = tasks[i].partition
        BY <1>1, <2>1, <2>3, <3>1
      <4>2. PICK task : task = tasks[i]
        OBVIOUS
      <4>3. ByCuts(task) /\ t.step = task.step /\ t.partition = task.partition
        BY <4>1, <4>2
      <4>4. ByCuts(t)'
        BY <4>3, ByCutsStays
      <4>5. Recorded(t)
        BY <2>3, <3>1
      <4> QED BY <4>4, <4>5 DEF Recorded
    <3>2. CASE t \in ToSet(tasks)
      <4>1. Recorded(t) /\ ByCuts(t)'
        BY <1>1, <3>2, ByCutsStays
      <4> QED BY <4>1 DEF Recorded
    <3> QED BY <3>1, <3>2
  <2> QED BY <1>3, <2>5, <2>6, <2>7, ListOfItsOwn DEF IInv
<1> QED BY <1>4, <1>5

\* A step of the driver that is launched, and what it made stays.
LEMMA LaunchKeeps ==
  ASSUME InputsServe, IInv, next <= Len(Program), input' = input, next' = next + 1,
         DOMAIN space \subseteq DOMAIN space', SpacesMeasured',
         Current.do = "Create" => ColumnsOf(Current.on) \subseteq DOMAIN space',
         NEW values, Launch(values)
  PROVE  IInv'
<1>1. /\ input \in Inputs /\ next \in Nat \ {0} /\ SpacesMeasured /\ SpacesStay
      /\ tasks \in Seq(ToSet(tasks)) /\ \A t \in ToSet(tasks) : Recorded(t) /\ ByCuts(t)
  BY DEF IInv
<1>2. (input \in Inputs)' /\ (next \in Nat \ {0})'
  BY <1>1
<1>3. SpacesStay'
  <2> SUFFICES ASSUME NEW k \in 1 .. next' - 1, Program[k].do = "Create"
               PROVE  ColumnsOf(Program[k].on) \subseteq DOMAIN space'
    BY DEF SpacesStay
  <2>1. CASE k = next
    BY <2>1 DEF Current
  <2>2. CASE k # next
    <3>1. k \in 1 .. next - 1
      BY <1>1, <2>2
    <3> QED BY <1>1, <3>1 DEF SpacesStay
  <2> QED BY <2>1, <2>2
<1>4. PICK p : p = PartitionOf(Program[next])
  OBVIOUS
<1>5. PICK step : step = Program[next]
  OBVIOUS
<1> DEFINE new == [step |-> step, partition |-> p, values |-> values, left |-> ColorsOf(p)]
<1>6. tasks' = tasks \o <<new>>
  <2>1. tasks' = Append(tasks, new)
    BY <1>4, <1>5 DEF Launch, Current
  <2> HIDE DEF new
  <2> QED BY <1>1, <2>1
<1>7. Recorded(new) /\ new.step = step /\ new.partition = p
  BY DEF Recorded
<1>8. ByCuts(new)'
  <2>1. LengthsCut' = LengthsCut
    BY LengthsStay
  <2>2. CASE IsValid(p)
    <3>1. PICK g \in {"w", "a"} :
            /\ p.parts \in Cuts(LengthsCut[g])
            /\ \A col \in Reads(step) \cup Writes(step) :
                 col \in DOMAIN space /\ col[1] \in TablesCut[g]
            /\ \A col \in Writes(step) : \A i \in DOMAIN p.parts :
                 p.parts[i].dim \in ToSet(AxesIn(col))
      BY <1>4, <1>5, <2>2, LaunchedByCuts
    <3> HIDE DEF new
    <3> QED BY <1>7, <2>1, <3>1 DEF ByCuts, Uses
  <2>3. CASE ~IsValid(p)
    BY <1>7, <2>3 DEF ByCuts
  <2> QED BY <2>2, <2>3
<1> HIDE DEF new
<1>9. /\ tasks' \in Seq(ToSet(tasks')) /\ ToSet(tasks') = ToSet(tasks) \cup {new}
  <2>1. <<new>> \in Seq({new}) /\ ToSet(<<new>>) = {new}
    BY DEF ToSet
  <2> DEFINE s == tasks \o <<new>>
  <2>2. s \in Seq(ToSet(s)) /\ ToSet(s) = ToSet(tasks) \cup ToSet(<<new>>)
    <3> DEFINE S == ToSet(tasks)
               T == {new}
               one == <<new>>
    <3>1. tasks \in Seq(S) /\ one \in Seq(T)
      BY <1>1, <2>1
    <3> HIDE DEF S, T, one
    <3>2. tasks \o one \in Seq(ToSet(tasks \o one)) /\ ToSet(tasks \o one) = ToSet(tasks) \cup ToSet(one)
      BY <3>1, Joined
    <3> QED BY <3>2 DEF one
  <2>3. s \in Seq(ToSet(s)) /\ ToSet(s) = ToSet(tasks) \cup {new}
    <3> HIDE DEF s
    <3> QED BY <2>1, <2>2
  <2> QED BY <1>6, <2>3, Zenon
<1>10. ASSUME NEW t \in ToSet(tasks') PROVE Recorded(t)' /\ ByCuts(t)'
  <2>1. CASE t \in ToSet(tasks)
    <3>1. Recorded(t) /\ ByCuts(t)'
      BY <1>1, <2>1, ByCutsStays
    <3> QED BY <3>1 DEF Recorded
  <2>2. CASE t = new
    BY <1>7, <1>8, <2>2 DEF Recorded
  <2> QED BY <1>9, <2>1, <2>2
<1> QED BY <1>2, <1>3, <1>9, <1>10 DEF IInv

\* A table is created: its ColumnSpaces have the lengths of the axes.
LEMMA CreateKeeps ==
  ASSUME InputsServe, IInv, CreateTable
  PROVE  IInv'
<1>1. /\ next <= Len(Program) /\ Current.do = "Create" /\ input' = input /\ next' = next + 1
      /\ input \in Inputs /\ next \in Nat \ {0} /\ SpacesMeasured /\ SpacesStay
  BY DEF CreateTable, IInv
<1>2. PICK values : values = IndexValues(Current.on)
  OBVIOUS
<1>3. PICK table : table = Current.on
  OBVIOUS
<1> DEFINE spaces == SpacesOf(table, values)
<1>4. space' = Added(space, spaces) /\ Launch(values)
  BY <1>2, <1>3 DEF CreateTable
<1>5. DOMAIN spaces = ColumnsOf(table)
  BY DEF SpacesOf
<1>6. /\ DOMAIN space' = DOMAIN space \cup ColumnsOf(table)
      /\ \A col \in ColumnsOf(table) : space'[col] = spaces[col]
      /\ \A col \in DOMAIN space \ ColumnsOf(table) : space'[col] = space[col]
  <2> HIDE DEF spaces
  <2> QED BY <1>4, <1>5 DEF Added
<1>7. Program[next] \in Steps /\ Program[next].do = "Create" /\ Program[next].on = table
      /\ next \in 1 .. Len(Program)
  <2>1. Len(Program) \in Nat
    BY ProgramInOrder
  <2> QED BY <1>1, <1>3, <2>1, ProgramInOrder DEF Current
<1>8. table \in {"zmodel", "aif"} => ColumnsOf("a") \subseteq DOMAIN space
  <2> SUFFICES ASSUME table \in {"zmodel", "aif"} PROVE ColumnsOf("a") \subseteq DOMAIN space
    OBVIOUS
  <2>1. Program[next] = Step("Create", table)
    BY <1>7 DEF Steps, Step
  <2>2. "a" \in Needed(Program[next])
    BY <2>1 DEF Needed, Step
  <2>3. PICK k \in 1 .. next - 1 : Program[k] = Step("Create", "a")
    BY <1>7, <2>2, ProgramInOrder
  <2>4. Program[k].do = "Create" /\ Program[k].on = "a"
    BY <2>3 DEF Step
  <2> QED BY <1>1, <2>4 DEF SpacesStay
<1>9. LengthsCut' = LengthsCut
  BY <1>1, LengthsStay
<1>10. ASSUME NEW g \in {"w", "a"}, NEW col \in DOMAIN space', col[1] \in TablesCut[g]
       PROVE  Measured(space'[col], AxesIn(col), LengthsCut[g])
  <2>1. CASE col \in ColumnsOf(table)
    <3>1. col[1] = table
      BY <2>1 DEF ColumnsOf, IndexColumns, Value
    <3>2. table \in TablesCut[g]
      BY <1>10, <3>1
    <3>3. Measured(SpacesOf(table, IndexValues(table))[col], AxesIn(col), LengthsCut[g])
      BY <1>1, <1>8, <2>1, <3>2, MadeMeasured
    <3> QED BY <1>2, <1>3, <1>6, <2>1, <3>3
  <2>2. CASE col \notin ColumnsOf(table)
    <3>1. col \in DOMAIN space /\ space'[col] = space[col]
      BY <1>6, <2>2, <1>10
    <3> QED BY <1>1, <1>10, <3>1 DEF SpacesMeasured
  <2> QED BY <2>1, <2>2
<1>11. SpacesMeasured'
  BY <1>9, <1>10 DEF SpacesMeasured
<1>12. DOMAIN space \subseteq DOMAIN space' /\ ColumnsOf(Current.on) \subseteq DOMAIN space'
  BY <1>3, <1>6
<1> QED BY <1>1, <1>4, <1>11, <1>12, LaunchKeeps

\* At the start there is no column and no launch.
LEMMA InitInv == Init => IInv
<1> SUFFICES ASSUME Init PROVE IInv
  OBVIOUS
<1>1. input \in Inputs /\ next = 1 /\ space = <<>> /\ tasks = <<>>
  BY DEF Init
<1>2. SpacesMeasured /\ SpacesStay
  BY <1>1 DEF SpacesMeasured, SpacesStay
<1>3. ToSet(tasks) = {} /\ tasks \in Seq(ToSet(tasks))
  BY <1>1 DEF ToSet
<1> QED BY <1>1, <1>2, <1>3 DEF IInv

\* A step that leaves the ColumnSpaces and the launches alone.
LEMMA NothingLaunched ==
  ASSUME IInv, UNCHANGED <<input, space, tasks>>,
         next' = next \/ (next' = next + 1 /\ Current.do # "Create")
  PROVE  IInv'
<1>1. /\ input \in Inputs /\ next \in Nat \ {0} /\ SpacesMeasured /\ SpacesStay
      /\ tasks \in Seq(ToSet(tasks)) /\ \A t \in ToSet(tasks) : Recorded(t) /\ ByCuts(t)
  BY DEF IInv
<1>2. SpacesMeasured'
  <2>1. LengthsCut' = LengthsCut
    BY LengthsStay
  <2> QED BY <1>1, <2>1 DEF SpacesMeasured
<1>3. SpacesStay'
  <2> SUFFICES ASSUME NEW k \in 1 .. next' - 1, Program[k].do = "Create"
               PROVE  ColumnsOf(Program[k].on) \subseteq DOMAIN space'
    BY DEF SpacesStay
  <2>1. k # next \/ next' = next
    BY DEF Current
  <2>2. k \in 1 .. next - 1
    BY <1>1, <2>1
  <2> QED BY <1>1, <2>2 DEF SpacesStay
<1>4. \A t \in ToSet(tasks) : Recorded(t)' /\ ByCuts(t)'
  BY <1>1, ByCutsStays DEF Recorded
<1>5. (input \in Inputs)' /\ (next \in Nat \ {0})' /\ tasks' = tasks
  BY <1>1
<1> QED BY <1>1, <1>2, <1>3, <1>4, <1>5 DEF IInv

\* Every step keeps the invariant.
LEMMA NextInv ==
  ASSUME InputsServe
  PROVE  IInv /\ [Next]_vars => IInv'
<1> SUFFICES ASSUME IInv, [Next]_vars PROVE IInv'
  OBVIOUS
<1>1. CASE CreateTable
  BY <1>1, CreateKeeps
<1>2. CASE InitZernike
  BY <1>2, NothingLaunched DEF InitZernike
<1>3. CASE LaunchTask
  <2>1. /\ next <= Len(Program) /\ Current.do # "Create" /\ Launch(<<>>)
        /\ next' = next + 1 /\ input' = input /\ space' = space
    BY <1>3 DEF LaunchTask
  <2>2. SpacesMeasured'
    <3>1. LengthsCut' = LengthsCut
      BY <2>1, LengthsStay
    <3> QED BY <2>1, <3>1 DEF SpacesMeasured, IInv
  <2>3. PICK values : values = <<>>
    OBVIOUS
  <2>4. Launch(values)
    BY <2>1, <2>3
  <2> QED BY <2>1, <2>2, <2>4, LaunchKeeps
<1>4. ASSUME NEW i \in DOMAIN tasks, NEW color \in tasks[i].left,
             \/ InitIndexColumns(i, color) \/ ComputeCoordinates(i, color)
             \/ ComputePSTerm(i, color) \/ ComputeWTerm(i, color)
             \/ ComputePcs(i, color) \/ ComputeEpts(i, color)
             \/ ComputeAifs(i, color) \/ TransformInPlace(i, color)
             \/ ComputeATerm(i, color) \/ MultiplyTerm(i, color)
             \/ ShowValues(i, color) \/ DestroyTable(i, color)
      PROVE  IInv'
  <2>1. \E do, on : Runs(i, color, do, on)
    BY <1>4, Zenon DEF InitIndexColumns, ComputeCoordinates, ComputePSTerm, ComputeWTerm,
       ComputePcs, ComputeEpts, ComputeAifs, TransformInPlace, ComputeATerm, MultiplyTerm,
       ShowValues, DestroyTable
  <2>2. /\ tasks' = IF tasks[i].left = {color} THEN RemoveAt(tasks, i)
                    ELSE [tasks EXCEPT ![i].left = @ \ {color}]
        /\ UNCHANGED <<input, next, space>>
    BY <2>1 DEF Runs
  <2> QED BY <2>2, PieceDone
<1>5. CASE Ended
  BY <1>5, NothingLaunched DEF Ended, vars
<1>6. CASE UNCHANGED vars
  BY <1>6, NothingLaunched DEF vars
<1> QED BY <1>1, <1>2, <1>3, <1>4, <1>5, <1>6 DEF Next

\* What the runtime is told of a launch by cuts is true.
LEMMA CutsAreTrue ==
  ASSUME InputsServe, IInv
  PROVE  PartitionsTrue
<1> SUFFICES ASSUME NEW i \in DOMAIN tasks, IsValid(tasks[i].partition),
                    NEW col \in Uses(tasks[i])
             PROVE  LET here == ProjectOnto(tasks[i].partition, space[col])
                    IN /\ IsValid(here)
                       /\ DeclaredTruly(here, space[col], Strays)
                       /\ Covers(here, space[col])
                       /\ col \in Writes(tasks[i].step) => Apart(here, space[col])
  BY DEF PartitionsTrue
<1> DEFINE cs == space[col]
           parts == tasks[i].partition.parts
           here == ProjectOnto(tasks[i].partition, cs)
<1>1. ByCuts(tasks[i]) /\ SpacesMeasured /\ input \in Inputs
  BY DEF IInv, ToSet
<1>2. PICK g \in {"w", "a"} :
        /\ parts \in Cuts(LengthsCut[g])
        /\ col \in DOMAIN space /\ col[1] \in TablesCut[g]
        /\ col \in Writes(tasks[i].step) =>
             \A k \in DOMAIN parts : parts[k].dim \in ToSet(AxesIn(col))
  BY <1>1 DEF ByCuts
<1> DEFINE lengths == LengthsCut[g]
<1>3. Counted(lengths)
  BY <1>1, LengthsCounted
<1>4. Measured(cs, AxesIn(col), lengths)
  BY <1>1, <1>2 DEF SpacesMeasured
<1>5. Fits(cs, lengths) /\ cs.id # "none"
  BY <1>4 DEF Measured, Fits
<1> HIDE DEF lengths
<1>6. here = [space |-> cs, parts |-> parts]
  <2>1. \A k \in DOMAIN parts : parts[k].stride \in Nat \ {0}
    BY <1>2, <1>3, CutsParts DEF lengths
  <2>2. ~ \E k \in DOMAIN parts : parts[k].stride <= 0
    BY <2>1
  <2> QED BY <2>2 DEF ProjectOnto, Create
<1>7. IsValid(here)
  BY <1>5, <1>6 DEF IsValid, NoPartition
<1>8. here.parts \in Cuts(lengths) /\ here.parts = parts
  BY <1>2, <1>6 DEF lengths
<1> HIDE DEF here
<1>9. DeclaredTruly(here, cs, Strays) /\ Covers(here, cs)
  BY <1>3, <1>5, <1>8, CutsDeclared, CutsCover
<1>10. ASSUME col \in Writes(tasks[i].step)
       PROVE  Apart(here, cs)
  <2>1. \A k \in DOMAIN here.parts : Has(cs, here.parts[k].dim)
    BY <1>2, <1>4, <1>8, <1>10, HasItsAxes
  <2> QED BY <1>3, <1>5, <1>8, <2>1, CutsApart
<1> QED BY <1>7, <1>9, <1>10 DEF here

\* The invariant holds: launches go by cuts of axes whose lengths are those of
\* the arguments, on columns whose ColumnSpaces stay.
THEOREM InvariantHolds ==
  ASSUME InputsServe
  PROVE  Spec => []IInv
<1>1. Init => IInv
  BY InitInv
<1>2. IInv /\ [Next]_vars => IInv'
  BY NextInv
<1> QED BY <1>1, <1>2, PTL DEF Spec

\* PartitionsTrue of cfcompute_task for every list of index values, every size of
\* the grids and every cut of the rows that the axes admit: what
\* create_partition_on_axes declares to the runtime is true, whatever it reads
\* for the number of colors, and no two pieces of a launch write the same place.
THEOREM PartitionsHold ==
  ASSUME InputsServe
  PROVE  Spec => []PartitionsTrue
<1>1. IInv => PartitionsTrue
  BY CutsAreTrue
<1> QED BY <1>1, InvariantHolds, PTL

-----------------------------------------------------------------------------
(***************************************************************************)
(* What is printed of a term is the term.  A step that shares a column with *)
(* an earlier one is ready only when that one is done (TermOrder): one of the *)
(* two is not cut, and what is whole meets every piece.  From its launch on, *)
(* each point of a term is in a piece that has yet to run, or it was made of *)
(* an index value and a cell that were complete by then (TermMade); the print *)
(* finds no piece left.                                                    *)
(***************************************************************************)

\* Where a step is in the program, which has it once.
PlaceOf(step) ==
  LET on == step.on
  IN CASE step.do = "Create" ->
            (CASE on = "ps_coords" -> 1 [] on = "ps" -> 3 [] on = "w_coords" -> 7
               [] on = "w" -> 9 [] on = "a_coords" -> 13 [] on = "a" -> 15
               [] on = "zmodel" -> 16 [] on = "aif" -> 19 [] on = "cf" -> 28)
       [] step.do = "Coordinates" ->
            (CASE on = "ps_coords" -> 2 [] on = "w_coords" -> 8 [] on = "a_coords" -> 14)
       [] step.do = "Cfs" -> (CASE on = "ps" -> 4 [] on = "w" -> 10 [] on = "a" -> 24)
       [] step.do = "Show" ->
            (CASE on = "PSTerm" -> 5 [] on = "WTerm" -> 11 [] on = "ATerm" -> 26
               [] on = "Pre-FFT CF" -> 32 [] on = "Post-FFT CF" -> 34)
       [] step.do = "Destroy" ->
            (CASE on = "ps_coords" -> 6 [] on = "w_coords" -> 12 [] on = "zmodel" -> 23
               [] on = "aif" -> 25 [] on = "a_coords" -> 27 [] on = "ps" -> 35
               [] on = "w" -> 36 [] on = "a" -> 37 [] on = "cf" -> 38)
       [] step.do = "Zernike" -> 17
       [] step.do = "Pcs" -> 18
       [] step.do = "Epts" -> 20
       [] step.do = "Aifs" -> 21
       [] step.do = "Fft" -> (CASE on = "aif" -> 22 [] on = "cf" -> 33)
       [] step.do = "Overwrite" -> 29
       [] step.do = "Multiply" -> (CASE on = "w" -> 30 [] on = "ps" -> 31)

\* These are the places.
LEMMA PlacesAre ==
  \A k \in 1 .. 38 : PlaceOf(Program[k]) = k
<1> DEFINE Here(k) == PlaceOf(Program[k]) = k
<1>1. /\ Here(1)
      /\ Here(2)
      /\ Here(3)
      /\ Here(4)
      /\ Here(5)
      /\ Here(6)
      /\ Here(7)
      /\ Here(8)
      /\ Here(9)
      /\ Here(10)
      /\ Here(11)
      /\ Here(12)
  <2>1. /\ Program[1] = Step("Create", "ps_coords")
        /\ Program[2] = Step("Coordinates", "ps_coords")
        /\ Program[3] = Step("Create", "ps")
        /\ Program[4] = Step("Cfs", "ps")
        /\ Program[5] = Step("Show", "PSTerm")
        /\ Program[6] = Step("Destroy", "ps_coords")
        /\ Program[7] = Step("Create", "w_coords")
        /\ Program[8] = Step("Coordinates", "w_coords")
        /\ Program[9] = Step("Create", "w")
        /\ Program[10] = Step("Cfs", "w")
        /\ Program[11] = Step("Show", "WTerm")
        /\ Program[12] = Step("Destroy", "w_coords")
    BY ProgramSteps, Zenon
  <2>2. /\ PlaceOf(Step("Create", "ps_coords")) = 1
        /\ PlaceOf(Step("Coordinates", "ps_coords")) = 2
        /\ PlaceOf(Step("Create", "ps")) = 3
        /\ PlaceOf(Step("Cfs", "ps")) = 4
        /\ PlaceOf(Step("Show", "PSTerm")) = 5
        /\ PlaceOf(Step("Destroy", "ps_coords")) = 6
        /\ PlaceOf(Step("Create", "w_coords")) = 7
        /\ PlaceOf(Step("Coordinates", "w_coords")) = 8
        /\ PlaceOf(Step("Create", "w")) = 9
        /\ PlaceOf(Step("Cfs", "w")) = 10
        /\ PlaceOf(Step("Show", "WTerm")) = 11
        /\ PlaceOf(Step("Destroy", "w_coords")) = 12
    BY DEF PlaceOf, Step
  <2> QED BY <2>1, <2>2, Zenon
<1>2. /\ Here(13)
      /\ Here(14)
      /\ Here(15)
      /\ Here(16)
      /\ Here(17)
      /\ Here(18)
      /\ Here(19)
      /\ Here(20)
      /\ Here(21)
      /\ Here(22)
      /\ Here(23)
      /\ Here(24)
      /\ Here(25)
  <2>1. /\ Program[13] = Step("Create", "a_coords")
        /\ Program[14] = Step("Coordinates", "a_coords")
        /\ Program[15] = Step("Create", "a")
        /\ Program[16] = Step("Create", "zmodel")
        /\ Program[17] = Step("Zernike", "zmodel")
        /\ Program[18] = Step("Pcs", "zmodel")
        /\ Program[19] = Step("Create", "aif")
        /\ Program[20] = Step("Epts", "a_coords")
        /\ Program[21] = Step("Aifs", "aif")
        /\ Program[22] = Step("Fft", "aif")
        /\ Program[23] = Step("Destroy", "zmodel")
        /\ Program[24] = Step("Cfs", "a")
        /\ Program[25] = Step("Destroy", "aif")
    BY ProgramSteps, Zenon
  <2>2. /\ PlaceOf(Step("Create", "a_coords")) = 13
        /\ PlaceOf(Step("Coordinates", "a_coords")) = 14
        /\ PlaceOf(Step("Create", "a")) = 15
        /\ PlaceOf(Step("Create", "zmodel")) = 16
        /\ PlaceOf(Step("Zernike", "zmodel")) = 17
        /\ PlaceOf(Step("Pcs", "zmodel")) = 18
        /\ PlaceOf(Step("Create", "aif")) = 19
        /\ PlaceOf(Step("Epts", "a_coords")) = 20
        /\ PlaceOf(Step("Aifs", "aif")) = 21
        /\ PlaceOf(Step("Fft", "aif")) = 22
        /\ PlaceOf(Step("Destroy", "zmodel")) = 23
        /\ PlaceOf(Step("Cfs", "a")) = 24
        /\ PlaceOf(Step("Destroy", "aif")) = 25
    BY DEF PlaceOf, Step
  <2> QED BY <2>1, <2>2, Zenon
<1>3. /\ Here(26)
      /\ Here(27)
      /\ Here(28)
      /\ Here(29)
      /\ Here(30)
      /\ Here(31)
      /\ Here(32)
  <2>1. /\ Program[26] = Step("Show", "ATerm")
        /\ Program[27] = Step("Destroy", "a_coords")
        /\ Program[28] = Step("Create", "cf")
        /\ Program[29] = Step("Overwrite", "a")
        /\ Program[30] = Step("Multiply", "w")
        /\ Program[31] = Step("Multiply", "ps")
        /\ Program[32] = Step("Show", "Pre-FFT CF")
    BY ProgramSteps, Zenon
  <2>2. /\ PlaceOf(Step("Show", "ATerm")) = 26
        /\ PlaceOf(Step("Destroy", "a_coords")) = 27
        /\ PlaceOf(Step("Create", "cf")) = 28
        /\ PlaceOf(Step("Overwrite", "a")) = 29
        /\ PlaceOf(Step("Multiply", "w")) = 30
        /\ PlaceOf(Step("Multiply", "ps")) = 31
        /\ PlaceOf(Step("Show", "Pre-FFT CF")) = 32
    BY DEF PlaceOf, Step
  <2> QED BY <2>1, <2>2, Zenon
<1>4. /\ Here(33)
      /\ Here(34)
      /\ Here(35)
      /\ Here(36)
      /\ Here(37)
      /\ Here(38)
  <2>1. /\ Program[33] = Step("Fft", "cf")
        /\ Program[34] = Step("Show", "Post-FFT CF")
        /\ Program[35] = Step("Destroy", "ps")
        /\ Program[36] = Step("Destroy", "w")
        /\ Program[37] = Step("Destroy", "a")
        /\ Program[38] = Step("Destroy", "cf")
    BY ProgramSteps, Zenon
  <2>2. /\ PlaceOf(Step("Fft", "cf")) = 33
        /\ PlaceOf(Step("Show", "Post-FFT CF")) = 34
        /\ PlaceOf(Step("Destroy", "ps")) = 35
        /\ PlaceOf(Step("Destroy", "w")) = 36
        /\ PlaceOf(Step("Destroy", "a")) = 37
        /\ PlaceOf(Step("Destroy", "cf")) = 38
    BY DEF PlaceOf, Step
  <2> QED BY <2>1, <2>2, Zenon
<1> HIDE DEF Here
<1>5. \A k \in 1 .. 38 : Here(k)
  BY <1>1, <1>2, <1>3, <1>4
<1> QED BY <1>5 DEF Here

\* What is pending has been launched, in the order of the program.
InOrder ==
  /\ next <= 39
  /\ \A i \in DOMAIN tasks : Issued(tasks[i].step)
  /\ \A i, j \in DOMAIN tasks : i < j => PlaceOf(tasks[i].step) < PlaceOf(tasks[j].step)

\* The tables of the terms whose prints are followed.
Followed == {"ps", "w"}
Made == {"ps_coords", "ps", "w_coords", "w", "a"}

\* Of a term: its grid, its print, the list that it is given, its columns.
CoordsOf(T) == IF T = "ps" THEN "ps_coords" ELSE "w_coords"
TitleOf(T) == IF T = "ps" THEN "PSTerm" ELSE "WTerm"
Given(T) == IF T = "ps" THEN input.scales ELSE input.ws
IndexOf(T) == <<T, IF T = "ps" THEN "PS_SCALE" ELSE "W">>
GridOf(T) == <<CoordsOf(T), "COORD">>
AngleOf(T) == <<CoordsOf(T), "PARALLACTIC_ANGLE">>

\* A launch has pieces left, of its partition; some are never cut.
Outstanding(t) ==
  /\ t.left # {} /\ t.left \subseteq ColorsOf(t.partition)
  /\ (t.step.do \in {"Create", "Coordinates", "Show", "Destroy"} \/ t.step = Step("Cfs", "ps"))
       => t.partition = NoPartition
  /\ \A table \in Made : t.step = Step("Create", table) => t.values = IndexValues(table)

\* These tables have the ColumnSpaces that the arguments describe.
SpacesGiven ==
  \A col \in DOMAIN space : col[1] \in Made =>
    /\ col \in ColumnsOf(col[1])
    /\ space[col] = SpacesOf(col[1], IndexValues(col[1]))[col]

\* Each step of a term is done after those it follows.
StepsFollow(T) ==
  /\ Done("Destroy", CoordsOf(T)) => Done("Create", CoordsOf(T)) /\ Done("Cfs", T)
  /\ Done("Destroy", T) => Done("Create", T) /\ Done("Show", TitleOf(T))
  /\ Done("Show", TitleOf(T)) => Done("Cfs", T)
  /\ Done("Cfs", T) => Done("Coordinates", CoordsOf(T))

\* The columns of a term are there until it is destroyed.
ColumnsStand(T) ==
  /\ (Issued(Step("Create", CoordsOf(T))) /\ ~Done("Destroy", CoordsOf(T))) =>
       GridOf(T) \in DOMAIN value /\ AngleOf(T) \in DOMAIN value
  /\ (Issued(Step("Create", T)) /\ ~Done("Destroy", T)) =>
       Value(T) \in DOMAIN value /\ IndexOf(T) \in DOMAIN value

\* What a grid of coordinates and a term are made of.
CoordinateSet == [pa : Int \cup {Garbage}, x : Int, y : Int, n : Int]
Elements == [of : Int, at : Seq(Int)]

\* The angle of the grid is known where it is written.
AnglesRead(T) ==
  AngleOf(T) \in DOMAIN value =>
    \A pt \in DOMAIN value[AngleOf(T)] : value[AngleOf(T)][pt] \in Int

\* The grid is complete once it was computed.
GridMade(T) ==
  (GridOf(T) \in DOMAIN value /\ Done("Coordinates", CoordsOf(T))) =>
    \A x, y \in 0 .. GridSize(T) - 1 :
      /\ <<0, x, y>> \in DOMAIN value[GridOf(T)]
      /\ value[GridOf(T)][<<0, x, y>>] \in CoordinateSet

\* The index values are those given once the table was initialized.
IndexMade(T) ==
  (IndexOf(T) \in DOMAIN value /\ Done("Create", T)) =>
    \A k \in 0 .. Len(Given(T)) - 1 :
      /\ <<k>> \in DOMAIN value[IndexOf(T)]
      /\ value[IndexOf(T)][<<k>>] = Given(T)[k + 1]

\* The points of the term.
Points(T) == Box(<<Len(Given(T)), GridSize(T), GridSize(T)>>)

\* A point of the term is in a piece that has yet to be computed.
Ahead(T, p) ==
  \E t \in ToSet(tasks) : \E c \in t.left :
    t.step = Step("Cfs", T) /\ InRect(p, Region(t.partition, Value(T), c))

\* It holds an element made of the value that was given for its place.
Right(T, p) ==
  /\ p \in DOMAIN value[Value(T)]
  /\ value[Value(T)][p] \in Elements
  /\ value[Value(T)][p].of = Given(T)[p[1] + 1]

\* From the launch on, every point has yet to be computed or is right.
TermMade(T) ==
  (Value(T) \in DOMAIN value /\ Issued(Step("Cfs", T))) =>
    \A p \in Points(T) : Ahead(T, p) \/ Right(T, p)

\* The print shows the values given, all of them and nothing else.
TermShown(T) == TitleOf(T) \in DOMAIN shown => shown[TitleOf(T)] = ToSet(Given(T))

\* What holds of a term.
TermInv(T) ==
  /\ StepsFollow(T) /\ ColumnsStand(T)
  /\ AnglesRead(T) /\ GridMade(T) /\ IndexMade(T) /\ TermMade(T) /\ TermShown(T)

\* The aperture term was computed before it is printed, and the print is what it
\* holds.
ApertureInv ==
  "ATerm" \in DOMAIN shown =>
    /\ Value("a") \in DOMAIN space
    /\ Done("Cfs", "a")
    /\ Exists("a") => shown["ATerm"] = Contents("a")

\* What holds of the launches and of the columns.
Standing == IInv /\ InOrder /\ SpacesGiven /\ \A t \in ToSet(tasks) : Outstanding(t)

\* The invariant that carries the prints.
DInv == Standing /\ (\A T \in Followed : TermInv(T)) /\ ApertureInv

-----------------------------------------------------------------------------
(***************************************************************************)
(* Which steps of the program are issued, pending and done.                *)
(***************************************************************************)

\* What is issued lies before the next step.
LEMMA IssuedIs ==
  ASSUME next \in Nat, next <= 39, NEW k \in 1 .. 38
  PROVE  Issued(Program[k]) <=> k < next
<1>1. ASSUME NEW m \in 1 .. next - 1, Program[m] = Program[k] PROVE k < next
  <2>1. m \in 1 .. 38
    OBVIOUS
  <2>2. m = k
    BY <1>1, <2>1, PlacesAre
  <2> QED BY <2>2
<1> QED BY <1>1 DEF Issued

\* A pending launch has its place before the next step.
LEMMA PendingPlace ==
  ASSUME InOrder, next \in Nat, NEW i \in DOMAIN tasks
  PROVE  /\ PlaceOf(tasks[i].step) \in 1 .. next - 1 /\ PlaceOf(tasks[i].step) \in 1 .. 38
         /\ tasks[i].step = Program[PlaceOf(tasks[i].step)]
         /\ tasks[i].step = Step(tasks[i].step.do, tasks[i].step.on)
<1>1. PICK k \in 1 .. next - 1 : Program[k] = tasks[i].step
  BY DEF InOrder, Issued
<1>2. k \in 1 .. 38
  BY DEF InOrder
<1>3. PlaceOf(tasks[i].step) = k
  BY <1>1, <1>2, PlacesAre
<1>4. tasks[i].step \in Steps
  BY <1>1, <1>2, ProgramSteps
<1>5. tasks[i].step = Step(tasks[i].step.do, tasks[i].step.on)
  BY <1>4 DEF Steps, Step
<1> QED BY <1>1, <1>2, <1>3, <1>5

\* Whether a step of the program is pending, by its place.
LEMMA PendingIs ==
  ASSUME InOrder, next \in Nat, NEW do, NEW on, Step(do, on).do = do, Step(do, on).on = on
  PROVE  Pending(do, on) <=> \E i \in DOMAIN tasks : tasks[i].step = Step(do, on)
<1>1. \A i \in DOMAIN tasks : tasks[i].step = Step(tasks[i].step.do, tasks[i].step.on)
  BY PendingPlace
<1> QED BY <1>1 DEF Pending

\* A list without one of its elements, place by place.
LEMMA RemovedAt ==
  ASSUME NEW S, NEW s \in Seq(S), NEW i \in DOMAIN s
  PROVE  /\ RemoveAt(s, i) \in Seq(S) /\ Len(RemoveAt(s, i)) = Len(s) - 1
         /\ \A j \in 1 .. Len(s) - 1 : RemoveAt(s, i)[j] = IF j < i THEN s[j] ELSE s[j + 1]
<1> DEFINE a == SubSeq(s, 1, i - 1)
           b == SubSeq(s, i + 1, Len(s))
<1>1. /\ Len(s) \in Nat /\ DOMAIN s = 1 .. Len(s) /\ i \in 1 .. Len(s)
      /\ \A k \in 1 .. Len(s) : s[k] \in S
  OBVIOUS
<1>2. a \in Seq(S) /\ Len(a) = i - 1 /\ \A k \in 1 .. i - 1 : a[k] = s[k]
  <2>1. a = [k \in 1 .. i - 1 |-> s[k]] /\ i - 1 \in Nat
    <3>1. \A k \in 1 .. i - 1 : 1 + k - 1 = k
      BY <1>1
    <3> QED BY <1>1, <3>1
  <2>2. [k \in 1 .. i - 1 |-> s[k]] \in [1 .. i - 1 -> S]
    BY <1>1
  <2> QED BY <2>1, <2>2, OfLength
<1>3. b \in Seq(S) /\ Len(b) = Len(s) - i /\ \A k \in 1 .. Len(s) - i : b[k] = s[i + k]
  BY <1>1, SubSeqProperties
<1> HIDE DEF a, b
<1>4. RemoveAt(s, i) = a \o b
  BY DEF RemoveAt, a, b
<1>5. /\ a \o b \in Seq(S) /\ Len(a \o b) = Len(a) + Len(b)
      /\ \A j \in 1 .. Len(a) : (a \o b)[j] = a[j]
      /\ \A j \in Len(a) + 1 .. Len(a) + Len(b) : (a \o b)[j] = b[j - Len(a)]
  BY <1>2, <1>3, Joining, Zenon
<1>6. ASSUME NEW j \in 1 .. Len(s) - 1
      PROVE  (a \o b)[j] = IF j < i THEN s[j] ELSE s[j + 1]
  <2>1. CASE j < i
    BY <1>1, <1>2, <1>5, <2>1
  <2>2. CASE j >= i
    <3>1. j \in Len(a) + 1 .. Len(a) + Len(b) /\ j - Len(a) \in 1 .. Len(s) - i
          /\ i + (j - Len(a)) = j + 1
      BY <1>1, <1>2, <1>3, <2>2
    <3>2. ~(j < i)
      BY <1>1, <2>2
    <3> QED BY <1>3, <1>5, <3>1, <3>2
  <2>3. j < i \/ j >= i
    BY <1>1
  <2> QED BY <2>1, <2>2, <2>3
<1> QED BY <1>1, <1>2, <1>3, <1>4, <1>5, <1>6

\* The index values of these tables are among the arguments.
LEMMA ValuesStay ==
  ASSUME input' = input, NEW table \in Made
  PROVE  IndexValues(table)' = IndexValues(table)
<1>1. CASE table = "ps"
  BY <1>1 DEF IndexValues
<1>2. CASE table = "w"
  BY <1>2 DEF IndexValues
<1>3. CASE table \in {"ps_coords", "w_coords"}
  BY <1>3 DEF IndexValues
<1>4. CASE table = "a"
  BY <1>4 DEF IndexValues
<1> QED BY <1>1, <1>2, <1>3, <1>4 DEF Made

\* What is outstanding of a launch does not depend on the columns.
LEMMA OutstandingStays ==
  ASSUME input' = input, NEW t, Outstanding(t)
  PROVE  Outstanding(t)'
<1>1. \A table \in Made : IndexValues(table)' = IndexValues(table)
  BY ValuesStay
<1> QED BY <1>1 DEF Outstanding

\* A piece of a launch is done: the others stay, and of this one what is left.
LEMMA PieceRuns ==
  ASSUME IInv, InOrder, \A t \in ToSet(tasks) : Outstanding(t),
         NEW i \in DOMAIN tasks, NEW color \in tasks[i].left, UNCHANGED <<input, next, space>>,
         tasks' = IF tasks[i].left = {color} THEN RemoveAt(tasks, i)
                  ELSE [tasks EXCEPT ![i].left = @ \ {color}]
  PROVE  /\ InOrder' /\ \A t \in ToSet(tasks') : Outstanding(t)'
         /\ \A t \in ToSet(tasks') :
              \/ t \in ToSet(tasks) /\ t.step # tasks[i].step
              \/ /\ tasks[i].left # {color} /\ t.step = tasks[i].step
                 /\ t.partition = tasks[i].partition /\ t.left = tasks[i].left \ {color}
         /\ \A t \in ToSet(tasks) : t.step # tasks[i].step => t \in ToSet(tasks')
         /\ tasks[i].left # {color} => \E t \in ToSet(tasks') : t.step = tasks[i].step
<1>1. /\ next \in Nat \ {0} /\ tasks \in Seq(ToSet(tasks)) /\ Recorded(tasks[i])
      /\ Len(tasks) \in Nat /\ DOMAIN tasks = 1 .. Len(tasks) /\ i \in 1 .. Len(tasks)
      /\ \A k \in DOMAIN tasks : tasks[k] \in ToSet(tasks)
  <2>1. tasks \in Seq(ToSet(tasks))
    BY DEF IInv
  <2>2. \A k \in DOMAIN tasks : tasks[k] \in ToSet(tasks)
    BY DEF ToSet
  <2> QED BY <2>1, <2>2 DEF IInv
<1>2. \A k \in DOMAIN tasks : PlaceOf(tasks[k].step) \in Int
  BY <1>1, PendingPlace
<1> PICK ts : ts = tasks'
  OBVIOUS
<1>0. /\ (InOrder' <=> /\ next <= 39
                       /\ \A k \in DOMAIN ts : Issued(ts[k].step)
                       /\ \A k, m \in DOMAIN ts : k < m => PlaceOf(ts[k].step) < PlaceOf(ts[m].step))
      /\ ToSet(ts) = ToSet(tasks')
  BY DEF InOrder, Issued
<1>3. \A k, m \in DOMAIN tasks : k # m => tasks[k].step # tasks[m].step
  <2> SUFFICES ASSUME NEW k \in DOMAIN tasks, NEW m \in DOMAIN tasks, k # m,
                      tasks[k].step = tasks[m].step
               PROVE  FALSE
    OBVIOUS
  <2>1. k < m \/ m < k
    BY <1>1
  <2> QED BY <1>2, <2>1 DEF InOrder
<1>4. CASE tasks[i].left = {color}
  <2> DEFINE n == Len(tasks)
             from(j) == IF j < i THEN j ELSE j + 1
  <2>1. /\ ts \in Seq(ToSet(tasks)) /\ Len(ts) = n - 1
        /\ \A j \in 1 .. n - 1 : ts[j] = tasks[from(j)]
    <3> DEFINE r == RemoveAt(tasks, i)
    <3>1. /\ r \in Seq(ToSet(tasks)) /\ Len(r) = n - 1
          /\ \A j \in 1 .. n - 1 : r[j] = IF j < i THEN tasks[j] ELSE tasks[j + 1]
      BY <1>1, RemovedAt
    <3>2. ts = r
      BY <1>4
    <3> HIDE DEF r
    <3> QED BY <3>1, <3>2
  <2>2. DOMAIN ts = 1 .. n - 1 /\ n \in Nat
    <3>1. DOMAIN ts = 1 .. Len(ts)
      BY <2>1
    <3> QED BY <1>1, <2>1, <3>1
  <2>3. \A j \in 1 .. n - 1 : from(j) \in DOMAIN tasks /\ from(j) # i
    BY <1>1
  <2>4. \A j, k \in 1 .. n - 1 : j < k => from(j) < from(k)
    BY <1>1
  <2>5. \A k \in DOMAIN tasks : k # i => \E j \in 1 .. n - 1 : k = from(j)
    <3> SUFFICES ASSUME NEW k \in DOMAIN tasks, k # i
                 PROVE  \E j \in 1 .. n - 1 : k = from(j)
      OBVIOUS
    <3>1. CASE k < i
      <4>1. k \in 1 .. n - 1 /\ from(k) = k
        BY <1>1, <3>1
      <4> QED BY <4>1
    <3>2. CASE k > i
      <4>1. k - 1 \in 1 .. n - 1 /\ from(k - 1) = k
        BY <1>1, <3>2
      <4> QED BY <4>1
    <3> QED BY <1>1, <3>1, <3>2
  <2> HIDE DEF from, n
  <2>6. InOrder'
    <3>1. \A j \in DOMAIN ts : Issued(ts[j].step)
      BY <2>1, <2>2, <2>3 DEF InOrder
    <3>2. ASSUME NEW j \in DOMAIN ts, NEW k \in DOMAIN ts, j < k
          PROVE  PlaceOf(ts[j].step) < PlaceOf(ts[k].step)
      <4>1. /\ ts[j] = tasks[from(j)] /\ ts[k] = tasks[from(k)] /\ from(j) < from(k)
            /\ from(j) \in DOMAIN tasks /\ from(k) \in DOMAIN tasks
        BY <2>1, <2>2, <2>3, <2>4, <3>2
      <4>2. PlaceOf(tasks[from(j)].step) < PlaceOf(tasks[from(k)].step)
        BY <4>1 DEF InOrder
      <4> QED BY <4>1, <4>2
    <3> QED BY <1>0, <3>1, <3>2 DEF InOrder
  <2>7. ASSUME NEW t \in ToSet(ts) PROVE t \in ToSet(tasks) /\ t.step # tasks[i].step
    <3>1. PICK j \in DOMAIN ts : t = ts[j]
      BY DEF ToSet
    <3>2. t = tasks[from(j)] /\ from(j) \in DOMAIN tasks /\ from(j) # i
      BY <2>1, <2>2, <2>3, <3>1
    <3> QED BY <1>1, <1>3, <3>2
  <2>8. \A t \in ToSet(tasks) : t.step # tasks[i].step => t \in ToSet(ts)
    <3> SUFFICES ASSUME NEW t \in ToSet(tasks), t.step # tasks[i].step PROVE t \in ToSet(ts)
      OBVIOUS
    <3>1. PICK k \in DOMAIN tasks : t = tasks[k]
      BY DEF ToSet
    <3>2. PICK j \in 1 .. n - 1 : k = from(j)
      BY <2>5, <3>1
    <3> QED BY <2>1, <2>2, <3>1, <3>2 DEF ToSet
  <2>9. \A t \in ToSet(ts) : Outstanding(t)'
    BY <2>7, OutstandingStays
  <2> QED BY <1>0, <1>4, <2>6, <2>7, <2>8, <2>9
<1>5. CASE tasks[i].left # {color}
  <2> PICK left : left = tasks[i].left \ {color}
    OBVIOUS
  <2> PICK new : new = [tasks[i] EXCEPT !.left = left]
    OBVIOUS
  <2>1. tasks[i] = [step |-> tasks[i].step, partition |-> tasks[i].partition,
                    values |-> tasks[i].values, left |-> tasks[i].left]
    BY <1>1 DEF Recorded
  <2>2. /\ new.step = tasks[i].step /\ new.partition = tasks[i].partition
        /\ new.values = tasks[i].values /\ new.left = left
    BY <2>1
  <2>3. DOMAIN ts = DOMAIN tasks /\ \A k \in DOMAIN tasks : ts[k] = IF k = i THEN new ELSE tasks[k]
    BY <1>1, <1>5
  <2>4. \A k \in DOMAIN tasks : ts[k].step = tasks[k].step
    BY <2>2, <2>3
  <2>5. InOrder'
    BY <1>0, <2>3, <2>4 DEF InOrder
  <2>6. Outstanding(new)'
    <3>1. Outstanding(tasks[i])
      BY <1>1
    <3>2. left # {}
      BY <1>5
    <3>3. Outstanding(new)
      <4>1. left \subseteq tasks[i].left
        OBVIOUS
      <4> QED BY <2>2, <3>1, <3>2, <4>1 DEF Outstanding
    <3> QED BY <3>3, OutstandingStays
  <2>7. ASSUME NEW t \in ToSet(ts) PROVE t = new \/ (t \in ToSet(tasks) /\ t.step # tasks[i].step)
    <3>1. PICK j \in DOMAIN ts : t = ts[j]
      BY DEF ToSet
    <3> QED BY <1>1, <1>3, <2>3, <3>1
  <2>8. \A t \in ToSet(ts) : Outstanding(t)'
    BY <2>6, <2>7, OutstandingStays
  <2>9. \A t \in ToSet(tasks) : t.step # tasks[i].step => t \in ToSet(ts)
    BY <2>3 DEF ToSet
  <2>10. new \in ToSet(ts)
    BY <2>3 DEF ToSet
  <2> QED BY <1>0, <1>5, <2>2, <2>5, <2>7, <2>8, <2>9, <2>10
<1> QED BY <1>4, <1>5

\* Pending, by the set of what is pending.
LEMMA PendingAmong ==
  ASSUME InOrder, next \in Nat, NEW k \in 1 .. 38, NEW do, NEW on, Program[k] = Step(do, on)
  PROVE  Pending(do, on) <=> \E t \in ToSet(tasks) : t.step = Program[k]
<1>1. Step(do, on).do = do /\ Step(do, on).on = on
  BY DEF Step
<1> QED BY <1>1, PendingIs DEF ToSet

\* The same after a step.
LEMMA PendingNext ==
  ASSUME InOrder', (next \in Nat)', NEW k \in 1 .. 38, NEW do, NEW on, Program[k] = Step(do, on)
  PROVE  Pending(do, on)' <=> \E t \in ToSet(tasks') : t.step = Program[k]
<1>1. \A i \in DOMAIN tasks' : tasks'[i].step = Step(tasks'[i].step.do, tasks'[i].step.on)
  <2> SUFFICES ASSUME NEW i \in DOMAIN tasks'
               PROVE  tasks'[i].step = Step(tasks'[i].step.do, tasks'[i].step.on)
    OBVIOUS
  <2>1. PICK m \in 1 .. next' - 1 : Program[m] = tasks'[i].step
    BY DEF InOrder, Issued
  <2>2. m \in 1 .. 38
    <3>1. PICK n : n = next'
      OBVIOUS
    <3>2. n <= 39 /\ n \in Nat /\ m \in 1 .. n - 1
      BY <2>1, <3>1 DEF InOrder
    <3> QED BY <3>2
  <2>3. tasks'[i].step \in Steps
    BY <2>1, <2>2, ProgramSteps
  <2> QED BY <2>3 DEF Steps, Step
<1>2. Step(do, on).do = do /\ Step(do, on).on = on
  BY DEF Step
<1> QED BY <1>1, <1>2 DEF Pending, ToSet

\* What a piece that runs changes of which steps are done.
LEMMA PieceDones ==
  ASSUME IInv, InOrder, \A t \in ToSet(tasks) : Outstanding(t),
         NEW i \in DOMAIN tasks, NEW color \in tasks[i].left, UNCHANGED <<input, next, space>>,
         tasks' = IF tasks[i].left = {color} THEN RemoveAt(tasks, i)
                  ELSE [tasks EXCEPT ![i].left = @ \ {color}],
         NEW k \in 1 .. 38, NEW do, NEW on, Program[k] = Step(do, on)
  PROVE  /\ Issued(Step(do, on))' <=> Issued(Step(do, on))
         /\ tasks[i].step # Step(do, on) => (Done(do, on)' <=> Done(do, on))
         /\ tasks[i].step = Step(do, on) =>
              ~Done(do, on) /\ (Done(do, on)' <=> tasks[i].left = {color})
<1>1. /\ InOrder'
      /\ \A t \in ToSet(tasks') :
           \/ t \in ToSet(tasks) /\ t.step # tasks[i].step
           \/ tasks[i].left # {color} /\ t.step = tasks[i].step
      /\ \A t \in ToSet(tasks) : t.step # tasks[i].step => t \in ToSet(tasks')
      /\ tasks[i].left # {color} => \E t \in ToSet(tasks') : t.step = tasks[i].step
  BY PieceRuns
<1>2. next \in Nat /\ (next \in Nat)' /\ tasks[i] \in ToSet(tasks)
  BY DEF IInv, ToSet
<1>3. Issued(Step(do, on))' <=> Issued(Step(do, on))
  BY DEF Issued
<1>4. Issued(tasks[i].step)
  BY DEF InOrder
<1>5. Pending(do, on) <=> \E t \in ToSet(tasks) : t.step = Program[k]
  BY <1>2, PendingAmong
<1>6. Pending(do, on)' <=> \E t \in ToSet(tasks') : t.step = Program[k]
  BY <1>1, <1>2, PendingNext
<1>7. tasks[i].step # Step(do, on) => (Pending(do, on)' <=> Pending(do, on))
  BY <1>1, <1>5, <1>6
<1>8. tasks[i].step = Step(do, on) =>
        Pending(do, on) /\ (Pending(do, on)' <=> tasks[i].left # {color})
  BY <1>1, <1>2, <1>5, <1>6
<1> QED BY <1>3, <1>4, <1>7, <1>8 DEF Done

\* A partition by cuts has a color.
LEMMA ColorsThere ==
  ASSUME NEW lengths, Counted(lengths), NEW partition, partition.parts \in Cuts(lengths)
  PROVE  Colors(partition) # {}
<1> DEFINE parts == partition.parts
           c == [i \in DOMAIN parts |-> 0]
<1>1. ASSUME NEW i \in DOMAIN parts PROVE 0 < ColorCount(parts[i])
  <2> DEFINE n == lengths[parts[i].dim]
             s == parts[i].stride
  <2>1. /\ s \in Nat \ {0} /\ n \in Nat \ {0}
        /\ parts[i].limits[1] = 0 /\ parts[i].limits[2] = n - 1
    BY CutsParts
  <2>2. ColorCount(parts[i]) = ((n - 1) + s) \div s
    BY <2>1 DEF ColorCount
  <2> HIDE DEF n, s
  <2>3. 0 \in 0 .. n - 1
    BY <2>1
  <2>4. ((n - 1) + s) \div s \in Nat \ {0}
    BY <2>1, <2>3, BlockOf
  <2> QED BY <2>2, <2>4
<1>2. c \in [DOMAIN parts -> Nat] /\ \A i \in DOMAIN parts : c[i] < ColorCount(parts[i])
  BY <1>1
<1> HIDE DEF c
<1>3. c \in Colors(partition)
  BY <1>2, ColorsOfCuts
<1> QED BY <1>3

\* Launches of these steps are whole.
LEMMA UncutSteps ==
  ASSUME NEW step,
         step.do \in {"Create", "Coordinates", "Show", "Destroy"} \/ step = Step("Cfs", "ps")
  PROVE  PartitionOf(step) = NoPartition
<1>1. \A do, on : Step(do, on).do = do /\ Step(do, on).on = on
  BY DEF Step
<1>2. /\ step # Step("Cfs", "w") /\ step # Step("Pcs", "zmodel") /\ step # Step("Epts", "a_coords")
      /\ step # Step("Aifs", "aif") /\ step # Step("Fft", "aif") /\ step # Step("Cfs", "a")
  <2>1. CASE step.do \in {"Create", "Coordinates", "Show", "Destroy"}
    BY <1>1, <2>1
  <2>2. CASE step = Step("Cfs", "ps")
    BY <1>1, <2>2
  <2> QED BY <2>1, <2>2
<1> QED BY <1>2 DEF PartitionOf

\* Its length and what its elements are.
LEMMA ProgramLong == Len(Program) = 38 /\ \A n \in 1 .. 38 : Program[n] \in Steps
BY ProgramSteps, Zenon

\* What a launch adds.
LEMMA Launches ==
  ASSUME InputsServe, IInv, InOrder, \A t \in ToSet(tasks) : Outstanding(t),
         next <= Len(Program), input' = input, next' = next + 1,
         NEW values, Launch(values),
         \A table \in Made : Current = Step("Create", table) => values = IndexValues(table)
  PROVE  /\ InOrder' /\ \A t \in ToSet(tasks') : Outstanding(t)'
         /\ \E new : /\ ToSet(tasks') = ToSet(tasks) \cup {new}
                     /\ new.step = Program[next] /\ new.partition = PartitionOf(Program[next])
                     /\ new.left = ColorsOf(new.partition)
<1>1. /\ next \in 1 .. 38 /\ Program[next] \in Steps
  <2>1. next \in 1 .. 38
    BY ProgramLong DEF IInv
  <2> QED BY <2>1, ProgramLong
<1>2. /\ tasks \in Seq(ToSet(tasks))
      /\ Len(tasks) \in Nat /\ DOMAIN tasks = 1 .. Len(tasks)
      /\ \A k \in DOMAIN tasks : tasks[k] \in ToSet(tasks)
  <2>1. tasks \in Seq(ToSet(tasks))
    BY DEF IInv
  <2>2. \A k \in DOMAIN tasks : tasks[k] \in ToSet(tasks)
    BY DEF ToSet
  <2> QED BY <2>1, <2>2
<1>3. PICK step : step = Program[next]
  OBVIOUS
<1>4. PICK p : p = PartitionOf(step)
  OBVIOUS
<1>5. PICK new : new = [step |-> step, partition |-> p, values |-> values, left |-> ColorsOf(p)]
  OBVIOUS
<1>6. /\ new.step = step /\ new.partition = p /\ new.values = values /\ new.left = ColorsOf(p)
  BY <1>5
<1>7. PICK ts : ts = tasks'
  OBVIOUS
<1>8. ts = Append(tasks, new)
  BY <1>3, <1>4, <1>5, <1>7 DEF Launch, Current
<1>9. PICK n \in Nat : n = Len(tasks)
  BY <1>2
<1>10. /\ DOMAIN ts = 1 .. n + 1 /\ DOMAIN tasks = 1 .. n
       /\ \A k \in 1 .. n : ts[k] = tasks[k]
       /\ ts[n + 1] = new
  <2>1. Append(tasks, new) \in Seq(ToSet(tasks) \cup {new})
    BY <1>2
  <2>2. ts \in Seq(ToSet(tasks) \cup {new}) /\ Len(ts) = n + 1
    BY <1>2, <1>8, <1>9, <2>1
  <2>3. (\A k \in 1 .. n : ts[k] = tasks[k]) /\ ts[n + 1] = new
    BY <1>2, <1>8, <1>9
  <2> QED BY <1>2, <1>9, <2>2, <2>3
<1>11. InOrder'
  <2>1. PlaceOf(step) = next
    BY <1>1, <1>3, PlacesAre
  <2>2. ASSUME NEW k \in 1 .. n PROVE PlaceOf(tasks[k].step) \in 1 .. next - 1
    <3>1. k \in DOMAIN tasks /\ next \in Nat
      BY <1>1, <1>10
    <3> QED BY <3>1, PendingPlace
  <2>3. \A s : Issued(s) => Issued(s)'
    BY <1>1 DEF Issued
  <2>4. Issued(step)'
    BY <1>1, <1>3 DEF Issued
  <2>5. \A k \in DOMAIN ts : Issued(ts[k].step)'
    <3> SUFFICES ASSUME NEW k \in DOMAIN ts PROVE Issued(ts[k].step)'
      OBVIOUS
    <3>1. CASE k \in 1 .. n
      BY <1>10, <2>3, <3>1 DEF InOrder
    <3>2. CASE k = n + 1
      BY <1>6, <1>10, <2>4, <3>2
    <3> QED BY <1>10, <3>1, <3>2
  <2>6. ASSUME NEW j \in DOMAIN ts, NEW k \in DOMAIN ts, j < k
        PROVE  PlaceOf(ts[j].step) < PlaceOf(ts[k].step)
    <3>1. CASE k \in 1 .. n
      <4>1. j \in 1 .. n
        BY <1>10, <2>6, <3>1
      <4>2. PlaceOf(tasks[j].step) < PlaceOf(tasks[k].step)
        BY <1>10, <2>6, <3>1, <4>1 DEF InOrder
      <4> QED BY <1>10, <3>1, <4>1, <4>2
    <3>2. CASE k = n + 1
      <4>1. j \in 1 .. n
        BY <1>10, <2>6, <3>2
      <4>2. ts[k].step = step /\ ts[j] = tasks[j]
        BY <1>6, <1>10, <3>2, <4>1
      <4> QED BY <1>1, <2>1, <2>2, <4>1, <4>2
    <3> QED BY <1>10, <3>1, <3>2
  <2>7. next' <= 39
    BY <1>1
  <2> QED BY <1>7, <2>5, <2>6, <2>7 DEF InOrder
<1>12. ToSet(ts) = ToSet(tasks) \cup {new}
  <2>1. \A t \in ToSet(ts) : t \in ToSet(tasks) \cup {new}
    <3> SUFFICES ASSUME NEW k \in DOMAIN ts PROVE ts[k] \in ToSet(tasks) \cup {new}
      BY DEF ToSet
    <3> QED BY <1>2, <1>10
  <2>2. \A t \in ToSet(tasks) : t \in ToSet(ts)
    BY <1>10 DEF ToSet
  <2>3. new \in ToSet(ts)
    BY <1>10 DEF ToSet
  <2> QED BY <2>1, <2>2, <2>3
<1>13. Outstanding(new)'
  <2>1. ColorsOf(p) # {}
    <3>1. CASE IsValid(p)
      <4>1. PICK g \in {"w", "a"} : p.parts \in Cuts(LengthsCut[g])
        BY <1>3, <1>4, <3>1, LaunchedByCuts, Zenon
      <4>2. Counted(LengthsCut[g])
        BY LengthsCounted DEF IInv
      <4> QED BY <3>1, <4>1, <4>2, ColorsThere DEF ColorsOf
    <3>2. CASE ~IsValid(p)
      BY <3>2 DEF ColorsOf
    <3> QED BY <3>1, <3>2
  <2>2. (step.do \in {"Create", "Coordinates", "Show", "Destroy"} \/ step = Step("Cfs", "ps"))
          => p = NoPartition
    BY <1>4, UncutSteps
  <2>3. \A table \in Made : step = Step("Create", table) => values = IndexValues(table)
    BY <1>3 DEF Current
  <2>4. Outstanding(new)
    BY <1>6, <2>1, <2>2, <2>3 DEF Outstanding
  <2> QED BY <2>4, OutstandingStays
<1>14. \A t \in ToSet(tasks) \cup {new} : Outstanding(t)'
  BY <1>13, OutstandingStays
<1>15. ToSet(tasks') = ToSet(ts)
  BY <1>7
<1>16. \A t \in ToSet(tasks') : Outstanding(t)'
  BY <1>12, <1>14, <1>15
<1> QED BY <1>3, <1>4, <1>6, <1>11, <1>12, <1>15, <1>16

\* What a launch changes of which steps are done.
LEMMA LaunchDones ==
  ASSUME InputsServe, IInv, InOrder, \A t \in ToSet(tasks) : Outstanding(t),
         next <= Len(Program), input' = input, next' = next + 1,
         NEW values, Launch(values),
         \A table \in Made : Current = Step("Create", table) => values = IndexValues(table),
         NEW k \in 1 .. 38, NEW do, NEW on, Program[k] = Step(do, on)
  PROVE  /\ k # next => /\ Issued(Step(do, on))' <=> Issued(Step(do, on))
                        /\ Done(do, on)' <=> Done(do, on)
         /\ k = next => ~Issued(Step(do, on)) /\ ~Done(do, on) /\ ~Done(do, on)'
<1>1. /\ InOrder'
      /\ \E new : ToSet(tasks') = ToSet(tasks) \cup {new} /\ new.step = Program[next]
  BY Launches
<1>2. next \in Nat /\ (next \in Nat)' /\ next \in 1 .. 38 /\ next <= 39 /\ (next <= 39)'
  <2>1. next \in 1 .. 38
    BY ProgramLong DEF IInv
  <2> QED BY <2>1
<1>3. Issued(Program[k]) <=> k < next
  BY <1>2, IssuedIs
<1>4. Issued(Program[k])' <=> k < next'
  <2>1. ASSUME NEW m \in 1 .. next' - 1, Program[m] = Program[k] PROVE k < next'
    <3>1. m \in 1 .. 38
      BY <1>2
    <3>2. m = k
      BY <2>1, <3>1, PlacesAre
    <3> QED BY <3>2
  <2>2. k < next' => k \in 1 .. next' - 1
    BY <1>2
  <2> QED BY <2>1, <2>2 DEF Issued
<1>5. Pending(do, on) <=> \E t \in ToSet(tasks) : t.step = Program[k]
  BY <1>2, PendingAmong
<1>6. Pending(do, on)' <=> \E t \in ToSet(tasks') : t.step = Program[k]
  BY <1>1, <1>2, PendingNext
<1>7. CASE k # next
  <2>1. Program[k] # Program[next]
    BY <1>2, <1>7, PlacesAre
  <2>2. Pending(do, on)' <=> Pending(do, on)
    BY <1>1, <1>5, <1>6, <2>1
  <2>3. k < next' <=> k < next
    BY <1>2, <1>7
  <2> QED BY <1>3, <1>4, <1>7, <2>2, <2>3 DEF Done
<1>8. CASE k = next
  <2>1. Pending(do, on)'
    BY <1>1, <1>6, <1>8
  <2>2. ~(k < next)
    BY <1>2, <1>8
  <2> QED BY <1>3, <1>8, <2>1, <2>2 DEF Done
<1> QED BY <1>7, <1>8

\* A step is done before a later one that conflicts with all of its pieces.
LEMMA RunsAfter ==
  ASSUME IInv, InOrder, \A t \in ToSet(tasks) : Outstanding(t),
         NEW i \in DOMAIN tasks, NEW color \in tasks[i].left, Ready(i, color),
         NEW k \in 1 .. 38, NEW do, NEW on, Program[k] = Step(do, on),
         k < PlaceOf(tasks[i].step),
         NEW col \in Uses(tasks[i]),
         col \in Reads(Program[k]) \cup Writes(Program[k]),
         col \in Writes(tasks[i].step) \cup Writes(Program[k]),
         \A t \in ToSet(tasks) : t.step = Program[k] => \A other \in t.left :
           Meets(Region(tasks[i].partition, col, color), Region(t.partition, col, other))
  PROVE  Done(do, on)
<1>1. next \in Nat /\ next <= 39
  BY DEF IInv, InOrder
<1>2. PlaceOf(tasks[i].step) \in 1 .. next - 1 /\ PlaceOf(tasks[i].step) \in 1 .. 38
  BY <1>1, PendingPlace
<1>3. Issued(Step(do, on))
  <2>1. k < next
    BY <1>1, <1>2
  <2> QED BY <1>1, <2>1, IssuedIs
<1>4. ASSUME Pending(do, on) PROVE FALSE
  <2>1. PICK j \in DOMAIN tasks : tasks[j].step = Program[k]
    <3>1. Step(do, on).do = do /\ Step(do, on).on = on
      BY DEF Step
    <3> QED BY <1>1, <1>4, <3>1, PendingIs
  <2>2. PlaceOf(tasks[j].step) = k /\ tasks[j] \in ToSet(tasks)
    BY <2>1, PlacesAre DEF ToSet
  <2>3. j \in 1 .. i - 1
    <3>1. DOMAIN tasks = 1 .. Len(tasks) /\ Len(tasks) \in Nat
      <4>1. tasks \in Seq(ToSet(tasks))
        BY DEF IInv
      <4> QED BY <4>1
    <3>2. j # i
      BY <1>2, <2>2
    <3>3. ~(i < j)
      <4> SUFFICES ASSUME i < j PROVE FALSE
        OBVIOUS
      <4>1. PlaceOf(tasks[i].step) < PlaceOf(tasks[j].step)
        BY DEF InOrder
      <4> QED BY <1>2, <2>2, <4>1
    <3> QED BY <3>1, <3>2, <3>3
  <2>4. PICK other \in tasks[j].left : TRUE
    BY <2>2 DEF Outstanding
  <2>5. ~Conflict(tasks[i], color, tasks[j], other)
    BY <2>3, <2>4 DEF Ready
  <2>6. col \in Uses(tasks[i]) \cap Uses(tasks[j])
    BY <2>1 DEF Uses
  <2>7. Meets(Region(tasks[i].partition, col, color), Region(tasks[j].partition, col, other))
    BY <2>1, <2>2, <2>4
  <2> QED BY <2>1, <2>5, <2>6, <2>7 DEF Conflict
<1> QED BY <1>3, <1>4 DEF Done

-----------------------------------------------------------------------------
(***************************************************************************)
(* The rectangles of pieces.                                               *)
(***************************************************************************)

\* A side of a rectangle, and the sides within a length.
Span(lo, hi) == [lo |-> lo, hi |-> hi]

Spans(n) == {Span(lo, hi) : lo \in 0 .. n - 1, hi \in 0 .. n - 1}

\* The side of a piece on an axis of length n, as Piece has it.
Side(partition, color, axis, n) ==
  LET cuts == {i \in DOMAIN partition.parts : partition.parts[i].dim = axis}
      edge(e) == LET i == CHOOSE j \in cuts : TRUE
                     part == partition.parts[i]
                 IN part.offset + part.extent[e] + color[i] * part.stride
  IN IF cuts = {} THEN [lo |-> 0, hi |-> n - 1]
     ELSE [lo |-> IF edge(1) < 0 THEN 0 ELSE edge(1),
           hi |-> IF edge(2) < n THEN edge(2) ELSE n - 1]

\* A piece by its sides.
LEMMA PieceSides ==
  ASSUME NEW partition, NEW cs, NEW c
  PROVE  Piece(partition, cs, c) =
           [d \in DOMAIN cs.axes |-> Side(partition, c, cs.axes[d], cs.size[d])]
BY DEF Piece, Side

\* A block that an axis has begins on it.
LEMMA BlockBegins ==
  ASSUME NEW n \in Nat \ {0}, NEW s \in Nat \ {0}, NEW k \in Nat, k < ((n - 1) + s) \div s
  PROVE  k * s \in 0 .. n - 1
<1> DEFINE q == ((n - 1) + s) \div s
<1>1. q \in Nat /\ q * s <= n - 1 + s
  BY Divided
<1> HIDE DEF q
<1>2. k < q
  BY DEF q
<1>3. PICK e \in Nat : q = k + 1 + e
  BY <1>1, <1>2, q - k - 1 \in Nat
<1>4. q * s = k * s + s + e * s /\ k * s \in Nat /\ e * s \in Nat
  BY <1>3
<1> QED BY <1>1, <1>4

\* The sides of the pieces of a partition by cuts.
LEMMA SidesOfCuts ==
  ASSUME NEW lengths, Counted(lengths), NEW partition, partition.parts \in Cuts(lengths),
         NEW c \in Colors(partition), NEW axis, NEW n \in Nat \ {0},
         axis \in DOMAIN lengths => n = lengths[axis]
  PROVE  /\ Side(partition, c, axis, n) \in Spans(n)
         /\ Side(partition, c, axis, n).lo <= Side(partition, c, axis, n).hi
<1> DEFINE parts == partition.parts
           cuts == {i \in DOMAIN parts : parts[i].dim = axis}
           edge(e) == LET i == CHOOSE j \in cuts : TRUE
                      IN parts[i].offset + parts[i].extent[e] + c[i] * parts[i].stride
           r == Side(partition, c, axis, n)
<1>1. r = IF cuts = {} THEN Span(0, n - 1)
          ELSE Span(IF edge(1) < 0 THEN 0 ELSE edge(1), IF edge(2) < n THEN edge(2) ELSE n - 1)
  BY DEF Side, Span
<1>2. c \in [DOMAIN parts -> Nat] /\ \A i \in DOMAIN parts : c[i] < ColorCount(parts[i])
  BY ColorsOfCuts
<1>3. \A lo, hi : Span(lo, hi).lo = lo /\ Span(lo, hi).hi = hi
  BY DEF Span
<1>4. CASE cuts = {}
  <2>1. r = Span(0, n - 1)
    BY <1>1, <1>4
  <2> QED BY <1>3, <2>1 DEF Spans
<1>5. CASE cuts # {}
  <2>1. PICK i \in DOMAIN parts : parts[i].dim = axis
    BY <1>5
  <2>2. cuts = {i}
    BY <2>1, CutsParts
  <2>3. (CHOOSE j \in cuts : TRUE) = i
    BY <2>2
  <2>4. /\ parts[i].stride \in Nat \ {0} /\ parts[i].offset = 0
        /\ parts[i].extent[1] = 0 /\ parts[i].extent[2] = parts[i].stride - 1
        /\ parts[i].limits[1] = 0 /\ parts[i].limits[2] = n - 1
    BY <2>1, CutsParts
  <2> DEFINE s == parts[i].stride
  <2>5. c[i] * s \in 0 .. n - 1
    <3>1. ColorCount(parts[i]) = ((n - 1) + s) \div s
      BY <2>4 DEF ColorCount
    <3>2. c[i] \in Nat /\ c[i] < ((n - 1) + s) \div s
      BY <1>2, <3>1
    <3> HIDE DEF s
    <3> QED BY <2>4, <3>2, BlockBegins DEF s
  <2>6. edge(1) = c[i] * s /\ edge(2) = c[i] * s + s - 1
    <3>1. edge(1) = 0 + 0 + c[i] * s /\ edge(2) = 0 + (s - 1) + c[i] * s
      BY <2>3, <2>4
    <3>2. c[i] * s \in Int /\ s \in Int
      BY <2>4, <2>5
    <3> HIDE DEF edge, s
    <3> QED BY <3>1, <3>2
  <2>7. r = Span(IF edge(1) < 0 THEN 0 ELSE edge(1), IF edge(2) < n THEN edge(2) ELSE n - 1)
    BY <1>1, <1>5
  <2> HIDE DEF edge, r, cuts
  <2>8. \E lo, hi \in 0 .. n - 1 : r = Span(lo, hi) /\ lo <= hi
    <3> PICK first : first = c[i] * s
      OBVIOUS
    <3> PICK z : z = s
      OBVIOUS
    <3>1. first \in 0 .. n - 1 /\ z \in Nat \ {0}
      BY <2>4, <2>5
    <3> PICK lo : lo = IF edge(1) < 0 THEN 0 ELSE edge(1)
      OBVIOUS
    <3> PICK hi : hi = IF edge(2) < n THEN edge(2) ELSE n - 1
      OBVIOUS
    <3>2. edge(1) = first /\ edge(2) = first + z - 1
      BY <2>6
    <3> HIDE DEF s
    <3>3. lo \in 0 .. n - 1 /\ hi \in 0 .. n - 1 /\ lo <= hi
      BY <3>1, <3>2
    <3> QED BY <2>7, <3>3
  <2> QED BY <1>3, <2>8 DEF Spans, r
<1> QED BY <1>4, <1>5

\* The color whose piece a point is in.
LEMMA PointInPiece ==
  ASSUME NEW lengths, Counted(lengths), NEW partition, partition.parts \in Cuts(lengths),
         NEW cs, Fits(cs, lengths),
         \A d, e \in DOMAIN cs.axes : cs.axes[d] = cs.axes[e] => d = e,
         NEW p, \A d \in DOMAIN cs.axes : p[d] \in 0 .. cs.size[d] - 1
  PROVE  \E c \in Colors(partition) : InRect(p, Piece(partition, cs, c))
<1> DEFINE parts == partition.parts
           block(i) == IF Has(cs, parts[i].dim) THEN p[Dim(cs, parts[i].dim)] \div parts[i].stride
                       ELSE 0
           c == [i \in DOMAIN parts |-> block(i)]
<1>1. ASSUME NEW i \in DOMAIN parts
      PROVE  /\ block(i) \in Nat /\ block(i) < ColorCount(parts[i])
             /\ \A d \in DOMAIN cs.axes : parts[i].dim = cs.axes[d] =>
                  /\ block(i) * parts[i].stride <= p[d]
                  /\ p[d] <= block(i) * parts[i].stride + parts[i].stride - 1
                  /\ p[d] <= lengths[parts[i].dim] - 1
  <2> DEFINE n == lengths[parts[i].dim]
             s == parts[i].stride
  <2>1. /\ s \in Nat \ {0} /\ n \in Nat \ {0}
        /\ parts[i].limits[1] = 0 /\ parts[i].limits[2] = n - 1
        /\ \A d \in DOMAIN cs.axes : parts[i].dim = cs.axes[d] => cs.size[d] = n
    BY CutsParts DEF Fits
  <2>2. ColorCount(parts[i]) = ((n - 1) + s) \div s
    BY <2>1 DEF ColorCount
  <2>3. CASE Has(cs, parts[i].dim)
    <3>1. PICK d \in DOMAIN cs.axes : cs.axes[d] = parts[i].dim
      BY <2>3 DEF Has
    <3>2. Dim(cs, parts[i].dim) = d
      BY <3>1 DEF Dim
    <3>3. \A e \in DOMAIN cs.axes : parts[i].dim = cs.axes[e] => e = d
      BY <3>1
    <3> PICK x : x = p[d]
      OBVIOUS
    <3>4. x \in 0 .. n - 1
      BY <2>1, <3>1
    <3>5. block(i) = x \div s
      BY <2>3, <3>2
    <3> HIDE DEF block, n, s
    <3>6. /\ x \div s \in 0 .. (((n - 1) + s) \div s) - 1
          /\ (x \div s) * s <= x /\ x <= (x \div s) * s + s - 1
      BY <2>1, <3>4, BlockOf
    <3>7. ((n - 1) + s) \div s \in Int
      BY <2>1, <3>4, BlockOf
    <3>8. /\ block(i) \in Nat /\ block(i) < ColorCount(parts[i])
          /\ block(i) * s <= x /\ x <= block(i) * s + s - 1 /\ x <= n - 1
      BY <2>2, <3>4, <3>5, <3>6, <3>7
    <3> QED BY <3>3, <3>8 DEF n, s
  <2>4. CASE ~Has(cs, parts[i].dim)
    <3>1. block(i) = 0
      BY <2>4
    <3>2. \A d \in DOMAIN cs.axes : parts[i].dim # cs.axes[d]
      BY <2>4 DEF Has
    <3> HIDE DEF block, n, s
    <3>3. 0 < ColorCount(parts[i])
      <4>1. 0 \in 0 .. n - 1
        BY <2>1
      <4>2. ((n - 1) + s) \div s \in Nat \ {0}
        BY <2>1, <4>1, BlockOf
      <4> QED BY <2>2, <4>2
    <3> QED BY <3>1, <3>2, <3>3
  <2> QED BY <2>3, <2>4
<1>2. c \in [DOMAIN parts -> Nat] /\ \A i \in DOMAIN parts : c[i] = block(i)
  BY <1>1
<1> HIDE DEF c, block
<1>3. c \in Colors(partition)
  BY <1>1, <1>2, ColorsOfCuts
<1>4. ASSUME NEW d \in DOMAIN cs.axes
      PROVE  Piece(partition, cs, c)[d].lo <= p[d] /\ p[d] <= Piece(partition, cs, c)[d].hi
  <2>1. CASE \E i \in DOMAIN parts : parts[i].dim = cs.axes[d]
    <3>1. PICK i \in DOMAIN parts : parts[i].dim = cs.axes[d]
      BY <2>1
    <3>2. Sits(partition, cs, lengths, c, d, i)
      BY <1>3, <3>1, PieceOfCuts
    <3>3. /\ c[i] * parts[i].stride <= p[d]
          /\ p[d] <= c[i] * parts[i].stride + parts[i].stride - 1
          /\ p[d] <= lengths[parts[i].dim] - 1
      BY <1>1, <1>2, <3>1
    <3> QED BY <3>2, <3>3 DEF Sits
  <2>2. CASE \A i \in DOMAIN parts : parts[i].dim # cs.axes[d]
    <3>1. Piece(partition, cs, c)[d] = [lo |-> 0, hi |-> cs.size[d] - 1]
      BY <1>3, <2>2, PieceOfCuts
    <3>2. 0 <= p[d] /\ p[d] <= cs.size[d] - 1
      OBVIOUS
    <3> QED BY <3>1, <3>2
  <2> QED BY <2>1, <2>2
<1>5. DOMAIN Piece(partition, cs, c) = DOMAIN cs.axes
  BY DEF Piece
<1> QED BY <1>3, <1>4, <1>5 DEF InRect

\* The sides of the region that a launch has of a column, none of them empty.
LEMMA RegionSides ==
  ASSUME InputsServe, IInv, NEW t \in ToSet(tasks), NEW c \in ColorsOf(t.partition),
         NEW col \in Uses(t),
         \A d \in DOMAIN space[col].axes : space[col].size[d] \in Nat \ {0}
  PROVE  LET cs == space[col]
             r == Region(t.partition, col, c)
             side(axis, n) == IF IsValid(t.partition) THEN Side(t.partition, c, axis, n)
                              ELSE Span(0, n - 1)
         IN /\ DOMAIN r = DOMAIN cs.axes
            /\ \A d \in DOMAIN cs.axes :
                 /\ r[d] = side(cs.axes[d], cs.size[d])
                 /\ r[d] \in Spans(cs.size[d]) /\ r[d].lo <= r[d].hi
<1> PICK p : p = t.partition
  OBVIOUS
<1> PICK cs : cs = space[col]
  OBVIOUS
<1> PICK r : r = Region(p, col, c)
  OBVIOUS
<1>1. \A d \in DOMAIN cs.axes : cs.size[d] \in Nat \ {0}
  OBVIOUS
<1>2. \A lo, hi : Span(lo, hi).lo = lo /\ Span(lo, hi).hi = hi
  BY DEF Span
<1>3. CASE ~IsValid(p)
  <2>1. r = [d \in DOMAIN cs.axes |-> Span(0, cs.size[d] - 1)]
    BY <1>3 DEF Region, Whole, Span
  <2>2. ASSUME NEW d \in DOMAIN cs.axes
        PROVE  Span(0, cs.size[d] - 1) \in Spans(cs.size[d]) /\ 0 <= cs.size[d] - 1
    BY <1>1 DEF Spans
  <2> QED BY <1>2, <1>3, <2>1, <2>2
<1>4. CASE IsValid(p)
  <2>1. ByCuts(t) /\ SpacesMeasured /\ input \in Inputs
    BY DEF IInv
  <2>2. PICK g \in {"w", "a"} : p.parts \in Cuts(LengthsCut[g]) /\ col \in DOMAIN space
                                /\ col[1] \in TablesCut[g]
    BY <1>4, <2>1 DEF ByCuts
  <2> PICK lengths : lengths = LengthsCut[g]
    OBVIOUS
  <2>3. Counted(lengths) /\ Fits(cs, lengths) /\ p.parts \in Cuts(lengths)
    BY <2>1, <2>2, LengthsCounted DEF SpacesMeasured, Measured
  <2> PICK here : here = ProjectOnto(p, cs)
    OBVIOUS
  <2>4. here = [space |-> cs, parts |-> p.parts]
    <3>1. \A k \in DOMAIN p.parts : p.parts[k].stride \in Nat \ {0}
      BY <2>3, CutsParts
    <3>2. ~ \E k \in DOMAIN p.parts : p.parts[k].stride <= 0
      BY <3>1
    <3> QED BY <3>2 DEF ProjectOnto, Create
  <2>5. here.parts = p.parts
    BY <2>4
  <2>6. c \in Colors(p)
    BY <1>4 DEF ColorsOf
  <2>7. r = Piece(here, cs, c)
    BY <1>4 DEF Region
  <2>8. \A axis, n : Side(here, c, axis, n) = Side(p, c, axis, n)
    BY <2>5 DEF Side
  <2>9. r = [d \in DOMAIN cs.axes |-> Side(p, c, cs.axes[d], cs.size[d])]
    BY <2>7, <2>8, PieceSides
  <2>10. ASSUME NEW d \in DOMAIN cs.axes
         PROVE  r[d] = Side(p, c, cs.axes[d], cs.size[d])
                /\ r[d] \in Spans(cs.size[d]) /\ r[d].lo <= r[d].hi
    <3>1. cs.axes[d] \in DOMAIN lengths => cs.size[d] = lengths[cs.axes[d]]
      BY <2>3 DEF Fits
    <3> QED BY <1>1, <2>3, <2>6, <2>9, <3>1, SidesOfCuts
  <2> QED BY <1>4, <2>9, <2>10
<1> QED BY <1>3, <1>4

\* A whole column and a region of it meet.
LEMMA WholeMeets ==
  ASSUME InputsServe, IInv, NEW t \in ToSet(tasks), NEW c \in ColorsOf(t.partition),
         NEW col \in Uses(t),
         \A d \in DOMAIN space[col].axes : space[col].size[d] \in Nat \ {0},
         NEW partition, ~IsValid(partition), NEW e
  PROVE  /\ Meets(Region(t.partition, col, c), Region(partition, col, e))
         /\ Meets(Region(partition, col, e), Region(t.partition, col, c))
<1> PICK cs : cs = space[col]
  OBVIOUS
<1> PICK r : r = Region(t.partition, col, c)
  OBVIOUS
<1> PICK w : w = Region(partition, col, e)
  OBVIOUS
<1>1. /\ DOMAIN r = DOMAIN cs.axes
      /\ \A d \in DOMAIN cs.axes : r[d] \in Spans(cs.size[d]) /\ r[d].lo <= r[d].hi
  BY RegionSides
<1>2. w = [d \in DOMAIN cs.axes |-> Span(0, cs.size[d] - 1)]
  BY DEF Region, Whole, Span
<1>3. \A d \in DOMAIN cs.axes : cs.size[d] \in Nat \ {0}
  OBVIOUS
<1>4. ASSUME NEW d \in DOMAIN cs.axes
      PROVE  /\ r[d].lo \in 0 .. cs.size[d] - 1 /\ r[d].hi \in 0 .. cs.size[d] - 1
             /\ w[d].lo = 0 /\ w[d].hi = cs.size[d] - 1
  <2>1. \A lo, hi : Span(lo, hi).lo = lo /\ Span(lo, hi).hi = hi
    BY DEF Span
  <2> QED BY <1>1, <1>2, <2>1 DEF Spans
<1>5. Meets(r, w) /\ Meets(w, r)
  <2>1. DOMAIN w = DOMAIN cs.axes
    BY <1>2
  <2> QED BY <1>1, <1>3, <1>4, <2>1 DEF Meets
<1> QED BY <1>5

-----------------------------------------------------------------------------
(***************************************************************************)
(* Boxes of one and of three axes.                                         *)
(***************************************************************************)

\* The points of a box with an axis more.
Grown(list, n) == {Append(pt, x) : pt \in list, x \in 0 .. n - 1}

\* The recursion of Box, as a condition.
Unrolled(size, f) ==
  f = [d \in 0 .. Len(size) |->
         IF d = 0 THEN {<<>>} ELSE Grown(f[d - 1], size[d])]

\* The points of a box, axis by axis.
LEMMA BoxUnrolled ==
  ASSUME NEW size, NEW f, Unrolled(size, f)
  PROVE  \E g : Unrolled(size, g) /\ Box(size) = g[Len(size)]
<1> DEFINE g == CHOOSE g : Unrolled(size, g)
<1>1. Unrolled(size, g)
  OBVIOUS
<1>2. Box(size) = g[Len(size)]
  BY DEF Box, Unrolled, Grown
<1> QED BY <1>1, <1>2

\* Points of one, two and three axes.
Lists1(a) == {<<x>> : x \in 0 .. a - 1}
Lists2(a, b) == {<<x, y>> : x \in 0 .. a - 1, y \in 0 .. b - 1}
Lists3(a, b, c) == {<<x, y, z>> : x \in 0 .. a - 1, y \in 0 .. b - 1, z \in 0 .. c - 1}

\* A list with one element more.
LEMMA AppendIs ==
  ASSUME NEW S, NEW s \in Seq(S), NEW z \in S, NEW u \in Seq(S), Len(u) = Len(s) + 1,
         \A k \in 1 .. Len(s) : u[k] = s[k], u[Len(s) + 1] = z
  PROVE  Append(s, z) = u
<1> PICK t : t = Append(s, z)
  OBVIOUS
<1>1. t \in Seq(S) /\ Len(t) = Len(s) + 1 /\ t[Len(s) + 1] = z
  OBVIOUS
<1>2. \A k \in 1 .. Len(s) : t[k] = s[k]
  OBVIOUS
<1>3. \A k \in 1 .. Len(t) : t[k] = u[k]
  BY <1>1, <1>2
<1> QED BY <1>1, <1>3, SeqEqual

\* What Append makes of short lists.
LEMMA AppendLists ==
  /\ \A x : Append(<<>>, x) = <<x>>
  /\ \A x, y : Append(<<x>>, y) = <<x, y>>
  /\ \A x, y, z : Append(<<x, y>>, z) = <<x, y, z>>
<1>1. \A x : Append(<<>>, x) = <<x>>
  OBVIOUS
<1>2. ASSUME NEW x, NEW y PROVE Append(<<x>>, y) = <<x, y>>
  <2>1. <<x>> \in Seq({x, y}) /\ <<x, y>> \in Seq({x, y}) /\ y \in {x, y}
    OBVIOUS
  <2>2. /\ Len(<<x, y>>) = Len(<<x>>) + 1 /\ <<x, y>>[Len(<<x>>) + 1] = y
        /\ \A k \in 1 .. Len(<<x>>) : <<x, y>>[k] = <<x>>[k]
    OBVIOUS
  <2> QED BY <2>1, <2>2, AppendIs
<1>3. ASSUME NEW x, NEW y, NEW z PROVE Append(<<x, y>>, z) = <<x, y, z>>
  <2>1. <<x, y>> \in Seq({x, y, z}) /\ <<x, y, z>> \in Seq({x, y, z}) /\ z \in {x, y, z}
    OBVIOUS
  <2>2. /\ Len(<<x, y, z>>) = Len(<<x, y>>) + 1 /\ <<x, y, z>>[Len(<<x, y>>) + 1] = z
        /\ \A k \in 1 .. Len(<<x, y>>) : <<x, y, z>>[k] = <<x, y>>[k]
    OBVIOUS
  <2> QED BY <2>1, <2>2, AppendIs
<1> QED BY <1>1, <1>2, <1>3, Zenon

\* The points grow from one axis to the next.
LEMMA GrowLists ==
  ASSUME NEW a, NEW b, NEW c
  PROVE  /\ Grown({<<>>}, a) = Lists1(a)
         /\ Grown(Lists1(a), b) = Lists2(a, b)
         /\ Grown(Lists2(a, b), c) = Lists3(a, b, c)
<1>1. Grown({<<>>}, a) = Lists1(a)
  BY AppendLists DEF Lists1, Grown
<1>2. Grown(Lists1(a), b) = Lists2(a, b)
  <2>1. ASSUME NEW l \in Grown(Lists1(a), b) PROVE l \in Lists2(a, b)
    <3>1. PICK pt \in Lists1(a), y \in 0 .. b - 1 : l = Append(pt, y)
      BY DEF Grown
    <3>2. PICK x \in 0 .. a - 1 : pt = <<x>>
      BY DEF Lists1
    <3>3. l = <<x, y>>
      BY <3>1, <3>2, AppendLists, Zenon
    <3> QED BY <3>3 DEF Lists2
  <2>2. ASSUME NEW l \in Lists2(a, b) PROVE l \in Grown(Lists1(a), b)
    <3>1. PICK x \in 0 .. a - 1, y \in 0 .. b - 1 : l = <<x, y>>
      BY DEF Lists2
    <3>2. <<x>> \in Lists1(a)
      BY DEF Lists1
    <3>3. l = Append(<<x>>, y)
      BY <3>1, AppendLists, Zenon
    <3>4. \E pt \in Lists1(a), z \in 0 .. b - 1 : l = Append(pt, z)
      BY <3>1, <3>2, <3>3, Zenon
    <3> QED BY <3>4 DEF Grown
  <2> QED BY <2>1, <2>2, Zenon
<1>3. Grown(Lists2(a, b), c) = Lists3(a, b, c)
  <2>1. ASSUME NEW l \in Grown(Lists2(a, b), c) PROVE l \in Lists3(a, b, c)
    <3>1. PICK pt \in Lists2(a, b), z \in 0 .. c - 1 : l = Append(pt, z)
      BY DEF Grown
    <3>2. PICK x \in 0 .. a - 1, y \in 0 .. b - 1 : pt = <<x, y>>
      BY DEF Lists2
    <3>3. l = <<x, y, z>>
      BY <3>1, <3>2, AppendLists, Zenon
    <3> QED BY <3>3 DEF Lists3
  <2>2. ASSUME NEW l \in Lists3(a, b, c) PROVE l \in Grown(Lists2(a, b), c)
    <3>1. PICK x \in 0 .. a - 1, y \in 0 .. b - 1, z \in 0 .. c - 1 : l = <<x, y, z>>
      BY DEF Lists3
    <3>2. <<x, y>> \in Lists2(a, b)
      BY DEF Lists2
    <3>3. l = Append(<<x, y>>, z)
      BY <3>1, AppendLists, Zenon
    <3>4. \E pt \in Lists2(a, b), w \in 0 .. c - 1 : l = Append(pt, w)
      BY <3>1, <3>2, <3>3, Zenon
    <3> QED BY <3>4 DEF Grown
  <2> QED BY <2>1, <2>2, Zenon
<1> QED BY <1>1, <1>2, <1>3, Zenon

\* The points of a box of one axis.
LEMMA BoxOne ==
  ASSUME NEW a
  PROVE  Box(<<a>>) = Lists1(a)
<1> PICK size : size = <<a>>
  OBVIOUS
<1>1. Len(size) = 1 /\ size[1] = a
  OBVIOUS
<1> DEFINE f == [d \in 0 .. 1 |-> IF d = 0 THEN {<<>>} ELSE Lists1(a)]
           grown(g, d) == Grown(g[d - 1], size[d])
<1>2. \A g : Unrolled(size, g) <=>
               g = [d \in 0 .. 1 |-> IF d = 0 THEN {<<>>} ELSE grown(g, d)]
  BY <1>1 DEF Unrolled
<1>3. f[0] = {<<>>} /\ f[1] = Lists1(a)
  OBVIOUS
<1>4. grown(f, 1) = Lists1(a)
  <2>1. grown(f, 1) = Grown({<<>>}, a)
    BY <1>1, <1>3
  <2> QED BY <2>1, GrowLists
<1>5. Unrolled(size, f)
  <2> HIDE DEF grown
  <2>1. \A d \in 0 .. 1 : d = 0 \/ d = 1
    OBVIOUS
  <2>2. f = [d \in 0 .. 1 |-> IF d = 0 THEN {<<>>} ELSE grown(f, d)]
    BY <1>4, <2>1
  <2> QED BY <1>2, <2>2
<1>6. PICK g : Unrolled(size, g) /\ Box(size) = g[1]
  BY <1>1, <1>5, BoxUnrolled
<1>7. g[0] = {<<>>} /\ g[1] = grown(g, 1)
  <2> HIDE DEF grown
  <2> QED BY <1>2, <1>6
<1>8. grown(g, 1) = Grown({<<>>}, a)
  <2>1. grown(g, 1) = Grown(g[0], a)
    BY <1>1
  <2> QED BY <1>7, <2>1
<1> QED BY <1>6, <1>7, <1>8, GrowLists

\* The points of a box of three axes.
LEMMA BoxThree ==
  ASSUME NEW a, NEW b, NEW c
  PROVE  Box(<<a, b, c>>) = Lists3(a, b, c)
<1> PICK size : size = <<a, b, c>>
  OBVIOUS
<1>1. Len(size) = 3 /\ size[1] = a /\ size[2] = b /\ size[3] = c
  OBVIOUS
<1> DEFINE f == [d \in 0 .. 3 |-> CASE d = 0 -> {<<>>} [] d = 1 -> Lists1(a)
                                    [] d = 2 -> Lists2(a, b) [] d = 3 -> Lists3(a, b, c)]
           grown(g, d) == Grown(g[d - 1], size[d])
<1>2. \A g : Unrolled(size, g) <=>
               g = [d \in 0 .. 3 |-> IF d = 0 THEN {<<>>} ELSE grown(g, d)]
  BY <1>1 DEF Unrolled
<1>3. f[0] = {<<>>} /\ f[1] = Lists1(a) /\ f[2] = Lists2(a, b) /\ f[3] = Lists3(a, b, c)
  OBVIOUS
<1>4. /\ grown(f, 1) = Lists1(a) /\ grown(f, 2) = Lists2(a, b) /\ grown(f, 3) = Lists3(a, b, c)
  <2>1. /\ grown(f, 1) = Grown({<<>>}, a)
        /\ grown(f, 2) = Grown(Lists1(a), b)
        /\ grown(f, 3) = Grown(Lists2(a, b), c)
    <3> HIDE DEF f
    <3>1. /\ grown(f, 1) = Grown(f[0], a)
          /\ grown(f, 2) = Grown(f[1], b)
          /\ grown(f, 3) = Grown(f[2], c)
      BY <1>1
    <3> HIDE DEF grown
    <3> QED BY <1>3, <3>1
  <2> QED BY <2>1, GrowLists
<1>5. Unrolled(size, f)
  <2> HIDE DEF grown
  <2>1. \A d \in 0 .. 3 : d = 0 \/ d = 1 \/ d = 2 \/ d = 3
    OBVIOUS
  <2>2. \A d \in 0 .. 3 : f[d] = IF d = 0 THEN {<<>>} ELSE grown(f, d)
    <3> HIDE DEF f
    <3> QED BY <1>3, <1>4, <2>1
  <2>3. f = [d \in 0 .. 3 |-> f[d]]
    OBVIOUS
  <2>4. [d \in 0 .. 3 |-> f[d]] = [d \in 0 .. 3 |-> IF d = 0 THEN {<<>>} ELSE grown(f, d)]
    <3> HIDE DEF f
    <3> QED BY <2>2
  <2> HIDE DEF f
  <2> QED BY <1>2, <2>3, <2>4
<1> HIDE DEF f
<1>6. PICK g : Unrolled(size, g) /\ Box(size) = g[3]
  BY <1>1, <1>5, BoxUnrolled
<1>7. g[0] = {<<>>} /\ g[1] = grown(g, 1) /\ g[2] = grown(g, 2) /\ g[3] = grown(g, 3)
  <2> HIDE DEF grown
  <2>1. \A d \in 0 .. 3 : g[d] = IF d = 0 THEN {<<>>} ELSE grown(g, d)
    BY <1>2, <1>6
  <2> QED BY <2>1
<1>8. /\ grown(g, 1) = Grown(g[0], a)
      /\ grown(g, 2) = Grown(g[1], b)
      /\ grown(g, 3) = Grown(g[2], c)
  BY <1>1
<1> HIDE DEF grown
<1>9. g[1] = Lists1(a)
  BY <1>7, <1>8, GrowLists
<1>10. g[2] = Lists2(a, b)
  BY <1>7, <1>8, <1>9, GrowLists
<1>11. g[3] = Lists3(a, b, c)
  BY <1>7, <1>8, <1>10, GrowLists
<1> QED BY <1>6, <1>11

-----------------------------------------------------------------------------
(***************************************************************************)
(* The ColumnSpaces of the tables of the terms.                            *)
(***************************************************************************)

\* The axis of a term.
AxisOf(T) == IF T = "ps" THEN "PS_SCALE" ELSE "W"

\* A pair put behind one element.
LEMMA PairAdded ==
  ASSUME NEW x, NEW y, NEW z
  PROVE  <<x>> \o <<y, z>> = <<x, y, z>>
<1> PICK S : S = {x, y, z}
  OBVIOUS
<1>1. <<x>> \in Seq(S) /\ <<y, z>> \in Seq(S) /\ <<x, y, z>> \in Seq(S)
  OBVIOUS
<1> PICK r, p, u : r = <<x>> /\ p = <<y, z>> /\ u = <<x, y, z>>
  OBVIOUS
<1>2. /\ Len(r) = 1 /\ r[1] = x /\ Len(p) = 2 /\ p[1] = y /\ p[2] = z
      /\ Len(u) = 3 /\ u[1] = x /\ u[2] = y /\ u[3] = z
      /\ r \in Seq(S) /\ p \in Seq(S) /\ u \in Seq(S)
  BY <1>1
<1> PICK s : s = r \o p
  OBVIOUS
<1>3. /\ s \in Seq(S) /\ Len(s) = Len(r) + Len(p)
      /\ \A i \in 1 .. Len(r) : s[i] = r[i]
      /\ \A i \in Len(r) + 1 .. Len(r) + Len(p) : s[i] = p[i - Len(r)]
  BY <1>2, Joining
<1>4. Len(s) = 3 /\ s[1] = x /\ s[2] = y /\ s[3] = z
  BY <1>2, <1>3
<1>5. \A k \in 1 .. 3 : s[k] = u[k]
  BY <1>2, <1>4
<1>6. s = u
  BY <1>2, <1>3, <1>4, <1>5, SeqEqual
<1> QED BY <1>6, Zenon

\* The ColumnSpace of the values of a table with one index column.
LEMMA SpaceOfOneAxis ==
  ASSUME NEW table, NEW axis, AxesOf[table] = <<axis>>, NEW length, NEW g
  PROVE  ValueSpace(table, length, g) =
           [id |-> table, axes |-> <<axis, "X", "Y">>, size |-> <<length[axis], g, g>>]
<1>1. AxesOf[table] \o <<"X", "Y">> = <<axis, "X", "Y">>
  BY PairAdded
<1> DEFINE sizes == [i \in DOMAIN AxesOf[table] |-> length[AxesOf[table][i]]]
<1>2. sizes = <<length[axis]>>
  OBVIOUS
<1>3. sizes \o <<g, g>> = <<length[axis], g, g>>
  <2> HIDE DEF sizes
  <2> QED BY <1>2, PairAdded
<1> QED BY <1>1, <1>3 DEF ValueSpace

\* The names of the columns are apart.
LEMMA TermColumns ==
  ASSUME NEW T \in Followed
  PROVE  /\ CoordsOf(T) \in Made /\ T \in Made /\ CoordsOf(T) # T
         /\ AxesOf[CoordsOf(T)] = <<"PARALLACTIC_ANGLE">> /\ AxesOf[T] = <<AxisOf(T)>>
         /\ IndexColumns(CoordsOf(T)) = {AngleOf(T)} /\ IndexColumns(T) = {IndexOf(T)}
         /\ ColumnsOf(CoordsOf(T)) = {AngleOf(T), GridOf(T), Value(CoordsOf(T))}
         /\ ColumnsOf(T) = {IndexOf(T), Value(T)}
         /\ GridSize(CoordsOf(T)) = GridSize(T)
         /\ IndexValues(CoordsOf(T)) = [PARALLACTIC_ANGLE |-> <<0>>]
         /\ DOMAIN IndexValues(T) = {AxisOf(T)} /\ IndexValues(T)[AxisOf(T)] = Given(T)
<1>1. \A table, axis : AxesOf[table] = <<axis>> => IndexColumns(table) = {<<table, axis>>}
  BY DEF IndexColumns
<1>2. CASE T = "ps"
  <2>1. AxesOf["ps_coords"] = <<"PARALLACTIC_ANGLE">> /\ AxesOf["ps"] = <<"PS_SCALE">>
    BY DEF AxesOf
  <2>2. IndexColumns("ps_coords") = {AngleOf(T)} /\ IndexColumns(T) = {IndexOf(T)}
    BY <1>1, <1>2, <2>1 DEF AngleOf, IndexOf, CoordsOf
  <2>3. ColumnsOf("ps_coords") = {AngleOf(T), GridOf(T), Value(CoordsOf(T))}
    BY <1>2, <2>2 DEF ColumnsOf, CoordsOf, GridOf
  <2>4. ColumnsOf("ps") = {IndexOf(T), Value(T)}
    BY <1>2, <2>2 DEF ColumnsOf
  <2>5. GridSize(CoordsOf(T)) = GridSize(T)
    BY <1>2 DEF GridSize, CoordsOf
  <2>6. /\ IndexValues(CoordsOf(T)) = [PARALLACTIC_ANGLE |-> <<0>>]
        /\ IndexValues(T) = [PS_SCALE |-> input.scales]
    BY <1>2 DEF IndexValues, CoordsOf
  <2> QED BY <1>2, <2>1, <2>2, <2>3, <2>4, <2>5, <2>6 DEF CoordsOf, Made, AxisOf, Given
<1>3. CASE T = "w"
  <2>1. AxesOf["w_coords"] = <<"PARALLACTIC_ANGLE">> /\ AxesOf["w"] = <<"W">>
    BY DEF AxesOf
  <2>2. IndexColumns("w_coords") = {AngleOf(T)} /\ IndexColumns(T) = {IndexOf(T)}
    BY <1>1, <1>3, <2>1 DEF AngleOf, IndexOf, CoordsOf
  <2>3. ColumnsOf("w_coords") = {AngleOf(T), GridOf(T), Value(CoordsOf(T))}
    BY <1>3, <2>2 DEF ColumnsOf, CoordsOf, GridOf
  <2>4. ColumnsOf("w") = {IndexOf(T), Value(T)}
    BY <1>3, <2>2 DEF ColumnsOf
  <2>5. GridSize(CoordsOf(T)) = GridSize(T)
    BY <1>3 DEF GridSize, CoordsOf
  <2>6. /\ IndexValues(CoordsOf(T)) = [PARALLACTIC_ANGLE |-> <<0>>]
        /\ IndexValues(T) = [W |-> input.ws]
    BY <1>3 DEF IndexValues, CoordsOf
  <2> QED BY <1>3, <2>1, <2>2, <2>3, <2>4, <2>5, <2>6 DEF CoordsOf, Made, AxisOf, Given
<1> QED BY <1>2, <1>3 DEF Followed

\* A column with these axes of these sizes.
SpaceIs(col, axes, size) == space[col].axes = axes /\ space[col].size = size

\* The ColumnSpaces of the columns of a term.
LEMMA TermSpaces ==
  ASSUME SpacesGiven, NEW T \in Followed
  PROVE  LET g == GridSize(T)
         IN /\ Value(T) \in DOMAIN space =>
                 SpaceIs(Value(T), <<AxisOf(T), "X", "Y">>, <<Len(Given(T)), g, g>>)
            /\ IndexOf(T) \in DOMAIN space =>
                 SpaceIs(IndexOf(T), <<AxisOf(T)>>, <<Len(Given(T))>>)
            /\ GridOf(T) \in DOMAIN space =>
                 SpaceIs(GridOf(T), <<"PARALLACTIC_ANGLE", "X", "Y">>, <<1, g, g>>)
            /\ AngleOf(T) \in DOMAIN space =>
                 SpaceIs(AngleOf(T), <<"PARALLACTIC_ANGLE">>, <<1>>)
<1> PICK g : g = GridSize(T)
  OBVIOUS
<1> PICK coords : coords = CoordsOf(T)
  OBVIOUS
<1> PICK axis : axis = AxisOf(T)
  OBVIOUS
<1> PICK given : given = Given(T)
  OBVIOUS
<1>1. /\ coords \in Made /\ T \in Made /\ AxesOf[coords] = <<"PARALLACTIC_ANGLE">>
      /\ AxesOf[T] = <<axis>> /\ GridSize(coords) = g
      /\ ColumnsOf(coords) = {AngleOf(T), GridOf(T), Value(coords)}
      /\ ColumnsOf(T) = {IndexOf(T), Value(T)}
      /\ IndexValues(coords) = [PARALLACTIC_ANGLE |-> <<0>>]
      /\ DOMAIN IndexValues(T) = {axis} /\ IndexValues(T)[axis] = given
  BY TermColumns
<1>2. /\ AngleOf(T) = <<coords, "PARALLACTIC_ANGLE">> /\ GridOf(T) = <<coords, "COORD">>
      /\ IndexOf(T) = <<T, axis>> /\ Value(T) = <<T, "VALUE">>
      /\ axis \notin {"VALUE", "COORD", "EPT", "ZC", "PC"}
  BY DEF AngleOf, GridOf, IndexOf, AxisOf, Value
<1>3. \A col \in DOMAIN space : col[1] \in Made => space[col] = SpacesOf(col[1], IndexValues(col[1]))[col]
  BY DEF SpacesGiven
<1> DEFINE all(table, values) ==
             ValueSpace(table, [a \in DOMAIN values |-> Len(values[a])], GridSize(table))
<1>5. /\ SpacesOf(T, IndexValues(T))[Value(T)] = all(T, IndexValues(T))
      /\ SpacesOf(T, IndexValues(T))[IndexOf(T)] = IndexSpace(axis, Len(IndexValues(T)[axis]))
      /\ SpacesOf(coords, IndexValues(coords))[GridOf(T)] = all(coords, IndexValues(coords))
      /\ SpacesOf(coords, IndexValues(coords))[AngleOf(T)] =
           IndexSpace("PARALLACTIC_ANGLE", Len(IndexValues(coords)["PARALLACTIC_ANGLE"]))
  <2> PICK values, held : values = IndexValues(T) /\ held = IndexValues(coords)
    OBVIOUS
  <2>1. /\ Value(T) \in ColumnsOf(T) /\ Value(T)[2] = "VALUE"
        /\ IndexOf(T) \in ColumnsOf(T) /\ IndexOf(T)[2] = axis
        /\ GridOf(T) \in ColumnsOf(coords) /\ GridOf(T)[2] = "COORD"
        /\ AngleOf(T) \in ColumnsOf(coords) /\ AngleOf(T)[2] = "PARALLACTIC_ANGLE"
    BY <1>1, <1>2
  <2>2. \A table, vs : \A col \in ColumnsOf(table) :
          /\ col[2] \in {"VALUE", "COORD"} => SpacesOf(table, vs)[col] = all(table, vs)
          /\ col[2] \notin {"VALUE", "COORD", "EPT", "ZC", "PC"} =>
               SpacesOf(table, vs)[col] = IndexSpace(col[2], Len(vs[col[2]]))
    BY DEF SpacesOf
  <2> HIDE DEF all
  <2>3. /\ SpacesOf(T, values)[Value(T)] = all(T, values)
        /\ SpacesOf(T, values)[IndexOf(T)] = IndexSpace(axis, Len(values[axis]))
    BY <1>2, <2>1, <2>2
  <2>4. /\ SpacesOf(coords, held)[GridOf(T)] = all(coords, held)
        /\ SpacesOf(coords, held)[AngleOf(T)] =
             IndexSpace("PARALLACTIC_ANGLE", Len(held["PARALLACTIC_ANGLE"]))
    BY <2>1, <2>2
  <2> QED BY <2>3, <2>4
<1>6. /\ all(T, IndexValues(T)) =
           [id |-> T, axes |-> <<axis, "X", "Y">>, size |-> <<Len(given), g, g>>]
      /\ all(coords, IndexValues(coords)) =
           [id |-> coords, axes |-> <<"PARALLACTIC_ANGLE", "X", "Y">>, size |-> <<1, g, g>>]
  <2> DEFINE length(values) == [a \in DOMAIN values |-> Len(values[a])]
  <2>1. length(IndexValues(T))[axis] = Len(given)
    BY <1>1
  <2>2. length(IndexValues(coords))["PARALLACTIC_ANGLE"] = 1
    BY <1>1
  <2> HIDE DEF length
  <2>3. all(T, IndexValues(T)) = [id |-> T, axes |-> <<axis, "X", "Y">>,
                                  size |-> <<length(IndexValues(T))[axis], g, g>>]
    BY <1>1, SpaceOfOneAxis DEF length
  <2>4. all(coords, IndexValues(coords)) =
          [id |-> coords, axes |-> <<"PARALLACTIC_ANGLE", "X", "Y">>,
           size |-> <<length(IndexValues(coords))["PARALLACTIC_ANGLE"], g, g>>]
    BY <1>1, SpaceOfOneAxis DEF length
  <2> QED BY <2>1, <2>2, <2>3, <2>4
<1>7. /\ IndexSpace(axis, Len(IndexValues(T)[axis])) =
           [id |-> axis, axes |-> <<axis>>, size |-> <<Len(given)>>]
      /\ IndexSpace("PARALLACTIC_ANGLE", Len(IndexValues(coords)["PARALLACTIC_ANGLE"])) =
           [id |-> "PARALLACTIC_ANGLE", axes |-> <<"PARALLACTIC_ANGLE">>, size |-> <<1>>]
  BY <1>1 DEF IndexSpace
<1> HIDE DEF all
<1>8. Value(T) \in DOMAIN space => SpaceIs(Value(T), <<axis, "X", "Y">>, <<Len(given), g, g>>)
  <2>1. Value(T)[1] = T
    BY <1>2
  <2> QED BY <1>1, <1>3, <1>5, <1>6, <2>1 DEF SpaceIs
<1>9. IndexOf(T) \in DOMAIN space => SpaceIs(IndexOf(T), <<axis>>, <<Len(given)>>)
  <2>1. IndexOf(T)[1] = T
    BY <1>2
  <2> QED BY <1>1, <1>3, <1>5, <1>7, <2>1 DEF SpaceIs
<1>10. GridOf(T) \in DOMAIN space =>
         SpaceIs(GridOf(T), <<"PARALLACTIC_ANGLE", "X", "Y">>, <<1, g, g>>)
  <2>1. GridOf(T)[1] = coords
    BY <1>2
  <2> QED BY <1>1, <1>3, <1>5, <1>6, <2>1 DEF SpaceIs
<1>11. AngleOf(T) \in DOMAIN space => SpaceIs(AngleOf(T), <<"PARALLACTIC_ANGLE">>, <<1>>)
  <2>1. AngleOf(T)[1] = coords
    BY <1>2
  <2> QED BY <1>1, <1>3, <1>5, <1>7, <2>1 DEF SpaceIs
<1> QED BY <1>8, <1>9, <1>10, <1>11

\* Lists of one and of three elements.
LEMMA ListOfOne ==
  ASSUME NEW S, NEW f \in [1 .. 1 -> S]
  PROVE  f = <<f[1]>>
OBVIOUS

\* A function of three places is a list.
LEMMA ThreeListed ==
  ASSUME NEW S, NEW f \in [1 .. 3 -> S]
  PROVE  f \in Seq(S) /\ Len(f) = 3
<1>1. PICK n \in Nat : n = 3
  OBVIOUS
<1>2. f \in [1 .. n -> S]
  BY <1>1
<1>3. f \in Seq(S) /\ Len(f) = n
  BY <1>2, OfLength
<1> QED BY <1>1, <1>3

\* The list by its elements.
LEMMA ListOfThree ==
  ASSUME NEW S, NEW f \in [1 .. 3 -> S]
  PROVE  f = <<f[1], f[2], f[3]>>
<1>1. f \in Seq(S) /\ Len(f) = 3
  BY ThreeListed
<1> PICK u : u = <<f[1], f[2], f[3]>>
  OBVIOUS
<1>2. f[1] \in S /\ f[2] \in S /\ f[3] \in S
  OBVIOUS
<1>3. u \in Seq(S) /\ Len(u) = 3 /\ u[1] = f[1] /\ u[2] = f[2] /\ u[3] = f[3]
  BY <1>2
<1>4. \A k \in 1 .. 3 : f[k] = u[k]
  BY <1>3
<1>5. f = u
  BY <1>1, <1>3, <1>4, SeqEqual
<1> QED BY <1>5, Zenon

\* The sizes of a rectangle of one and of three axes.
LEMMA Sizes ==
  ASSUME NEW r
  PROVE  /\ DOMAIN r = 1 .. 1 => Size(r) = <<r[1].hi - r[1].lo + 1>>
         /\ DOMAIN r = 1 .. 3 =>
              Size(r) = <<r[1].hi - r[1].lo + 1, r[2].hi - r[2].lo + 1, r[3].hi - r[3].lo + 1>>
<1> DEFINE S == {r[d].hi - r[d].lo + 1 : d \in DOMAIN r}
           f == Size(r)
<1>1. f \in [DOMAIN r -> S] /\ \A d \in DOMAIN r : f[d] = r[d].hi - r[d].lo + 1
  BY DEF Size
<1> HIDE DEF f, S
<1>2. DOMAIN r = 1 .. 1 => f = <<f[1]>>
  BY <1>1, ListOfOne
<1>3. DOMAIN r = 1 .. 3 => f = <<f[1], f[2], f[3]>>
  BY <1>1, ListOfThree
<1> QED BY <1>1, <1>2, <1>3 DEF f

\* Where a place in such a rectangle is in the column.
LEMMA Globals ==
  ASSUME NEW r, NEW l
  PROVE  /\ DOMAIN r = 1 .. 1 => Global(r, l) = <<r[1].lo + l[1]>>
         /\ DOMAIN r = 1 .. 3 =>
              Global(r, l) = <<r[1].lo + l[1], r[2].lo + l[2], r[3].lo + l[3]>>
<1> DEFINE S == {r[d].lo + l[d] : d \in DOMAIN r}
           f == Global(r, l)
<1>1. f \in [DOMAIN r -> S] /\ \A d \in DOMAIN r : f[d] = r[d].lo + l[d]
  BY DEF Global
<1> HIDE DEF f, S
<1>2. DOMAIN r = 1 .. 1 => f = <<f[1]>>
  BY <1>1, ListOfOne
<1>3. DOMAIN r = 1 .. 3 => f = <<f[1], f[2], f[3]>>
  BY <1>1, ListOfThree
<1> QED BY <1>1, <1>2, <1>3 DEF f

\* What is stored is there, and nothing else is changed.
Holds(column, pt, writes) ==
  pt \in DOMAIN column /\ \E wr \in writes : wr[1] = pt /\ column[pt] = wr[2]

\* What a column holds after writes to it.
LEMMA Stored ==
  ASSUME NEW column, NEW writes, NEW new, new = Store(column, writes)
  PROVE  /\ \A pt \in DOMAIN column : pt \in DOMAIN new
         /\ \A pt \in DOMAIN new :
              Holds(new, pt, writes) \/ (pt \in DOMAIN column /\ new[pt] = column[pt])
         /\ \A wr \in writes : Holds(new, wr[1], writes)
<1> DEFINE written == {wr[1] : wr \in writes}
<1>1. new = [pt \in DOMAIN column \cup written |->
               IF pt \in written THEN (CHOOSE wr \in writes : wr[1] = pt)[2] ELSE column[pt]]
  BY DEF Store
<1>2. ASSUME NEW pt \in written
      PROVE  \E other \in writes : other[1] = pt /\ new[pt] = other[2]
  <2>1. \E wr \in writes : wr[1] = pt
    OBVIOUS
  <2>2. PICK other : other = CHOOSE wr \in writes : wr[1] = pt
    OBVIOUS
  <2>3. other \in writes /\ other[1] = pt
    BY <2>1, <2>2
  <2>4. new[pt] = other[2]
    BY <1>1, <2>2
  <2> QED BY <2>3, <2>4
<1>3. \A pt \in DOMAIN column : pt \notin written => new[pt] = column[pt]
  BY <1>1
<1>4. DOMAIN new = DOMAIN column \cup written
  BY <1>1
<1>5. \A wr \in writes : wr[1] \in written
  OBVIOUS
<1> HIDE DEF written
<1>6. \A pt \in written : Holds(new, pt, writes)
  BY <1>2, <1>4 DEF Holds
<1> QED BY <1>3, <1>4, <1>5, <1>6

\* A read within a region.
LEMMA ReadThere ==
  ASSUME NEW column, NEW r, NEW l, DOMAIN r \in {1 .. 1, 1 .. 3}, Global(r, l) \in DOMAIN column,
         \A d \in DOMAIN r : r[d].lo \in Int /\ r[d].hi \in Int /\ l[d] \in 0 .. r[d].hi - r[d].lo
  PROVE  Read(column, r, l) = column[Global(r, l)]
<1>1. DOMAIN Size(r) = DOMAIN r /\ \A d \in DOMAIN r : Size(r)[d] = r[d].hi - r[d].lo + 1
  BY DEF Size
<1>2. InSize(l, Size(r))
  BY <1>1 DEF InSize
<1> QED BY <1>2 DEF Read

\* What is read is what is there, or nothing was.
LEMMA ReadsOf ==
  ASSUME NEW column, NEW r, NEW l
  PROVE  Read(column, r, l) = Garbage \/ \E pt \in DOMAIN column : Read(column, r, l) = column[pt]
BY DEF Read

-----------------------------------------------------------------------------
(***************************************************************************)
(* The steps of a term, and what the task that computes it reads and       *)
(* writes.                                                                 *)
(***************************************************************************)

\* What a term is given is counted.
LEMMA GivenCounted ==
  ASSUME InputsServe, input \in Inputs, NEW T \in Followed
  PROVE  /\ Given(T) \in Seq(Int) /\ Len(Given(T)) \in Nat \ {0} /\ GridSize(T) \in Nat \ {0}
         /\ \A k \in 0 .. Len(Given(T)) - 1 : Given(T)[k + 1] \in Int
<1>1. \A list \in {input.scales, input.ws} : list \in Seq(Int) /\ list # <<>>
  BY DEF InputsServe
<1>2. input.grid["w"] \in Nat \ {0} /\ input.grid["ps"] \in Nat \ {0}
  BY DEF InputsServe
<1>3. Given(T) \in Seq(Int) /\ Given(T) # <<>>
  BY <1>1 DEF Given, Followed
<1>4. GridSize(T) \in Nat \ {0}
  <2>1. T = "ps" => GridSize(T) = input.grid.ps
    BY DEF GridSize
  <2>2. T = "w" => GridSize(T) = input.grid.w
    BY DEF GridSize
  <2> QED BY <1>2, <2>1, <2>2 DEF Followed
<1> QED BY <1>3, <1>4

\* What was issued before a step that was.
LEMMA IssuedBefore ==
  ASSUME next \in Nat, next <= 39, NEW k \in 1 .. 38, NEW m \in 1 .. 38, k <= m,
         Issued(Program[m])
  PROVE  Issued(Program[k])
<1>1. m < next
  BY IssuedIs
<1>2. k < next
  BY <1>1
<1> QED BY <1>2, IssuedIs

\* The columns of what was created have their ColumnSpaces.
LEMMA ColumnsMade ==
  ASSUME IInv, NEW table, Issued(Step("Create", table))
  PROVE  ColumnsOf(table) \subseteq DOMAIN space
<1>1. PICK k \in 1 .. next - 1 : Program[k] = Step("Create", table)
  BY DEF Issued
<1>2. Program[k].do = "Create" /\ Program[k].on = table
  BY <1>1 DEF Step
<1> QED BY <1>2 DEF IInv, SpacesStay

\* The steps of a term, and their order in the program.
OfTerm(T) ==
  {Step("Create", CoordsOf(T)), Step("Coordinates", CoordsOf(T)), Step("Create", T),
   Step("Cfs", T), Step("Show", TitleOf(T)), Step("Destroy", CoordsOf(T)), Step("Destroy", T)}

\* They have places in the program, in this order.
LEMMA StepsOfTerm ==
  ASSUME NEW T \in Followed
  PROVE  /\ \A s \in OfTerm(T) :
              PlaceOf(s) \in 1 .. 38 /\ Program[PlaceOf(s)] = s /\ s = Step(s.do, s.on)
         /\ PlaceOf(Step("Create", CoordsOf(T))) < PlaceOf(Step("Coordinates", CoordsOf(T)))
         /\ PlaceOf(Step("Coordinates", CoordsOf(T))) < PlaceOf(Step("Create", T))
         /\ PlaceOf(Step("Create", T)) < PlaceOf(Step("Cfs", T))
         /\ PlaceOf(Step("Cfs", T)) < PlaceOf(Step("Show", TitleOf(T)))
         /\ PlaceOf(Step("Show", TitleOf(T))) < PlaceOf(Step("Destroy", CoordsOf(T)))
         /\ PlaceOf(Step("Destroy", CoordsOf(T))) < PlaceOf(Step("Destroy", T))
<1>1. /\ Program[1] = Step("Create", "ps_coords")
      /\ Program[2] = Step("Coordinates", "ps_coords")
      /\ Program[3] = Step("Create", "ps")
      /\ Program[4] = Step("Cfs", "ps")
      /\ Program[5] = Step("Show", "PSTerm")
      /\ Program[6] = Step("Destroy", "ps_coords")
      /\ Program[7] = Step("Create", "w_coords")
      /\ Program[8] = Step("Coordinates", "w_coords")
      /\ Program[9] = Step("Create", "w")
      /\ Program[10] = Step("Cfs", "w")
      /\ Program[11] = Step("Show", "WTerm")
      /\ Program[12] = Step("Destroy", "w_coords")
      /\ Program[35] = Step("Destroy", "ps")
      /\ Program[36] = Step("Destroy", "w")
  BY ProgramSteps, Zenon
<1>4. \A s \in OfTerm(T) : s = Step(s.do, s.on)
  BY DEF OfTerm, Step
<1>2. CASE T = "ps"
  <2>1. /\ PlaceOf(Step("Create", "ps_coords")) = 1 /\ PlaceOf(Step("Coordinates", "ps_coords")) = 2
        /\ PlaceOf(Step("Create", "ps")) = 3 /\ PlaceOf(Step("Cfs", "ps")) = 4
        /\ PlaceOf(Step("Show", "PSTerm")) = 5 /\ PlaceOf(Step("Destroy", "ps_coords")) = 6
        /\ PlaceOf(Step("Destroy", "ps")) = 35
    BY <1>1, PlacesAre
  <2>2. CoordsOf(T) = "ps_coords" /\ TitleOf(T) = "PSTerm"
    BY <1>2 DEF CoordsOf, TitleOf
  <2>3. \A s \in OfTerm(T) : PlaceOf(s) \in 1 .. 38 /\ Program[PlaceOf(s)] = s
    BY <1>1, <1>2, <2>1, <2>2 DEF OfTerm
  <2> QED BY <1>2, <1>4, <2>1, <2>2, <2>3
<1>3. CASE T = "w"
  <2>1. /\ PlaceOf(Step("Create", "w_coords")) = 7 /\ PlaceOf(Step("Coordinates", "w_coords")) = 8
        /\ PlaceOf(Step("Create", "w")) = 9 /\ PlaceOf(Step("Cfs", "w")) = 10
        /\ PlaceOf(Step("Show", "WTerm")) = 11 /\ PlaceOf(Step("Destroy", "w_coords")) = 12
        /\ PlaceOf(Step("Destroy", "w")) = 36
    BY <1>1, PlacesAre
  <2>2. CoordsOf(T) = "w_coords" /\ TitleOf(T) = "WTerm"
    BY <1>3 DEF CoordsOf, TitleOf
  <2>3. \A s \in OfTerm(T) : PlaceOf(s) \in 1 .. 38 /\ Program[PlaceOf(s)] = s
    BY <1>1, <1>3, <2>1, <2>2 DEF OfTerm
  <2> QED BY <1>3, <1>4, <2>1, <2>2, <2>3
<1> QED BY <1>2, <1>3 DEF Followed

\* What the step that computes a term uses.
LEMMA CfsUses ==
  ASSUME NEW T \in Followed
  PROVE  /\ Reads(Step("Cfs", T)) = {GridOf(T), IndexOf(T)}
         /\ Writes(Step("Cfs", T)) = {Value(T)}
<1>1. IndexColumns(T) = {IndexOf(T)}
  BY TermColumns
<1>2. Step("Cfs", T).do = "Cfs" /\ Step("Cfs", T).on = T
  BY DEF Step
<1>3. Writes(Step("Cfs", T)) = {Value(T)}
  BY <1>2 DEF Writes
<1>4. CASE T = "ps"
  BY <1>1, <1>2, <1>3, <1>4 DEF Reads, GridOf, CoordsOf
<1>5. CASE T = "w"
  BY <1>1, <1>2, <1>3, <1>5 DEF Reads, GridOf, CoordsOf
<1> QED BY <1>4, <1>5 DEF Followed

\* The regions that a piece of a term has: the same sides of the term, of its
\* index values and of the grid.
SidesShared(T, v, x, g) ==
  /\ DOMAIN v = 1 .. 3 /\ DOMAIN x = 1 .. 1 /\ DOMAIN g = 1 .. 3
  /\ v[1] \in Spans(Len(Given(T))) /\ v[2] \in Spans(GridSize(T)) /\ v[3] \in Spans(GridSize(T))
  /\ \A d \in 1 .. 3 : v[d].lo <= v[d].hi
  /\ x[1] = v[1] /\ g[1] = Span(0, 0) /\ g[2] = v[2] /\ g[3] = v[3]
  /\ T = "ps" => \A d \in 1 .. 3 : v[d].lo = 0

\* The regions of the piece that computes a term: its share of the index values,
\* its share of the grid, and the same share of the term.
LEMMA TermRegions ==
  ASSUME InputsServe, IInv, InOrder, SpacesGiven, NEW T \in Followed,
         NEW t \in ToSet(tasks), Outstanding(t), t.step = Step("Cfs", T),
         NEW c \in ColorsOf(t.partition)
  PROVE  SidesShared(T, Region(t.partition, Value(T), c), Region(t.partition, IndexOf(T), c),
                     Region(t.partition, GridOf(T), c))
<1> PICK N, n, axis : N = Len(Given(T)) /\ n = GridSize(T) /\ axis = AxisOf(T)
  OBVIOUS
<1>1. N \in Nat \ {0} /\ n \in Nat \ {0}
  BY GivenCounted DEF IInv
<1>2. {GridOf(T), IndexOf(T), Value(T)} \subseteq Uses(t)
  BY CfsUses DEF Uses
<1>3. {GridOf(T), IndexOf(T), Value(T)} \subseteq DOMAIN space
  <2>1. next \in Nat /\ next <= 39 /\ Issued(Step("Cfs", T))
    BY DEF IInv, InOrder, ToSet
  <2>2. Issued(Step("Create", CoordsOf(T))) /\ Issued(Step("Create", T))
    <3>1. /\ Step("Create", CoordsOf(T)) \in OfTerm(T) /\ Step("Coordinates", CoordsOf(T)) \in OfTerm(T)
          /\ Step("Create", T) \in OfTerm(T) /\ Step("Cfs", T) \in OfTerm(T)
      BY DEF OfTerm
    <3> PICK k, j, l, m : /\ k = PlaceOf(Step("Create", CoordsOf(T)))
                          /\ j = PlaceOf(Step("Coordinates", CoordsOf(T)))
                          /\ l = PlaceOf(Step("Create", T)) /\ m = PlaceOf(Step("Cfs", T))
      OBVIOUS
    <3>2. /\ k \in 1 .. 38 /\ j \in 1 .. 38 /\ l \in 1 .. 38 /\ m \in 1 .. 38
          /\ Program[k] = Step("Create", CoordsOf(T)) /\ Program[l] = Step("Create", T)
          /\ Program[m] = Step("Cfs", T)
          /\ k < j /\ j < l /\ l < m
      BY <3>1, StepsOfTerm
    <3>3. k <= m /\ l <= m
      BY <3>2
    <3> QED BY <2>1, <3>2, <3>3, IssuedBefore
  <2> QED BY <2>2, ColumnsMade, TermColumns
<1>4. /\ SpaceIs(Value(T), <<axis, "X", "Y">>, <<N, n, n>>)
      /\ SpaceIs(IndexOf(T), <<axis>>, <<N>>)
      /\ SpaceIs(GridOf(T), <<"PARALLACTIC_ANGLE", "X", "Y">>, <<1, n, n>>)
  BY <1>3, TermSpaces
<1> PICK v, x, g : /\ v = Region(t.partition, Value(T), c) /\ x = Region(t.partition, IndexOf(T), c)
                   /\ g = Region(t.partition, GridOf(T), c)
  OBVIOUS
<1> DEFINE side(a, k) == IF IsValid(t.partition) THEN Side(t.partition, c, a, k)
                         ELSE Span(0, k - 1)
<1>5. ASSUME NEW col \in Uses(t), NEW r, r = Region(t.partition, col, c),
             NEW axes, NEW size, SpaceIs(col, axes, size), 
             \A d \in DOMAIN axes : size[d] \in Nat \ {0}
      PROVE  /\ DOMAIN r = DOMAIN axes
             /\ \A d \in DOMAIN axes : /\ r[d] = side(axes[d], size[d])
                                       /\ r[d] \in Spans(size[d]) /\ r[d].lo <= r[d].hi
  <2>1. space[col].axes = axes /\ space[col].size = size
    BY <1>5 DEF SpaceIs
  <2>2. \A d \in DOMAIN space[col].axes : space[col].size[d] \in Nat \ {0}
    BY <1>5, <2>1
  <2>3. /\ DOMAIN r = DOMAIN space[col].axes
        /\ \A d \in DOMAIN space[col].axes :
             /\ r[d] = side(space[col].axes[d], space[col].size[d])
             /\ r[d] \in Spans(space[col].size[d]) /\ r[d].lo <= r[d].hi
    <3> HIDE DEF side
    <3>1. r = Region(t.partition, col, c)
      BY <1>5
    <3>2. LET cs == space[col]
              q == Region(t.partition, col, c)
              s(a, k) == IF IsValid(t.partition) THEN Side(t.partition, c, a, k)
                         ELSE Span(0, k - 1)
          IN /\ DOMAIN q = DOMAIN cs.axes
             /\ \A d \in DOMAIN cs.axes :
                  /\ q[d] = s(cs.axes[d], cs.size[d])
                  /\ q[d] \in Spans(cs.size[d]) /\ q[d].lo <= q[d].hi
      BY <2>2, RegionSides
    <3> QED BY <3>1, <3>2, Zenon DEF side
  <2> HIDE DEF side
  <2> QED BY <2>1, <2>3
<1> HIDE DEF side
<1>6. /\ DOMAIN v = 1 .. 3
      /\ v[1] = side(axis, N) /\ v[2] = side("X", n) /\ v[3] = side("Y", n)
      /\ v[1] \in Spans(N) /\ v[2] \in Spans(n) /\ v[3] \in Spans(n)
      /\ \A d \in 1 .. 3 : v[d].lo <= v[d].hi
  <2> PICK axes, size : axes = <<axis, "X", "Y">> /\ size = <<N, n, n>>
    OBVIOUS
  <2>1. /\ DOMAIN axes = 1 .. 3 /\ axes[1] = axis /\ axes[2] = "X" /\ axes[3] = "Y"
        /\ size[1] = N /\ size[2] = n /\ size[3] = n
    OBVIOUS
  <2>2. \A d \in DOMAIN axes : size[d] \in Nat \ {0}
    BY <1>1, <2>1
  <2>3. /\ Value(T) \in Uses(t) /\ v = Region(t.partition, Value(T), c)
        /\ SpaceIs(Value(T), axes, size)
    BY <1>2, <1>4
  <2>4. PICK r, col : r = v /\ col = Value(T)
    OBVIOUS
  <2>5. col \in Uses(t) /\ r = Region(t.partition, col, c) /\ SpaceIs(col, axes, size)
    BY <2>3, <2>4
  <2>6. DOMAIN r = DOMAIN axes
    BY <1>5, <2>2, <2>5
  <2>7. ASSUME NEW d \in DOMAIN axes PROVE r[d] = side(axes[d], size[d])
    <3>1. \A e \in DOMAIN axes : /\ r[e] = side(axes[e], size[e])
                                 /\ r[e] \in Spans(size[e]) /\ r[e].lo <= r[e].hi
      BY <1>5, <2>2, <2>5, SMTT(30)
    <3> QED BY <3>1
  <2>8. \A d \in DOMAIN axes : r[d] \in Spans(size[d]) /\ r[d].lo <= r[d].hi
    BY <1>5, <2>2, <2>5
  <2> HIDE DEF side
  <2> QED BY <2>1, <2>4, <2>6, <2>7, <2>8
<1>7. DOMAIN x = 1 .. 1 /\ x[1] = side(axis, N)
  <2> PICK axes, size : axes = <<axis>> /\ size = <<N>>
    OBVIOUS
  <2>1. DOMAIN axes = 1 .. 1 /\ axes[1] = axis /\ size[1] = N
    OBVIOUS
  <2>2. \A d \in DOMAIN axes : size[d] \in Nat \ {0}
    BY <1>1, <2>1
  <2>3. /\ DOMAIN x = DOMAIN axes
        /\ \A d \in DOMAIN axes : x[d] = side(axes[d], size[d])
    BY <1>2, <1>4, <1>5, <2>2
  <2> QED BY <2>1, <2>3
<1>8. DOMAIN g = 1 .. 3 /\ g[2] = side("X", n) /\ g[3] = side("Y", n) /\ g[1] \in Spans(1)
  <2> PICK axes, size : axes = <<"PARALLACTIC_ANGLE", "X", "Y">> /\ size = <<1, n, n>>
    OBVIOUS
  <2>1. /\ DOMAIN axes = 1 .. 3 /\ axes[2] = "X" /\ axes[3] = "Y"
        /\ size[1] = 1 /\ size[2] = n /\ size[3] = n
    OBVIOUS
  <2>2. \A d \in DOMAIN axes : size[d] \in Nat \ {0}
    BY <1>1, <2>1
  <2>3. /\ DOMAIN g = DOMAIN axes
        /\ \A d \in DOMAIN axes : g[d] = side(axes[d], size[d]) /\ g[d] \in Spans(size[d])
    <3> HIDE DEF side
    <3>1. /\ GridOf(T) \in Uses(t) /\ SpaceIs(GridOf(T), axes, size)
          /\ g = Region(t.partition, GridOf(T), c)
      BY <1>2, <1>4
    <3>2. /\ DOMAIN g = DOMAIN axes
          /\ \A d \in DOMAIN axes : /\ g[d] = side(axes[d], size[d])
                                    /\ g[d] \in Spans(size[d]) /\ g[d].lo <= g[d].hi
      BY <1>5, <2>2, <3>1
    <3> QED BY <3>2
  <2> QED BY <2>1, <2>3
<1>9. g[1] = Span(0, 0)
  BY <1>8 DEF Spans
<1>10. T = "ps" => \A d \in 1 .. 3 : v[d].lo = 0
  <2> SUFFICES ASSUME T = "ps" PROVE \A d \in 1 .. 3 : v[d].lo = 0
    OBVIOUS
  <2>1. ~IsValid(t.partition)
    BY DEF Outstanding, IsValid
  <2>2. \A a, k : side(a, k).lo = 0
    BY <2>1 DEF side, Span
  <2> QED BY <1>6, <2>2
<1> QED BY <1>6, <1>7, <1>8, <1>9, <1>10 DEF SidesShared

\* What the task of a term writes.
TermBody(T, region) == IF T = "ps" THEN PSTermBody(value, region) ELSE WTermBody(value, region)

\* The grid and the index values of a term are there to be read.
TermReadable(T) ==
  /\ \A x, y \in 0 .. GridSize(T) - 1 :
       /\ <<0, x, y>> \in DOMAIN value[GridOf(T)]
       /\ value[GridOf(T)][<<0, x, y>>] \in CoordinateSet
  /\ \A k \in 0 .. Len(Given(T)) - 1 :
       /\ <<k>> \in DOMAIN value[IndexOf(T)]
       /\ value[IndexOf(T)][<<k>>] = Given(T)[k + 1]

\* A point by its coordinates.
LEMMA InLists3 ==
  ASSUME NEW a, NEW b, NEW c
  PROVE  /\ \A l \in Lists3(a, b, c) :
              \E x \in 0 .. a - 1, y \in 0 .. b - 1, z \in 0 .. c - 1 : l = <<x, y, z>>
         /\ \A x \in 0 .. a - 1, y \in 0 .. b - 1, z \in 0 .. c - 1 :
              <<x, y, z>> \in Lists3(a, b, c)
BY DEF Lists3

\* An index of a piece is one of the axis.
LEMMA Within ==
  ASSUME NEW N \in Int, NEW a \in 0 .. N - 1, NEW b \in 0 .. N - 1, NEW u \in 0 .. b - a
  PROVE  a + u \in 0 .. N - 1 /\ a \in Int /\ b \in Int /\ u \in Int
OBVIOUS

\* Reads by the indexes of a piece.
LEMMA TermReads ==
  ASSUME InputsServe, input \in Inputs, NEW T \in Followed, TermReadable(T), NEW region,
         NEW v, v = region[Value(T)], SidesShared(T, v, region[IndexOf(T)], region[GridOf(T)]),
         NEW u \in 0 .. v[1].hi - v[1].lo, NEW x \in 0 .. v[2].hi - v[2].lo,
         NEW y \in 0 .. v[3].hi - v[3].lo
  PROVE  /\ v[1].lo + u \in 0 .. Len(Given(T)) - 1
         /\ Read(value[IndexOf(T)], region[IndexOf(T)], <<u>>) = Given(T)[v[1].lo + u + 1]
         /\ Given(T)[v[1].lo + u + 1] \in Int
         /\ FirstGrid(CoordsOf(T), value, region, x, y) \in CoordinateSet
<1>1. \A k \in 0 .. Len(Given(T)) - 1 : Given(T)[k + 1] \in Int
  BY GivenCounted
<1>2. \A lo, hi : Span(lo, hi).lo = lo /\ Span(lo, hi).hi = hi
  BY DEF Span
<1>3. PICK i, g : i = region[IndexOf(T)] /\ g = region[GridOf(T)]
  OBVIOUS
<1>4. /\ DOMAIN v = 1 .. 3 /\ DOMAIN i = 1 .. 1 /\ DOMAIN g = 1 .. 3
      /\ i[1] = v[1] /\ g[1].lo = 0 /\ g[1].hi = 0 /\ g[2] = v[2] /\ g[3] = v[3]
      /\ v[1] \in Spans(Len(Given(T))) /\ v[2] \in Spans(GridSize(T)) /\ v[3] \in Spans(GridSize(T))
  BY <1>2, <1>3 DEF SidesShared
<1>5. \A k : \A s \in Spans(k) : s.lo \in 0 .. k - 1 /\ s.hi \in 0 .. k - 1
  BY <1>2 DEF Spans
<1>6. /\ v[1].lo \in 0 .. Len(Given(T)) - 1 /\ v[1].hi \in 0 .. Len(Given(T)) - 1
      /\ v[2].lo \in 0 .. GridSize(T) - 1 /\ v[2].hi \in 0 .. GridSize(T) - 1
      /\ v[3].lo \in 0 .. GridSize(T) - 1 /\ v[3].hi \in 0 .. GridSize(T) - 1
  BY <1>4, <1>5, Zenon
<1>7. /\ v[1].lo + u \in 0 .. Len(Given(T)) - 1
      /\ v[2].lo + x \in 0 .. GridSize(T) - 1 /\ v[3].lo + y \in 0 .. GridSize(T) - 1
      /\ v[1].lo \in Int /\ v[1].hi \in Int /\ v[2].lo \in Int /\ v[2].hi \in Int
      /\ v[3].lo \in Int /\ v[3].hi \in Int
  <2>1. Len(Given(T)) \in Int /\ GridSize(T) \in Int
    BY GivenCounted
  <2> QED BY <1>6, <2>1, Within, Zenon
<1>8. PICK k, p, q : k = v[1].lo + u /\ p = v[2].lo + x /\ q = v[3].lo + y
  OBVIOUS
<1>9. Read(value[IndexOf(T)], i, <<u>>) = Given(T)[k + 1]
  <2>1. PICK l : l = <<u>>
    OBVIOUS
  <2>2. l[1] = u
    BY <2>1
  <2>3. Global(i, l) = <<i[1].lo + l[1]>>
    BY <1>4, Globals
  <2>4. Global(i, l) = <<k>>
    BY <1>4, <1>8, <2>2, <2>3, Zenon
  <2>5. <<k>> \in DOMAIN value[IndexOf(T)] /\ value[IndexOf(T)][<<k>>] = Given(T)[k + 1]
    BY <1>7, <1>8 DEF TermReadable
  <2>6. i[1].lo \in Int /\ i[1].hi \in Int /\ l[1] \in 0 .. i[1].hi - i[1].lo
    BY <1>4, <1>7, <2>2, Zenon
  <2>7. DOMAIN i = 1 .. 1 /\ \A d \in 1 .. 1 : d = 1
    BY <1>4
  <2>8. \A d \in DOMAIN i : i[d].lo \in Int /\ i[d].hi \in Int /\ l[d] \in 0 .. i[d].hi - i[d].lo
    BY <2>6, <2>7, Zenon
  <2>9. Global(i, l) \in DOMAIN value[IndexOf(T)]
    BY <2>4, <2>5, Zenon
  <2>10. DOMAIN i \in {1 .. 1, 1 .. 3}
    BY <2>7
  <2>11. Read(value[IndexOf(T)], i, l) = value[IndexOf(T)][Global(i, l)]
    BY <2>8, <2>9, <2>10, ReadThere
  <2> QED BY <2>1, <2>4, <2>5, <2>11, Zenon
<1>10. FirstGrid(CoordsOf(T), value, region, x, y) \in CoordinateSet
  <2>1. PICK l : l = <<0, x, y>>
    OBVIOUS
  <2>2. l[1] = 0 /\ l[2] = x /\ l[3] = y
    BY <2>1
  <2>3. FirstGrid(CoordsOf(T), value, region, x, y) = Read(value[GridOf(T)], g, l)
    BY <1>3, <1>4, <2>1, Zenon DEF FirstGrid, GridOf
  <2>4. Global(g, l) = <<g[1].lo + l[1], g[2].lo + l[2], g[3].lo + l[3]>>
    BY <1>4, Globals
  <2>5. Global(g, l) = <<0 + 0, p, q>>
    BY <1>4, <1>8, <2>2, <2>4, Zenon
  <2>6. Global(g, l) = <<0, p, q>>
    BY <2>5
  <2>7. <<0, p, q>> \in DOMAIN value[GridOf(T)] /\ value[GridOf(T)][<<0, p, q>>] \in CoordinateSet
    BY <1>7, <1>8 DEF TermReadable
  <2>8. /\ g[1].lo \in Int /\ g[1].hi \in Int /\ l[1] \in 0 .. g[1].hi - g[1].lo
        /\ g[2].lo \in Int /\ g[2].hi \in Int /\ l[2] \in 0 .. g[2].hi - g[2].lo
        /\ g[3].lo \in Int /\ g[3].hi \in Int /\ l[3] \in 0 .. g[3].hi - g[3].lo
    <3>1. g[1].lo \in Int /\ g[1].hi \in Int /\ l[1] \in 0 .. g[1].hi - g[1].lo
      BY <1>4, <2>2
    <3> QED BY <1>4, <1>7, <2>2, <3>1, Zenon
  <2>9. DOMAIN g = 1 .. 3 /\ \A d \in 1 .. 3 : d = 1 \/ d = 2 \/ d = 3
    BY <1>4
  <2>10. \A d \in DOMAIN g : g[d].lo \in Int /\ g[d].hi \in Int /\ l[d] \in 0 .. g[d].hi - g[d].lo
    BY <2>8, <2>9, Zenon
  <2>11. Global(g, l) \in DOMAIN value[GridOf(T)]
    BY <2>6, <2>7, Zenon
  <2>12. DOMAIN g \in {1 .. 1, 1 .. 3}
    BY <2>9
  <2>13. Read(value[GridOf(T)], g, l) = value[GridOf(T)][Global(g, l)]
    BY <2>10, <2>11, <2>12, ReadThere
  <2> QED BY <2>3, <2>6, <2>7, <2>13, Zenon
<1>11. Given(T)[k + 1] \in Int
  BY <1>1, <1>7, <1>8, Zenon
<1> QED BY <1>3, <1>7, <1>8, <1>9, <1>10, <1>11, Zenon

\* An element of a term.
LEMMA ElementOf ==
  ASSUME NEW of \in Int, NEW c \in CoordinateSet, NEW at \in {<<>>, <<Square(c)>>}
  PROVE  /\ of # Garbage /\ c # Garbage
         /\ Element(of, at) \in Elements /\ Element(of, at).of = of
<1>1. Square(c) \in Int
  BY DEF CoordinateSet, Square
<1>2. at \in Seq(Int)
  <2>1. PICK z \in Int : z = Square(c)
    BY <1>1
  <2>2. at = <<>> \/ at = <<z>>
    BY <2>1
  <2>3. <<>> \in Seq(Int) /\ <<z>> \in Seq(Int)
    BY <2>1
  <2> QED BY <2>2, <2>3, Zenon
<1>3. of # Garbage /\ c # Garbage
  BY GarbageAssumption DEF CoordinateSet
<1> QED BY <1>2, <1>3 DEF Element, Elements

\* What a piece of a term writes: elements of the parameter of each point, at
\* all points of the piece.
LEMMA TermWrites ==
  ASSUME InputsServe, input \in Inputs, NEW T \in Followed, TermReadable(T), NEW region,
         NEW v, v = region[Value(T)], SidesShared(T, v, region[IndexOf(T)], region[GridOf(T)])
  PROVE  /\ \A wr \in TermBody(T, region) :
              wr[2] \in Elements /\ wr[2].of = Given(T)[wr[1][1] + 1]
         /\ \A p \in Points(T) : InRect(p, v) => \E wr \in TermBody(T, region) : wr[1] = p
<1>0. PICK N, n : N = Len(Given(T)) /\ n = GridSize(T)
  OBVIOUS
<1>1. N \in Nat \ {0} /\ n \in Nat \ {0}
  BY <1>0, GivenCounted
<1>2. /\ DOMAIN v = 1 .. 3 /\ v[1] \in Spans(N) /\ v[2] \in Spans(n) /\ v[3] \in Spans(n)
      /\ T = "ps" => v[1].lo = 0 /\ v[2].lo = 0 /\ v[3].lo = 0
  BY <1>0 DEF SidesShared
<1>3. \A k : \A s \in Spans(k) : s.lo \in 0 .. k - 1 /\ s.hi \in 0 .. k - 1
  BY DEF Spans, Span
<1>12. PICK a, b, c, d, e, f : /\ a = v[1].lo /\ b = v[1].hi /\ c = v[2].lo /\ d = v[2].hi
                               /\ e = v[3].lo /\ f = v[3].hi
  OBVIOUS
<1>4. /\ a \in 0 .. N - 1 /\ b \in 0 .. N - 1 /\ c \in 0 .. n - 1 /\ d \in 0 .. n - 1
      /\ e \in 0 .. n - 1 /\ f \in 0 .. n - 1
  BY <1>2, <1>3, <1>12, Zenon
<1>5. Size(v) = <<b - a + 1, d - c + 1, f - e + 1>>
  BY <1>2, <1>12, Sizes
<1>13. /\ 0 .. (b - a + 1) - 1 = 0 .. b - a /\ 0 .. (d - c + 1) - 1 = 0 .. d - c
       /\ 0 .. (f - e + 1) - 1 = 0 .. f - e
  <2>1. (b - a + 1) - 1 = b - a /\ (d - c + 1) - 1 = d - c /\ (f - e + 1) - 1 = f - e
    BY <1>4
  <2> QED BY <2>1
<1>6. Box(Size(v)) = Lists3(b - a + 1, d - c + 1, f - e + 1)
  BY <1>5, BoxThree
<1>7. ASSUME NEW u, NEW x, NEW y
      PROVE  Global(v, <<u, x, y>>) = <<a + u, c + x, e + y>>
  <2> PICK l : l = <<u, x, y>>
    OBVIOUS
  <2>1. l[1] = u /\ l[2] = x /\ l[3] = y
    OBVIOUS
  <2>2. Global(v, l) = <<v[1].lo + l[1], v[2].lo + l[2], v[3].lo + l[3]>>
    BY <1>2, Globals
  <2> QED BY <1>12, <2>1, <2>2, Zenon
<1> DEFINE of(u) == Given(T)[a + u + 1]
           grid(x, y) == FirstGrid(CoordsOf(T), value, region, x, y)
           disk(u) == IF T = "ps" THEN of(u) ELSE 1
           wrote(u, x, y) ==
             <<<<a + u, c + x, e + y>>,
               Element(of(u), IF InDisk(grid(x, y), disk(u)) THEN <<Square(grid(x, y))>> ELSE <<>>)>>
<1>8. ASSUME NEW u \in 0 .. b - a, NEW x \in 0 .. d - c, NEW y \in 0 .. f - e
      PROVE  /\ a + u \in 0 .. N - 1
             /\ Read(value[IndexOf(T)], region[IndexOf(T)], <<u>>) = of(u)
             /\ of(u) \in Int /\ grid(x, y) \in CoordinateSet
             /\ of(u) # Garbage /\ grid(x, y) # Garbage
             /\ wrote(u, x, y)[2] \in Elements /\ wrote(u, x, y)[2].of = of(u)
             /\ wrote(u, x, y)[1] = <<a + u, c + x, e + y>>
  <2>1. /\ a + u \in 0 .. N - 1
        /\ Read(value[IndexOf(T)], region[IndexOf(T)], <<u>>) = of(u)
        /\ of(u) \in Int /\ grid(x, y) \in CoordinateSet
    BY <1>0, <1>8, <1>12, TermReads, Zenon
  <2> PICK o, q, at : /\ o = of(u) /\ q = grid(x, y)
                      /\ at = IF InDisk(grid(x, y), disk(u)) THEN <<Square(grid(x, y))>> ELSE <<>>
    OBVIOUS
  <2>2. o \in Int /\ q \in CoordinateSet /\ at \in {<<>>, <<Square(q)>>}
    BY <2>1
  <2>3. o # Garbage /\ q # Garbage /\ Element(o, at) \in Elements /\ Element(o, at).of = o
    BY <2>2, ElementOf
  <2>4. wrote(u, x, y) = <<<<a + u, c + x, e + y>>, Element(o, at)>>
    OBVIOUS
  <2> QED BY <2>1, <2>3, <2>4
<1>9. \A wr : wr \in TermBody(T, region) <=>
               \E u \in 0 .. b - a, x \in 0 .. d - c, y \in 0 .. f - e : wr = wrote(u, x, y)
  <2>1. CASE T = "ps"
    <3> DEFINE body(l) ==
                 LET i == Global(v, l)
                     scale == Read(value[IndexOf(T)], region[IndexOf(T)], <<i[1]>>)
                     q == FirstGrid("ps_coords", value, region, i[2], i[3])
                 IN <<Global(v, i),
                      IF scale = Garbage \/ q = Garbage THEN Garbage
                      ELSE Element(scale, IF InDisk(q, scale) THEN <<Square(q)>> ELSE <<>>)>>
    <3>1. TermBody(T, region) = {body(l) : l \in Box(Size(v))}
      BY <2>1 DEF TermBody, PSTermBody, IndexOf, Value
    <3>2. ASSUME NEW u \in 0 .. b - a, NEW x \in 0 .. d - c, NEW y \in 0 .. f - e
          PROVE  body(<<u, x, y>>) = wrote(u, x, y)
      <4> PICK l : l = <<u, x, y>>
        OBVIOUS
      <4>1. a = 0 /\ c = 0 /\ e = 0
        BY <1>2, <1>12, <2>1
      <4>2. l[1] = u /\ l[2] = x /\ l[3] = y
        OBVIOUS
      <4>3. Global(v, l) = <<a + u, c + x, e + y>>
        BY <1>7
      <4>4. a + u = u /\ c + x = x /\ e + y = y
        BY <4>1
      <4>5. Global(v, l) = l /\ <<a + u, c + x, e + y>> = l
        BY <4>3, <4>4
      <4>6. CoordsOf(T) = "ps_coords" /\ disk(u) = of(u)
        BY <2>1 DEF CoordsOf
      <4>7. Read(value[IndexOf(T)], region[IndexOf(T)], <<l[1]>>) = of(u)
        BY <1>8, <4>2
      <4>8. FirstGrid("ps_coords", value, region, l[2], l[3]) = grid(x, y)
        BY <4>2, <4>6
      <4>9. of(u) # Garbage /\ grid(x, y) # Garbage
        BY <1>8, <3>2, Zenon
      <4> HIDE DEF of, grid, disk
      <4>10. body(l) = <<l, Element(of(u), IF InDisk(grid(x, y), of(u)) THEN <<Square(grid(x, y))>>
                                          ELSE <<>>)>>
        BY <4>5, <4>7, <4>8, <4>9
      <4> QED BY <4>5, <4>6, <4>10
    <3> HIDE DEF body, wrote
    <3>3. ASSUME NEW wr, wr \in TermBody(T, region)
          PROVE  \E u \in 0 .. b - a, x \in 0 .. d - c, y \in 0 .. f - e : wr = wrote(u, x, y)
      <4>1. PICK l \in Lists3(b - a + 1, d - c + 1, f - e + 1) : wr = body(l)
        BY <1>6, <3>1, <3>3
      <4>2. PICK u \in 0 .. b - a, x \in 0 .. d - c, y \in 0 .. f - e : l = <<u, x, y>>
        <5>1. PICK u \in 0 .. (b - a + 1) - 1, x \in 0 .. (d - c + 1) - 1, y \in 0 .. (f - e + 1) - 1 :
                l = <<u, x, y>>
          BY <4>1, InLists3
        <5> QED BY <1>13, <5>1, Zenon
      <4> QED BY <3>2, <4>1, <4>2
    <3>4. ASSUME NEW u \in 0 .. b - a, NEW x \in 0 .. d - c, NEW y \in 0 .. f - e
          PROVE  wrote(u, x, y) \in TermBody(T, region)
      <4>1. <<u, x, y>> \in Lists3(b - a + 1, d - c + 1, f - e + 1)
        BY <1>13, <3>4, InLists3, Zenon
      <4> QED BY <1>6, <3>1, <3>2, <4>1
    <3> QED BY <3>3, <3>4
  <2>2. CASE T = "w"
    <3> DEFINE body(l) ==
                 LET w == Read(value[IndexOf(T)], region[IndexOf(T)], <<l[1]>>)
                     q == FirstGrid("w_coords", value, region, l[2], l[3])
                 IN <<Global(v, l),
                      IF w = Garbage \/ q = Garbage THEN Garbage
                      ELSE Element(w, IF InDisk(q, 1) THEN <<Square(q)>> ELSE <<>>)>>
    <3>1. TermBody(T, region) = {body(l) : l \in Box(Size(v))}
      BY <2>2 DEF TermBody, WTermBody, IndexOf, Value
    <3>2. ASSUME NEW u \in 0 .. b - a, NEW x \in 0 .. d - c, NEW y \in 0 .. f - e
          PROVE  body(<<u, x, y>>) = wrote(u, x, y)
      <4> PICK l : l = <<u, x, y>>
        OBVIOUS
      <4>1. l[1] = u /\ l[2] = x /\ l[3] = y
        OBVIOUS
      <4>2. Global(v, l) = <<a + u, c + x, e + y>>
        BY <1>7
      <4>3. CoordsOf(T) = "w_coords" /\ disk(u) = 1
        BY <2>2 DEF CoordsOf
      <4>4. Read(value[IndexOf(T)], region[IndexOf(T)], <<l[1]>>) = of(u)
        BY <1>8, <4>1
      <4>5. FirstGrid("w_coords", value, region, l[2], l[3]) = grid(x, y)
        BY <4>1, <4>3
      <4>6. of(u) # Garbage /\ grid(x, y) # Garbage
        BY <1>8, <3>2, Zenon
      <4> HIDE DEF of, grid, disk
      <4>7. body(l) = <<<<a + u, c + x, e + y>>,
                        Element(of(u), IF InDisk(grid(x, y), 1) THEN <<Square(grid(x, y))>> ELSE <<>>)>>
        BY <4>2, <4>4, <4>5, <4>6
      <4> QED BY <4>3, <4>7
    <3> HIDE DEF body, wrote
    <3>3. ASSUME NEW wr, wr \in TermBody(T, region)
          PROVE  \E u \in 0 .. b - a, x \in 0 .. d - c, y \in 0 .. f - e : wr = wrote(u, x, y)
      <4>1. PICK l \in Lists3(b - a + 1, d - c + 1, f - e + 1) : wr = body(l)
        BY <1>6, <3>1, <3>3
      <4>2. PICK u \in 0 .. b - a, x \in 0 .. d - c, y \in 0 .. f - e : l = <<u, x, y>>
        <5>1. PICK u \in 0 .. (b - a + 1) - 1, x \in 0 .. (d - c + 1) - 1, y \in 0 .. (f - e + 1) - 1 :
                l = <<u, x, y>>
          BY <4>1, InLists3
        <5> QED BY <1>13, <5>1, Zenon
      <4> QED BY <3>2, <4>1, <4>2
    <3>4. ASSUME NEW u \in 0 .. b - a, NEW x \in 0 .. d - c, NEW y \in 0 .. f - e
          PROVE  wrote(u, x, y) \in TermBody(T, region)
      <4>1. <<u, x, y>> \in Lists3(b - a + 1, d - c + 1, f - e + 1)
        BY <1>13, <3>4, InLists3, Zenon
      <4> QED BY <1>6, <3>1, <3>2, <4>1
    <3> QED BY <3>3, <3>4
  <2> QED BY <2>1, <2>2 DEF Followed
<1> HIDE DEF wrote, grid, disk, of
<1>10. ASSUME NEW wr \in TermBody(T, region)
       PROVE  wr[2] \in Elements /\ wr[2].of = Given(T)[wr[1][1] + 1]
  <2>1. PICK u \in 0 .. b - a, x \in 0 .. d - c, y \in 0 .. f - e : wr = wrote(u, x, y)
    BY <1>9
  <2>2. wr[2] \in Elements /\ wr[2].of = of(u) /\ wr[1] = <<a + u, c + x, e + y>>
    BY <1>8, <2>1, Zenon
  <2>3. wr[1][1] + 1 = a + u + 1
    BY <2>2
  <2> QED BY <2>2, <2>3 DEF of
<1>11. ASSUME NEW p \in Points(T), InRect(p, v)
       PROVE  \E wr \in TermBody(T, region) : wr[1] = p
  <2>1. PICK k \in 0 .. N - 1, x \in 0 .. n - 1, y \in 0 .. n - 1 : p = <<k, x, y>>
    BY <1>0, <1>11, BoxThree DEF Points, Lists3
  <2>2. a <= k /\ k <= b /\ c <= x /\ x <= d /\ e <= y /\ y <= f
    <3>1. p[1] = k /\ p[2] = x /\ p[3] = y
      BY <2>1
    <3> QED BY <1>2, <1>4, <1>11, <1>12, <2>1, <3>1 DEF InRect
  <2>3. /\ k - a \in 0 .. b - a /\ x - c \in 0 .. d - c /\ y - e \in 0 .. f - e
        /\ a + (k - a) = k /\ c + (x - c) = x /\ e + (y - e) = y
    BY <1>4, <2>1, <2>2
  <2>4. PICK u \in 0 .. b - a, z \in 0 .. d - c, w \in 0 .. f - e :
          a + u = k /\ c + z = x /\ e + w = y
    BY <2>3
  <2>5. wrote(u, z, w)[1] = <<k, x, y>>
    BY <1>8, <2>4, Zenon
  <2>6. wrote(u, z, w) \in TermBody(T, region)
    BY <1>9, <2>4, Zenon
  <2> QED BY <2>1, <2>5, <2>6
<1> QED BY <1>10, <1>11

\* What compute_coordinates_task writes, given a whole grid.
GridWritten(writes, n) ==
  /\ \A wr \in writes : wr[2] \in CoordinateSet
  /\ \A x, y \in 0 .. n - 1 : \E wr \in writes : wr[1] = <<0, x, y>>

\* The task that fills the grid writes all of it.
LEMMA CoordinatesWrites ==
  ASSUME NEW coords, NEW diameter \in Int, NEW region, NEW n \in Nat \ {0},
         NEW r, r = region[<<coords, "COORD">>],
         DOMAIN r = 1 .. 3, r[1] = Span(0, 0), r[2] = Span(0, n - 1), r[3] = Span(0, n - 1),
         NEW angles, angles = value[<<coords, "PARALLACTIC_ANGLE">>],
         \A pt \in DOMAIN angles : angles[pt] \in Int,
         NEW writes, writes = CoordinatesBody(coords, diameter, value, region)
  PROVE  GridWritten(writes, n)
<1>3. /\ DOMAIN r = 1 .. 3 /\ r[1].lo = 0 /\ r[1].hi = 0 /\ r[2].lo = 0 /\ r[2].hi = n - 1
      /\ r[3].lo = 0 /\ r[3].hi = n - 1
  <2>1. \A lo, hi : Span(lo, hi).lo = lo /\ Span(lo, hi).hi = hi
    BY DEF Span
  <2>2. DOMAIN r = 1 .. 3 /\ r[1] = Span(0, 0) /\ r[2] = Span(0, n - 1) /\ r[3] = Span(0, n - 1)
    OBVIOUS
  <2> HIDE DEF Span
  <2>3. r[1].lo = 0 /\ r[1].hi = 0
    BY <2>1, <2>2
  <2>4. r[2].lo = 0 /\ r[2].hi = n - 1
    BY <2>1, <2>2
  <2>5. r[3].lo = 0 /\ r[3].hi = n - 1
    BY <2>1, <2>2
  <2> QED BY <2>2, <2>3, <2>4, <2>5
<1>4. Size(r) = <<1, n, n>>
  <2>1. Size(r) = <<r[1].hi - r[1].lo + 1, r[2].hi - r[2].lo + 1, r[3].hi - r[3].lo + 1>>
    BY <1>3, Sizes
  <2>2. r[1].hi - r[1].lo + 1 = 1 /\ r[2].hi - r[2].lo + 1 = n /\ r[3].hi - r[3].lo + 1 = n
    BY <1>3
  <2> QED BY <2>1, <2>2, Zenon
<1>5. Box(Size(r)) = Lists3(1, n, n)
  BY <1>4, BoxThree
<1>6. PICK reads : reads = [l \in Lists3(1, n, n) |->
                             Read(angles,
                                  region[<<coords, "PARALLACTIC_ANGLE">>], <<l[1]>>)]
  OBVIOUS
<1>7. \A l \in Lists3(1, n, n) : reads[l] \in Int \cup {Garbage}
  <2> SUFFICES ASSUME NEW l \in Lists3(1, n, n) PROVE reads[l] \in Int \cup {Garbage}
    OBVIOUS
  <2>1. reads[l] = Read(angles,
                        region[<<coords, "PARALLACTIC_ANGLE">>], <<l[1]>>)
    BY <1>6
  <2> QED BY <2>1, ReadsOf
<1>8. Size(r)[2] = n
  BY <1>4
<1>9. writes = {<<Global(r, l), Coordinate(reads[l], l[2], l[3], n, diameter)>> : l \in Lists3(1, n, n)}
  BY <1>5, <1>6, <1>8 DEF CoordinatesBody
<1>10. ASSUME NEW l \in Lists3(1, n, n)
       PROVE  Coordinate(reads[l], l[2], l[3], n, diameter) \in CoordinateSet
  <2>1. PICK x \in 0 .. n - 1, y \in 0 .. n - 1 : l[2] = x /\ l[3] = y
    <3>1. PICK u \in 0 .. 1 - 1, x \in 0 .. n - 1, y \in 0 .. n - 1 : l = <<u, x, y>>
      BY <1>10, InLists3
    <3> QED BY <3>1
  <2>2. (2 * x + 1 - n) * diameter \in Int /\ (2 * y + 1 - n) * diameter \in Int
    <3>1. PICK a \in Int, b \in Int : a = 2 * x + 1 - n /\ b = 2 * y + 1 - n
      BY <2>1
    <3>2. a * diameter \in Int /\ b * diameter \in Int
      BY <3>1
    <3> QED BY <3>1, <3>2
  <2>3. reads[l] \in Int \cup {Garbage}
    BY <1>7
  <2> QED BY <2>1, <2>2, <2>3 DEF Coordinate, CoordinateSet
<1>11. \A wr \in writes : wr[2] \in CoordinateSet
  BY <1>9, <1>10
<1>12. ASSUME NEW x \in 0 .. n - 1, NEW y \in 0 .. n - 1
       PROVE  \E wr \in writes : wr[1] = <<0, x, y>>
  <2>1. PICK l : l = <<0, x, y>>
    OBVIOUS
  <2>2. l \in Lists3(1, n, n)
    <3>1. 0 \in 0 .. 1 - 1
      OBVIOUS
    <3> QED BY <1>12, <2>1, <3>1, InLists3, Zenon
  <2>3. Global(r, l) = l
    <3>1. Global(r, l) = <<r[1].lo + l[1], r[2].lo + l[2], r[3].lo + l[3]>>
      BY <1>3, Globals
    <3>2. r[1].lo + l[1] = 0 /\ r[2].lo + l[2] = x /\ r[3].lo + l[3] = y
      BY <1>3, <2>1
    <3> QED BY <2>1, <3>1, <3>2, Zenon
  <2>4. <<Global(r, l), Coordinate(reads[l], l[2], l[3], n, diameter)>> \in writes
    BY <1>9, <2>2
  <2> QED BY <2>1, <2>3, <2>4
<1> QED BY <1>11, <1>12 DEF GridWritten

\* What init_column writes, given a whole column.
IndexWritten(writes, list, n) ==
  /\ \A wr \in writes : \E k \in 0 .. n - 1 : wr[1] = <<k>> /\ wr[2] = list[k + 1]
  /\ \A k \in 0 .. n - 1 : \E wr \in writes : wr[1] = <<k>>

\* The task that initializes a table writes all index values.
LEMMA InitWrites ==
  ASSUME NEW table, NEW col, NEW values, NEW region, NEW n \in Nat \ {0},
         region[col][1] = Span(0, n - 1),
         NEW writes, writes = InitBody(table, col, values, region)
  PROVE  IndexWritten(writes, values[col[2]], n)
<1>2. region[col][1].lo = 0 /\ region[col][1].hi = n - 1
  BY DEF Span
<1>3. writes = {<<pt, values[col[2]][pt[1] + 1]>> : pt \in {<<x>> : x \in 0 .. n - 1}}
  BY <1>2 DEF InitBody
<1>4. ASSUME NEW wr \in writes
      PROVE  \E k \in 0 .. n - 1 : wr[1] = <<k>> /\ wr[2] = values[col[2]][k + 1]
  <2>1. PICK k \in 0 .. n - 1 : wr = <<<<k>>, values[col[2]][<<k>>[1] + 1]>>
    BY <1>3, <1>4
  <2>2. wr[1] = <<k>> /\ wr[2] = values[col[2]][k + 1]
    BY <2>1
  <2> QED BY <2>1, <2>2
<1>5. ASSUME NEW k \in 0 .. n - 1 PROVE \E wr \in writes : wr[1] = <<k>>
  <2>1. <<k>> \in {<<x>> : x \in 0 .. n - 1}
    BY <1>5
  <2>2. \A pt \in {<<x>> : x \in 0 .. n - 1} : <<pt, values[col[2]][pt[1] + 1]>> \in writes
    BY <1>3, Zenon
  <2>3. <<<<k>>, values[col[2]][<<k>>[1] + 1]>> \in writes
    BY <2>1, <2>2, Zenon
  <2>4. PICK wr : wr = <<<<k>>, values[col[2]][<<k>>[1] + 1]>>
    OBVIOUS
  <2>5. wr[1] = <<k>>
    BY <2>4
  <2> QED BY <2>3, <2>4, <2>5, Zenon
<1> QED BY <1>4, <1>5 DEF IndexWritten

\* The region of a launch that is not cut.
LEMMA WholeRegion ==
  ASSUME NEW partition, ~IsValid(partition), NEW c, NEW col, NEW axes, NEW size,
         SpaceIs(col, axes, size)
  PROVE  LET r == Region(partition, col, c)
         IN DOMAIN r = DOMAIN axes /\ \A d \in DOMAIN axes : r[d] = Span(0, size[d] - 1)
BY DEF Region, Whole, Span, SpaceIs

\* What the steps of a term use.
LEMMA TermUses ==
  ASSUME NEW T \in Followed
  PROVE  /\ Reads(Step("Create", CoordsOf(T))) = {} /\ Writes(Step("Create", CoordsOf(T))) = {AngleOf(T)}
         /\ Reads(Step("Coordinates", CoordsOf(T))) = {AngleOf(T)}
         /\ Writes(Step("Coordinates", CoordsOf(T))) = {GridOf(T)}
         /\ Reads(Step("Create", T)) = {} /\ Writes(Step("Create", T)) = {IndexOf(T)}
         /\ Reads(Step("Cfs", T)) = {GridOf(T), IndexOf(T)} /\ Writes(Step("Cfs", T)) = {Value(T)}
         /\ Reads(Step("Show", TitleOf(T))) = {IndexOf(T), Value(T)}
         /\ Writes(Step("Show", TitleOf(T))) = {}
         /\ Reads(Step("Destroy", CoordsOf(T))) = {}
         /\ Writes(Step("Destroy", CoordsOf(T))) = {AngleOf(T), GridOf(T), Value(CoordsOf(T))}
         /\ Reads(Step("Destroy", T)) = {} /\ Writes(Step("Destroy", T)) = {IndexOf(T), Value(T)}
<1>1. /\ IndexColumns(CoordsOf(T)) = {AngleOf(T)} /\ IndexColumns(T) = {IndexOf(T)}
      /\ ColumnsOf(CoordsOf(T)) = {AngleOf(T), GridOf(T), Value(CoordsOf(T))}
      /\ ColumnsOf(T) = {IndexOf(T), Value(T)}
  BY TermColumns
<1>2. \A do, on : Step(do, on).do = do /\ Step(do, on).on = on
  BY DEF Step
<1>3. \A on : Reads(Step("Create", on)) = {} /\ Writes(Step("Create", on)) = IndexColumns(on)
  BY <1>2 DEF Reads, Writes
<1>4. \A on : Reads(Step("Destroy", on)) = {} /\ Writes(Step("Destroy", on)) = ColumnsOf(on)
  BY <1>2 DEF Reads, Writes
<1>5. \A on : /\ Reads(Step("Coordinates", on)) = {<<on, "PARALLACTIC_ANGLE">>}
              /\ Writes(Step("Coordinates", on)) = {<<on, "COORD">>}
  BY <1>2 DEF Reads, Writes
<1>6. \A on : /\ Reads(Step("Show", on)) = IndexColumns(TableShown(on)) \cup {Value(TableShown(on))}
              /\ Writes(Step("Show", on)) = {}
  BY <1>2 DEF Reads, Writes
<1>7. TableShown(TitleOf(T)) = T
  BY DEF TableShown, TitleOf, Titled, Followed
<1>8. /\ Reads(Step("Cfs", T)) = {GridOf(T), IndexOf(T)} /\ Writes(Step("Cfs", T)) = {Value(T)}
  BY CfsUses
<1>9. AngleOf(T) = <<CoordsOf(T), "PARALLACTIC_ANGLE">> /\ GridOf(T) = <<CoordsOf(T), "COORD">>
  BY DEF AngleOf, GridOf
<1>10. Reads(Step("Show", TitleOf(T))) = {IndexOf(T), Value(T)}
  BY <1>1, <1>6, <1>7
<1> QED BY <1>1, <1>3, <1>4, <1>5, <1>6, <1>8, <1>9, <1>10

-----------------------------------------------------------------------------
(***************************************************************************)
(* What a step of a term waits for.                                        *)
(***************************************************************************)

\* A step waits for an earlier one, of which or of itself the pieces are whole.
LEMMA WaitsFor ==
  ASSUME InputsServe, Standing,
         NEW i \in DOMAIN tasks, NEW color \in tasks[i].left, Ready(i, color),
         NEW k \in 1 .. 38, NEW do, NEW on, Program[k] = Step(do, on),
         k < PlaceOf(tasks[i].step),
         NEW col \in Uses(tasks[i]),
         col \in Reads(Program[k]) \cup Writes(Program[k]),
         col \in Writes(tasks[i].step) \cup Writes(Program[k]),
         \A d \in DOMAIN space[col].axes : space[col].size[d] \in Nat \ {0},
         \/ ~IsValid(tasks[i].partition)
         \/ \A t \in ToSet(tasks) : t.step = Program[k] => ~IsValid(t.partition)
  PROVE  Done(do, on)
<1>1. IInv /\ InOrder /\ \A t \in ToSet(tasks) : Outstanding(t)
  BY DEF Standing
<1>2. tasks[i] \in ToSet(tasks)
  BY DEF ToSet
<1>3. \A t \in ToSet(tasks) : t.left \subseteq ColorsOf(t.partition)
  BY <1>1 DEF Outstanding
<1>4. ASSUME NEW t \in ToSet(tasks), t.step = Program[k], NEW other \in t.left
      PROVE  Meets(Region(tasks[i].partition, col, color), Region(t.partition, col, other))
  <2>1. color \in ColorsOf(tasks[i].partition) /\ other \in ColorsOf(t.partition)
    BY <1>2, <1>3, <1>4
  <2>2. col \in Uses(t)
    BY <1>4 DEF Uses
  <2>3. CASE ~IsValid(tasks[i].partition)
    BY <1>1, <1>4, <2>1, <2>2, <2>3, WholeMeets
  <2>4. CASE ~IsValid(t.partition)
    BY <1>1, <1>2, <2>1, <2>4, WholeMeets
  <2> QED BY <1>4, <2>3, <2>4
<1> QED BY <1>1, <1>4, RunsAfter

\* The columns of a term that its steps hand on to each other.
Handed(T) == {Value(T), IndexOf(T), GridOf(T), AngleOf(T)}

\* They have sizes.
LEMMA HandedSized ==
  ASSUME InputsServe, Standing, NEW T \in Followed, NEW col \in Handed(T), col \in DOMAIN space
  PROVE  \A d \in DOMAIN space[col].axes : space[col].size[d] \in Nat \ {0}
<1> PICK N, n, axis : N = Len(Given(T)) /\ n = GridSize(T) /\ axis = AxisOf(T)
  OBVIOUS
<1>1. N \in Nat \ {0} /\ n \in Nat \ {0}
  BY GivenCounted DEF Standing, IInv
<1>2. SpacesGiven
  BY DEF Standing
<1>3. \E axes, size : /\ SpaceIs(col, axes, size)
                      /\ \/ axes = <<axis, "X", "Y">> /\ size = <<N, n, n>>
                         \/ axes = <<axis>> /\ size = <<N>>
                         \/ axes = <<"PARALLACTIC_ANGLE", "X", "Y">> /\ size = <<1, n, n>>
                         \/ axes = <<"PARALLACTIC_ANGLE">> /\ size = <<1>>
  <2>1. CASE col = Value(T)
    BY <1>2, <2>1, TermSpaces
  <2>2. CASE col = IndexOf(T)
    BY <1>2, <2>2, TermSpaces
  <2>3. CASE col = GridOf(T)
    BY <1>2, <2>3, TermSpaces
  <2>4. CASE col = AngleOf(T)
    BY <1>2, <2>4, TermSpaces
  <2> QED BY <2>1, <2>2, <2>3, <2>4 DEF Handed
<1>4. PICK axes, size : /\ SpaceIs(col, axes, size)
                        /\ \/ axes = <<axis, "X", "Y">> /\ size = <<N, n, n>>
                           \/ axes = <<axis>> /\ size = <<N>>
                           \/ axes = <<"PARALLACTIC_ANGLE", "X", "Y">> /\ size = <<1, n, n>>
                           \/ axes = <<"PARALLACTIC_ANGLE">> /\ size = <<1>>
  BY <1>3, Zenon
<1>5. \A d \in DOMAIN axes : size[d] \in Nat \ {0}
  <2>1. CASE axes = <<axis, "X", "Y">> /\ size = <<N, n, n>>
    BY <1>1, <2>1
  <2>2. CASE axes = <<axis>> /\ size = <<N>>
    BY <1>1, <2>2
  <2>3. CASE axes = <<"PARALLACTIC_ANGLE", "X", "Y">> /\ size = <<1, n, n>>
    BY <1>1, <2>3
  <2>4. CASE axes = <<"PARALLACTIC_ANGLE">> /\ size = <<1>>
    BY <2>4
  <2> QED BY <1>4, <2>1, <2>2, <2>3, <2>4
<1> QED BY <1>4, <1>5 DEF SpaceIs

\* A step of a term waits for the earlier ones that it shares a column with.
LEMMA TermWaits ==
  ASSUME InputsServe, Standing, NEW T \in Followed,
         NEW i \in DOMAIN tasks, NEW color \in tasks[i].left, Ready(i, color),
         tasks[i].step \in OfTerm(T), NEW s \in OfTerm(T),
         PlaceOf(s) < PlaceOf(tasks[i].step),
         NEW col \in Handed(T), col \in DOMAIN space,
         col \in Uses(tasks[i]), col \in Reads(s) \cup Writes(s),
         col \in Writes(tasks[i].step) \cup Writes(s)
  PROVE  Done(s.do, s.on)
<1>1. PlaceOf(s) \in 1 .. 38 /\ Program[PlaceOf(s)] = s /\ s = Step(s.do, s.on)
  BY StepsOfTerm
<1>2. \A t \in ToSet(tasks) : t.step \in OfTerm(T) /\ t.step # Step("Cfs", T) => ~IsValid(t.partition)
  <2> SUFFICES ASSUME NEW t \in ToSet(tasks), t.step \in OfTerm(T), t.step # Step("Cfs", T)
               PROVE  ~IsValid(t.partition)
    OBVIOUS
  <2>1. t.step.do \in {"Create", "Coordinates", "Show", "Destroy"}
    BY DEF OfTerm, Step
  <2> QED BY <2>1 DEF Standing, Outstanding, IsValid
<1>3. tasks[i] \in ToSet(tasks)
  BY DEF ToSet
<1>4. \/ ~IsValid(tasks[i].partition)
      \/ \A t \in ToSet(tasks) : t.step = s => ~IsValid(t.partition)
  <2>1. CASE tasks[i].step # Step("Cfs", T)
    BY <1>2, <1>3, <2>1
  <2>2. CASE s # Step("Cfs", T)
    BY <1>2, <2>2
  <2>3. tasks[i].step # s
    <3>1. PlaceOf(tasks[i].step) \in 1 .. 38
      BY StepsOfTerm
    <3> QED BY <1>1, <3>1
  <2> QED BY <2>1, <2>2, <2>3
<1>5. \A d \in DOMAIN space[col].axes : space[col].size[d] \in Nat \ {0}
  BY HandedSized
<1>6. PICK k : k = PlaceOf(s)
  OBVIOUS
<1>7. k \in 1 .. 38 /\ Program[k] = Step(s.do, s.on) /\ Program[k] = s /\ k < PlaceOf(tasks[i].step)
  BY <1>1, <1>6
<1> QED BY <1>4, <1>5, <1>7, WaitsFor

\* The order in which the steps of a term run.
LEMMA TermOrder ==
  ASSUME InputsServe, Standing, NEW T \in Followed,
         NEW i \in DOMAIN tasks, NEW color \in tasks[i].left, Ready(i, color)
  PROVE  /\ tasks[i].step = Step("Cfs", T) => Done("Create", T) /\ Done("Coordinates", CoordsOf(T))
         /\ tasks[i].step = Step("Show", TitleOf(T)) => Done("Cfs", T)
         /\ tasks[i].step = Step("Destroy", CoordsOf(T)) =>
              Done("Create", CoordsOf(T)) /\ Done("Cfs", T)
         /\ tasks[i].step = Step("Destroy", T) => Done("Create", T) /\ Done("Show", TitleOf(T))
<1> DEFINE step == tasks[i].step
           before(s) == PlaceOf(s) < PlaceOf(step)
<1>1. next \in Nat /\ next <= 39 /\ Issued(step)
  BY DEF Standing, IInv, InOrder
<1>2. /\ {Step("Create", CoordsOf(T)), Step("Coordinates", CoordsOf(T)), Step("Create", T),
          Step("Cfs", T), Step("Show", TitleOf(T)), Step("Destroy", CoordsOf(T)),
          Step("Destroy", T)} \subseteq OfTerm(T)
      /\ \A do, on : Step(do, on).do = do /\ Step(do, on).on = on
  BY DEF OfTerm, Step
<1>3. ASSUME NEW table, Step("Create", table) \in OfTerm(T), step \in OfTerm(T),
             before(Step("Create", table))
      PROVE  ColumnsOf(table) \subseteq DOMAIN space
  <2>1. PICK k, m : k = PlaceOf(Step("Create", table)) /\ m = PlaceOf(step)
    OBVIOUS
  <2>2. k \in 1 .. 38 /\ m \in 1 .. 38 /\ Program[k] = Step("Create", table) /\ Program[m] = step
    BY <1>3, <2>1, StepsOfTerm
  <2>3. k <= m
    BY <1>3, <2>1, <2>2
  <2>4. Issued(Step("Create", table))
    BY <1>1, <2>2, <2>3, IssuedBefore
  <2> QED BY <2>4, ColumnsMade DEF Standing
<1>4. /\ ColumnsOf(CoordsOf(T)) = {AngleOf(T), GridOf(T), Value(CoordsOf(T))}
      /\ ColumnsOf(T) = {IndexOf(T), Value(T)}
  BY TermColumns
<1>5. /\ PlaceOf(Step("Create", CoordsOf(T))) < PlaceOf(Step("Coordinates", CoordsOf(T)))
      /\ PlaceOf(Step("Coordinates", CoordsOf(T))) < PlaceOf(Step("Create", T))
      /\ PlaceOf(Step("Create", T)) < PlaceOf(Step("Cfs", T))
      /\ PlaceOf(Step("Cfs", T)) < PlaceOf(Step("Show", TitleOf(T)))
      /\ PlaceOf(Step("Show", TitleOf(T))) < PlaceOf(Step("Destroy", CoordsOf(T)))
      /\ PlaceOf(Step("Destroy", CoordsOf(T))) < PlaceOf(Step("Destroy", T))
      /\ \A s \in OfTerm(T) : PlaceOf(s) \in Int
  BY StepsOfTerm
<1>6. ASSUME step \in OfTerm(T), NEW s \in OfTerm(T), before(s), NEW col \in Handed(T),
             col \in DOMAIN space, col \in Reads(step) \cup Writes(step),
             col \in Reads(s) \cup Writes(s), col \in Writes(step) \cup Writes(s)
      PROVE  Done(s.do, s.on)
  BY <1>6, TermWaits DEF Uses
<1>7. Value(T) \in Handed(T) /\ IndexOf(T) \in Handed(T) /\ GridOf(T) \in Handed(T) /\ AngleOf(T) \in Handed(T)
  BY DEF Handed
<1>8. ASSUME step = Step("Cfs", T)
      PROVE  Done("Create", T) /\ Done("Coordinates", CoordsOf(T))
  <2>1. /\ before(Step("Create", T)) /\ before(Step("Coordinates", CoordsOf(T)))
        /\ before(Step("Create", CoordsOf(T)))
    BY <1>2, <1>5, <1>8
  <2> HIDE DEF before, step
  <2>2. IndexOf(T) \in DOMAIN space /\ GridOf(T) \in DOMAIN space
    BY <1>2, <1>3, <1>4, <1>8, <2>1
  <2>3. Done("Create", T)
    <3>1. PICK s : s = Step("Create", T)
      OBVIOUS
    <3>2. /\ s \in OfTerm(T) /\ step \in OfTerm(T) /\ IndexOf(T) \in Reads(step) /\ IndexOf(T) \in Writes(s)
          /\ s.do = "Create" /\ s.on = T /\ before(s)
      BY <1>2, <1>8, <2>1, <3>1, TermUses
    <3> QED BY <1>6, <1>7, <2>2, <3>2
  <2>4. Done("Coordinates", CoordsOf(T))
    <3>1. PICK s : s = Step("Coordinates", CoordsOf(T))
      OBVIOUS
    <3>2. /\ s \in OfTerm(T) /\ step \in OfTerm(T) /\ GridOf(T) \in Reads(step) /\ GridOf(T) \in Writes(s)
          /\ s.do = "Coordinates" /\ s.on = CoordsOf(T) /\ before(s)
      BY <1>2, <1>8, <2>1, <3>1, TermUses
    <3> QED BY <1>6, <1>7, <2>2, <3>2
  <2> QED BY <2>3, <2>4
<1>9. ASSUME step = Step("Show", TitleOf(T))
      PROVE  Done("Cfs", T)
  <2>1. before(Step("Create", T)) /\ before(Step("Cfs", T))
    BY <1>2, <1>5, <1>9
  <2> HIDE DEF before, step
  <2>2. Value(T) \in DOMAIN space
    BY <1>2, <1>3, <1>4, <1>9, <2>1
  <2>3. Done("Cfs", T)
    <3>1. PICK s : s = Step("Cfs", T)
      OBVIOUS
    <3>2. /\ s \in OfTerm(T) /\ step \in OfTerm(T) /\ Value(T) \in Reads(step) /\ Value(T) \in Writes(s)
          /\ s.do = "Cfs" /\ s.on = T /\ before(s)
      BY <1>2, <1>9, <2>1, <3>1, TermUses
    <3> QED BY <1>6, <1>7, <2>2, <3>2
  <2> QED BY <2>3
<1>10. ASSUME step = Step("Destroy", CoordsOf(T))
      PROVE  Done("Create", CoordsOf(T)) /\ Done("Cfs", T)
  <2>1. before(Step("Create", CoordsOf(T))) /\ before(Step("Cfs", T))
    BY <1>2, <1>5, <1>10
  <2> HIDE DEF before, step
  <2>2. AngleOf(T) \in DOMAIN space /\ GridOf(T) \in DOMAIN space
    BY <1>2, <1>3, <1>4, <1>10, <2>1
  <2>3. Done("Create", CoordsOf(T))
    <3>1. PICK s : s = Step("Create", CoordsOf(T))
      OBVIOUS
    <3>2. /\ s \in OfTerm(T) /\ step \in OfTerm(T) /\ AngleOf(T) \in Writes(step) /\ AngleOf(T) \in Writes(s)
          /\ s.do = "Create" /\ s.on = CoordsOf(T) /\ before(s)
      BY <1>2, <1>10, <2>1, <3>1, TermUses
    <3> QED BY <1>6, <1>7, <2>2, <3>2
  <2>4. Done("Cfs", T)
    <3>1. PICK s : s = Step("Cfs", T)
      OBVIOUS
    <3>2. /\ s \in OfTerm(T) /\ step \in OfTerm(T) /\ GridOf(T) \in Writes(step) /\ GridOf(T) \in Reads(s)
          /\ s.do = "Cfs" /\ s.on = T /\ before(s)
      BY <1>2, <1>10, <2>1, <3>1, TermUses
    <3> QED BY <1>6, <1>7, <2>2, <3>2
  <2> QED BY <2>3, <2>4
<1>11. ASSUME step = Step("Destroy", T)
      PROVE  Done("Create", T) /\ Done("Show", TitleOf(T))
  <2>1. before(Step("Create", T)) /\ before(Step("Show", TitleOf(T)))
    BY <1>2, <1>5, <1>11
  <2> HIDE DEF before, step
  <2>2. IndexOf(T) \in DOMAIN space /\ Value(T) \in DOMAIN space
    BY <1>2, <1>3, <1>4, <1>11, <2>1
  <2>3. Done("Create", T)
    <3>1. PICK s : s = Step("Create", T)
      OBVIOUS
    <3>2. /\ s \in OfTerm(T) /\ step \in OfTerm(T) /\ IndexOf(T) \in Writes(step) /\ IndexOf(T) \in Writes(s)
          /\ s.do = "Create" /\ s.on = T /\ before(s)
      BY <1>2, <1>11, <2>1, <3>1, TermUses
    <3> QED BY <1>6, <1>7, <2>2, <3>2
  <2>4. Done("Show", TitleOf(T))
    <3>1. PICK s : s = Step("Show", TitleOf(T))
      OBVIOUS
    <3>2. /\ s \in OfTerm(T) /\ step \in OfTerm(T) /\ Value(T) \in Writes(step) /\ Value(T) \in Reads(s)
          /\ s.do = "Show" /\ s.on = TitleOf(T) /\ before(s)
      BY <1>2, <1>11, <2>1, <3>1, TermUses
    <3> QED BY <1>6, <1>7, <2>2, <3>2
  <2> QED BY <2>3, <2>4
<1> QED BY <1>8, <1>9, <1>10, <1>11

-----------------------------------------------------------------------------
(***************************************************************************)
(* What a piece of a launch does to a term.                                *)
(***************************************************************************)

\* What a piece of a launch does to the columns and the print of a term.
Effects(T, i, color) ==
  LET step == tasks[i].step
      coords == CoordsOf(T)
      region == RegionsOf(i, color)
      becomes(col, at, writes) ==
        col \in DOMAIN value' => value'[col] = IF step = at THEN Store(value[col], writes) ELSE value[col]
  IN /\ \A col \in {GridOf(T), AngleOf(T)} :
          col \in DOMAIN value' <=> col \in DOMAIN value /\ step # Step("Destroy", coords)
     /\ \A col \in {Value(T), IndexOf(T)} :
          col \in DOMAIN value' <=> col \in DOMAIN value /\ step # Step("Destroy", T)
     /\ becomes(AngleOf(T), Step("Create", coords),
                InitBody(coords, AngleOf(T), tasks[i].values, region))
     /\ becomes(GridOf(T), Step("Coordinates", coords),
                CoordinatesBody(coords, Diameter(coords), value, region))
     /\ becomes(IndexOf(T), Step("Create", T), InitBody(T, IndexOf(T), tasks[i].values, region))
     /\ becomes(Value(T), Step("Cfs", T), TermBody(T, region))
     /\ IF step = Step("Show", TitleOf(T))
        THEN shown'[TitleOf(T)] = Contents(T)
        ELSE TitleOf(T) \in DOMAIN shown' =>
               TitleOf(T) \in DOMAIN shown /\ shown'[TitleOf(T)] = shown[TitleOf(T)]

\* A piece of a launch that is ready, with what it does to a term.
TermStep(T, i, color) ==
  /\ Standing /\ TermInv(T)
  /\ i \in DOMAIN tasks /\ color \in tasks[i].left /\ Ready(i, color)
  /\ UNCHANGED <<input, next, space>>
  /\ tasks' = IF tasks[i].left = {color} THEN RemoveAt(tasks, i)
              ELSE [tasks EXCEPT ![i].left = @ \ {color}]
  /\ Effects(T, i, color)

\* Which steps of the term are done by it: those that are whole at once.
LEMMA TermDones ==
  ASSUME NEW T \in Followed, NEW i, NEW color, TermStep(T, i, color), NEW s \in OfTerm(T)
  PROVE  /\ Issued(s)' <=> Issued(s)
         /\ tasks[i].step # s => (Done(s.do, s.on)' <=> Done(s.do, s.on))
         /\ Done(s.do, s.on) => Done(s.do, s.on)'
         /\ tasks[i].step = s => ~Done(s.do, s.on) /\ Issued(s)
         /\ tasks[i].step = s /\ s # Step("Cfs", T) => Done(s.do, s.on)'
<1>1. /\ IInv /\ InOrder /\ \A t \in ToSet(tasks) : Outstanding(t)
      /\ i \in DOMAIN tasks /\ color \in tasks[i].left /\ UNCHANGED <<input, next, space>>
      /\ tasks' = IF tasks[i].left = {color} THEN RemoveAt(tasks, i)
                  ELSE [tasks EXCEPT ![i].left = @ \ {color}]
  BY DEF TermStep, Standing
<1>2. PICK k : k = PlaceOf(s)
  OBVIOUS
<1>3. k \in 1 .. 38 /\ Program[k] = s /\ s = Step(s.do, s.on)
  BY <1>2, StepsOfTerm
<1>4. /\ Issued(Step(s.do, s.on))' <=> Issued(Step(s.do, s.on))
      /\ tasks[i].step # Step(s.do, s.on) => (Done(s.do, s.on)' <=> Done(s.do, s.on))
      /\ tasks[i].step = Step(s.do, s.on) =>
           ~Done(s.do, s.on) /\ (Done(s.do, s.on)' <=> tasks[i].left = {color})
  BY <1>1, <1>3, PieceDones
<1>5. tasks[i].step = s /\ s # Step("Cfs", T) => tasks[i].left = {color}
  <2> SUFFICES ASSUME tasks[i].step = s, s # Step("Cfs", T) PROVE tasks[i].left = {color}
    OBVIOUS
  <2>1. tasks[i] \in ToSet(tasks)
    BY <1>1 DEF ToSet
  <2>2. s.do \in {"Create", "Coordinates", "Show", "Destroy"}
    BY DEF OfTerm, Step
  <2>3. tasks[i].partition = NoPartition /\ tasks[i].left \subseteq ColorsOf(tasks[i].partition)
    BY <1>1, <2>1, <2>2 DEF Outstanding
  <2>4. ColorsOf(NoPartition) = {<<>>}
    BY DEF ColorsOf, IsValid
  <2> QED BY <1>1, <2>3, <2>4
<1>6. tasks[i].step = s => Issued(s)
  BY <1>1 DEF InOrder
<1>7. Issued(s)' <=> Issued(s)
  BY <1>3, <1>4
<1> QED BY <1>3, <1>4, <1>5, <1>6, <1>7

\* The steps keep their order, and the columns stay.
LEMMA RunFollows ==
  ASSUME InputsServe, NEW T \in Followed, NEW i, NEW color, TermStep(T, i, color)
  PROVE  StepsFollow(T)' /\ ColumnsStand(T)'
<1>1. /\ Standing /\ i \in DOMAIN tasks /\ color \in tasks[i].left /\ Ready(i, color)
      /\ StepsFollow(T) /\ ColumnsStand(T) /\ Effects(T, i, color)
  BY DEF TermStep, TermInv
<1>2. /\ tasks[i].step = Step("Cfs", T) => Done("Create", T) /\ Done("Coordinates", CoordsOf(T))
      /\ tasks[i].step = Step("Show", TitleOf(T)) => Done("Cfs", T)
      /\ tasks[i].step = Step("Destroy", CoordsOf(T)) =>
           Done("Create", CoordsOf(T)) /\ Done("Cfs", T)
      /\ tasks[i].step = Step("Destroy", T) => Done("Create", T) /\ Done("Show", TitleOf(T))
  BY <1>1, TermOrder
<1>3. ASSUME NEW do, NEW on, Step(do, on) \in OfTerm(T)
      PROVE  /\ Issued(Step(do, on))' <=> Issued(Step(do, on))
             /\ Done(do, on) => Done(do, on)'
             /\ Done(do, on)' /\ ~Done(do, on) => tasks[i].step = Step(do, on)
             /\ tasks[i].step = Step(do, on) /\ Step(do, on) # Step("Cfs", T) => Done(do, on)'
  <2>1. Step(do, on).do = do /\ Step(do, on).on = on
    BY DEF Step
  <2>2. PICK s : s = Step(do, on)
    OBVIOUS
  <2>3. s \in OfTerm(T) /\ s.do = do /\ s.on = on
    BY <1>3, <2>1, <2>2
  <2>4. /\ Issued(s)' <=> Issued(s)
        /\ tasks[i].step # s => (Done(s.do, s.on)' <=> Done(s.do, s.on))
        /\ Done(s.do, s.on) => Done(s.do, s.on)'
        /\ tasks[i].step = s /\ s # Step("Cfs", T) => Done(s.do, s.on)'
    BY <2>3, TermDones
  <2> QED BY <2>2, <2>3, <2>4
<1>4. {Step("Create", CoordsOf(T)), Step("Coordinates", CoordsOf(T)), Step("Create", T),
       Step("Cfs", T), Step("Show", TitleOf(T)), Step("Destroy", CoordsOf(T)),
       Step("Destroy", T)} \subseteq OfTerm(T)
  BY DEF OfTerm
<1>5. /\ Done("Destroy", CoordsOf(T)) => Done("Create", CoordsOf(T)) /\ Done("Cfs", T)
      /\ Done("Destroy", T) => Done("Create", T) /\ Done("Show", TitleOf(T))
      /\ Done("Show", TitleOf(T)) => Done("Cfs", T)
      /\ Done("Cfs", T) => Done("Coordinates", CoordsOf(T))
  BY <1>1 DEF StepsFollow
<1>6. /\ Done("Destroy", CoordsOf(T))' => Done("Create", CoordsOf(T))' /\ Done("Cfs", T)'
      /\ Done("Destroy", T)' => Done("Create", T)' /\ Done("Show", TitleOf(T))'
      /\ Done("Show", TitleOf(T))' => Done("Cfs", T)'
      /\ Done("Cfs", T)' => Done("Coordinates", CoordsOf(T))'
  BY <1>2, <1>3, <1>4, <1>5
<1>7. StepsFollow(T)'
  BY <1>6 DEF StepsFollow
<1>8. /\ Issued(Step("Create", CoordsOf(T)))' <=> Issued(Step("Create", CoordsOf(T)))
      /\ Issued(Step("Create", T))' <=> Issued(Step("Create", T))
      /\ ~Done("Destroy", CoordsOf(T))' =>
           ~Done("Destroy", CoordsOf(T)) /\ tasks[i].step # Step("Destroy", CoordsOf(T))
      /\ ~Done("Destroy", T)' => ~Done("Destroy", T) /\ tasks[i].step # Step("Destroy", T)
  <2>1. \A on : Step("Destroy", on) # Step("Cfs", T)
    BY DEF Step
  <2> QED BY <1>3, <1>4, <2>1
<1>9. /\ \A col \in {GridOf(T), AngleOf(T)} :
          col \in DOMAIN value' <=> col \in DOMAIN value /\ tasks[i].step # Step("Destroy", CoordsOf(T))
      /\ \A col \in {Value(T), IndexOf(T)} :
          col \in DOMAIN value' <=> col \in DOMAIN value /\ tasks[i].step # Step("Destroy", T)
  BY <1>1 DEF Effects
<1>10. /\ (Issued(Step("Create", CoordsOf(T))) /\ ~Done("Destroy", CoordsOf(T))) =>
            GridOf(T) \in DOMAIN value /\ AngleOf(T) \in DOMAIN value
       /\ (Issued(Step("Create", T)) /\ ~Done("Destroy", T)) =>
            Value(T) \in DOMAIN value /\ IndexOf(T) \in DOMAIN value
  BY <1>1 DEF ColumnsStand
<1>11. ColumnsStand(T)'
  <2>1. ASSUME Issued(Step("Create", CoordsOf(T)))', ~Done("Destroy", CoordsOf(T))'
        PROVE  GridOf(T) \in DOMAIN value' /\ AngleOf(T) \in DOMAIN value'
    BY <1>8, <1>9, <1>10, <2>1
  <2>2. ASSUME Issued(Step("Create", T))', ~Done("Destroy", T)'
        PROVE  Value(T) \in DOMAIN value' /\ IndexOf(T) \in DOMAIN value'
    BY <1>8, <1>9, <1>10, <2>2
  <2>3. GridOf(T)' = GridOf(T) /\ AngleOf(T)' = AngleOf(T) /\ IndexOf(T)' = IndexOf(T) /\ Value(T)' = Value(T)
    BY DEF GridOf, AngleOf, IndexOf, Value
  <2> QED BY <2>1, <2>2, <2>3 DEF ColumnsStand
<1> QED BY <1>7, <1>11

\* Places of the steps of a term, told from each other.
LEMMA WholeOfTerm ==
  ASSUME NEW T \in Followed, NEW i, NEW color, TermStep(T, i, color),
         tasks[i].step \in OfTerm(T), tasks[i].step # Step("Cfs", T),
         NEW col \in Uses(tasks[i]), NEW axes, NEW size, SpaceIs(col, axes, size)
  PROVE  LET r == RegionsOf(i, color)[col]
         IN DOMAIN r = DOMAIN axes /\ \A d \in DOMAIN axes : r[d] = Span(0, size[d] - 1)
<1>1. tasks[i] \in ToSet(tasks) /\ Outstanding(tasks[i])
  BY DEF TermStep, Standing, ToSet
<1>2. tasks[i].step.do \in {"Create", "Coordinates", "Show", "Destroy"}
  BY DEF OfTerm, Step
<1>3. ~IsValid(tasks[i].partition)
  BY <1>1, <1>2 DEF Outstanding, IsValid
<1>4. RegionsOf(i, color)[col] = Region(tasks[i].partition, col, color)
  BY DEF RegionsOf
<1>5. LET r == Region(tasks[i].partition, col, color)
      IN DOMAIN r = DOMAIN axes /\ \A d \in DOMAIN axes : r[d] = Span(0, size[d] - 1)
  <2>1. PICK p : p = tasks[i].partition
    OBVIOUS
  <2>2. ~IsValid(p)
    BY <1>3, <2>1
  <2> QED BY <2>1, <2>2, WholeRegion
<1> QED BY <1>4, <1>5

\* The ColumnSpaces at a piece of a term.
LEMMA SpacesAtStep ==
  ASSUME NEW T \in Followed, NEW i, NEW color, TermStep(T, i, color),
         tasks[i].step \in OfTerm(T)
  PROVE  /\ SpaceIs(AngleOf(T), <<"PARALLACTIC_ANGLE">>, <<1>>)
         /\ SpaceIs(GridOf(T), <<"PARALLACTIC_ANGLE", "X", "Y">>, <<1, GridSize(T), GridSize(T)>>)
         /\ PlaceOf(Step("Create", T)) <= PlaceOf(tasks[i].step) =>
              /\ SpaceIs(IndexOf(T), <<AxisOf(T)>>, <<Len(Given(T))>>)
              /\ SpaceIs(Value(T), <<AxisOf(T), "X", "Y">>,
                         <<Len(Given(T)), GridSize(T), GridSize(T)>>)
<1>1. IInv /\ SpacesGiven /\ next \in Nat /\ next <= 39 /\ Issued(tasks[i].step)
  BY DEF TermStep, Standing, IInv, InOrder
<1> PICK k, l, m : /\ k = PlaceOf(Step("Create", CoordsOf(T))) /\ l = PlaceOf(Step("Create", T))
                   /\ m = PlaceOf(tasks[i].step)
  OBVIOUS
<1>2. /\ k \in 1 .. 38 /\ l \in 1 .. 38 /\ m \in 1 .. 38
      /\ Program[k] = Step("Create", CoordsOf(T)) /\ Program[l] = Step("Create", T)
      /\ Program[m] = tasks[i].step
  <2>1. Step("Create", CoordsOf(T)) \in OfTerm(T) /\ Step("Create", T) \in OfTerm(T)
    BY DEF OfTerm
  <2> QED BY <2>1, StepsOfTerm
<1>3. k <= m
  <2>1. \A s \in OfTerm(T) : PlaceOf(s) \in Int
    BY StepsOfTerm
  <2>2. /\ PlaceOf(Step("Create", CoordsOf(T))) < PlaceOf(Step("Coordinates", CoordsOf(T)))
        /\ PlaceOf(Step("Coordinates", CoordsOf(T))) < PlaceOf(Step("Create", T))
        /\ PlaceOf(Step("Create", T)) < PlaceOf(Step("Cfs", T))
        /\ PlaceOf(Step("Cfs", T)) < PlaceOf(Step("Show", TitleOf(T)))
        /\ PlaceOf(Step("Show", TitleOf(T))) < PlaceOf(Step("Destroy", CoordsOf(T)))
        /\ PlaceOf(Step("Destroy", CoordsOf(T))) < PlaceOf(Step("Destroy", T))
    BY StepsOfTerm
  <2>3. \/ m = PlaceOf(Step("Create", CoordsOf(T))) \/ m = PlaceOf(Step("Coordinates", CoordsOf(T)))
        \/ m = PlaceOf(Step("Create", T)) \/ m = PlaceOf(Step("Cfs", T))
        \/ m = PlaceOf(Step("Show", TitleOf(T))) \/ m = PlaceOf(Step("Destroy", CoordsOf(T)))
        \/ m = PlaceOf(Step("Destroy", T))
    BY DEF OfTerm
  <2> PICK b, c, d, e, f, h : /\ b = PlaceOf(Step("Coordinates", CoordsOf(T)))
                              /\ c = PlaceOf(Step("Cfs", T)) /\ d = PlaceOf(Step("Show", TitleOf(T)))
                              /\ e = PlaceOf(Step("Destroy", CoordsOf(T)))
                              /\ f = PlaceOf(Step("Destroy", T)) /\ h = PlaceOf(Step("Create", T))
    OBVIOUS
  <2>4. k < b /\ b < h /\ h < c /\ c < d /\ d < e /\ e < f
    BY <2>2
  <2>5. b \in Int /\ c \in Int /\ d \in Int /\ e \in Int /\ f \in Int /\ h \in Int
    BY <2>1 DEF OfTerm
  <2>6. m = k \/ m = b \/ m = h \/ m = c \/ m = d \/ m = e \/ m = f
    BY <2>3
  <2> QED BY <1>2, <2>4, <2>5, <2>6
<1>4. ColumnsOf(CoordsOf(T)) \subseteq DOMAIN space
  BY <1>1, <1>2, <1>3, IssuedBefore, ColumnsMade
<1>5. l <= m => ColumnsOf(T) \subseteq DOMAIN space
  BY <1>1, <1>2, IssuedBefore, ColumnsMade
<1>6. /\ ColumnsOf(CoordsOf(T)) = {AngleOf(T), GridOf(T), Value(CoordsOf(T))}
      /\ ColumnsOf(T) = {IndexOf(T), Value(T)}
  BY TermColumns
<1>7. AngleOf(T) \in DOMAIN space /\ GridOf(T) \in DOMAIN space
  BY <1>4, <1>6
<1>8. l <= m => IndexOf(T) \in DOMAIN space /\ Value(T) \in DOMAIN space
  BY <1>5, <1>6
<1> QED BY <1>1, <1>7, <1>8, TermSpaces

\* What a table is given at its launch reaches its index column.
LEMMA RunAngles ==
  ASSUME InputsServe, NEW T \in Followed, NEW i, NEW color, TermStep(T, i, color)
  PROVE  AnglesRead(T)'
<1>1. /\ AnglesRead(T) /\ Effects(T, i, color) /\ tasks[i] \in ToSet(tasks)
      /\ Outstanding(tasks[i])
  BY DEF TermStep, TermInv, Standing, ToSet
<1> PICK col, old, new : col = AngleOf(T) /\ old = value[AngleOf(T)] /\ new = value'[AngleOf(T)]
  OBVIOUS
<1>2. (AnglesRead(T)' <=> (col \in DOMAIN value' => \A pt \in DOMAIN new : new[pt] \in Int))
  BY DEF AnglesRead, AngleOf, CoordsOf
<1> SUFFICES ASSUME col \in DOMAIN value', NEW pt \in DOMAIN new PROVE new[pt] \in Int
  BY <1>2
<1>3. col \in DOMAIN value /\ \A q \in DOMAIN old : old[q] \in Int
  BY <1>1 DEF AnglesRead, Effects
<1>4. CASE tasks[i].step = Step("Create", CoordsOf(T))
  <2>1. /\ tasks[i].step \in OfTerm(T) /\ tasks[i].step # Step("Cfs", T)
    BY <1>4 DEF OfTerm, Step
  <2>2. col \in Uses(tasks[i]) /\ SpaceIs(col, <<"PARALLACTIC_ANGLE">>, <<1>>)
    <3>1. Writes(tasks[i].step) = {col}
      BY <1>4, TermUses
    <3> QED BY <2>1, <3>1, SpacesAtStep DEF Uses
  <2>3. RegionsOf(i, color)[col][1] = Span(0, 1 - 1)
    <3>1. PICK axes, size : axes = <<"PARALLACTIC_ANGLE">> /\ size = <<1>>
      OBVIOUS
    <3>2. 1 \in DOMAIN axes /\ size[1] = 1
      BY <3>1
    <3>3. \A d \in DOMAIN axes : RegionsOf(i, color)[col][d] = Span(0, size[d] - 1)
      BY <2>1, <2>2, <3>1, WholeOfTerm
    <3> QED BY <3>2, <3>3
  <2>4. PICK writes : writes = InitBody(CoordsOf(T), col, tasks[i].values, RegionsOf(i, color))
    OBVIOUS
  <2>5. new = Store(old, writes)
    BY <1>1, <1>4, <2>4 DEF Effects
  <2>6. \A wr \in writes : \E k \in 0 .. 1 - 1 : wr[2] = tasks[i].values[col[2]][k + 1]
    <3>1. PICK n \in Nat \ {0} : n = 1
      OBVIOUS
    <3>2. PICK region, values : region = RegionsOf(i, color) /\ values = tasks[i].values
      OBVIOUS
    <3>3. region[col][1] = Span(0, n - 1)
      BY <2>3, <3>1, <3>2
    <3>4. writes = InitBody(CoordsOf(T), col, values, region)
      BY <2>4, <3>2
    <3>5. IndexWritten(writes, values[col[2]], n)
      BY <3>3, <3>4, InitWrites
    <3> QED BY <3>1, <3>2, <3>5 DEF IndexWritten
  <2>7. tasks[i].values = [PARALLACTIC_ANGLE |-> <<0>>]
    <3>1. CoordsOf(T) \in Made /\ IndexValues(CoordsOf(T)) = [PARALLACTIC_ANGLE |-> <<0>>]
      BY TermColumns
    <3> QED BY <1>1, <1>4, <3>1 DEF Outstanding
  <2>8. \A wr \in writes : wr[2] = 0
    <3>1. col[2] = "PARALLACTIC_ANGLE"
      BY DEF AngleOf
    <3>2. tasks[i].values[col[2]] = <<0>>
      BY <2>7, <3>1
    <3>3. \A k \in 0 .. 1 - 1 : tasks[i].values[col[2]][k + 1] = 0
      BY <3>2
    <3> QED BY <2>6, <3>3
  <2>9. Holds(new, pt, writes) \/ (pt \in DOMAIN old /\ new[pt] = old[pt])
    BY <2>5, Stored
  <2> QED BY <1>3, <2>8, <2>9 DEF Holds
<1>5. CASE tasks[i].step # Step("Create", CoordsOf(T))
  <2>1. new = old
    BY <1>1, <1>5 DEF Effects
  <2> QED BY <1>3, <2>1
<1> QED BY <1>4, <1>5

\* The grid is complete once it was computed.
LEMMA RunGrid ==
  ASSUME InputsServe, NEW T \in Followed, NEW i, NEW color, TermStep(T, i, color)
  PROVE  GridMade(T)'
<1>1. /\ AnglesRead(T) /\ GridMade(T) /\ StepsFollow(T) /\ ColumnsStand(T) /\ Effects(T, i, color)
      /\ input' = input /\ input \in Inputs
  BY DEF TermStep, TermInv, Standing, IInv
<1> PICK col, old, new, coords : /\ col = GridOf(T) /\ old = value[GridOf(T)]
                                 /\ new = value'[GridOf(T)] /\ coords = CoordsOf(T)
  OBVIOUS
<1> PICK n : n = GridSize(T)
  OBVIOUS
<1>2. (GridMade(T)' <=> ((col \in DOMAIN value' /\ Done("Coordinates", coords)') =>
                           \A x, y \in 0 .. n - 1 : <<0, x, y>> \in DOMAIN new
                                                    /\ new[<<0, x, y>>] \in CoordinateSet))
  <2>1. GridSize(T)' = GridSize(T)
    BY <1>1 DEF GridSize
  <2>2. CoordinateSet' = CoordinateSet
    BY DEF CoordinateSet
  <2> QED BY <2>1, <2>2 DEF GridMade, GridOf, CoordsOf
<1> SUFFICES ASSUME col \in DOMAIN value', Done("Coordinates", coords)',
                    NEW x \in 0 .. n - 1, NEW y \in 0 .. n - 1
             PROVE  <<0, x, y>> \in DOMAIN new /\ new[<<0, x, y>>] \in CoordinateSet
  BY <1>2
<1>3. col \in DOMAIN value
  BY <1>1 DEF Effects
<1>4. n \in Nat \ {0}
  BY <1>1, GivenCounted
<1>5. CASE tasks[i].step = Step("Coordinates", coords)
  <2>1. /\ tasks[i].step \in OfTerm(T) /\ tasks[i].step # Step("Cfs", T)
        /\ Step("Coordinates", coords).do = "Coordinates" /\ Step("Coordinates", coords).on = coords
        /\ Step("Create", coords) \in OfTerm(T)
    BY <1>5 DEF OfTerm, Step
  <2>2. col \in Uses(tasks[i]) /\ SpaceIs(col, <<"PARALLACTIC_ANGLE", "X", "Y">>, <<1, n, n>>)
    <3>1. Writes(tasks[i].step) = {col}
      BY <1>5, TermUses
    <3> QED BY <2>1, <3>1, SpacesAtStep DEF Uses
  <2>3. PICK r : r = RegionsOf(i, color)[col]
    OBVIOUS
  <2>4. DOMAIN r = 1 .. 3 /\ r[1] = Span(0, 0) /\ r[2] = Span(0, n - 1) /\ r[3] = Span(0, n - 1)
    <3>1. PICK axes, size : axes = <<"PARALLACTIC_ANGLE", "X", "Y">> /\ size = <<1, n, n>>
      OBVIOUS
    <3>2. DOMAIN axes = 1 .. 3 /\ size[1] - 1 = 0 /\ size[2] = n /\ size[3] = n
      BY <3>1
    <3>3. DOMAIN r = DOMAIN axes /\ \A d \in DOMAIN axes : r[d] = Span(0, size[d] - 1)
      BY <2>1, <2>2, <2>3, <3>1, WholeOfTerm
    <3>4. 1 \in 1 .. 3 /\ 2 \in 1 .. 3 /\ 3 \in 1 .. 3
      OBVIOUS
    <3> QED BY <3>2, <3>3, <3>4, Zenon
  <2>5. \A pt \in DOMAIN value[AngleOf(T)] : value[AngleOf(T)][pt] \in Int
    <3>1. Issued(Step("Create", coords))
      <4> PICK k, m : k = PlaceOf(Step("Create", coords)) /\ m = PlaceOf(tasks[i].step)
        OBVIOUS
      <4>1. /\ k \in 1 .. 38 /\ m \in 1 .. 38 /\ Program[k] = Step("Create", coords)
            /\ Program[m] = tasks[i].step /\ k < m
        BY <1>5, <2>1, StepsOfTerm
      <4>2. k <= m
        BY <4>1
      <4>3. next \in Nat /\ next <= 39 /\ Issued(tasks[i].step)
        BY DEF TermStep, Standing, IInv, InOrder
      <4> QED BY <4>1, <4>2, <4>3, IssuedBefore
    <3>2. ~Done("Destroy", coords)
      <4>1. ~Done("Coordinates", coords)
        <5>1. PICK s : s = tasks[i].step
          OBVIOUS
        <5>2. s \in OfTerm(T) /\ s.do = "Coordinates" /\ s.on = coords
          BY <1>5, <2>1, <5>1
        <5>3. ~Done(s.do, s.on)
          BY <5>1, <5>2, TermDones
        <5> QED BY <5>2, <5>3
      <4> QED BY <1>1, <4>1 DEF StepsFollow
    <3>3. AngleOf(T) \in DOMAIN value
      BY <1>1, <3>1, <3>2 DEF ColumnsStand
    <3> QED BY <1>1, <3>3 DEF AnglesRead
  <2>6. Diameter(coords) \in Int
    <3>1. input.grid.ps \in Int
      BY <1>1 DEF InputsServe
    <3> QED BY <3>1 DEF Diameter, CoordsOf
  <2>7. PICK writes : writes = CoordinatesBody(coords, Diameter(coords), value, RegionsOf(i, color))
    OBVIOUS
  <2>8. new = Store(old, writes)
    BY <1>1, <1>5, <2>7 DEF Effects
  <2>9. GridWritten(writes, n)
    <3>1. PICK d, region : d = Diameter(coords) /\ region = RegionsOf(i, color)
      OBVIOUS
    <3>2. d \in Int
      BY <2>6, <3>1
    <3>3. r = region[<<coords, "COORD">>]
      BY <2>3, <3>1 DEF GridOf
    <3>4. PICK angles : angles = value[<<coords, "PARALLACTIC_ANGLE">>]
      OBVIOUS
    <3>5. \A pt \in DOMAIN angles : angles[pt] \in Int
      BY <2>5, <3>4 DEF AngleOf
    <3>6. writes = CoordinatesBody(coords, d, value, region)
      BY <2>7, <3>1
    <3> QED BY <1>4, <2>4, <3>2, <3>3, <3>4, <3>5, <3>6, CoordinatesWrites
  <2>10. PICK wr \in writes : wr[1] = <<0, x, y>>
    BY <2>9 DEF GridWritten
  <2>11. Holds(new, wr[1], writes)
    BY <2>8, <2>10, Stored
  <2> QED BY <2>9, <2>10, <2>11 DEF Holds, GridWritten
<1>6. CASE tasks[i].step # Step("Coordinates", coords)
  <2>1. new = old
    BY <1>1, <1>6 DEF Effects
  <2>2. Done("Coordinates", coords)
    <3>1. PICK s : s = Step("Coordinates", coords)
      OBVIOUS
    <3>2. s \in OfTerm(T) /\ s.do = "Coordinates" /\ s.on = coords
      BY <3>1 DEF OfTerm, Step
    <3>3. tasks[i].step # s => (Done(s.do, s.on)' <=> Done(s.do, s.on))
      BY <3>2, TermDones
    <3> QED BY <1>6, <3>1, <3>2, <3>3
  <2> QED BY <1>1, <1>3, <2>1, <2>2 DEF GridMade
<1> QED BY <1>5, <1>6

\* The index values are complete once the table is initialized.
LEMMA RunIndex ==
  ASSUME InputsServe, NEW T \in Followed, NEW i, NEW color, TermStep(T, i, color)
  PROVE  IndexMade(T)'
<1>1. /\ IndexMade(T) /\ Effects(T, i, color) /\ input' = input /\ input \in Inputs
      /\ tasks[i] \in ToSet(tasks) /\ Outstanding(tasks[i])
  BY DEF TermStep, TermInv, Standing, IInv, ToSet
<1> PICK col, old, new, given : /\ col = IndexOf(T) /\ old = value[IndexOf(T)]
                                /\ new = value'[IndexOf(T)] /\ given = Given(T)
  OBVIOUS
<1> PICK N : N = Len(Given(T))
  OBVIOUS
<1>2. (IndexMade(T)' <=> ((col \in DOMAIN value' /\ Done("Create", T)') =>
                           \A k \in 0 .. N - 1 : <<k>> \in DOMAIN new /\ new[<<k>>] = given[k + 1]))
  <2>1. Given(T)' = Given(T)
    BY <1>1 DEF Given
  <2> QED BY <2>1 DEF IndexMade, IndexOf
<1> SUFFICES ASSUME col \in DOMAIN value', Done("Create", T)', NEW k \in 0 .. N - 1
             PROVE  <<k>> \in DOMAIN new /\ new[<<k>>] = given[k + 1]
  BY <1>2
<1>3. col \in DOMAIN value
  BY <1>1 DEF Effects
<1>4. N \in Nat \ {0}
  BY <1>1, GivenCounted
<1>5. CASE tasks[i].step = Step("Create", T)
  <2>1. /\ tasks[i].step \in OfTerm(T) /\ tasks[i].step # Step("Cfs", T)
        /\ PlaceOf(Step("Create", T)) \in 1 .. 38
    <3>1. PICK s : s = Step("Create", T)
      OBVIOUS
    <3>2. s \in OfTerm(T) /\ s # Step("Cfs", T)
      BY <3>1 DEF OfTerm, Step
    <3>3. PlaceOf(s) \in 1 .. 38
      BY <3>2, StepsOfTerm
    <3> QED BY <1>5, <3>1, <3>2, <3>3
  <2>2. col \in Uses(tasks[i]) /\ SpaceIs(col, <<AxisOf(T)>>, <<N>>)
    <3>1. Writes(tasks[i].step) = {col}
      BY <1>5, TermUses
    <3>2. PlaceOf(Step("Create", T)) <= PlaceOf(tasks[i].step)
      <4>1. PICK m \in 1 .. 38 : m = PlaceOf(Step("Create", T))
        BY <2>1
      <4>2. m <= m
        BY <4>1
      <4> QED BY <1>5, <4>1, <4>2
    <3> QED BY <2>1, <3>1, <3>2, SpacesAtStep DEF Uses
  <2>3. PICK region, values : region = RegionsOf(i, color) /\ values = tasks[i].values
    OBVIOUS
  <2>4. region[col][1] = Span(0, N - 1)
    <3>1. PICK axes, size : axes = <<AxisOf(T)>> /\ size = <<N>>
      OBVIOUS
    <3>2. 1 \in DOMAIN axes /\ size[1] = N
      BY <3>1
    <3>3. \A d \in DOMAIN axes : RegionsOf(i, color)[col][d] = Span(0, size[d] - 1)
      BY <2>1, <2>2, <3>1, WholeOfTerm
    <3> QED BY <2>3, <3>2, <3>3
  <2>5. PICK writes : writes = InitBody(T, col, values, region)
    OBVIOUS
  <2>6. new = Store(old, writes)
    BY <1>1, <1>5, <2>3, <2>5 DEF Effects
  <2>7. IndexWritten(writes, values[col[2]], N)
    BY <1>4, <2>4, <2>5, InitWrites
  <2>8. values[col[2]] = given
    <3>1. T \in Made /\ IndexValues(T)[AxisOf(T)] = given /\ col[2] = AxisOf(T)
      BY TermColumns DEF IndexOf, AxisOf
    <3>2. values = IndexValues(T)
      BY <1>1, <1>5, <2>3, <3>1 DEF Outstanding
    <3> QED BY <3>1, <3>2
  <2>9. PICK wr \in writes : wr[1] = <<k>>
    BY <2>7 DEF IndexWritten
  <2>10. Holds(new, wr[1], writes)
    BY <2>6, <2>9, Stored
  <2>11. PICK other \in writes : other[1] = <<k>> /\ new[<<k>>] = other[2]
    BY <2>9, <2>10 DEF Holds
  <2>12. PICK m \in 0 .. N - 1 : other[1] = <<m>> /\ other[2] = values[col[2]][m + 1]
    BY <2>7, <2>11 DEF IndexWritten
  <2>13. m = k
    <3>1. <<k>> = <<m>>
      BY <2>11, <2>12
    <3> QED BY <3>1
  <2>14. <<k>> \in DOMAIN new
    BY <2>9, <2>10 DEF Holds
  <2> QED BY <2>8, <2>11, <2>12, <2>13, <2>14
<1>6. CASE tasks[i].step # Step("Create", T)
  <2>1. new = old
    BY <1>1, <1>6 DEF Effects
  <2>2. Done("Create", T)
    <3>1. PICK s : s = Step("Create", T)
      OBVIOUS
    <3>2. s \in OfTerm(T) /\ s.do = "Create" /\ s.on = T
      BY <3>1 DEF OfTerm, Step
    <3>3. tasks[i].step # s => (Done(s.do, s.on)' <=> Done(s.do, s.on))
      BY <3>2, TermDones
    <3> QED BY <1>6, <3>1, <3>2, <3>3
  <2> QED BY <1>1, <1>3, <2>1, <2>2 DEF IndexMade
<1> QED BY <1>5, <1>6

\* What the piece that computes a term can read.
LEMMA ReadableAtStep ==
  ASSUME InputsServe, NEW T \in Followed, NEW i, NEW color, TermStep(T, i, color),
         tasks[i].step = Step("Cfs", T)
  PROVE  TermReadable(T)
<1>1. /\ Standing /\ i \in DOMAIN tasks /\ color \in tasks[i].left /\ Ready(i, color)
      /\ StepsFollow(T) /\ ColumnsStand(T) /\ GridMade(T) /\ IndexMade(T)
  BY DEF TermStep, TermInv
<1>2. Done("Create", T) /\ Done("Coordinates", CoordsOf(T))
  BY <1>1, TermOrder
<1>3. ~Done("Cfs", T)
  <2>1. PICK s : s = Step("Cfs", T)
    OBVIOUS
  <2>2. s \in OfTerm(T) /\ s.do = "Cfs" /\ s.on = T
    BY <2>1 DEF OfTerm, Step
  <2>3. ~Done(s.do, s.on)
    BY <2>1, <2>2, TermDones
  <2> QED BY <2>2, <2>3
<1>4. ~Done("Destroy", CoordsOf(T)) /\ ~Done("Destroy", T)
  BY <1>1, <1>3 DEF StepsFollow
<1>5. Issued(Step("Create", T)) /\ Issued(Step("Create", CoordsOf(T)))
  <2> PICK k, l, m : /\ k = PlaceOf(Step("Create", CoordsOf(T))) /\ l = PlaceOf(Step("Create", T))
                     /\ m = PlaceOf(Step("Coordinates", CoordsOf(T)))
    OBVIOUS
  <2>1. /\ Step("Create", CoordsOf(T)) \in OfTerm(T) /\ Step("Create", T) \in OfTerm(T)
        /\ Step("Coordinates", CoordsOf(T)) \in OfTerm(T)
    BY DEF OfTerm
  <2>2. /\ k \in 1 .. 38 /\ l \in 1 .. 38 /\ m \in 1 .. 38
        /\ Program[k] = Step("Create", CoordsOf(T)) /\ Program[l] = Step("Create", T)
        /\ k < m /\ m < l
    BY <2>1, StepsOfTerm
  <2>3. k <= l
    BY <2>2
  <2>4. Issued(Program[l])
    BY <1>2, <2>2 DEF Done
  <2>5. next \in Nat /\ next <= 39
    BY <1>1 DEF Standing, IInv, InOrder
  <2>6. Issued(Program[k])
    BY <2>2, <2>3, <2>4, <2>5, IssuedBefore
  <2> QED BY <2>2, <2>4, <2>6
<1>6. GridOf(T) \in DOMAIN value /\ IndexOf(T) \in DOMAIN value
  BY <1>1, <1>4, <1>5 DEF ColumnsStand
<1> QED BY <1>1, <1>2, <1>6 DEF GridMade, IndexMade, TermReadable

\* Steps are pending once.
LEMMA PendingOnce ==
  ASSUME Standing, NEW t \in ToSet(tasks), NEW u \in ToSet(tasks), t.step = u.step
  PROVE  t = u
<1>1. InOrder /\ next \in Nat /\ tasks \in Seq(ToSet(tasks))
  BY DEF Standing, IInv
<1>2. PICK k \in DOMAIN tasks, m \in DOMAIN tasks : t = tasks[k] /\ u = tasks[m]
  BY DEF ToSet
<1>3. PlaceOf(tasks[k].step) \in Int
  BY <1>1, PendingPlace
<1>4. DOMAIN tasks = 1 .. Len(tasks) /\ Len(tasks) \in Nat
  BY <1>1
<1>5. ~(k < m) /\ ~(m < k)
  <2>1. ASSUME k < m PROVE FALSE
    <3>1. PlaceOf(tasks[k].step) < PlaceOf(tasks[m].step)
      BY <1>1, <2>1 DEF InOrder
    <3> QED BY <1>2, <1>3, <3>1
  <2>2. ASSUME m < k PROVE FALSE
    <3>1. PlaceOf(tasks[m].step) < PlaceOf(tasks[k].step)
      BY <1>1, <2>2 DEF InOrder
    <3> QED BY <1>2, <1>3, <3>1
  <2> QED BY <2>1, <2>2
<1>6. k = m
  BY <1>4, <1>5
<1> QED BY <1>2, <1>6

\* What is ahead stays ahead, unless it is in the piece that runs.
LEMMA AheadStays ==
  ASSUME NEW T \in Followed, NEW i, NEW color, TermStep(T, i, color), NEW p, Ahead(T, p),
         tasks[i].step = Step("Cfs", T) =>
           ~InRect(p, Region(tasks[i].partition, Value(T), color))
  PROVE  Ahead(T, p)'
<1>1. /\ Standing /\ IInv /\ InOrder /\ \A t \in ToSet(tasks) : Outstanding(t)
      /\ i \in DOMAIN tasks /\ color \in tasks[i].left /\ UNCHANGED <<input, next, space>>
      /\ tasks' = IF tasks[i].left = {color} THEN RemoveAt(tasks, i)
                  ELSE [tasks EXCEPT ![i].left = @ \ {color}]
  BY DEF TermStep, Standing
<1>2. /\ \A t \in ToSet(tasks') :
           \/ t \in ToSet(tasks) /\ t.step # tasks[i].step
           \/ /\ tasks[i].left # {color} /\ t.step = tasks[i].step
              /\ t.partition = tasks[i].partition /\ t.left = tasks[i].left \ {color}
      /\ \A t \in ToSet(tasks) : t.step # tasks[i].step => t \in ToSet(tasks')
      /\ tasks[i].left # {color} => \E t \in ToSet(tasks') : t.step = tasks[i].step
  BY <1>1, PieceRuns
<1>7. PICK t \in ToSet(tasks) : \E c \in t.left :
        t.step = Step("Cfs", T) /\ InRect(p, Region(t.partition, Value(T), c))
  BY DEF Ahead
<1>3. PICK c \in t.left :
        t.step = Step("Cfs", T) /\ InRect(p, Region(t.partition, Value(T), c))
  BY <1>7
<1> PICK ts : ts = tasks'
  OBVIOUS
<1>4. ASSUME NEW u \in ToSet(ts), c \in u.left, u.step = t.step, u.partition = t.partition
      PROVE  Ahead(T, p)'
  <2>1. Region(t.partition, Value(T), c)' = Region(t.partition, Value(T), c)
    BY <1>1 DEF Region
  <2> QED BY <1>3, <1>4, <2>1 DEF Ahead
<1>5. CASE t.step # tasks[i].step
  BY <1>2, <1>3, <1>4, <1>5, <1>7
<1>6. CASE t.step = tasks[i].step
  <2>1. tasks[i] \in ToSet(tasks)
    BY <1>1 DEF ToSet
  <2>2. t = tasks[i]
    BY <1>1, <1>6, <1>7, <2>1, PendingOnce
  <2>3. c # color
    BY <1>3, <1>6, <2>2
  <2>4. tasks[i].left # {color} /\ c \in tasks[i].left \ {color}
    BY <1>3, <2>2, <2>3
  <2>5. PICK u \in ToSet(ts) : u.step = tasks[i].step
    BY <1>2, <2>4
  <2>6. u.partition = tasks[i].partition /\ u.left = tasks[i].left \ {color}
    BY <1>2, <2>5
  <2> QED BY <1>4, <2>2, <2>4, <2>5, <2>6
<1> QED BY <1>5, <1>6

\* Every point of a term is right once the piece that it is in has run.
LEMMA RunMade ==
  ASSUME InputsServe, NEW T \in Followed, NEW i, NEW color, TermStep(T, i, color)
  PROVE  TermMade(T)'
<1>1. /\ TermMade(T) /\ Effects(T, i, color) /\ input' = input /\ input \in Inputs
      /\ tasks[i] \in ToSet(tasks) /\ Outstanding(tasks[i]) /\ color \in tasks[i].left
      /\ IInv /\ InOrder /\ SpacesGiven
  BY DEF TermStep, TermInv, Standing, IInv, ToSet
<1> PICK old, new : old = value[Value(T)] /\ new = value'[Value(T)]
  OBVIOUS
<1> PICK given : given = Given(T)
  OBVIOUS
<1> DEFINE right(column, p) ==
             p \in DOMAIN column /\ column[p] \in Elements /\ column[p].of = given[p[1] + 1]
<1>2. /\ Given(T)' = Given(T) /\ Points(T)' = Points(T)
      /\ \A p : Right(T, p) <=> right(old, p)
      /\ \A p : Right(T, p)' <=> right(new, p)
  <2>1. Given(T)' = Given(T)
    BY <1>1 DEF Given
  <2>2. GridSize(T)' = GridSize(T)
    BY <1>1 DEF GridSize
  <2> QED BY <2>1, <2>2 DEF Points, Right, Elements, Value
<1> HIDE DEF right
<1>3. Issued(Step("Cfs", T))' <=> Issued(Step("Cfs", T))
  <2>1. Step("Cfs", T) \in OfTerm(T)
    BY DEF OfTerm
  <2> QED BY <2>1, TermDones
<1>4. SUFFICES ASSUME Value(T) \in DOMAIN value', Issued(Step("Cfs", T)), NEW p \in Points(T),
                      ~Ahead(T, p)'
               PROVE  right(new, p)
  BY <1>2, <1>3 DEF TermMade, Value
<1>5. Value(T) \in DOMAIN value
  BY <1>1, <1>4 DEF Effects
<1>6. Ahead(T, p) \/ right(old, p)
  BY <1>1, <1>2, <1>4, <1>5 DEF TermMade
<1>7. CASE tasks[i].step = Step("Cfs", T)
  <2>1. PICK region : region = RegionsOf(i, color)
    OBVIOUS
  <2>2. PICK v : v = region[Value(T)]
    OBVIOUS
  <2>3. SidesShared(T, v, region[IndexOf(T)], region[GridOf(T)]) 
        /\ v = Region(tasks[i].partition, Value(T), color)
    <3>1. color \in ColorsOf(tasks[i].partition)
      BY <1>1 DEF Outstanding
    <3>2. SidesShared(T, Region(tasks[i].partition, Value(T), color),
                      Region(tasks[i].partition, IndexOf(T), color),
                      Region(tasks[i].partition, GridOf(T), color))
      BY <1>1, <1>7, <3>1, TermRegions
    <3>3. \A col \in {Value(T), IndexOf(T), GridOf(T)} :
            region[col] = Region(tasks[i].partition, col, color)
      <4>1. {Value(T), IndexOf(T), GridOf(T)} \subseteq Uses(tasks[i])
        BY <1>7, CfsUses DEF Uses
      <4> QED BY <2>1, <4>1 DEF RegionsOf
    <3>4. /\ region[Value(T)] = Region(tasks[i].partition, Value(T), color)
          /\ region[IndexOf(T)] = Region(tasks[i].partition, IndexOf(T), color)
          /\ region[GridOf(T)] = Region(tasks[i].partition, GridOf(T), color)
      BY <3>3
    <3> QED BY <2>2, <3>2, <3>4, Zenon
  <2>4. TermReadable(T)
    BY <1>7, ReadableAtStep
  <2>5. PICK writes : writes = TermBody(T, region)
    OBVIOUS
  <2>6. \A wr \in writes : wr[2] \in Elements /\ wr[2].of = given[wr[1][1] + 1]
    <3>1. \A wr \in TermBody(T, region) :
            wr[2] \in Elements /\ wr[2].of = Given(T)[wr[1][1] + 1]
      BY <1>1, <2>2, <2>3, <2>4, TermWrites
    <3> QED BY <2>5, <3>1
  <2>7. InRect(p, v) => \E wr \in writes : wr[1] = p
    BY <1>1, <2>2, <2>3, <2>4, <2>5, TermWrites
  <2>8. new = Store(old, writes)
    BY <1>1, <1>4, <1>7, <2>1, <2>5 DEF Effects
  <2>9. Holds(new, p, writes) => right(new, p)
    BY <2>6 DEF Holds, right
  <2>10. CASE InRect(p, v)
    <3>1. PICK wr \in writes : wr[1] = p
      BY <2>7, <2>10
    <3>2. Holds(new, wr[1], writes)
      BY <2>8, <3>1, Stored
    <3> QED BY <2>9, <3>1, <3>2
  <2>11. CASE ~InRect(p, v)
    <3>1. right(old, p)
      <4>1. ~Ahead(T, p)
        BY <1>4, <2>3, <2>11, AheadStays
      <4> QED BY <1>6, <4>1
    <3>2. p \in DOMAIN new
      BY <2>8, <3>1, Stored DEF right
    <3>3. Holds(new, p, writes) \/ new[p] = old[p]
      BY <2>8, <3>2, Stored
    <3> QED BY <2>9, <3>1, <3>2, <3>3 DEF right
  <2> QED BY <2>10, <2>11
<1>8. CASE tasks[i].step # Step("Cfs", T)
  <2>1. new = old
    BY <1>1, <1>4, <1>8 DEF Effects
  <2>2. ~Ahead(T, p)
    BY <1>4, <1>8, AheadStays
  <2> QED BY <1>6, <2>1, <2>2
<1> QED BY <1>7, <1>8

\* What a complete term holds.
LEMMA WholeTerm ==
  ASSUME InputsServe, input \in Inputs, NEW T \in Followed,
         SpaceIs(Value(T), <<AxisOf(T), "X", "Y">>, <<Len(Given(T)), GridSize(T), GridSize(T)>>),
         \A p \in Points(T) : Right(T, p)
  PROVE  Contents(T) = ToSet(Given(T))
<1> PICK N, n, given, column : /\ N = Len(Given(T)) /\ n = GridSize(T) /\ given = Given(T)
                               /\ column = value[Value(T)]
  OBVIOUS
<1>1. N \in Nat \ {0} /\ n \in Nat \ {0} /\ given \in Seq(Int) /\ Len(given) = N
  BY GivenCounted
<1>2. Box(space[Value(T)].size) = Points(T)
  BY DEF SpaceIs, Points
<1>3. ASSUME NEW p \in Points(T)
      PROVE  p \in DOMAIN column /\ column[p] # Garbage /\ column[p].of = given[p[1] + 1]
  <2>1. Right(T, p)
    OBVIOUS
  <2>2. \A e \in Elements : e # Garbage
    BY GarbageAssumption DEF Elements
  <2> QED BY <2>1, <2>2 DEF Right
<1>4. Contents(T) = {given[p[1] + 1] : p \in Points(T)}
  <2>1. Contents(T) = {IF p \in DOMAIN column /\ column[p] # Garbage THEN column[p].of ELSE Garbage :
                         p \in Points(T)}
    BY <1>2 DEF Contents
  <2> QED BY <1>3, <2>1
<1>5. Points(T) = Lists3(N, n, n)
  BY BoxThree DEF Points
<1>6. DOMAIN given = 1 .. N
  BY <1>1
<1>7. ASSUME NEW p \in Points(T) PROVE given[p[1] + 1] \in ToSet(given)
  <2>1. PICK k \in 0 .. N - 1, x \in 0 .. n - 1, y \in 0 .. n - 1 : p = <<k, x, y>>
    BY <1>5, <1>7, InLists3
  <2>2. p[1] + 1 \in 1 .. N
    BY <1>1, <2>1
  <2> QED BY <1>6, <2>2 DEF ToSet
<1>8. ASSUME NEW e \in ToSet(given) PROVE \E p \in Points(T) : e = given[p[1] + 1]
  <2>1. PICK j \in 1 .. N : e = given[j]
    BY <1>6 DEF ToSet
  <2>2. PICK k \in 0 .. N - 1, z \in 0 .. n - 1 : k + 1 = j /\ z = 0
    <3>1. j - 1 \in 0 .. N - 1 /\ 0 \in 0 .. n - 1 /\ (j - 1) + 1 = j
      BY <1>1
    <3> QED BY <3>1
  <2>3. <<k, z, z>> \in Points(T)
    BY <1>5, <2>2, InLists3
  <2>4. PICK p : p = <<k, z, z>>
    OBVIOUS
  <2>5. p[1] + 1 = j
    BY <2>2, <2>4
  <2> QED BY <2>1, <2>3, <2>4, <2>5
<1> QED BY <1>4, <1>7, <1>8

\* What is printed of a term is complete, and it is printed once.
LEMMA RunShown ==
  ASSUME InputsServe, NEW T \in Followed, NEW i, NEW color, TermStep(T, i, color)
  PROVE  TermShown(T)'
<1>1. /\ TermShown(T) /\ TermMade(T) /\ StepsFollow(T) /\ ColumnsStand(T)
      /\ Effects(T, i, color) /\ input' = input /\ input \in Inputs
      /\ Standing /\ i \in DOMAIN tasks /\ color \in tasks[i].left /\ Ready(i, color)
      /\ next \in Nat /\ next <= 39 /\ InOrder
  BY DEF TermStep, TermInv, Standing, IInv, InOrder
<1>2. Given(T)' = Given(T) /\ TitleOf(T)' = TitleOf(T)
  BY <1>1 DEF Given, TitleOf
<1>3. (TermShown(T)' <=> (TitleOf(T) \in DOMAIN shown' => shown'[TitleOf(T)] = ToSet(Given(T))))
  BY <1>2 DEF TermShown
<1>4. CASE tasks[i].step = Step("Show", TitleOf(T))
  <2> PICK k, l, m : /\ k = PlaceOf(Step("Create", T)) /\ l = PlaceOf(Step("Cfs", T))
                     /\ m = PlaceOf(Step("Show", TitleOf(T)))
    OBVIOUS
  <2>1. /\ Step("Create", T) \in OfTerm(T) /\ Step("Cfs", T) \in OfTerm(T)
        /\ Step("Show", TitleOf(T)) \in OfTerm(T)
    BY DEF OfTerm
  <2>2. /\ k \in 1 .. 38 /\ l \in 1 .. 38 /\ m \in 1 .. 38
        /\ Program[k] = Step("Create", T) /\ Program[l] = Step("Cfs", T)
        /\ Program[m] = tasks[i].step /\ k < l /\ l < m
    BY <1>4, <2>1, StepsOfTerm
  <2>3. Issued(Step("Create", T)) /\ Issued(Step("Cfs", T))
    <3>1. k <= m /\ l <= m /\ Issued(Program[m])
      BY <1>1, <2>2 DEF InOrder
    <3> QED BY <1>1, <2>2, <3>1, IssuedBefore
  <2>4. Done("Cfs", T)
    BY <1>1, <1>4, TermOrder
  <2>5. ~Done("Show", TitleOf(T))
    <3>1. PICK s : s = Step("Show", TitleOf(T))
      OBVIOUS
    <3>2. s \in OfTerm(T) /\ s.do = "Show" /\ s.on = TitleOf(T)
      BY <2>1, <3>1 DEF Step
    <3>3. ~Done(s.do, s.on)
      BY <1>4, <3>1, <3>2, TermDones
    <3> QED BY <3>2, <3>3
  <2>6. Value(T) \in DOMAIN value
    BY <1>1, <2>3, <2>5 DEF StepsFollow, ColumnsStand
  <2>7. \A p : ~Ahead(T, p)
    <3>1. Pending("Cfs", T) <=> \E t \in ToSet(tasks) : t.step = Program[l]
      BY <1>1, <2>2, PendingAmong
    <3>2. ~Pending("Cfs", T)
      BY <2>4 DEF Done
    <3> QED BY <2>2, <3>1, <3>2 DEF Ahead
  <2>8. \A p \in Points(T) : Right(T, p)
    BY <1>1, <2>3, <2>6, <2>7 DEF TermMade
  <2>9. SpaceIs(Value(T), <<AxisOf(T), "X", "Y">>, <<Len(Given(T)), GridSize(T), GridSize(T)>>)
    <3>1. k <= m
      BY <2>2
    <3> QED BY <1>4, <2>1, <3>1, SpacesAtStep
  <2>10. Contents(T) = ToSet(Given(T))
    BY <1>1, <2>8, <2>9, WholeTerm
  <2>11. shown'[TitleOf(T)] = Contents(T)
    BY <1>1, <1>4 DEF Effects
  <2> QED BY <1>3, <2>10, <2>11
<1>5. CASE tasks[i].step # Step("Show", TitleOf(T))
  <2>1. TitleOf(T) \in DOMAIN shown' =>
          TitleOf(T) \in DOMAIN shown /\ shown'[TitleOf(T)] = shown[TitleOf(T)]
    BY <1>1, <1>5 DEF Effects
  <2> QED BY <1>1, <1>3, <2>1 DEF TermShown
<1> QED BY <1>4, <1>5

\* A piece of a launch keeps what holds of a term.
LEMMA TermRuns ==
  ASSUME InputsServe, NEW T \in Followed, NEW i, NEW color, TermStep(T, i, color)
  PROVE  TermInv(T)'
<1>1. StepsFollow(T)' /\ ColumnsStand(T)'
  BY RunFollows
<1>2. AnglesRead(T)' /\ GridMade(T)'
  BY RunAngles, RunGrid
<1>3. IndexMade(T)' /\ TermMade(T)' /\ TermShown(T)'
  BY RunIndex, RunMade, RunShown
<1> QED BY <1>1, <1>2, <1>3 DEF TermInv

-----------------------------------------------------------------------------
(***************************************************************************)
(* The tasks.                                                              *)
(***************************************************************************)

\* The names of what a term consists of.
LEMMA TermNames ==
  ASSUME NEW T \in Followed
  PROVE  /\ Value(T) = <<T, "VALUE">> /\ IndexOf(T) = <<T, AxisOf(T)>>
         /\ GridOf(T) = <<CoordsOf(T), "COORD">> /\ AngleOf(T) = <<CoordsOf(T), "PARALLACTIC_ANGLE">>
         /\ AxisOf(T) # "VALUE" /\ CoordsOf(T) # T
         /\ T \in {"ps", "w"} /\ CoordsOf(T) \in {"ps_coords", "w_coords"}
         /\ \A title : TitleOf(T) = title =>
              TableShown(title) = T /\ title \in {"PSTerm", "WTerm"}
<1>1. \A title : TitleOf(T) = title => TableShown(title) = T /\ title \in {"PSTerm", "WTerm"}
  BY DEF TableShown, TitleOf, Titled, Followed
<1> QED BY <1>1 DEF Followed, IndexOf, GridOf, AngleOf, CoordsOf, AxisOf, Value

\* The steps of a term by what they do and on what.
StepIs(i, do, on) == tasks[i].step.do = do /\ tasks[i].step.on = on

\* That is what a step is.
LEMMA StepByName ==
  ASSUME InOrder, next \in Nat, NEW i \in DOMAIN tasks, NEW do, NEW on
  PROVE  tasks[i].step = Step(do, on) <=> StepIs(i, do, on)
<1>1. tasks[i].step = Step(tasks[i].step.do, tasks[i].step.on)
  BY PendingPlace
<1>2. Step(do, on).do = do /\ Step(do, on).on = on
  BY DEF Step
<1> QED BY <1>1, <1>2 DEF StepIs

\* The parts of what a piece does, for what it does to one column.
LEMMA StoreEffects ==
  ASSUME NEW T \in Followed, NEW i, NEW color, NEW col, NEW writes, NEW step,
         step = tasks[i].step,
         value' = [value EXCEPT ![col] = Store(@, writes)], shown' = shown,
         step \notin {Step("Create", CoordsOf(T)), Step("Create", T),
                      Step("Destroy", CoordsOf(T)), Step("Destroy", T),
                      Step("Show", TitleOf(T))},
         col # AngleOf(T), col # IndexOf(T),
         step = Step("Coordinates", CoordsOf(T)) <=> col = GridOf(T),
         step = Step("Cfs", T) <=> col = Value(T),
         step = Step("Coordinates", CoordsOf(T)) =>
           writes = CoordinatesBody(CoordsOf(T), Diameter(CoordsOf(T)), value, RegionsOf(i, color)),
         step = Step("Cfs", T) => writes = TermBody(T, RegionsOf(i, color))
  PROVE  Effects(T, i, color)
<1>1. /\ DOMAIN value' = DOMAIN value
      /\ \A x \in DOMAIN value : value'[x] = IF x = col THEN Store(value[x], writes) ELSE value[x]
  BY DEF Store
<1>2. /\ \A x \in {GridOf(T), AngleOf(T)} :
           x \in DOMAIN value' <=> x \in DOMAIN value /\ step # Step("Destroy", CoordsOf(T))
      /\ \A x \in {Value(T), IndexOf(T)} :
           x \in DOMAIN value' <=> x \in DOMAIN value /\ step # Step("Destroy", T)
  BY <1>1
<1>3. /\ AngleOf(T) \in DOMAIN value' => value'[AngleOf(T)] = value[AngleOf(T)]
      /\ IndexOf(T) \in DOMAIN value' => value'[IndexOf(T)] = value[IndexOf(T)]
  BY <1>1
<1>4. GridOf(T) \in DOMAIN value' =>
        value'[GridOf(T)] =
          IF step = Step("Coordinates", CoordsOf(T))
          THEN Store(value[GridOf(T)], CoordinatesBody(CoordsOf(T), Diameter(CoordsOf(T)), value,
                                                       RegionsOf(i, color)))
          ELSE value[GridOf(T)]
  BY <1>1
<1>5. Value(T) \in DOMAIN value' =>
        value'[Value(T)] = IF step = Step("Cfs", T)
                           THEN Store(value[Value(T)], TermBody(T, RegionsOf(i, color)))
                           ELSE value[Value(T)]
  BY <1>1
<1>6. step # Step("Create", CoordsOf(T)) /\ step # Step("Create", T) /\ step # Step("Show", TitleOf(T))
  OBVIOUS
<1> QED BY <1>2, <1>3, <1>4, <1>5, <1>6 DEF Effects

\* The same where the column is none of the term's.
LEMMA OtherEffects ==
  ASSUME InOrder, next \in Nat, NEW T \in Followed, NEW i \in DOMAIN tasks, NEW color,
         NEW col, NEW writes,
         value' = [value EXCEPT ![col] = Store(@, writes)], shown' = shown,
         tasks[i].step.do \notin {"Create", "Destroy", "Show", "Coordinates"},
         ~StepIs(i, "Cfs", T), col \notin Handed(T)
  PROVE  Effects(T, i, color)
<1>1. PICK step : step = tasks[i].step
  OBVIOUS
<1>2. \A do, on : Step(do, on).do = do
  BY DEF Step
<1>3. step \notin {Step("Create", CoordsOf(T)), Step("Create", T),
                   Step("Destroy", CoordsOf(T)), Step("Destroy", T), Step("Show", TitleOf(T))}
      /\ step # Step("Coordinates", CoordsOf(T))
  BY <1>1, <1>2
<1>4. step # Step("Cfs", T)
  BY <1>1, StepByName
<1>5. col # AngleOf(T) /\ col # IndexOf(T) /\ col # GridOf(T) /\ col # Value(T)
  BY DEF Handed
<1> QED BY <1>1, <1>3, <1>4, <1>5, StoreEffects

\* What the steps of the terms do.
LEMMA InitEffects ==
  ASSUME Standing, NEW T \in Followed, TermInv(T), NEW i \in DOMAIN tasks,
         NEW color \in tasks[i].left, InitIndexColumns(i, color)
  PROVE  Effects(T, i, color)
<1>1. InOrder /\ next \in Nat /\ StepsFollow(T) /\ ColumnsStand(T)
  BY DEF Standing, IInv, TermInv
<1>2. PICK on : on = tasks[i].step.on
  OBVIOUS
<1>3. tasks[i].step.do = "Create" /\ shown' = shown
  BY DEF InitIndexColumns, Runs
<1>4. PICK news : news = [col \in IndexColumns(on) |->
                           Store(value[col], InitBody(on, col, tasks[i].values, RegionsOf(i, color)))]
  OBVIOUS
<1>5. value' = Added(value, news)
  BY <1>2, <1>4 DEF InitIndexColumns
<1>6. /\ DOMAIN value' = DOMAIN value \cup IndexColumns(on)
      /\ \A col \in DOMAIN value : col \notin IndexColumns(on) => value'[col] = value[col]
      /\ \A col \in IndexColumns(on) :
           value'[col] = Store(value[col], InitBody(on, col, tasks[i].values, RegionsOf(i, color)))
  <2>1. DOMAIN news = IndexColumns(on)
    BY <1>4
  <2>2. /\ DOMAIN value' = DOMAIN value \cup DOMAIN news
        /\ \A col \in DOMAIN value \cup DOMAIN news :
             value'[col] = IF col \in DOMAIN news THEN news[col] ELSE value[col]
    <3>1. PICK v : v = Added(value, news)
      OBVIOUS
    <3>2. /\ DOMAIN v = DOMAIN value \cup DOMAIN news
          /\ \A col \in DOMAIN value \cup DOMAIN news :
               v[col] = IF col \in DOMAIN news THEN news[col] ELSE value[col]
      BY <3>1 DEF Added
    <3> QED BY <1>5, <3>1, <3>2
  <2> QED BY <1>4, <2>1, <2>2
<1>7. \A col \in IndexColumns(on) : col[1] = on
  BY DEF IndexColumns
<1>8. /\ tasks[i].step # Step("Destroy", CoordsOf(T)) /\ tasks[i].step # Step("Destroy", T)
      /\ tasks[i].step # Step("Coordinates", CoordsOf(T)) /\ tasks[i].step # Step("Cfs", T)
      /\ tasks[i].step # Step("Show", TitleOf(T))
      /\ (tasks[i].step = Step("Create", CoordsOf(T)) <=> on = CoordsOf(T))
      /\ (tasks[i].step = Step("Create", T) <=> on = T)
  <2>1. \A o, d : tasks[i].step = Step(d, o) <=> d = "Create" /\ o = on
    BY <1>1, <1>2, <1>3, StepByName DEF StepIs
  <2> QED BY <2>1
<1>9. /\ on = CoordsOf(T) => GridOf(T) \in DOMAIN value /\ AngleOf(T) \in DOMAIN value
      /\ on = T => Value(T) \in DOMAIN value /\ IndexOf(T) \in DOMAIN value
  <2>1. Issued(tasks[i].step) /\ Pending(tasks[i].step.do, tasks[i].step.on)
    BY <1>1 DEF InOrder, Pending
  <2>2. ASSUME on = CoordsOf(T)
        PROVE  GridOf(T) \in DOMAIN value /\ AngleOf(T) \in DOMAIN value
    <3>1. Issued(Step("Create", CoordsOf(T))) /\ Pending("Create", CoordsOf(T))
      BY <1>2, <1>3, <1>8, <2>1, <2>2
    <3>2. ~Done("Destroy", CoordsOf(T))
      BY <1>1, <3>1 DEF StepsFollow, Done
    <3> QED BY <1>1, <3>1, <3>2 DEF ColumnsStand
  <2>3. ASSUME on = T
        PROVE  Value(T) \in DOMAIN value /\ IndexOf(T) \in DOMAIN value
    <3>1. Issued(Step("Create", T)) /\ Pending("Create", T)
      BY <1>2, <1>3, <1>8, <2>1, <2>3
    <3>2. ~Done("Destroy", T)
      BY <1>1, <3>1 DEF StepsFollow, Done
    <3> QED BY <1>1, <3>1, <3>2 DEF ColumnsStand
  <2> QED BY <2>2, <2>3
<1>10. /\ (AngleOf(T) \in IndexColumns(on) <=> on = CoordsOf(T)) /\ GridOf(T) \notin IndexColumns(on)
       /\ (IndexOf(T) \in IndexColumns(on) <=> on = T) /\ Value(T) \notin IndexColumns(on)
  <2>1. IndexColumns(CoordsOf(T)) = {AngleOf(T)} /\ IndexColumns(T) = {IndexOf(T)}
    BY TermColumns
  <2>2. /\ AngleOf(T)[1] = CoordsOf(T) /\ GridOf(T)[1] = CoordsOf(T) /\ IndexOf(T)[1] = T
        /\ Value(T)[1] = T /\ GridOf(T) # AngleOf(T) /\ Value(T) # IndexOf(T)
    BY TermNames
  <2> QED BY <1>7, <2>1, <2>2
<1>11. /\ \A x \in {GridOf(T), AngleOf(T)} :
            x \in DOMAIN value' <=> x \in DOMAIN value /\ tasks[i].step # Step("Destroy", CoordsOf(T))
       /\ \A x \in {Value(T), IndexOf(T)} :
            x \in DOMAIN value' <=> x \in DOMAIN value /\ tasks[i].step # Step("Destroy", T)
  BY <1>6, <1>8, <1>9, <1>10
<1>12. /\ AngleOf(T) \in DOMAIN value' =>
            value'[AngleOf(T)] =
              IF tasks[i].step = Step("Create", CoordsOf(T))
              THEN Store(value[AngleOf(T)],
                         InitBody(CoordsOf(T), AngleOf(T), tasks[i].values, RegionsOf(i, color)))
              ELSE value[AngleOf(T)]
       /\ GridOf(T) \in DOMAIN value' => value'[GridOf(T)] = value[GridOf(T)]
  BY <1>6, <1>8, <1>10
<1>13. /\ IndexOf(T) \in DOMAIN value' =>
            value'[IndexOf(T)] =
              IF tasks[i].step = Step("Create", T)
              THEN Store(value[IndexOf(T)],
                         InitBody(T, IndexOf(T), tasks[i].values, RegionsOf(i, color)))
              ELSE value[IndexOf(T)]
       /\ Value(T) \in DOMAIN value' => value'[Value(T)] = value[Value(T)]
  BY <1>6, <1>8, <1>10
<1> QED BY <1>3, <1>8, <1>11, <1>12, <1>13 DEF Effects

\* A grid of coordinates is filled.
LEMMA CoordinatesEffects ==
  ASSUME Standing, NEW T \in Followed, NEW i \in DOMAIN tasks,
         NEW color \in tasks[i].left, ComputeCoordinates(i, color)
  PROVE  Effects(T, i, color)
<1>1. InOrder /\ next \in Nat
  BY DEF Standing, IInv
<1>2. PICK step, on : step = tasks[i].step /\ on = step.on
  OBVIOUS
<1>3. PICK col, writes : /\ col = <<on, "COORD">>
                         /\ writes = CoordinatesBody(on, Diameter(on), value, RegionsOf(i, color))
  OBVIOUS
<1>4. /\ step.do = "Coordinates" /\ shown' = shown
      /\ value' = [value EXCEPT ![col] = Store(@, writes)]
  BY <1>2, <1>3 DEF ComputeCoordinates, Runs, Stores
<1>5. \A d, o : step = Step(d, o) <=> d = "Coordinates" /\ o = on
  BY <1>1, <1>2, <1>4, StepByName DEF StepIs
<1>6. col # AngleOf(T) /\ col # IndexOf(T) /\ col # Value(T) /\ (col = GridOf(T) <=> on = CoordsOf(T))
  <2>1. /\ Value(T) = <<T, "VALUE">> /\ IndexOf(T) = <<T, AxisOf(T)>>
        /\ GridOf(T) = <<CoordsOf(T), "COORD">> /\ AngleOf(T) = <<CoordsOf(T), "PARALLACTIC_ANGLE">>
        /\ AxisOf(T) # "COORD"
    BY TermNames DEF AxisOf
  <2> QED BY <1>3, <2>1
<1>7. /\ step \notin {Step("Create", CoordsOf(T)), Step("Create", T),
                      Step("Destroy", CoordsOf(T)), Step("Destroy", T), Step("Show", TitleOf(T))}
      /\ step # Step("Cfs", T)
      /\ step = Step("Coordinates", CoordsOf(T)) <=> on = CoordsOf(T)
  BY <1>5
<1>8. step = Step("Coordinates", CoordsOf(T)) =>
        writes = CoordinatesBody(CoordsOf(T), Diameter(CoordsOf(T)), value, RegionsOf(i, color))
  BY <1>3, <1>7
<1> QED BY <1>2, <1>4, <1>6, <1>7, <1>8, StoreEffects

\* A term is computed.
LEMMA CfsEffects ==
  ASSUME Standing, NEW T \in Followed, NEW i \in DOMAIN tasks, NEW color \in tasks[i].left,
         ComputePSTerm(i, color) \/ ComputeWTerm(i, color)
  PROVE  Effects(T, i, color)
<1>1. InOrder /\ next \in Nat
  BY DEF Standing, IInv
<1>2. PICK step, on : step = tasks[i].step /\ on = step.on
  OBVIOUS
<1>3. PICK col, writes : /\ col = Value(on)
                         /\ writes = TermBody(on, RegionsOf(i, color))
  OBVIOUS
<1>4. /\ step.do = "Cfs" /\ on \in {"ps", "w"} /\ shown' = shown
      /\ value' = [value EXCEPT ![col] = Store(@, writes)]
  <2>1. CASE ComputePSTerm(i, color)
    <3>1. step.do = "Cfs" /\ on = "ps" /\ shown' = shown
      BY <1>2, <2>1 DEF ComputePSTerm, Runs, Stores
    <3>2. value' = [value EXCEPT ![Value("ps")] = Store(@, PSTermBody(value, RegionsOf(i, color)))]
      BY <2>1 DEF ComputePSTerm, Stores
    <3>3. writes = PSTermBody(value, RegionsOf(i, color)) /\ col = Value("ps")
      BY <1>3, <3>1 DEF TermBody
    <3> QED BY <3>1, <3>2, <3>3
  <2>2. CASE ComputeWTerm(i, color)
    <3>1. step.do = "Cfs" /\ on = "w" /\ shown' = shown
      BY <1>2, <2>2 DEF ComputeWTerm, Runs, Stores
    <3>2. value' = [value EXCEPT ![Value("w")] = Store(@, WTermBody(value, RegionsOf(i, color)))]
      BY <2>2 DEF ComputeWTerm, Stores
    <3>3. writes = WTermBody(value, RegionsOf(i, color)) /\ col = Value("w")
      BY <1>3, <3>1 DEF TermBody
    <3> QED BY <3>1, <3>2, <3>3
  <2> QED BY <2>1, <2>2
<1>5. \A d, o : step = Step(d, o) <=> d = "Cfs" /\ o = on
  BY <1>1, <1>2, <1>4, StepByName DEF StepIs
<1>6. col # AngleOf(T) /\ col # IndexOf(T) /\ col # GridOf(T) /\ (col = Value(T) <=> on = T)
  <2>1. /\ Value(T) = <<T, "VALUE">> /\ IndexOf(T) = <<T, AxisOf(T)>> /\ AxisOf(T) # "VALUE"
        /\ GridOf(T) = <<CoordsOf(T), "COORD">> /\ AngleOf(T) = <<CoordsOf(T), "PARALLACTIC_ANGLE">>
    BY TermNames
  <2>2. col = <<on, "VALUE">>
    BY <1>3 DEF Value
  <2> QED BY <2>1, <2>2
<1>7. /\ step \notin {Step("Create", CoordsOf(T)), Step("Create", T),
                      Step("Destroy", CoordsOf(T)), Step("Destroy", T), Step("Show", TitleOf(T))}
      /\ step # Step("Coordinates", CoordsOf(T))
      /\ step = Step("Cfs", T) <=> on = T
  BY <1>5
<1>8. step = Step("Cfs", T) => writes = TermBody(T, RegionsOf(i, color))
  BY <1>3, <1>7
<1> QED BY <1>2, <1>4, <1>6, <1>7, <1>8, StoreEffects

\* What is computed for the aperture term and the product is no part of it.
LEMMA RestEffects ==
  ASSUME Standing, NEW T \in Followed, NEW i \in DOMAIN tasks, NEW color \in tasks[i].left,
         \/ ComputePcs(i, color) \/ ComputeEpts(i, color) \/ ComputeAifs(i, color)
         \/ TransformInPlace(i, color) \/ ComputeATerm(i, color) \/ MultiplyTerm(i, color)
  PROVE  Effects(T, i, color)
<1>1. InOrder /\ next \in Nat
  BY DEF Standing, IInv
<1>2. PICK do, on : do = tasks[i].step.do /\ on = tasks[i].step.on
  OBVIOUS
<1>3. /\ shown' = shown
      /\ \/ do \in {"Pcs", "Epts", "Aifs", "Fft", "Overwrite", "Multiply"}
         \/ do = "Cfs" /\ on = "a"
      /\ \E col, writes :
           /\ col[1] \in {"zmodel", "a_coords", "aif", "a", "cf"}
           /\ Stores(col, writes)
  <2>0. \A table : Value(table)[1] = table
    BY DEF Value
  <2>1. CASE ComputePcs(i, color)
    <3>1. PICK col, writes : /\ col = <<"zmodel", "PC">>
                             /\ Stores(col, writes)
      BY <2>1 DEF ComputePcs
    <3>2. shown' = shown /\ do = "Pcs"
      BY <1>2, <2>1 DEF ComputePcs, Stores, Runs
    <3>3. col[1] = "zmodel"
      BY <3>1
    <3> QED BY <3>1, <3>2, <3>3
  <2>2. CASE ComputeEpts(i, color)
    <3>1. PICK col, writes : /\ col = <<"a_coords", "EPT">>
                             /\ Stores(col, writes)
      BY <2>2 DEF ComputeEpts
    <3>2. shown' = shown /\ do = "Epts"
      BY <1>2, <2>2 DEF ComputeEpts, Stores, Runs
    <3>3. col[1] = "a_coords"
      BY <3>1
    <3> QED BY <3>1, <3>2, <3>3
  <2>3. CASE ComputeAifs(i, color)
    <3>1. PICK col, writes : /\ col = Value("aif")
                             /\ Stores(col, writes)
      BY <2>3 DEF ComputeAifs
    <3>2. shown' = shown /\ do = "Aifs"
      BY <1>2, <2>3 DEF ComputeAifs, Stores, Runs
    <3>3. col[1] = "aif"
      BY <2>0, <3>1
    <3> QED BY <3>1, <3>2, <3>3
  <2>4. CASE TransformInPlace(i, color)
    <3>1. PICK col, writes : /\ col = Value(on)
                             /\ Stores(col, writes)
      BY <1>2, <2>4 DEF TransformInPlace
    <3>2. shown' = shown /\ do = "Fft" /\ on \in {"aif", "cf"}
      BY <1>2, <2>4 DEF TransformInPlace, Stores, Runs
    <3>3. col[1] \in {"aif", "cf"}
      BY <2>0, <3>1, <3>2
    <3> QED BY <3>1, <3>2, <3>3
  <2>5. CASE ComputeATerm(i, color)
    <3>1. PICK col, writes : /\ col = Value("a")
                             /\ Stores(col, writes)
      BY <2>5 DEF ComputeATerm
    <3>2. shown' = shown /\ do = "Cfs" /\ on = "a"
      BY <1>2, <2>5 DEF ComputeATerm, Stores, Runs
    <3>3. col[1] = "a"
      BY <2>0, <3>1
    <3> QED BY <3>1, <3>2, <3>3
  <2>6. CASE MultiplyTerm(i, color)
    <3>1. PICK col, writes : /\ col = Product
                             /\ Stores(col, writes)
      BY <2>6 DEF MultiplyTerm
    <3>2. shown' = shown /\ do \in {"Overwrite", "Multiply"}
      BY <1>2, <2>6 DEF MultiplyTerm, Stores, Runs
    <3>3. col[1] = "cf"
      BY <3>1 DEF Product
    <3> QED BY <3>1, <3>2, <3>3
  <2> QED BY <2>1, <2>2, <2>3, <2>4, <2>5, <2>6
<1>4. PICK col, writes : /\ col[1] \in {"zmodel", "a_coords", "aif", "a", "cf"}
                         /\ Stores(col, writes)
  BY <1>3
<1>5. col \notin Handed(T)
  <2>1. \A c \in Handed(T) : c[1] \in {"ps", "w", "ps_coords", "w_coords"}
    BY TermNames DEF Handed
  <2> QED BY <1>4, <2>1
<1>6. do \notin {"Create", "Destroy", "Show", "Coordinates"} /\ ~StepIs(i, "Cfs", T)
  <2>1. T # "a"
    BY DEF Followed
  <2> QED BY <1>2, <1>3, <2>1 DEF StepIs
<1>7. value' = [value EXCEPT ![col] = Store(@, writes)]
  BY <1>4 DEF Stores
<1> QED BY <1>1, <1>2, <1>3, <1>5, <1>6, <1>7, OtherEffects

\* A table is printed.
LEMMA ShowEffects ==
  ASSUME Standing, NEW T \in Followed, NEW i \in DOMAIN tasks, NEW color \in tasks[i].left,
         ShowValues(i, color)
  PROVE  Effects(T, i, color)
<1>1. InOrder /\ next \in Nat
  BY DEF Standing, IInv
<1>2. PICK title : title = tasks[i].step.on
  OBVIOUS
<1>3. tasks[i].step.do = "Show" /\ value' = value
  BY DEF ShowValues, Runs
<1>4. \A d, o : tasks[i].step = Step(d, o) <=> d = "Show" /\ o = title
  BY <1>1, <1>2, <1>3, StepByName DEF StepIs
<1>5. PICK news : news = [t \in {title} |-> Contents(TableShown(t))]
  OBVIOUS
<1>6. shown' = Added(shown, news)
  BY <1>2, <1>5 DEF ShowValues
<1>7. /\ DOMAIN shown' = DOMAIN shown \cup {title}
      /\ shown'[title] = Contents(TableShown(title))
      /\ \A t \in DOMAIN shown : t # title => shown'[t] = shown[t]
  <2>1. DOMAIN news = {title} /\ news[title] = Contents(TableShown(title))
    BY <1>5
  <2> QED BY <1>6, <2>1 DEF Added
<1>8. TitleOf(T) = title => TableShown(title) = T
  BY TermNames
<1>9. IF tasks[i].step = Step("Show", TitleOf(T))
      THEN shown'[TitleOf(T)] = Contents(T)
      ELSE TitleOf(T) \in DOMAIN shown' =>
             TitleOf(T) \in DOMAIN shown /\ shown'[TitleOf(T)] = shown[TitleOf(T)]
  BY <1>4, <1>7, <1>8
<1>10. /\ tasks[i].step # Step("Destroy", CoordsOf(T)) /\ tasks[i].step # Step("Destroy", T)
       /\ tasks[i].step # Step("Create", CoordsOf(T)) /\ tasks[i].step # Step("Create", T)
       /\ tasks[i].step # Step("Coordinates", CoordsOf(T)) /\ tasks[i].step # Step("Cfs", T)
  BY <1>4
<1> QED BY <1>3, <1>9, <1>10 DEF Effects

\* A table is destroyed.
LEMMA DestroyEffects ==
  ASSUME Standing, NEW T \in Followed, NEW i \in DOMAIN tasks, NEW color \in tasks[i].left,
         DestroyTable(i, color)
  PROVE  Effects(T, i, color)
<1>1. InOrder /\ next \in Nat
  BY DEF Standing, IInv
<1>2. PICK on : on = tasks[i].step.on
  OBVIOUS
<1>3. tasks[i].step.do = "Destroy" /\ shown' = shown
  BY DEF DestroyTable, Runs
<1>4. \A d, o : tasks[i].step = Step(d, o) <=> d = "Destroy" /\ o = on
  BY <1>1, <1>2, <1>3, StepByName DEF StepIs
<1>5. value' = [col \in DOMAIN value \ ColumnsOf(on) |-> value[col]]
  BY <1>2 DEF DestroyTable
<1>6. \A col \in ColumnsOf(on) : col[1] = on
  BY DEF ColumnsOf, IndexColumns, Value
<1>7. /\ ColumnsOf(CoordsOf(T)) = {AngleOf(T), GridOf(T), Value(CoordsOf(T))}
      /\ ColumnsOf(T) = {IndexOf(T), Value(T)}
  BY TermColumns
<1>8. /\ (AngleOf(T) \in ColumnsOf(on) <=> on = CoordsOf(T))
      /\ (GridOf(T) \in ColumnsOf(on) <=> on = CoordsOf(T))
      /\ (IndexOf(T) \in ColumnsOf(on) <=> on = T)
      /\ (Value(T) \in ColumnsOf(on) <=> on = T)
  <2>1. /\ AngleOf(T)[1] = CoordsOf(T) /\ GridOf(T)[1] = CoordsOf(T) /\ IndexOf(T)[1] = T
        /\ Value(T)[1] = T
    BY TermNames
  <2> QED BY <1>6, <1>7, <2>1
<1>9. /\ \A x \in {GridOf(T), AngleOf(T)} :
           x \in DOMAIN value' <=> x \in DOMAIN value /\ tasks[i].step # Step("Destroy", CoordsOf(T))
      /\ \A x \in {Value(T), IndexOf(T)} :
           x \in DOMAIN value' <=> x \in DOMAIN value /\ tasks[i].step # Step("Destroy", T)
  BY <1>4, <1>5, <1>8
<1>10. \A x \in DOMAIN value' : value'[x] = value[x]
  BY <1>5
<1>11. /\ tasks[i].step # Step("Show", TitleOf(T))
       /\ tasks[i].step # Step("Create", CoordsOf(T)) /\ tasks[i].step # Step("Create", T)
       /\ tasks[i].step # Step("Coordinates", CoordsOf(T)) /\ tasks[i].step # Step("Cfs", T)
  BY <1>4
<1> QED BY <1>3, <1>9, <1>10, <1>11 DEF Effects

\* The tasks.
TaskRuns(i, color) ==
  \/ InitIndexColumns(i, color) \/ ComputeCoordinates(i, color) \/ ComputePSTerm(i, color)
  \/ ComputeWTerm(i, color) \/ ComputePcs(i, color) \/ ComputeEpts(i, color)
  \/ ComputeAifs(i, color) \/ TransformInPlace(i, color) \/ ComputeATerm(i, color)
  \/ MultiplyTerm(i, color) \/ ShowValues(i, color) \/ DestroyTable(i, color)

\* Every piece that runs is ready, and is not left after it.
LEMMA PieceOf ==
  ASSUME NEW i, NEW color, TaskRuns(i, color)
  PROVE  /\ Ready(i, color) /\ UNCHANGED <<input, next, space>>
         /\ tasks' = IF tasks[i].left = {color} THEN RemoveAt(tasks, i)
                     ELSE [tasks EXCEPT ![i].left = @ \ {color}]
<1>1. PICK do, on : Runs(i, color, do, on)
  BY DEF TaskRuns, InitIndexColumns, ComputeCoordinates, ComputePSTerm, ComputeWTerm, ComputePcs,
         ComputeEpts, ComputeAifs, TransformInPlace, ComputeATerm, MultiplyTerm, ShowValues,
         DestroyTable
<1> QED BY <1>1 DEF Runs

\* A piece of any launch keeps what holds of a term.
LEMMA TaskKeepsTerm ==
  ASSUME InputsServe, Standing, NEW T \in Followed, TermInv(T), NEW i \in DOMAIN tasks,
         NEW color \in tasks[i].left, TaskRuns(i, color)
  PROVE  TermInv(T)'
<1>1. Effects(T, i, color)
  <2>1. CASE InitIndexColumns(i, color)
    BY <2>1, InitEffects
  <2>2. CASE ComputeCoordinates(i, color)
    BY <2>2, CoordinatesEffects
  <2>3. CASE ComputePSTerm(i, color) \/ ComputeWTerm(i, color)
    BY <2>3, CfsEffects
  <2>4. CASE \/ ComputePcs(i, color) \/ ComputeEpts(i, color) \/ ComputeAifs(i, color)
             \/ TransformInPlace(i, color) \/ ComputeATerm(i, color) \/ MultiplyTerm(i, color)
    BY <2>4, RestEffects
  <2>5. CASE ShowValues(i, color)
    BY <2>5, ShowEffects
  <2>6. CASE DestroyTable(i, color)
    BY <2>6, DestroyEffects
  <2> QED BY <2>1, <2>2, <2>3, <2>4, <2>5, <2>6 DEF TaskRuns
<1>2. TermStep(T, i, color)
  BY <1>1, PieceOf DEF TermStep
<1> QED BY <1>2, TermRuns

-----------------------------------------------------------------------------
(***************************************************************************)
(* The driver.                                                             *)
(***************************************************************************)

\* The sides of pieces depend on how the axes are cut only.
LEMMA SideOfParts ==
  ASSUME NEW q, NEW here, here.parts = q.parts, NEW c, NEW a, NEW m
  PROVE  Side(here, c, a, m) = Side(q, c, a, m)
BY DEF Side

\* Every point of a term is in a piece of its launch.
LEMMA LaunchedAhead ==
  ASSUME InputsServe, Standing, NEW T \in Followed, next <= Len(Program),
         Program[next] = Step("Cfs", T),
         SpaceIs(Value(T), <<AxisOf(T), "X", "Y">>, <<Len(Given(T)), GridSize(T), GridSize(T)>>),
         NEW q, q = PartitionOf(Program[next]), NEW p \in Points(T)
  PROVE  \E c \in ColorsOf(q) : InRect(p, Region(q, Value(T), c))
<1>1. IInv /\ input \in Inputs
  BY DEF Standing, IInv
<1> PICK N, n, axis : N = Len(Given(T)) /\ n = GridSize(T) /\ axis = AxisOf(T)
  OBVIOUS
<1>2. N \in Nat \ {0} /\ n \in Nat \ {0}
  BY <1>1, GivenCounted
<1>3. PICK k \in 0 .. N - 1, x \in 0 .. n - 1, y \in 0 .. n - 1 : p = <<k, x, y>>
  <2>1. p \in Lists3(N, n, n)
    BY BoxThree DEF Points
  <2> QED BY <2>1, InLists3
<1>4. PICK cs, axes, size : /\ cs = space[Value(T)] /\ axes = <<axis, "X", "Y">>
                            /\ size = <<N, n, n>>
  OBVIOUS
<1>5. cs.axes = axes /\ cs.size = size
  BY <1>4 DEF SpaceIs
<1>6. /\ DOMAIN axes = 1 .. 3 /\ axes[1] = axis /\ axes[2] = "X" /\ axes[3] = "Y"
      /\ size[1] = N /\ size[2] = n /\ size[3] = n
  BY <1>4
<1>7. \A d \in DOMAIN axes : p[d] \in 0 .. size[d] - 1
  <2>1. p[1] = k /\ p[2] = x /\ p[3] = y
    BY <1>3
  <2>2. p[1] \in 0 .. N - 1 /\ p[2] \in 0 .. n - 1 /\ p[3] \in 0 .. n - 1
    BY <1>3, <2>1
  <2>3. p[1] \in 0 .. size[1] - 1 /\ p[2] \in 0 .. size[2] - 1 /\ p[3] \in 0 .. size[3] - 1
    BY <1>6, <2>2
  <2>4. \A d \in DOMAIN axes : d = 1 \/ d = 2 \/ d = 3
    BY <1>6
  <2> QED BY <2>3, <2>4, Zenon
<1>8. CASE ~IsValid(q)
  <2>1. <<>> \in ColorsOf(q)
    BY <1>8 DEF ColorsOf
  <2>2. Region(q, Value(T), <<>>) = [d \in DOMAIN axes |-> [lo |-> 0, hi |-> size[d] - 1]]
    BY <1>4, <1>5, <1>8 DEF Region, Whole
  <2>3. \A d \in DOMAIN axes : 0 <= p[d] /\ p[d] <= size[d] - 1
    <3> SUFFICES ASSUME NEW d \in DOMAIN axes PROVE 0 <= p[d] /\ p[d] <= size[d] - 1
      OBVIOUS
    <3>1. p[d] \in 0 .. size[d] - 1
      BY <1>7
    <3>2. size[d] \in Int
      BY <1>2, <1>6
    <3> QED BY <3>1, <3>2
  <2>4. InRect(p, Region(q, Value(T), <<>>))
    <3>1. PICK r : r = Region(q, Value(T), <<>>)
      OBVIOUS
    <3>2. DOMAIN r = DOMAIN axes /\ \A d \in DOMAIN axes : r[d].lo = 0 /\ r[d].hi = size[d] - 1
      BY <2>2, <3>1
    <3> QED BY <2>3, <3>1, <3>2 DEF InRect
  <2> QED BY <2>1, <2>4
<1>9. CASE IsValid(q)
  <2>1. PICK g \in {"w", "a"} :
          /\ q.parts \in Cuts(LengthsCut[g])
          /\ \A col \in Reads(Program[next]) \cup Writes(Program[next]) :
               col \in DOMAIN space /\ col[1] \in TablesCut[g]
    <3>1. \E g \in {"w", "a"} :
            /\ q.parts \in Cuts(LengthsCut[g])
            /\ \A col \in Reads(Program[next]) \cup Writes(Program[next]) :
                 col \in DOMAIN space /\ col[1] \in TablesCut[g]
            /\ \A col \in Writes(Program[next]) : \A i \in DOMAIN q.parts :
                 q.parts[i].dim \in ToSet(AxesIn(col))
      BY <1>1, <1>9, LaunchedByCuts
    <3> QED BY <3>1
  <2> PICK lengths : lengths = LengthsCut[g]
    OBVIOUS
  <2>2. Value(T) \in DOMAIN space /\ Value(T)[1] \in TablesCut[g]
    <3>1. Value(T) \in Writes(Program[next])
      BY CfsUses
    <3> QED BY <2>1, <3>1
  <2>3. Counted(lengths) /\ Fits(cs, lengths) /\ q.parts \in Cuts(lengths)
    BY <1>1, <1>4, <2>1, <2>2, LengthsCounted DEF SpacesMeasured, Measured, IInv
  <2>4. \A d, e \in DOMAIN cs.axes : cs.axes[d] = cs.axes[e] => d = e
    <3>1. axis # "X" /\ axis # "Y"
      BY DEF AxisOf
    <3> QED BY <1>5, <1>6, <3>1
  <2>5. \A d \in DOMAIN cs.axes : p[d] \in 0 .. cs.size[d] - 1
    BY <1>5, <1>7
  <2>6. PICK c \in Colors(q) : InRect(p, Piece(q, cs, c))
    BY <2>3, <2>4, <2>5, PointInPiece
  <2>7. Region(q, Value(T), c) = Piece(q, cs, c)
    <3> PICK here : here = ProjectOnto(q, cs)
      OBVIOUS
    <3>1. here = [space |-> cs, parts |-> q.parts]
      <4>1. \A j \in DOMAIN q.parts : q.parts[j].stride \in Nat \ {0}
        BY <2>3, CutsParts
      <4>2. ~ \E j \in DOMAIN q.parts : q.parts[j].stride <= 0
        BY <4>1
      <4> QED BY <4>2 DEF ProjectOnto, Create
    <3>2. here.parts = q.parts
      BY <3>1
    <3>3. \A a, m : Side(here, c, a, m) = Side(q, c, a, m)
      BY <3>2, SideOfParts
    <3>4. /\ Piece(here, cs, c) = [d \in DOMAIN cs.axes |-> Side(here, c, cs.axes[d], cs.size[d])]
          /\ Piece(q, cs, c) = [d \in DOMAIN cs.axes |-> Side(q, c, cs.axes[d], cs.size[d])]
      BY PieceSides
    <3>5. Piece(here, cs, c) = Piece(q, cs, c)
      BY <3>3, <3>4
    <3> QED BY <1>4, <1>9, <3>5 DEF Region
  <2>8. c \in ColorsOf(q)
    BY <1>9 DEF ColorsOf
  <2> QED BY <2>6, <2>7, <2>8
<1> QED BY <1>8, <1>9

\* What a step of the driver does to a term.
LaunchStep(T) ==
  /\ Standing /\ TermInv(T) /\ next <= Len(Program) /\ input' = input /\ shown' = shown
  /\ \A s \in OfTerm(T) :
       /\ Done(s.do, s.on)' <=> Done(s.do, s.on)
       /\ Issued(s)' <=> (Issued(s) \/ s = Program[next])
       /\ s = Program[next] => ~Issued(s)
  /\ DOMAIN value \subseteq DOMAIN value'
  /\ \A col \in Handed(T) :
       IF Program[next] = Step("Create", col[1])
       THEN col \in DOMAIN value' /\ value'[col] = <<>>
       ELSE /\ col \in DOMAIN value' => col \in DOMAIN value /\ value'[col] = value[col]
            /\ col \in DOMAIN space => space'[col] = space[col]
  /\ ToSet(tasks) \subseteq ToSet(tasks')
  /\ Program[next] = Step("Cfs", T) =>
       \E new \in ToSet(tasks') :
         /\ new.step = Program[next] /\ new.partition = PartitionOf(Program[next])
         /\ new.left = ColorsOf(new.partition)

\* What it does to the steps of the term.
LEMMA LaunchedSteps ==
  ASSUME NEW T \in Followed, LaunchStep(T), NEW do, NEW on, Step(do, on) \in OfTerm(T)
  PROVE  /\ Done(do, on)' <=> Done(do, on)
         /\ Issued(Step(do, on))' <=> (Issued(Step(do, on)) \/ Step(do, on) = Program[next])
         /\ Step(do, on) = Program[next] => ~Issued(Step(do, on)) /\ ~Done(do, on)
<1>1. PICK s : s = Step(do, on)
  OBVIOUS
<1>2. s \in OfTerm(T) /\ s.do = do /\ s.on = on
  BY <1>1 DEF Step
<1>3. /\ Done(s.do, s.on)' <=> Done(s.do, s.on)
      /\ Issued(s)' <=> (Issued(s) \/ s = Program[next])
      /\ s = Program[next] => ~Issued(s)
  BY <1>2 DEF LaunchStep
<1> QED BY <1>1, <1>2, <1>3 DEF Done

\* When a table of a term is created, nothing of the term was done with it yet.
LEMMA CreatedFirst ==
  ASSUME NEW T \in Followed, LaunchStep(T)
  PROVE  /\ Program[next] = Step("Create", CoordsOf(T)) => ~Done("Coordinates", CoordsOf(T))
         /\ Program[next] = Step("Create", T) =>
              ~Done("Create", T) /\ ~Issued(Step("Cfs", T))
<1>1. Standing /\ next \in Nat /\ next <= 39 /\ next <= Len(Program)
  BY DEF LaunchStep, Standing, IInv, InOrder
<1>2. /\ Step("Create", CoordsOf(T)) \in OfTerm(T) /\ Step("Coordinates", CoordsOf(T)) \in OfTerm(T)
      /\ Step("Create", T) \in OfTerm(T) /\ Step("Cfs", T) \in OfTerm(T)
  BY DEF OfTerm
<1> PICK k, j, l, m : /\ k = PlaceOf(Step("Create", CoordsOf(T)))
                      /\ j = PlaceOf(Step("Coordinates", CoordsOf(T)))
                      /\ l = PlaceOf(Step("Create", T)) /\ m = PlaceOf(Step("Cfs", T))
  OBVIOUS
<1>3. /\ k \in 1 .. 38 /\ j \in 1 .. 38 /\ l \in 1 .. 38 /\ m \in 1 .. 38
      /\ Program[k] = Step("Create", CoordsOf(T)) /\ Program[j] = Step("Coordinates", CoordsOf(T))
      /\ Program[l] = Step("Create", T) /\ Program[m] = Step("Cfs", T)
      /\ k < j /\ j < l /\ l < m
  BY <1>2, StepsOfTerm
<1>4. k <= j /\ l <= m
  BY <1>3
<1>5. /\ Issued(Program[j]) => Issued(Program[k])
      /\ Issued(Program[m]) => Issued(Program[l])
  BY <1>1, <1>3, <1>4, IssuedBefore
<1>6. /\ Program[next] = Step("Create", CoordsOf(T)) => ~Issued(Step("Create", CoordsOf(T)))
      /\ Program[next] = Step("Create", T) => ~Issued(Step("Create", T))
  BY <1>2, LaunchedSteps
<1> QED BY <1>3, <1>5, <1>6 DEF Done

\* What a column of a term becomes when the driver goes on: it is new and empty,
\* or it stays.
LEMMA LaunchedColumn ==
  ASSUME NEW T \in Followed, LaunchStep(T), NEW col \in Handed(T)
  PROVE  /\ Program[next] = Step("Create", col[1]) => col \in DOMAIN value' /\ value'[col] = <<>>
         /\ Program[next] # Step("Create", col[1]) =>
              /\ col \in DOMAIN value' => col \in DOMAIN value /\ value'[col] = value[col]
              /\ col \in DOMAIN space => space'[col] = space[col]
         /\ col \in DOMAIN value => col \in DOMAIN value'
BY DEF LaunchStep

\* The columns by the tables that they are of.
LEMMA HandedNames ==
  ASSUME NEW T \in Followed
  PROVE  /\ Value(T) \in Handed(T) /\ Value(T)[1] = T
         /\ IndexOf(T) \in Handed(T) /\ IndexOf(T)[1] = T
         /\ GridOf(T) \in Handed(T) /\ GridOf(T)[1] = CoordsOf(T)
         /\ AngleOf(T) \in Handed(T) /\ AngleOf(T)[1] = CoordsOf(T)
BY TermNames DEF Handed

\* The steps keep their order.
LEMMA LaunchFollows ==
  ASSUME NEW T \in Followed, LaunchStep(T)
  PROVE  StepsFollow(T)' /\ ColumnsStand(T)'
<1>1. StepsFollow(T) /\ ColumnsStand(T)
  BY DEF LaunchStep, TermInv
<1>2. {Step("Create", CoordsOf(T)), Step("Coordinates", CoordsOf(T)), Step("Create", T),
       Step("Cfs", T), Step("Show", TitleOf(T)), Step("Destroy", CoordsOf(T)),
       Step("Destroy", T)} \subseteq OfTerm(T)
  BY DEF OfTerm
<1>3. ASSUME NEW do, NEW on, Step(do, on) \in OfTerm(T)
      PROVE  /\ Done(do, on)' <=> Done(do, on)
             /\ Issued(Step(do, on))' <=> (Issued(Step(do, on)) \/ Step(do, on) = Program[next])
  BY <1>3, LaunchedSteps
<1>4. StepsFollow(T)'
  <2>1. /\ Done("Destroy", CoordsOf(T))' <=> Done("Destroy", CoordsOf(T))
        /\ Done("Create", CoordsOf(T))' <=> Done("Create", CoordsOf(T))
        /\ Done("Cfs", T)' <=> Done("Cfs", T)
        /\ Done("Destroy", T)' <=> Done("Destroy", T)
        /\ Done("Create", T)' <=> Done("Create", T)
        /\ Done("Show", TitleOf(T))' <=> Done("Show", TitleOf(T))
        /\ Done("Coordinates", CoordsOf(T))' <=> Done("Coordinates", CoordsOf(T))
    BY <1>2, <1>3
  <2> QED BY <1>1, <2>1 DEF StepsFollow
<1>5. /\ Issued(Step("Create", CoordsOf(T)))' <=>
           (Issued(Step("Create", CoordsOf(T))) \/ Step("Create", CoordsOf(T)) = Program[next])
      /\ Issued(Step("Create", T))' <=>
           (Issued(Step("Create", T)) \/ Step("Create", T) = Program[next])
      /\ Done("Destroy", CoordsOf(T))' <=> Done("Destroy", CoordsOf(T))
      /\ Done("Destroy", T)' <=> Done("Destroy", T)
  BY <1>2, <1>3
<1>6. /\ (Issued(Step("Create", CoordsOf(T))) /\ ~Done("Destroy", CoordsOf(T))) =>
            GridOf(T) \in DOMAIN value /\ AngleOf(T) \in DOMAIN value
      /\ (Issued(Step("Create", T)) /\ ~Done("Destroy", T)) =>
            Value(T) \in DOMAIN value /\ IndexOf(T) \in DOMAIN value
  BY <1>1 DEF ColumnsStand
<1>7. ASSUME NEW col \in Handed(T)
      PROVE  /\ Program[next] = Step("Create", col[1]) => col \in DOMAIN value'
             /\ col \in DOMAIN value => col \in DOMAIN value'
  BY LaunchedColumn
<1>8. ColumnsStand(T)'
  <2>1. ASSUME Issued(Step("Create", CoordsOf(T)))', ~Done("Destroy", CoordsOf(T))'
        PROVE  GridOf(T) \in DOMAIN value' /\ AngleOf(T) \in DOMAIN value'
    BY <1>5, <1>6, <1>7, <2>1, HandedNames
  <2>2. ASSUME Issued(Step("Create", T))', ~Done("Destroy", T)'
        PROVE  Value(T) \in DOMAIN value' /\ IndexOf(T) \in DOMAIN value'
    BY <1>5, <1>6, <1>7, <2>2, HandedNames
  <2>3. GridOf(T)' = GridOf(T) /\ AngleOf(T)' = AngleOf(T) /\ IndexOf(T)' = IndexOf(T) /\ Value(T)' = Value(T)
    BY DEF GridOf, AngleOf, IndexOf, Value
  <2> QED BY <2>1, <2>2, <2>3 DEF ColumnsStand
<1> QED BY <1>4, <1>8

\* What the columns hold that the term is computed from.
LEMMA LaunchReads ==
  ASSUME NEW T \in Followed, LaunchStep(T)
  PROVE  AnglesRead(T)' /\ GridMade(T)' /\ IndexMade(T)'
<1>1. AnglesRead(T) /\ GridMade(T) /\ IndexMade(T) /\ input' = input
  BY DEF LaunchStep, TermInv
<1>2. /\ Program[next] = Step("Create", CoordsOf(T)) => ~Done("Coordinates", CoordsOf(T))
      /\ Program[next] = Step("Create", T) => ~Done("Create", T)
  BY CreatedFirst
<1>3. /\ Done("Coordinates", CoordsOf(T))' <=> Done("Coordinates", CoordsOf(T))
      /\ Done("Create", T)' <=> Done("Create", T)
  <2>1. /\ Step("Coordinates", CoordsOf(T)) \in OfTerm(T) /\ Step("Create", T) \in OfTerm(T)
    BY DEF OfTerm
  <2> QED BY <2>1, LaunchedSteps
<1>4. AnglesRead(T)'
  <2> PICK col, new : col = AngleOf(T) /\ new = value'[AngleOf(T)]
    OBVIOUS
  <2>1. AnglesRead(T)' <=> (col \in DOMAIN value' => \A pt \in DOMAIN new : new[pt] \in Int)
    BY DEF AnglesRead, AngleOf
  <2>2. ASSUME col \in DOMAIN value', NEW pt \in DOMAIN new PROVE new[pt] \in Int
    <3>1. col \in Handed(T) /\ col[1] = CoordsOf(T)
      BY HandedNames
    <3>2. Program[next] # Step("Create", CoordsOf(T))
      <4> SUFFICES ASSUME Program[next] = Step("Create", CoordsOf(T)) PROVE FALSE
        OBVIOUS
      <4>1. new = <<>>
        BY <3>1, LaunchedColumn
      <4>2. DOMAIN new = {}
        BY <4>1
      <4> QED BY <2>2, <4>2
    <3>3. col \in DOMAIN value /\ new = value[col]
      BY <2>2, <3>1, <3>2, LaunchedColumn
    <3> QED BY <1>1, <2>2, <3>3 DEF AnglesRead
  <2> QED BY <2>1, <2>2
<1>5. GridMade(T)'
  <2> PICK col, new, n : col = GridOf(T) /\ new = value'[GridOf(T)] /\ n = GridSize(T)
    OBVIOUS
  <2>1. GridMade(T)' <=> ((col \in DOMAIN value' /\ Done("Coordinates", CoordsOf(T))') =>
          \A x, y \in 0 .. n - 1 : <<0, x, y>> \in DOMAIN new /\ new[<<0, x, y>>] \in CoordinateSet)
    <3>1. GridSize(T)' = GridSize(T)
      BY <1>1 DEF GridSize
    <3> QED BY <3>1 DEF GridMade, GridOf
  <2>2. ASSUME col \in DOMAIN value', Done("Coordinates", CoordsOf(T))'
        PROVE  \A x, y \in 0 .. n - 1 : <<0, x, y>> \in DOMAIN new /\ new[<<0, x, y>>] \in CoordinateSet
    <3>1. col \in Handed(T) /\ col[1] = CoordsOf(T)
      BY HandedNames
    <3>2. Program[next] # Step("Create", CoordsOf(T))
      BY <1>2, <1>3, <2>2
    <3>3. col \in DOMAIN value /\ new = value[col]
      BY <2>2, <3>1, <3>2, LaunchedColumn
    <3> QED BY <1>1, <1>3, <2>2, <3>3 DEF GridMade
  <2> QED BY <2>1, <2>2
<1>6. IndexMade(T)'
  <2> PICK col, new, given : col = IndexOf(T) /\ new = value'[IndexOf(T)] /\ given = Given(T)
    OBVIOUS
  <2>1. IndexMade(T)' <=> ((col \in DOMAIN value' /\ Done("Create", T)') =>
          \A k \in 0 .. Len(given) - 1 : <<k>> \in DOMAIN new /\ new[<<k>>] = given[k + 1])
    <3>1. Given(T)' = Given(T)
      BY <1>1 DEF Given
    <3> QED BY <3>1 DEF IndexMade, IndexOf
  <2>2. ASSUME col \in DOMAIN value', Done("Create", T)'
        PROVE  \A k \in 0 .. Len(given) - 1 : <<k>> \in DOMAIN new /\ new[<<k>>] = given[k + 1]
    <3>1. col \in Handed(T) /\ col[1] = T
      BY HandedNames
    <3>2. Program[next] # Step("Create", T)
      BY <1>2, <1>3, <2>2
    <3>3. col \in DOMAIN value /\ new = value[col]
      BY <2>2, <3>1, <3>2, LaunchedColumn
    <3> QED BY <1>1, <1>3, <2>2, <3>3 DEF IndexMade
  <2> QED BY <2>1, <2>2
<1> QED BY <1>4, <1>5, <1>6

\* Every point of a term is in a piece of the launch, or it was taken care of.
LEMMA LaunchMade ==
  ASSUME InputsServe, NEW T \in Followed, LaunchStep(T)
  PROVE  TermMade(T)'
<1>1. TermMade(T) /\ input' = input /\ Standing /\ next <= Len(Program)
  BY DEF LaunchStep, TermInv
<1> PICK col, new : col = Value(T) /\ new = value'[Value(T)]
  OBVIOUS
<1>2. TermMade(T)' <=> ((col \in DOMAIN value' /\ Issued(Step("Cfs", T))') =>
                         \A p \in Points(T) : Ahead(T, p)' \/ Right(T, p)')
  <2>1. Points(T)' = Points(T) /\ Value(T)' = Value(T)
    BY <1>1 DEF Points, Given, GridSize, Value
  <2> QED BY <2>1 DEF TermMade
<1> SUFFICES ASSUME col \in DOMAIN value', Issued(Step("Cfs", T))', NEW p \in Points(T)
             PROVE  Ahead(T, p)' \/ Right(T, p)'
  BY <1>2
<1>3. Step("Cfs", T) \in OfTerm(T) /\ Step("Create", T) \in OfTerm(T)
  BY DEF OfTerm
<1>4. Issued(Step("Cfs", T)) \/ Step("Cfs", T) = Program[next]
  BY <1>3, LaunchedSteps
<1>5. Program[next] # Step("Create", T)
  <2>1. Program[next] = Step("Create", T) => ~Issued(Step("Cfs", T))
    BY CreatedFirst
  <2>2. Step("Create", T) # Step("Cfs", T)
    BY DEF Step
  <2> QED BY <1>4, <2>1, <2>2
<1>6. Issued(Step("Create", T))
  <2> PICK k, m : k = PlaceOf(Step("Create", T)) /\ m = PlaceOf(Step("Cfs", T))
    OBVIOUS
  <2>1. /\ k \in 1 .. 38 /\ m \in 1 .. 38 /\ k < m
        /\ Program[k] = Step("Create", T) /\ Program[m] = Step("Cfs", T)
    BY <1>3, StepsOfTerm
  <2>2. next \in Nat \ {0} /\ next <= 39 /\ next <= 38
    BY <1>1, ProgramLong DEF Standing, IInv, InOrder
  <2>3. CASE Issued(Step("Cfs", T))
    <3>1. k <= m
      BY <2>1
    <3> QED BY <2>1, <2>2, <2>3, <3>1, IssuedBefore
  <2>4. CASE Step("Cfs", T) = Program[next]
    <3>1. m = next
      <4>1. next \in 1 .. 38
        BY <2>2
      <4> QED BY <2>1, <2>4, <4>1, PlacesAre
    <3>2. k < next
      BY <2>1, <3>1
    <3> QED BY <2>1, <2>2, <3>2, IssuedIs
  <2> QED BY <1>4, <2>3, <2>4
<1>7. col \in DOMAIN space /\ space'[col] = space[col] /\ col \in DOMAIN value /\ new = value[col]
  <2>1. col \in Handed(T) /\ col[1] = T
    BY HandedNames
  <2>2. col \in ColumnsOf(T)
    BY TermColumns
  <2>3. col \in DOMAIN space
    BY <1>1, <1>6, <2>2, ColumnsMade DEF Standing
  <2> QED BY <1>5, <2>1, <2>3, LaunchedColumn
<1> PICK ts : ts = tasks'
  OBVIOUS
<1>8. ASSUME NEW u \in ToSet(ts), NEW c \in u.left, u.step = Step("Cfs", T),
             InRect(p, Region(u.partition, col, c))
      PROVE  Ahead(T, p)'
  <2>1. Region(u.partition, col, c)' = Region(u.partition, col, c)
    BY <1>7 DEF Region
  <2> QED BY <1>8, <2>1 DEF Ahead, Value
<1>9. CASE Program[next] = Step("Cfs", T)
  <2>1. PICK q : q = PartitionOf(Program[next])
    OBVIOUS
  <2>2. PICK u \in ToSet(ts) : u.step = Program[next] /\ u.partition = q /\ u.left = ColorsOf(q)
    <3>1. \E u \in ToSet(tasks') :
            u.step = Program[next] /\ u.partition = PartitionOf(Program[next]) /\ u.left = ColorsOf(u.partition)
      BY <1>9 DEF LaunchStep
    <3> QED BY <2>1, <3>1
  <2>3. SpaceIs(Value(T), <<AxisOf(T), "X", "Y">>, <<Len(Given(T)), GridSize(T), GridSize(T)>>)
    BY <1>1, <1>7, TermSpaces DEF Standing
  <2>4. \E c \in ColorsOf(q) : InRect(p, Region(q, Value(T), c))
    BY <1>1, <1>9, <2>1, <2>3, LaunchedAhead
  <2>5. PICK c \in ColorsOf(q) : InRect(p, Region(q, Value(T), c))
    BY <2>4
  <2>6. Ahead(T, p)'
    BY <1>8, <1>9, <2>2, <2>5
  <2> QED BY <2>6
<1>10. CASE Program[next] # Step("Cfs", T)
  <2>1. Ahead(T, p) \/ Right(T, p)
    BY <1>1, <1>4, <1>7, <1>10 DEF TermMade
  <2>2. ASSUME Ahead(T, p) PROVE Ahead(T, p)'
    <3>1. PICK t \in ToSet(tasks) : \E c \in t.left :
            t.step = Step("Cfs", T) /\ InRect(p, Region(t.partition, Value(T), c))
      BY <2>2 DEF Ahead
    <3>2. PICK c \in t.left : t.step = Step("Cfs", T) /\ InRect(p, Region(t.partition, Value(T), c))
      BY <3>1
    <3>3. t \in ToSet(ts)
      BY <3>1 DEF LaunchStep
    <3> QED BY <1>8, <3>2, <3>3
  <2>3. ASSUME Right(T, p) PROVE Right(T, p)'
    <3>1. Value(T)' = Value(T) /\ Given(T)' = Given(T)
      BY <1>1 DEF Given, Value
    <3>2. p \in DOMAIN new /\ new[p] \in Elements /\ new[p].of = Given(T)[p[1] + 1]
      BY <1>7, <2>3 DEF Right
    <3> QED BY <3>1, <3>2 DEF Right
  <2> QED BY <2>1, <2>2, <2>3
<1> QED BY <1>9, <1>10

\* A step of the driver keeps what holds of a term.
LEMMA LaunchKeepsTerm ==
  ASSUME InputsServe, NEW T \in Followed, LaunchStep(T)
  PROVE  TermInv(T)'
<1>1. TermShown(T)'
  <2>1. TermShown(T) /\ shown' = shown /\ input' = input
    BY DEF LaunchStep, TermInv
  <2> QED BY <2>1 DEF TermShown, Given
<1>2. StepsFollow(T)' /\ ColumnsStand(T)'
  BY LaunchFollows
<1>3. AnglesRead(T)' /\ GridMade(T)' /\ IndexMade(T)'
  BY LaunchReads
<1>4. TermMade(T)'
  BY LaunchMade
<1> QED BY <1>1, <1>2, <1>3, <1>4 DEF TermInv

\* The next step is one of the program.
LEMMA NextPlace ==
  ASSUME IInv, next <= Len(Program)
  PROVE  next \in 1 .. 38
<1>1. next \in Nat \ {0}
  BY DEF IInv
<1>2. Len(Program) = 38
  BY ProgramLong
<1>3. next <= 38
  BY <1>2
<1> QED BY <1>1, <1>3

\* A launch is a step of the driver as a term sees it.
LEMMA LaunchIsStep ==
  ASSUME InputsServe, Standing, next <= Len(Program), input' = input, shown' = shown,
         next' = next + 1, NEW values, Launch(values),
         \A table \in Made : Current = Step("Create", table) => values = IndexValues(table),
         NEW T \in Followed, TermInv(T),
         DOMAIN value \subseteq DOMAIN value',
         \A col \in Handed(T) :
           IF Program[next] = Step("Create", col[1])
           THEN col \in DOMAIN value' /\ value'[col] = <<>>
           ELSE /\ col \in DOMAIN value' => col \in DOMAIN value /\ value'[col] = value[col]
                /\ col \in DOMAIN space => space'[col] = space[col]
  PROVE  LaunchStep(T)
<1>1. IInv /\ InOrder /\ \A t \in ToSet(tasks) : Outstanding(t)
  BY DEF Standing
<1>2. next \in 1 .. 38
  BY <1>1, NextPlace
<1> PICK step : step = Program[next]
  OBVIOUS
<1>3. PICK new : /\ ToSet(tasks') = ToSet(tasks) \cup {new}
                 /\ new.step = Program[next] /\ new.partition = PartitionOf(Program[next])
                 /\ new.left = ColorsOf(new.partition)
  BY <1>1, Launches
<1>4. ASSUME NEW s \in OfTerm(T)
      PROVE  /\ Done(s.do, s.on)' <=> Done(s.do, s.on)
             /\ Issued(s)' <=> (Issued(s) \/ s = Program[next])
             /\ s = Program[next] => ~Issued(s)
  <2>1. PICK k : k = PlaceOf(s)
    OBVIOUS
  <2>2. k \in 1 .. 38 /\ Program[k] = s /\ s = Step(s.do, s.on)
    BY <2>1, StepsOfTerm
  <2>3. /\ k # next => /\ Issued(Step(s.do, s.on))' <=> Issued(Step(s.do, s.on))
                       /\ Done(s.do, s.on)' <=> Done(s.do, s.on)
        /\ k = next => ~Issued(Step(s.do, s.on)) /\ ~Done(s.do, s.on) /\ ~Done(s.do, s.on)'
    BY <1>1, <2>2, LaunchDones
  <2>4. s = step <=> k = next
    BY <1>2, <2>2, PlacesAre
  <2>5. Issued(step)'
    <3>1. next \in 1 .. next' - 1
      BY <1>2
    <3> QED BY <3>1 DEF Issued
  <2>6. CASE k = next
    BY <2>2, <2>3, <2>4, <2>5, <2>6
  <2>7. CASE k # next
    BY <2>2, <2>3, <2>4, <2>7
  <2> QED BY <2>6, <2>7
<1>5. /\ ToSet(tasks) \subseteq ToSet(tasks')
      /\ \E u \in ToSet(tasks') :
           /\ u.step = Program[next] /\ u.partition = PartitionOf(Program[next])
           /\ u.left = ColorsOf(u.partition)
  BY <1>3
<1> QED BY <1>4, <1>5 DEF LaunchStep

\* What is created of the tables that the arguments describe.
LEMMA GivenStays ==
  ASSUME input' = input, NEW table \in Made
  PROVE  SpacesOf(table, IndexValues(table))' = SpacesOf(table, IndexValues(table))
<1>1. IndexValues(table)' = IndexValues(table)
  BY ValuesStay
<1>2. GridSize(table)' = GridSize(table)
  BY DEF GridSize
<1> QED BY <1>1, <1>2 DEF SpacesOf

\* Where the ColumnSpaces stay.
LEMMA SpacesGivenStay ==
  ASSUME SpacesGiven, input' = input, space' = space
  PROVE  SpacesGiven'
<1> SUFFICES ASSUME NEW col \in DOMAIN space, col[1] \in Made
             PROVE  /\ col \in ColumnsOf(col[1])
                    /\ space[col] = SpacesOf(col[1], IndexValues(col[1]))'[col]
  BY DEF SpacesGiven
<1>1. /\ col \in ColumnsOf(col[1])
      /\ space[col] = SpacesOf(col[1], IndexValues(col[1]))[col]
  BY DEF SpacesGiven
<1>2. SpacesOf(col[1], IndexValues(col[1]))' = SpacesOf(col[1], IndexValues(col[1]))
  BY GivenStays
<1> QED BY <1>1, <1>2

\* A table is created.
LEMMA CreateStep ==
  ASSUME InputsServe, Standing, CreateTable
  PROVE  /\ Standing'
         /\ \A T \in Followed : TermInv(T) => LaunchStep(T)
<1>1. /\ next <= Len(Program) /\ Current.do = "Create" /\ input' = input /\ shown' = shown
      /\ next' = next + 1 /\ SpacesGiven /\ IInv /\ InOrder /\ \A t \in ToSet(tasks) : Outstanding(t)
  BY DEF CreateTable, Standing
<1>2. PICK table, values : table = Current.on /\ values = IndexValues(table)
  OBVIOUS
<1>3. PICK spaces : spaces = SpacesOf(table, values)
  OBVIOUS
<1>4. /\ space' = Added(space, spaces) /\ Launch(values)
      /\ value' = Added(value, [col \in DOMAIN spaces |-> <<>>])
  BY <1>2, <1>3 DEF CreateTable
<1>5. DOMAIN spaces = ColumnsOf(table) /\ \A col \in ColumnsOf(table) : col[1] = table
  <2>1. DOMAIN spaces = ColumnsOf(table)
    BY <1>3 DEF SpacesOf
  <2>2. \A col \in ColumnsOf(table) : col[1] = table
    BY DEF ColumnsOf, IndexColumns, Value
  <2> QED BY <2>1, <2>2
<1>6. /\ DOMAIN space' = DOMAIN space \cup ColumnsOf(table)
      /\ \A col \in ColumnsOf(table) : space'[col] = spaces[col]
      /\ \A col \in DOMAIN space \ ColumnsOf(table) : space'[col] = space[col]
  BY <1>4, <1>5 DEF Added
<1>7. /\ DOMAIN value' = DOMAIN value \cup ColumnsOf(table)
      /\ \A col \in ColumnsOf(table) : value'[col] = <<>>
      /\ \A col \in DOMAIN value \ ColumnsOf(table) : value'[col] = value[col]
  <2>1. PICK news : news = [col \in DOMAIN spaces |-> <<>>]
    OBVIOUS
  <2>2. DOMAIN news = ColumnsOf(table) /\ \A col \in ColumnsOf(table) : news[col] = <<>>
    BY <1>5, <2>1
  <2> QED BY <1>4, <2>1, <2>2 DEF Added
<1>8. Program[next] = Step("Create", table)
  <2>1. next \in 1 .. 38
    BY <1>1, ProgramLong DEF IInv
  <2>2. Program[next] \in Steps
    BY <2>1, ProgramLong
  <2> QED BY <1>1, <1>2, <2>2 DEF Steps, Step, Current
<1>9. \A on : Program[next] = Step("Create", on) <=> on = table
  BY <1>8 DEF Step
<1>10. \A other \in Made : Current = Step("Create", other) => values = IndexValues(other)
  BY <1>2, <1>9 DEF Current
<1>11. InOrder' /\ \A t \in ToSet(tasks') : Outstanding(t)'
  BY <1>1, <1>4, <1>10, Launches
<1>12. IInv'
  BY <1>1, CreateKeeps
<1>13. SpacesGiven'
  <2> PICK sp : sp = space'
    OBVIOUS
  <2>1. ASSUME NEW col \in DOMAIN sp, col[1] \in Made
        PROVE  /\ col \in ColumnsOf(col[1])
               /\ sp[col] = SpacesOf(col[1], IndexValues(col[1]))'[col]
    <3>1. SpacesOf(col[1], IndexValues(col[1]))' = SpacesOf(col[1], IndexValues(col[1]))
      BY <1>1, <2>1, GivenStays
    <3>2. CASE col \in ColumnsOf(table)
      <4>1. col[1] = table
        BY <1>5, <3>2
      <4>2. sp[col] = spaces[col]
        BY <1>6, <3>2
      <4> QED BY <1>2, <1>3, <3>1, <3>2, <4>1, <4>2
    <3>3. CASE col \notin ColumnsOf(table)
      <4>1. col \in DOMAIN space /\ sp[col] = space[col]
        BY <1>6, <2>1, <3>3
      <4> QED BY <1>1, <2>1, <3>1, <4>1 DEF SpacesGiven
    <3> QED BY <3>2, <3>3
  <2> QED BY <2>1 DEF SpacesGiven
<1>14. Standing'
  BY <1>11, <1>12, <1>13 DEF Standing
<1>15. ASSUME NEW T \in Followed, TermInv(T) PROVE LaunchStep(T)
  <2>1. ASSUME NEW col \in Handed(T)
        PROVE  IF Program[next] = Step("Create", col[1])
               THEN col \in DOMAIN value' /\ value'[col] = <<>>
               ELSE /\ col \in DOMAIN value' => col \in DOMAIN value /\ value'[col] = value[col]
                    /\ col \in DOMAIN space => space'[col] = space[col]
    <3>1. col \in ColumnsOf(col[1])
      <4>1. /\ ColumnsOf(CoordsOf(T)) = {AngleOf(T), GridOf(T), Value(CoordsOf(T))}
            /\ ColumnsOf(T) = {IndexOf(T), Value(T)}
        BY TermColumns
      <4>2. \/ col[1] = T /\ col \in {IndexOf(T), Value(T)}
            \/ col[1] = CoordsOf(T) /\ col \in {AngleOf(T), GridOf(T)}
        BY HandedNames DEF Handed
      <4> QED BY <4>1, <4>2
    <3>2. CASE col[1] = table
      BY <1>7, <1>9, <3>1, <3>2
    <3>3. CASE col[1] # table
      <4>1. col \notin ColumnsOf(table)
        BY <1>5, <3>3
      <4> QED BY <1>6, <1>7, <1>9, <3>3, <4>1
    <3> QED BY <3>2, <3>3
  <2>2. DOMAIN value \subseteq DOMAIN value'
    BY <1>7
  <2> QED BY <1>1, <1>4, <1>10, <1>15, <2>1, <2>2, LaunchIsStep
<1> QED BY <1>14, <1>15

\* A task is launched.
LEMMA LaunchTaskStep ==
  ASSUME InputsServe, Standing, LaunchTask
  PROVE  /\ Standing'
         /\ \A T \in Followed : TermInv(T) => LaunchStep(T)
<1>1. /\ next <= Len(Program) /\ Current.do # "Create" /\ input' = input /\ shown' = shown
      /\ space' = space /\ value' = value
      /\ next' = next + 1 /\ SpacesGiven /\ IInv /\ InOrder /\ \A t \in ToSet(tasks) : Outstanding(t)
  BY DEF LaunchTask, Standing
<1>2. PICK values : values = <<>>
  OBVIOUS
<1>3. Launch(values)
  BY <1>2 DEF LaunchTask
<1>4. \A on : Program[next] # Step("Create", on)
  BY <1>1 DEF Step, Current
<1>5. \A other \in Made : Current = Step("Create", other) => values = IndexValues(other)
  BY <1>4 DEF Current
<1>6. InOrder' /\ \A t \in ToSet(tasks') : Outstanding(t)'
  BY <1>1, <1>3, <1>5, Launches
<1>7. IInv'
  BY <1>1, NextInv DEF Next
<1>8. SpacesGiven'
  BY <1>1, SpacesGivenStay
<1>9. Standing'
  BY <1>6, <1>7, <1>8 DEF Standing
<1>10. ASSUME NEW T \in Followed, TermInv(T) PROVE LaunchStep(T)
  <2>1. ASSUME NEW col \in Handed(T)
        PROVE  IF Program[next] = Step("Create", col[1])
               THEN col \in DOMAIN value' /\ value'[col] = <<>>
               ELSE /\ col \in DOMAIN value' => col \in DOMAIN value /\ value'[col] = value[col]
                    /\ col \in DOMAIN space => space'[col] = space[col]
    BY <1>1, <1>4
  <2> QED BY <1>1, <1>3, <1>5, <1>10, <2>1, LaunchIsStep
<1> QED BY <1>9, <1>10

\* The driver fills the coefficients itself.
LEMMA ZernikeStep ==
  ASSUME InputsServe, Standing, InitZernike
  PROVE  /\ Standing'
         /\ \A T \in Followed : TermInv(T) => LaunchStep(T)
<1>1. /\ next <= Len(Program) /\ Current.do = "Zernike" /\ input' = input /\ shown' = shown
      /\ space' = space /\ tasks' = tasks
      /\ next' = next + 1 /\ SpacesGiven /\ IInv /\ InOrder /\ \A t \in ToSet(tasks) : Outstanding(t)
  BY DEF InitZernike, Standing
<1>2. /\ DOMAIN value' = DOMAIN value
      /\ \A col \in DOMAIN value : col # <<"zmodel", "ZC">> => value'[col] = value[col]
  BY DEF InitZernike
<1>3. next \in 1 .. 38 /\ next \in Nat
  BY <1>1, ProgramLong DEF IInv
<1>4. \A s : s.do # "Zernike" => s # Program[next]
  BY <1>1 DEF Current
<1>5. \A s : Issued(s) => Issued(s)'
  BY <1>1, <1>3 DEF Issued
<1>6. ASSUME NEW s, s.do # "Zernike" PROVE Issued(s)' <=> Issued(s)
  <2> SUFFICES ASSUME NEW k \in 1 .. next, Program[k] = s PROVE Issued(s)
    BY <1>1, <1>3, <1>5 DEF Issued
  <2>1. k # next
    BY <1>4, <1>6
  <2>2. k \in 1 .. next - 1
    BY <1>3, <2>1
  <2> QED BY <2>2 DEF Issued
<1>7. InOrder'
  <2>1. /\ next <= 39 /\ \A i \in DOMAIN tasks : Issued(tasks[i].step)
        /\ \A i, j \in DOMAIN tasks : i < j => PlaceOf(tasks[i].step) < PlaceOf(tasks[j].step)
    BY <1>1 DEF InOrder
  <2>2. next' <= 39
    BY <1>1, <1>3
  <2> PICK ts : ts = tasks
    OBVIOUS
  <2>3. \A i \in DOMAIN ts : Issued(ts[i].step)'
    BY <1>5, <2>1
  <2>4. \A i, j \in DOMAIN ts : i < j => PlaceOf(ts[i].step) < PlaceOf(ts[j].step)
    BY <2>1
  <2>5. tasks' = ts
    BY <1>1
  <2> QED BY <2>2, <2>3, <2>4, <2>5 DEF InOrder
<1>8. \A t \in ToSet(tasks') : Outstanding(t)'
  BY <1>1, OutstandingStays
<1>9. IInv'
  BY <1>1, NextInv DEF Next
<1>10. SpacesGiven'
  BY <1>1, SpacesGivenStay
<1>11. Standing'
  BY <1>7, <1>8, <1>9, <1>10 DEF Standing
<1>12. ASSUME NEW T \in Followed, TermInv(T) PROVE LaunchStep(T)
  <2>1. \A s \in OfTerm(T) : s.do \in {"Create", "Coordinates", "Cfs", "Show", "Destroy"}
    BY DEF OfTerm, Step
  <2>2. ASSUME NEW s \in OfTerm(T)
        PROVE  /\ Done(s.do, s.on)' <=> Done(s.do, s.on)
               /\ Issued(s)' <=> (Issued(s) \/ s = Program[next])
               /\ s = Program[next] => ~Issued(s)
    <3>1. s.do # "Zernike" /\ s # Program[next] /\ s = Step(s.do, s.on)
      BY <1>4, <2>1, StepsOfTerm
    <3>2. Issued(s)' <=> Issued(s)
      BY <1>6, <3>1
    <3>3. Pending(s.do, s.on)' <=> Pending(s.do, s.on)
      BY <1>1 DEF Pending
    <3> QED BY <3>1, <3>2, <3>3 DEF Done
  <2>3. ASSUME NEW col \in Handed(T)
        PROVE  IF Program[next] = Step("Create", col[1])
               THEN col \in DOMAIN value' /\ value'[col] = <<>>
               ELSE /\ col \in DOMAIN value' => col \in DOMAIN value /\ value'[col] = value[col]
                    /\ col \in DOMAIN space => space'[col] = space[col]
    <3>1. Program[next] # Step("Create", col[1])
      BY <1>1 DEF Step, Current
    <3>2. col # <<"zmodel", "ZC">>
      <4>1. \A c \in Handed(T) : c[1] \in {"ps", "w", "ps_coords", "w_coords"}
        BY TermNames DEF Handed
      <4>2. <<"zmodel", "ZC">>[1] = "zmodel"
        OBVIOUS
      <4> QED BY <4>1, <4>2
    <3> QED BY <1>1, <1>2, <3>1, <3>2
  <2>4. Program[next] # Step("Cfs", T)
    BY <1>1 DEF Step, Current
  <2> QED BY <1>1, <1>2, <1>12, <2>2, <2>3, <2>4 DEF LaunchStep
<1> QED BY <1>11, <1>12

-----------------------------------------------------------------------------
(***************************************************************************)
(* The aperture term.                                                      *)
(***************************************************************************)

\* The grid of the aperture term has sizes.
LEMMA ApertureSized ==
  ASSUME InputsServe, Standing, Value("a") \in DOMAIN space
  PROVE  \A d \in DOMAIN space[Value("a")].axes : space[Value("a")].size[d] \in Nat \ {0}
<1>1. input \in Inputs /\ SpacesGiven
  BY DEF Standing, IInv
<1> PICK values, g : values = IndexValues("a") /\ g = GridSize("a")
  OBVIOUS
<1>2. values = [BASELINE_CLASS |-> input.blcs, PARALLACTIC_ANGLE |-> input.pas,
                FREQUENCY |-> input.frqs, STOKES_OUT |-> input.out, STOKES_IN |-> input.in]
  BY DEF IndexValues
<1>3. DOMAIN values = RowAxes /\ (\A axis \in RowAxes : Len(values[axis]) \in Nat \ {0})
  <2>1. DOMAIN values = RowAxes
    BY <1>2 DEF RowAxes
  <2>2. Counted(LengthsCut["a"])
    BY <1>1, LengthsCounted
  <2>3. ASSUME NEW axis \in RowAxes PROVE Len(values[axis]) \in Nat \ {0}
    <3>1. LengthsCut["a"][axis] = Len(values[axis])
      BY <1>2, LengthsAre DEF RowAxes
    <3>2. LengthsCut["a"][axis] \in Nat \ {0}
      BY <2>2, LengthsAre DEF Counted
    <3> QED BY <3>1, <3>2
  <2> QED BY <2>1, <2>3
<1>4. g \in Nat \ {0}
  BY <1>1 DEF GridSize, InputsServe
<1>5. PICK lengths : lengths = [axis \in RowAxes \cup {"X", "Y"} |->
                                  IF axis \in RowAxes THEN Len(values[axis]) ELSE g]
  OBVIOUS
<1>6. \A axis \in DOMAIN lengths : lengths[axis] \in Nat \ {0}
  BY <1>3, <1>4, <1>5
<1>7. "a" \in CutTables /\ Value("a") \in ColumnsOf("a") /\ Value("a") = <<"a", "VALUE">>
  BY DEF CutTables, ColumnsOf, Value
<1>8. Measured(SpacesOf("a", values)[Value("a")], AxesIn(Value("a")), lengths)
  <2>1. \A i \in DOMAIN AxesOf["a"] : AxesOf["a"][i] \in DOMAIN values
    BY <1>3, RowAxesAre DEF ToSet
  <2>2. \A axis \in ToSet(AxesOf["a"]) \cap DOMAIN lengths : Len(values[axis]) = lengths[axis]
    BY <1>5, RowAxesAre
  <2>3. \A axis \in {"X", "Y"} \cap DOMAIN lengths : GridSize("a") = lengths[axis]
    BY <1>5 DEF RowAxes
  <2> QED BY <1>7, <2>1, <2>2, <2>3, NewSpacesMeasured
<1>9. PICK cs : cs = space[Value("a")]
  OBVIOUS
<1>10. cs = SpacesOf("a", values)[Value("a")]
  <2>1. Value("a")[1] = "a" /\ "a" \in Made
    BY <1>7 DEF Made
  <2>2. space[Value("a")] = SpacesOf("a", IndexValues("a"))[Value("a")]
    BY <1>1, <2>1 DEF SpacesGiven
  <2> QED BY <1>9, <2>2
<1>11. AxesIn(Value("a")) = AxesOf["a"] \o <<"X", "Y">>
  BY DEF AxesIn, Value
<1>12. cs.axes = AxesOf["a"] \o <<"X", "Y">> /\ Fits(cs, lengths)
  BY <1>8, <1>10, <1>11 DEF Measured
<1>13. ToSet(cs.axes) = DOMAIN lengths
  BY <1>5, <1>7, <1>12, AxesOfGrid, RowAxesAre
<1>14. \A d \in DOMAIN cs.axes : cs.size[d] = lengths[cs.axes[d]] /\ cs.axes[d] \in DOMAIN lengths
  <2>1. \A d \in DOMAIN cs.axes : cs.axes[d] \in ToSet(cs.axes)
    BY DEF ToSet
  <2> QED BY <1>12, <1>13, <2>1 DEF Fits
<1> QED BY <1>6, <1>9, <1>14

\* The steps that the aperture term is made and printed by.
LEMMA ApertureSteps ==
  /\ Program[15] = Step("Create", "a") /\ Program[24] = Step("Cfs", "a")
  /\ Program[26] = Step("Show", "ATerm")
  /\ PlaceOf(Step("Show", "ATerm")) = 26
  /\ Reads(Step("Show", "ATerm")) = IndexColumns("a") \cup {Value("a")}
  /\ Writes(Step("Cfs", "a")) = {Value("a")}
<1>1. /\ Program[15] = Step("Create", "a") /\ Program[24] = Step("Cfs", "a")
      /\ Program[26] = Step("Show", "ATerm")
  BY ProgramSteps, Zenon
<1>2. PlaceOf(Step("Show", "ATerm")) = 26
  BY DEF PlaceOf, Step
<1>3. TableShown("ATerm") = "a"
  BY DEF TableShown, Titled
<1>4. Reads(Step("Show", "ATerm")) = IndexColumns("a") \cup {Value("a")}
  BY <1>3 DEF Reads, Step
<1>5. Writes(Step("Cfs", "a")) = {Value("a")}
  BY DEF Writes, Step
<1> QED BY <1>1, <1>2, <1>4, <1>5

\* It is made before it is computed or printed.
LEMMA ApertureMade ==
  ASSUME Standing, Issued(Step("Cfs", "a")) \/ Issued(Step("Show", "ATerm"))
  PROVE  Value("a") \in DOMAIN space /\ ~(next <= 24)
<1>1. IInv /\ next \in Nat /\ next <= 39
  BY DEF Standing, IInv, InOrder
<1>2. Program[24] = Step("Cfs", "a") /\ Program[26] = Step("Show", "ATerm")
  BY ApertureSteps
<1>3. ~(next <= 24)
  <2>1. CASE Issued(Program[24])
    <3>1. 24 \in 1 .. 38
      OBVIOUS
    <3>2. Issued(Program[24]) <=> 24 < next
      BY <1>1, <3>1, IssuedIs
    <3> QED BY <1>1, <2>1, <3>2
  <2>2. CASE Issued(Program[26])
    <3>1. 26 \in 1 .. 38
      OBVIOUS
    <3>2. Issued(Program[26]) <=> 26 < next
      BY <1>1, <3>1, IssuedIs
    <3> QED BY <1>1, <2>2, <3>2
  <2> QED BY <1>2, <2>1, <2>2
<1>4. Issued(Step("Create", "a"))
  <2>1. 15 \in 1 .. next - 1
    BY <1>1, <1>3
  <2> QED BY <2>1, ApertureSteps DEF Issued
<1>5. Value("a") \in ColumnsOf("a")
  BY DEF ColumnsOf
<1> QED BY <1>1, <1>3, <1>4, <1>5, ColumnsMade

\* It is computed before it is printed.
LEMMA ApertureOrder ==
  ASSUME InputsServe, Standing, NEW i \in DOMAIN tasks, NEW color \in tasks[i].left,
         Ready(i, color), tasks[i].step = Step("Show", "ATerm")
  PROVE  Done("Cfs", "a") /\ Value("a") \in DOMAIN space
<1>1. Value("a") \in DOMAIN space
  <2>1. Issued(tasks[i].step)
    BY DEF Standing, InOrder
  <2> QED BY <2>1, ApertureMade
<1>2. \A d \in DOMAIN space[Value("a")].axes : space[Value("a")].size[d] \in Nat \ {0}
  BY <1>1, ApertureSized
<1>3. ~IsValid(tasks[i].partition)
  <2>1. Outstanding(tasks[i])
    BY DEF Standing, ToSet
  <2>2. tasks[i].step.do = "Show"
    BY DEF Step
  <2> QED BY <2>1, <2>2 DEF Outstanding, IsValid
<1> PICK k, col : k = 24 /\ col = Value("a")
  OBVIOUS
<1>4. k \in 1 .. 38 /\ Program[k] = Step("Cfs", "a") /\ k < PlaceOf(tasks[i].step)
  BY ApertureSteps
<1>5. col \in Uses(tasks[i]) /\ col \in Writes(Program[k])
  BY <1>4, ApertureSteps DEF Uses
<1>6. /\ col \in Reads(Program[k]) \cup Writes(Program[k])
      /\ col \in Writes(tasks[i].step) \cup Writes(Program[k])
  BY <1>5
<1>7. \A d \in DOMAIN space[col].axes : space[col].size[d] \in Nat \ {0}
  BY <1>2
<1>8. Done("Cfs", "a")
  BY <1>3, <1>4, <1>5, <1>6, <1>7, WaitsFor
<1> QED BY <1>1, <1>8

\* Only the step that computes the aperture term changes it.
LEMMA ApertureStays ==
  ASSUME Standing, NEW i \in DOMAIN tasks, NEW color \in tasks[i].left, TaskRuns(i, color),
         tasks[i].step # Step("Cfs", "a")
  PROVE  Value("a") \in DOMAIN value' =>
           Value("a") \in DOMAIN value /\ value'[Value("a")] = value[Value("a")]
<1>1. InOrder /\ next \in Nat
  BY DEF Standing, IInv
<1>2. ~StepIs(i, "Cfs", "a")
  BY <1>1, StepByName
<1> PICK col : col = Value("a")
  OBVIOUS
<1>3. col = <<"a", "VALUE">>
  BY DEF Value
<1>4. ASSUME NEW c, NEW writes, Stores(c, writes), c # col
      PROVE  col \in DOMAIN value' => col \in DOMAIN value /\ value'[col] = value[col]
  <2>1. value' = [value EXCEPT ![c] = Store(@, writes)]
    BY <1>4 DEF Stores
  <2> QED BY <1>4, <2>1
<1>5. \A table : table # "a" => Value(table) # col
  BY DEF Value
<1>6. CASE InitIndexColumns(i, color)
  <2>1. PICK table, news :
          /\ value' = Added(value, news) /\ DOMAIN news = IndexColumns(table)
    <3>1. PICK table : table = tasks[i].step.on
      OBVIOUS
    <3>2. PICK news : news = [c \in IndexColumns(table) |->
                         Store(value[c], InitBody(table, c, tasks[i].values, RegionsOf(i, color)))]
      OBVIOUS
    <3>3. value' = Added(value, news)
      BY <1>6, <3>1, <3>2 DEF InitIndexColumns
    <3>4. DOMAIN news = IndexColumns(table)
      BY <3>2
    <3> QED BY <3>3, <3>4
  <2>2. col \notin IndexColumns(table)
    <3> SUFFICES ASSUME col \in IndexColumns(table) PROVE FALSE
      OBVIOUS
    <3>1. PICK d \in DOMAIN AxesOf[table] : col = <<table, AxesOf[table][d]>>
      BY DEF IndexColumns
    <3>2. table = "a" /\ AxesOf[table][d] = "VALUE"
      BY <1>3, <3>1
    <3>3. AxesOf["a"][d] \in ToSet(AxesOf["a"])
      BY <3>1, <3>2 DEF ToSet
    <3> QED BY <3>2, <3>3, RowAxesAre DEF RowAxes
  <2> QED BY <2>1, <2>2 DEF Added
<1>7. CASE ComputeCoordinates(i, color)
  <2>1. PICK on, writes : Stores(<<on, "COORD">>, writes)
    BY <1>7 DEF ComputeCoordinates
  <2>2. <<on, "COORD">> # col
    BY <1>3
  <2> QED BY <1>4, <2>1, <2>2
<1>8. CASE ComputePSTerm(i, color) \/ ComputeWTerm(i, color)
  <2>1. PICK c, writes : Stores(c, writes) /\ c \in {Value("ps"), Value("w")}
    BY <1>8 DEF ComputePSTerm, ComputeWTerm
  <2> QED BY <1>4, <1>5, <2>1
<1>9. CASE ComputePcs(i, color)
  <2>1. PICK c, writes : c = <<"zmodel", "PC">> /\ Stores(c, writes)
    BY <1>9 DEF ComputePcs
  <2> QED BY <1>3, <1>4, <2>1
<1>10. CASE ComputeEpts(i, color)
  <2>1. PICK c, writes : c = <<"a_coords", "EPT">> /\ Stores(c, writes)
    BY <1>10 DEF ComputeEpts
  <2> QED BY <1>3, <1>4, <2>1
<1>11. CASE ComputeAifs(i, color)
  <2>1. PICK c, writes : c = Value("aif") /\ Stores(c, writes)
    BY <1>11 DEF ComputeAifs
  <2> QED BY <1>4, <1>5, <2>1
<1>12. CASE TransformInPlace(i, color)
  <2>1. PICK on : on = tasks[i].step.on
    OBVIOUS
  <2>2. PICK c, writes : c = Value(on) /\ Stores(c, writes)
    BY <1>12, <2>1 DEF TransformInPlace
  <2>3. on \in {"aif", "cf"}
    BY <1>12, <2>1 DEF TransformInPlace, Runs
  <2> QED BY <1>4, <1>5, <2>2, <2>3
<1>13. CASE ComputeATerm(i, color)
  BY <1>2, <1>13 DEF ComputeATerm, Runs, StepIs
<1>14. CASE MultiplyTerm(i, color)
  <2>1. PICK c, writes : c = Product /\ Stores(c, writes)
    BY <1>14 DEF MultiplyTerm
  <2>2. c # col
    BY <1>3, <2>1 DEF Product
  <2> QED BY <1>4, <2>1, <2>2
<1>15. CASE ShowValues(i, color)
  BY <1>15 DEF ShowValues
<1>16. CASE DestroyTable(i, color)
  <2>1. PICK on : on = tasks[i].step.on
    OBVIOUS
  <2>2. value' = [c \in DOMAIN value \ ColumnsOf(on) |-> value[c]]
    BY <1>16, <2>1 DEF DestroyTable
  <2> QED BY <2>2
<1> QED BY <1>6, <1>7, <1>8, <1>9, <1>10, <1>11, <1>12, <1>13, <1>14, <1>15, <1>16 DEF TaskRuns

\* What a piece prints.
LEMMA ShownBy ==
  ASSUME Standing, NEW i \in DOMAIN tasks, NEW color \in tasks[i].left, TaskRuns(i, color)
  PROVE  \/ shown' = shown
         \/ /\ tasks[i].step.do = "Show" /\ value' = value
            /\ shown' = Added(shown, [t \in {tasks[i].step.on} |-> Contents(TableShown(t))])
<1>1. CASE ShowValues(i, color)
  BY <1>1 DEF ShowValues, Runs
<1>2. CASE ~ShowValues(i, color)
  <2>1. ASSUME NEW c, NEW writes, Stores(c, writes) PROVE shown' = shown
    BY <2>1 DEF Stores
  <2>2. CASE InitIndexColumns(i, color) \/ DestroyTable(i, color)
    BY <2>2 DEF InitIndexColumns, DestroyTable
  <2>3. CASE ~InitIndexColumns(i, color) /\ ~DestroyTable(i, color)
    <3>1. \E c, writes : Stores(c, writes)
      BY <1>2, <2>3 DEF TaskRuns, ComputeCoordinates, ComputePSTerm, ComputeWTerm, ComputePcs,
         ComputeEpts, ComputeAifs, TransformInPlace, ComputeATerm, MultiplyTerm
    <3> QED BY <2>1, <3>1
  <2> QED BY <2>2, <2>3
<1> QED BY <1>1, <1>2

\* A piece of a launch keeps the print of the aperture term.
LEMMA TaskKeepsAperture ==
  ASSUME InputsServe, Standing, ApertureInv, NEW i \in DOMAIN tasks, NEW color \in tasks[i].left,
         TaskRuns(i, color)
  PROVE  ApertureInv'
<1>1. /\ Ready(i, color) /\ UNCHANGED <<input, next, space>>
      /\ tasks' = IF tasks[i].left = {color} THEN RemoveAt(tasks, i)
                  ELSE [tasks EXCEPT ![i].left = @ \ {color}]
  BY PieceOf
<1>2. IInv /\ InOrder /\ next \in Nat /\ \A t \in ToSet(tasks) : Outstanding(t)
  BY DEF Standing, IInv
<1>3. /\ tasks[i].step # Step("Cfs", "a") => (Done("Cfs", "a")' <=> Done("Cfs", "a"))
      /\ tasks[i].step = Step("Cfs", "a") => ~Done("Cfs", "a")
  <2> PICK k : k = 24
    OBVIOUS
  <2>1. k \in 1 .. 38 /\ Program[k] = Step("Cfs", "a")
    BY ApertureSteps
  <2> QED BY <1>1, <1>2, <2>1, PieceDones
<1> PICK old, new, col : old = value /\ new = value' /\ col = Value("a")
  OBVIOUS
<1>4. PICK print : print = shown'
  OBVIOUS
<1>5. Contents("a")' = {IF pt \in DOMAIN new[col] /\ new[col][pt] # Garbage
                        THEN new[col][pt].of ELSE Garbage : pt \in Box(space[col].size)}
  BY <1>1 DEF Contents, Value
<1>6. new[col] = value[col] => Contents("a")' = Contents("a")
  BY <1>1, <1>5 DEF Contents
<1>7. ApertureInv' <=> ("ATerm" \in DOMAIN print =>
                         /\ col \in DOMAIN space /\ Done("Cfs", "a")'
                         /\ col \in DOMAIN new => print["ATerm"] = Contents("a")')
  BY <1>1, <1>4 DEF ApertureInv, Exists, Value
<1>8. CASE tasks[i].step = Step("Show", "ATerm")
  <2>1. Done("Cfs", "a") /\ col \in DOMAIN space
    BY <1>1, <1>8, ApertureOrder
  <2>2. tasks[i].step # Step("Cfs", "a") /\ tasks[i].step.do = "Show" /\ tasks[i].step.on = "ATerm"
    BY <1>8 DEF Step
  <2>3. value' = value /\ shown' = Added(shown, [t \in {"ATerm"} |-> Contents(TableShown(t))])
    <3>1. ShowValues(i, color)
      BY <2>2 DEF TaskRuns, InitIndexColumns, ComputeCoordinates, ComputePSTerm, ComputeWTerm,
         ComputePcs, ComputeEpts, ComputeAifs, TransformInPlace, ComputeATerm, MultiplyTerm,
         DestroyTable, Runs
    <3> QED BY <2>2, <3>1 DEF ShowValues
  <2>4. print["ATerm"] = Contents("a")
    <3>1. TableShown("ATerm") = "a"
      BY DEF TableShown, Titled
    <3> QED BY <1>4, <2>3, <3>1 DEF Added
  <2>5. Contents("a")' = Contents("a")
    BY <1>6, <2>3
  <2> QED BY <1>3, <1>7, <2>1, <2>2, <2>4, <2>5
<1>9. CASE tasks[i].step # Step("Show", "ATerm")
  <2>1. "ATerm" \in DOMAIN print => "ATerm" \in DOMAIN shown /\ print["ATerm"] = shown["ATerm"]
    <3>1. CASE shown' = shown
      BY <1>4, <3>1
    <3>2. CASE /\ tasks[i].step.do = "Show" /\ value' = value
               /\ shown' = Added(shown, [t \in {tasks[i].step.on} |-> Contents(TableShown(t))])
      <4>1. tasks[i].step.on # "ATerm"
        BY <1>2, <1>9, <3>2, StepByName DEF StepIs
      <4> QED BY <1>4, <3>2, <4>1 DEF Added
    <3> QED BY <3>1, <3>2, ShownBy
  <2>2. ASSUME "ATerm" \in DOMAIN print
        PROVE  /\ col \in DOMAIN space /\ Done("Cfs", "a")'
               /\ col \in DOMAIN new => print["ATerm"] = Contents("a")'
    <3>1. /\ col \in DOMAIN space /\ Done("Cfs", "a")
          /\ col \in DOMAIN value => shown["ATerm"] = Contents("a")
      BY <2>1, <2>2 DEF ApertureInv, Exists
    <3>2. tasks[i].step # Step("Cfs", "a")
      BY <1>3, <3>1
    <3>3. col \in DOMAIN new => col \in DOMAIN value /\ new[col] = value[col]
      BY <3>2, ApertureStays
    <3> QED BY <1>3, <1>6, <2>1, <2>2, <3>1, <3>2, <3>3
  <2> QED BY <1>7, <2>2
<1> QED BY <1>8, <1>9

\* The print of the aperture term stays right where the term stays.
LEMMA StepKeepsAperture ==
  ASSUME Standing, ApertureInv, next <= Len(Program), shown' = shown,
         Done("Cfs", "a") => Done("Cfs", "a")',
         Program[next] # Step("Create", "a") =>
           /\ Value("a") \in DOMAIN space =>
                Value("a") \in DOMAIN space' /\ space'[Value("a")] = space[Value("a")]
           /\ Value("a") \in DOMAIN value' =>
                Value("a") \in DOMAIN value /\ value'[Value("a")] = value[Value("a")]
  PROVE  ApertureInv'
<1> PICK new, sp, col : new = value' /\ sp = space' /\ col = Value("a")
  OBVIOUS
<1>1. Contents("a")' = {IF pt \in DOMAIN new[col] /\ new[col][pt] # Garbage
                        THEN new[col][pt].of ELSE Garbage : pt \in Box(sp[col].size)}
  BY DEF Contents, Value
<1>2. new[col] = value[col] /\ sp[col] = space[col] => Contents("a")' = Contents("a")
  BY <1>1 DEF Contents
<1>3. ApertureInv' <=> ("ATerm" \in DOMAIN shown =>
                         /\ col \in DOMAIN sp /\ Done("Cfs", "a")'
                         /\ col \in DOMAIN new => shown["ATerm"] = Contents("a")')
  BY DEF ApertureInv, Exists, Value
<1>4. ASSUME "ATerm" \in DOMAIN shown
      PROVE  /\ col \in DOMAIN sp /\ Done("Cfs", "a")'
             /\ col \in DOMAIN new => shown["ATerm"] = Contents("a")'
  <2>1. /\ col \in DOMAIN space /\ Done("Cfs", "a")
        /\ col \in DOMAIN value => shown["ATerm"] = Contents("a")
    BY <1>4 DEF ApertureInv, Exists
  <2>2. Program[next] # Step("Create", "a")
    <3>1. ~(next <= 24)
      BY <2>1, ApertureMade DEF Done
    <3>2. next \in Nat \ {0}
      BY DEF Standing, IInv
    <3>3. next \in 1 .. 38 /\ 15 \in 1 .. 38 /\ next # 15
      BY <3>1, <3>2, ProgramLong
    <3>4. Program[next] # Program[15]
      BY <3>3, PlacesAre
    <3> QED BY <3>4, ApertureSteps
  <2> QED BY <1>2, <2>1, <2>2
<1> QED BY <1>3, <1>4

\* A step of the driver keeps it.
LEMMA DriverKeepsAperture ==
  ASSUME InputsServe, Standing, ApertureInv, CreateTable \/ InitZernike \/ LaunchTask
  PROVE  ApertureInv'
<1>1. /\ next <= Len(Program) /\ input' = input /\ shown' = shown /\ next' = next + 1
      /\ IInv /\ InOrder /\ \A t \in ToSet(tasks) : Outstanding(t)
  BY DEF CreateTable, InitZernike, LaunchTask, Standing
<1> PICK col : col = Value("a")
  OBVIOUS
<1>2. ASSUME NEW values, Launch(values),
             \A table \in Made : Current = Step("Create", table) => values = IndexValues(table)
      PROVE  Done("Cfs", "a") => Done("Cfs", "a")'
  <2> PICK k : k = 24
    OBVIOUS
  <2>1. k \in 1 .. 38 /\ Program[k] = Step("Cfs", "a")
    BY ApertureSteps
  <2>2. /\ k # next => (Done("Cfs", "a")' <=> Done("Cfs", "a"))
        /\ k = next => ~Done("Cfs", "a")
    BY <1>1, <1>2, <2>1, LaunchDones
  <2> QED BY <2>2
<1>3. CASE CreateTable
  <2>1. PICK table, values : table = Current.on /\ values = IndexValues(table)
    OBVIOUS
  <2>2. Launch(values)
    BY <1>3, <2>1 DEF CreateTable
  <2>3. \A other : Current = Step("Create", other) => other = table
    BY <2>1 DEF Step
  <2>4. Done("Cfs", "a") => Done("Cfs", "a")'
    BY <1>2, <2>1, <2>2, <2>3
  <2>5. PICK spaces : spaces = SpacesOf(table, values)
    OBVIOUS
  <2>6. DOMAIN spaces = ColumnsOf(table)
    BY <2>5 DEF SpacesOf
  <2>7. PICK news : news = [c \in DOMAIN spaces |-> <<>>]
    OBVIOUS
  <2>8. space' = Added(space, spaces) /\ value' = Added(value, news) /\ Current.do = "Create"
    BY <1>3, <2>1, <2>5, <2>7 DEF CreateTable
  <2>9. DOMAIN news = ColumnsOf(table)
    BY <2>6, <2>7
  <2>10. Program[next] = Step("Create", table)
    <3>1. next \in Nat \ {0}
      BY <1>1 DEF IInv
    <3>2. next \in 1 .. 38
      BY <1>1, <3>1, ProgramLong
    <3>3. Program[next] \in Steps
      BY <3>2, ProgramLong
    <3> QED BY <2>1, <2>8, <3>3 DEF Steps, Step, Current
  <2>11. Program[next] # Step("Create", "a") => col \notin ColumnsOf(table)
    <3>1. \A c \in ColumnsOf(table) : c[1] = table
      BY DEF ColumnsOf, IndexColumns, Value
    <3>2. Value("a")[1] = "a"
      BY DEF Value
    <3> QED BY <2>10, <3>1, <3>2
  <2>12. Program[next] # Step("Create", "a") =>
           /\ col \in DOMAIN space => col \in DOMAIN space' /\ space'[col] = space[col]
           /\ col \in DOMAIN value' => col \in DOMAIN value /\ value'[col] = value[col]
    BY <2>6, <2>8, <2>9, <2>11 DEF Added
  <2> QED BY <1>1, <2>4, <2>12, StepKeepsAperture
<1>4. CASE InitZernike
  <2>1. /\ space' = space /\ tasks' = tasks /\ DOMAIN value' = DOMAIN value
        /\ \A c \in DOMAIN value : c # <<"zmodel", "ZC">> => value'[c] = value[c]
    BY <1>4 DEF InitZernike
  <2>2. col # <<"zmodel", "ZC">>
    BY DEF Value
  <2>3. Done("Cfs", "a") => Done("Cfs", "a")'
    <3>1. Pending("Cfs", "a")' <=> Pending("Cfs", "a")
      BY <2>1 DEF Pending
    <3>2. next \in Nat \ {0}
      BY <1>1 DEF IInv
    <3>3. Issued(Step("Cfs", "a")) => Issued(Step("Cfs", "a"))'
      BY <1>1, <3>2 DEF Issued
    <3> QED BY <3>1, <3>3 DEF Done
  <2> QED BY <1>1, <2>1, <2>2, <2>3, StepKeepsAperture
<1>5. CASE LaunchTask
  <2>1. space' = space /\ value' = value /\ Current.do # "Create"
    BY <1>5 DEF LaunchTask
  <2>2. PICK values : values = <<>>
    OBVIOUS
  <2>3. Launch(values)
    BY <1>5, <2>2 DEF LaunchTask
  <2>4. \A table \in Made : Current = Step("Create", table) => values = IndexValues(table)
    BY <2>1 DEF Step
  <2>5. Done("Cfs", "a") => Done("Cfs", "a")'
    BY <1>2, <2>3, <2>4
  <2> QED BY <1>1, <2>1, <2>5, StepKeepsAperture
<1> QED BY <1>3, <1>4, <1>5

\* A piece of a launch keeps what holds of the launches and of the columns.
LEMMA TaskKeepsStanding ==
  ASSUME InputsServe, Standing, NEW i \in DOMAIN tasks, NEW color \in tasks[i].left,
         TaskRuns(i, color)
  PROVE  Standing'
<1>1. /\ UNCHANGED <<input, next, space>>
      /\ tasks' = IF tasks[i].left = {color} THEN RemoveAt(tasks, i)
                  ELSE [tasks EXCEPT ![i].left = @ \ {color}]
  BY PieceOf
<1>2. IInv /\ InOrder /\ SpacesGiven /\ \A t \in ToSet(tasks) : Outstanding(t)
  BY DEF Standing
<1>3. InOrder' /\ \A t \in ToSet(tasks') : Outstanding(t)'
  BY <1>1, <1>2, PieceRuns
<1>4. IInv'
  BY <1>1, <1>2, PieceDone
<1>5. SpacesGiven'
  BY <1>1, <1>2, SpacesGivenStay
<1> QED BY <1>3, <1>4, <1>5 DEF Standing

-----------------------------------------------------------------------------
(***************************************************************************)
(* The invariant of the prints.                                            *)
(***************************************************************************)

\* At the start nothing was done.
LEMMA DInvInit ==
  ASSUME Init
  PROVE  Standing /\ (\A T \in Followed : TermInv(T)) /\ ApertureInv
<1>1. next = 1 /\ space = <<>> /\ value = <<>> /\ tasks = <<>> /\ shown = <<>>
  BY DEF Init
<1>2. /\ DOMAIN space = {} /\ DOMAIN value = {} /\ DOMAIN tasks = {} /\ DOMAIN shown = {}
      /\ ToSet(tasks) = {}
  BY <1>1 DEF ToSet
<1>3. \A s : ~Issued(s)
  BY <1>1 DEF Issued
<1>4. IInv
  BY InitInv
<1>5. InOrder
  BY <1>1, <1>2 DEF InOrder
<1>6. SpacesGiven
  BY <1>2 DEF SpacesGiven
<1>7. Standing
  BY <1>2, <1>4, <1>5, <1>6 DEF Standing
<1>8. ASSUME NEW T \in Followed PROVE TermInv(T)
  <2>1. StepsFollow(T) /\ ColumnsStand(T)
    BY <1>3 DEF StepsFollow, ColumnsStand, Done
  <2>2. AnglesRead(T) /\ GridMade(T) /\ IndexMade(T) /\ TermMade(T) /\ TermShown(T)
    BY <1>2 DEF AnglesRead, GridMade, IndexMade, TermMade, TermShown
  <2> QED BY <2>1, <2>2 DEF TermInv
<1>9. ApertureInv
  BY <1>2 DEF ApertureInv
<1> QED BY <1>7, <1>8, <1>9

\* Where nothing changes, it holds on.
LEMMA DInvStutters ==
  ASSUME DInv, UNCHANGED vars
  PROVE  DInv'
<1>1. input' = input /\ next' = next /\ space' = space /\ value' = value /\ tasks' = tasks /\ shown' = shown
  BY DEF vars
<1>2. /\ IInv /\ InOrder /\ SpacesGiven /\ (\A t \in ToSet(tasks) : Outstanding(t))
      /\ (\A T \in Followed : TermInv(T)) /\ ApertureInv
  BY DEF DInv, Standing
<1>3. IInv'
  BY <1>1, <1>2, NothingLaunched
<1>4. InOrder'
  BY <1>1, <1>2 DEF InOrder, Issued
<1>5. SpacesGiven' /\ \A t \in ToSet(tasks') : Outstanding(t)'
  BY <1>1, <1>2, SpacesGivenStay, OutstandingStays
<1>6. Standing'
  BY <1>3, <1>4, <1>5 DEF Standing
<1>7. \A do, on : Done(do, on)' <=> Done(do, on)
  BY <1>1 DEF Done, Issued, Pending
<1>8. \A s : Issued(s)' <=> Issued(s)
  BY <1>1 DEF Issued
<1>9. ASSUME NEW T \in Followed PROVE TermInv(T)'
  <2>1. /\ StepsFollow(T) /\ ColumnsStand(T) /\ AnglesRead(T) /\ GridMade(T) /\ IndexMade(T)
        /\ TermMade(T) /\ TermShown(T)
    BY <1>2 DEF TermInv
  <2>2. StepsFollow(T)'
    BY <1>7, <2>1 DEF StepsFollow
  <2>3. ColumnsStand(T)'
    BY <1>1, <1>7, <1>8, <2>1 DEF ColumnsStand, GridOf, AngleOf, IndexOf, Value
  <2>4. AnglesRead(T)'
    BY <1>1, <2>1 DEF AnglesRead, AngleOf
  <2>5. Given(T)' = Given(T) /\ GridSize(T)' = GridSize(T) /\ Points(T)' = Points(T)
    BY <1>1 DEF Given, GridSize, Points
  <2>6. GridMade(T)'
    BY <1>1, <1>7, <2>1, <2>5 DEF GridMade, GridOf
  <2>7. IndexMade(T)'
    BY <1>1, <1>7, <2>1, <2>5 DEF IndexMade, IndexOf
  <2>8. TermMade(T)'
    <3>1. ASSUME NEW p, Ahead(T, p) \/ Right(T, p) PROVE Ahead(T, p)' \/ Right(T, p)'
      <4>1. ASSUME Right(T, p) PROVE Right(T, p)'
        BY <1>1, <2>5, <4>1 DEF Right, Value
      <4>2. ASSUME Ahead(T, p) PROVE Ahead(T, p)'
        BY <1>1, <4>2 DEF Ahead, Value, Region
      <4> QED BY <3>1, <4>1, <4>2
    <3>2. Value(T)' = Value(T)
      BY DEF Value
    <3> QED BY <1>1, <1>8, <2>1, <2>5, <3>1, <3>2 DEF TermMade
  <2>9. TermShown(T)'
    BY <1>1, <2>1, <2>5 DEF TermShown
  <2> QED BY <2>2, <2>3, <2>4, <2>6, <2>7, <2>8, <2>9 DEF TermInv
<1>10. ApertureInv'
  <2>1. Contents("a")' = Contents("a")
    BY <1>1 DEF Contents, Value
  <2> QED BY <1>1, <1>2, <1>7, <2>1 DEF ApertureInv, Exists, Value
<1> QED BY <1>6, <1>9, <1>10 DEF DInv

\* Every step keeps it.
LEMMA DInvNext ==
  ASSUME InputsServe
  PROVE  DInv /\ [Next]_vars => DInv'
<1> SUFFICES ASSUME DInv, [Next]_vars PROVE DInv'
  OBVIOUS
<1>1. Standing /\ (\A T \in Followed : TermInv(T)) /\ ApertureInv
  BY DEF DInv
<1>2. ASSUME CreateTable \/ InitZernike \/ LaunchTask PROVE DInv'
  <2>1. Standing' /\ \A T \in Followed : TermInv(T) => LaunchStep(T)
    BY <1>1, <1>2, CreateStep, ZernikeStep, LaunchTaskStep
  <2>2. \A T \in Followed : TermInv(T)'
    BY <1>1, <2>1, LaunchKeepsTerm
  <2>3. ApertureInv'
    BY <1>1, <1>2, DriverKeepsAperture
  <2> QED BY <2>1, <2>2, <2>3 DEF DInv
<1>3. ASSUME NEW i \in DOMAIN tasks, NEW color \in tasks[i].left, TaskRuns(i, color)
      PROVE  DInv'
  <2>1. Standing'
    BY <1>1, <1>3, TaskKeepsStanding
  <2>2. \A T \in Followed : TermInv(T)'
    BY <1>1, <1>3, TaskKeepsTerm
  <2>3. ApertureInv'
    BY <1>1, <1>3, TaskKeepsAperture
  <2> QED BY <2>1, <2>2, <2>3 DEF DInv
<1>4. ASSUME Ended \/ UNCHANGED vars PROVE DInv'
  BY <1>4, DInvStutters DEF Ended
<1> QED BY <1>2, <1>3, <1>4 DEF Next, TaskRuns

\* The prints are right where it holds.
LEMMA PrintsRight ==
  ASSUME DInv
  PROVE  TermsShown
<1>1. TermShown("ps") /\ TermShown("w") /\ ApertureInv
  BY DEF DInv, TermInv, Followed
<1> QED BY <1>1 DEF TermShown, TitleOf, Given, ApertureInv, TermsShown

\* TermsShown of cfcompute_task for every list of index values, every size of
\* the grids, cuts, block sizes and window, and every order in which the pieces
\* of the launches run: a print of the PS or W term has every value that was given
\* and no other, and that of the A term is what the term holds until its table is
\* destroyed.
THEOREM TermsHold ==
  ASSUME InputsServe
  PROVE  Spec => []TermsShown
<1>1. Init => DInv
  BY DInvInit DEF DInv
<1>2. DInv /\ [Next]_vars => DInv'
  BY DInvNext
<1>3. DInv => TermsShown
  BY PrintsRight
<1> QED BY <1>1, <1>2, <1>3, PTL DEF Spec
=============================================================================

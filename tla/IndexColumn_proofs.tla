------------------------- MODULE IndexColumn_proofs -------------------------
(***************************************************************************)
(* The index of a column is right for columns of any length, any number of *)
(* blocks, any values, and whatever order the blocks are folded in, unless *)
(* the iterator of combine leaves its vector.                              *)
(*                                                                         *)
(* That no row gets lost or is listed twice needs that blocks are apart,   *)
(* and that the lists stay in order (Sorted).  That needs to know what the *)
(* iterator has left behind it: rows before the next one to insert         *)
(* (Placed), although an insertion may set it back.                        *)
(***************************************************************************)
EXTENDS IndexColumn, Lemmas

Sorted == ~wild => \A v \in Value : Ascending(lhs[v]) /\ Ascending(rhs[v])

\* v is the value that combine is at.
At(v) == rhs[v] # <<>> /\ \A w \in Value : rhs[w] # <<>> => v <= w

Placed ==
  ~wild => \A v \in Value : At(v) =>
    l <= Len(lhs[v]) /\ \A i \in 1 .. l : lhs[v][i] < Head(rhs[v])

\* The rows of the blocks that were folded, or are being folded.
Taken(v) == {r \in UNION {RowsOf(b) : b \in Block \ pending} : column[r] = v}

Conserved ==
  ~wild => \A v \in Value :
    /\ ToSet(lhs[v]) \cap ToSet(rhs[v]) = {}
    /\ ToSet(lhs[v]) \cup ToSet(rhs[v]) = Taken(v)

IInv == TypeOK /\ Sorted /\ Placed /\ Conserved

-----------------------------------------------------------------------------
(***************************************************************************)
(* The blocks cut the rows.                                                *)
(***************************************************************************)

\* No row is in two blocks: the next one begins after the end of a block.
LEMMA BlocksApart ==
  ASSUME NEW b \in Block, NEW c \in Block, b # c
  PROVE  RowsOf(b) \cap RowsOf(c) = {}
<1>1. \A x, y \in Block : x < y => x * NumRows <= (y - 1) * NumRows
  <2> SUFFICES ASSUME NEW x \in Block, NEW y \in Block, x < y
               PROVE  x * NumRows <= (y - 1) * NumRows
    OBVIOUS
  <2>1. PICK d \in Nat : y - 1 = x + d
    <3>1. y - 1 - x \in Nat /\ y - 1 = x + (y - 1 - x)
      BY IndexAssumption DEF Block
    <3> QED BY <3>1
  <2>2. x \in Nat /\ NumRows \in Nat /\ d * NumRows \in Nat
    BY IndexAssumption DEF Block
  <2>3. (x + d) * NumRows = x * NumRows + d * NumRows
    BY <2>2
  <2> QED BY <2>1, <2>2, <2>3
<1>2. b * NumRows \in Int /\ c * NumRows \in Int
      /\ (b - 1) * NumRows \in Int /\ (c - 1) * NumRows \in Int
  BY IndexAssumption DEF Block
<1>3. \A r \in Row : r * NumBlocks \in Int
  BY IndexAssumption DEF Row
<1>4. b \in Int /\ c \in Int
  BY IndexAssumption DEF Block
<1> QED BY <1>1, <1>2, <1>3, <1>4 DEF RowsOf

\* Every row is in a block: the first one that reaches it.
LEMMA BlocksCover ==
  ASSUME NEW r \in Row
  PROVE  \E b \in Block : r \in RowsOf(b)
<1>1. r \in Nat /\ r >= 1 /\ r <= NumRows /\ NumRows \in Nat /\ NumBlocks \in Nat /\ NumBlocks >= 1
  BY IndexAssumption DEF Row
<1> DEFINE Reaching == {b \in Nat : r * NumBlocks <= b * NumRows}
<1>2. NumBlocks \in Reaching
  <2>1. PICK d \in Nat : NumRows = r + d
    <3>1. NumRows - r \in Nat /\ NumRows = r + (NumRows - r)
      BY <1>1
    <3> QED BY <3>1
  <2>2. NumBlocks * NumRows = r * NumBlocks + d * NumBlocks
    BY <1>1, <2>1
  <2>3. d * NumBlocks \in Nat /\ r * NumBlocks \in Nat
    BY <1>1
  <2> QED BY <1>1, <2>2, <2>3
<1>3. PICK b \in Reaching : \A c \in Reaching : b <= c
  <2> Reaching \in SUBSET Nat
    OBVIOUS
  <2> HIDE DEF Reaching
  <2> QED BY <1>2, Least
<1>4. b # 0
  <2>1. r * NumBlocks >= 1
    BY <1>1
  <2>2. 0 * NumRows = 0 /\ r * NumBlocks \in Nat
    BY <1>1
  <2>3. 0 \notin Reaching
    BY <2>1, <2>2
  <2> QED BY <1>3, <2>3
<1>5. b \in Block
  BY <1>1, <1>2, <1>3, <1>4 DEF Block
<1>6. (b - 1) * NumRows < r * NumBlocks
  <2>1. b - 1 \in Nat /\ b - 1 \notin Reaching
    BY <1>3, <1>4
  <2>2. (b - 1) * NumRows \in Int /\ r * NumBlocks \in Int
    BY <1>1, <2>1
  <2> QED BY <2>1, <2>2
<1> QED BY <1>3, <1>5, <1>6 DEF RowsOf

\* The list of a block and a value.
LEMMA BlockListed ==
  ASSUME NEW b \in Block, NEW v
  PROVE  /\ RowsWith(b, v) \in Seq(Row)
         /\ ToSet(RowsWith(b, v)) = {r \in RowsOf(b) : column[r] = v}
         /\ Ascending(RowsWith(b, v))
<1> DEFINE S == {r \in RowsOf(b) : column[r] = v}
<1>1. S \in SUBSET Row /\ Row \in SUBSET Nat /\ IsFiniteSet(Row)
  BY FS_Interval, IndexAssumption DEF RowsOf, Row
<1>2. S \in SUBSET Nat /\ IsFiniteSet(S)
  <2> HIDE DEF S
  <2> QED BY <1>1, FS_Subset
<1>3. RowsWith(b, v) = ListOf(S)
  BY DEF RowsWith
<1> HIDE DEF S
<1>4. ListOf(S) \in Seq(S) /\ ToSet(ListOf(S)) = S /\ Ascending(ListOf(S))
  BY <1>2, ListsInOrder
<1>5. ListOf(S) \in Seq(Row)
  BY <1>1, <1>4, SeqMonotonic
<1> QED BY <1>3, <1>4, <1>5 DEF S

-----------------------------------------------------------------------------
(***************************************************************************)
(* Folding a block: the first one is taken, or its lists are to be merged. *)
(***************************************************************************)

\* Lists of rows are lists of numbers, and there is no row in an empty one.
LEMMA ListFacts ==
  ASSUME TypeOK, NEW v \in Value
  PROVE  /\ lhs[v] \in Seq(Row) /\ rhs[v] \in Seq(Row)
         /\ DOMAIN lhs[v] = 1 .. Len(lhs[v]) /\ Len(lhs[v]) \in Nat
         /\ DOMAIN rhs[v] = 1 .. Len(rhs[v]) /\ Len(rhs[v]) \in Nat
         /\ \A i \in 1 .. Len(lhs[v]) : lhs[v][i] \in Nat
         /\ \A i \in 1 .. Len(rhs[v]) : rhs[v][i] \in Nat
         /\ l \in Int
<1>1. lhs[v] \in Seq(Row) /\ rhs[v] \in Seq(Row) /\ Row \subseteq Nat
  BY DEF TypeOK, Lists, Row
<1> QED BY <1>1 DEF TypeOK

\* There is nothing in the lists of a fold that has not begun.
LEMMA EmptyLists ==
  ASSUME NEW v \in Value
  PROVE  Nothing[v] = <<>> /\ ToSet(Nothing[v]) = {} /\ Ascending(Nothing[v])
<1>1. Nothing[v] = <<>> /\ DOMAIN Nothing[v] = {}
  BY DEF Nothing
<1> QED BY <1>1 DEF ToSet, Ascending

\* Nothing is listed before the first fold.
LEMMA InitEstablishes ==
  ASSUME Init
  PROVE  IInv
<1>1. Nothing \in Lists
  BY DEF Nothing, Lists
<1>2. TypeOK
  <2>1. /\ column \in [Row -> Value] /\ pending = Block /\ l = 0 /\ wild = FALSE
        /\ lhs = Nothing /\ rhs = Nothing
    BY DEF Init
  <2>2. l \in Int
    BY <2>1
  <2> QED BY <1>1, <2>1, <2>2, Zenon DEF TypeOK
<1>3. Sorted /\ Placed
  BY EmptyLists DEF Init, Sorted, Placed, At
<1>4. Conserved
  BY EmptyLists DEF Init, Conserved, Taken
<1> QED BY <1>2, <1>3, <1>4 DEF IInv

\* The lists of a block that is taken hold rows that no list has had.
LEMMA FoldKeeps ==
  ASSUME IInv, NEW b \in Block, Fold(b)
  PROVE  IInv'
<1>1. /\ rhs = Nothing /\ b \in pending /\ pending' = pending \ {b}
      /\ l' = 0 /\ UNCHANGED <<column, wild>>
      /\ \/ lhs = Nothing /\ lhs' = ListsOf(b) /\ rhs' = rhs
         \/ lhs' = lhs /\ rhs' = ListsOf(b)
  BY DEF Fold, Folding
<1>2. ListsOf(b) \in Lists
  BY BlockListed DEF ListsOf, Lists
<1>3. TypeOK'
  BY <1>1, <1>2 DEF IInv, TypeOK
<1>4. \A v \in Value : /\ ToSet(ListsOf(b)[v]) = {r \in RowsOf(b) : column[r] = v}
                       /\ Ascending(ListsOf(b)[v])
  BY BlockListed DEF ListsOf
<1>5. Sorted'
  BY <1>1, <1>4, EmptyLists DEF IInv, Sorted
<1>6. Placed'
  <2>1. \A v \in Value : Len(lhs'[v]) \in Nat
    BY <1>3 DEF TypeOK, Lists
  <2> QED BY <1>1, <2>1 DEF Placed
<1>7. Conserved'
  <2> SUFFICES ASSUME ~wild, NEW v \in Value
               PROVE  /\ ToSet(lhs'[v]) \cap ToSet(rhs'[v]) = {}
                      /\ ToSet(lhs'[v]) \cup ToSet(rhs'[v]) = Taken(v)'
    BY <1>1 DEF Conserved
  <2> DEFINE New == {r \in RowsOf(b) : column[r] = v}
  <2>1. Taken(v)' = Taken(v) \cup New
    <3>1. \A c : RowsOf(c)' = RowsOf(c)
      BY DEF RowsOf
    <3>2. Block \ pending' = (Block \ pending) \cup {b}
      BY <1>1
    <3> QED BY <1>1, <3>1, <3>2 DEF Taken
  <2>2. Taken(v) \cap New = {}
    BY <1>1, BlocksApart DEF Taken
  <2>3. ToSet(lhs[v]) = Taken(v)
    BY <1>1, EmptyLists DEF IInv, Conserved
  <2>4. \/ lhs'[v] = ListsOf(b)[v] /\ ToSet(rhs'[v]) = {} /\ ToSet(lhs[v]) = {}
        \/ lhs'[v] = lhs[v] /\ rhs'[v] = ListsOf(b)[v]
    BY <1>1, EmptyLists
  <2>5. ToSet(ListsOf(b)[v]) = New
    BY <1>4
  <2> HIDE DEF New
  <2> QED BY <2>1, <2>2, <2>3, <2>4, <2>5
<1> QED BY <1>3, <1>5, <1>6, <1>7 DEF IInv

-----------------------------------------------------------------------------
(***************************************************************************)
(* Merging the lists of a value.                                           *)
(***************************************************************************)

\* There is a least value that is left to fold, and combine is at it.
LEMMA CurrentIsAt ==
  ASSUME TypeOK, Folding
  PROVE  Current \in Value /\ At(Current)
<1> DEFINE Left == {v \in Value : rhs[v] # <<>>}
<1>1. Left # {}
  BY DEF TypeOK, Lists, Folding, Nothing
<1>2. Left \in SUBSET Nat
  BY IndexAssumption
<1>3. \E v \in Left : \A w \in Left : v <= w
  <2> HIDE DEF Left
  <2> QED BY <1>1, <1>2, Least
<1>4. \E v \in Value : rhs[v] # <<>> /\ \A w \in Value : rhs[w] # <<>> => v <= w
  BY <1>3
<1> QED BY <1>4 DEF Current, At

\* What a step must do to the lists of its value; the others do not change.
LEMMA StepKeeps ==
  ASSUME IInv, NEW v \in Value, At(v), TypeOK',
         UNCHANGED <<column, pending>>, wild => wild',
         \A w \in Value : w # v => lhs'[w] = lhs[w] /\ rhs'[w] = rhs[w],
         ~wild' =>
           /\ Ascending(lhs'[v]) /\ Ascending(rhs'[v])
           /\ ToSet(lhs'[v]) \cap ToSet(rhs'[v]) = {}
           /\ ToSet(lhs'[v]) \cup ToSet(rhs'[v]) = ToSet(lhs[v]) \cup ToSet(rhs[v])
           /\ IF rhs'[v] = <<>> THEN l' = 0
              ELSE l' <= Len(lhs'[v]) /\ \A i \in 1 .. l' : lhs'[v][i] < Head(rhs'[v])
  PROVE  IInv'
<1>1. Sorted'
  BY DEF IInv, Sorted
<1>2. Placed'
  <2> SUFFICES ASSUME ~wild', NEW w \in Value, At(w)'
               PROVE  l' <= Len(lhs'[w]) /\ \A i \in 1 .. l' : lhs'[w][i] < Head(rhs'[w])
    BY DEF Placed
  <2>1. CASE rhs'[v] = <<>>
    <3>1. Len(lhs'[w]) \in Nat
      BY DEF TypeOK, Lists
    <3> QED BY <2>1, <3>1
  <2>2. CASE rhs'[v] # <<>>
    <3>1. w <= v
      BY <2>2 DEF At
    <3>2. rhs[w] # <<>>
      BY <2>2 DEF At
    <3>3. v <= w
      BY <3>2 DEF At
    <3>4. w = v
      BY <3>1, <3>3, IndexAssumption
    <3> QED BY <2>2, <3>4
  <2> QED BY <2>1, <2>2
<1>3. Conserved'
  <2>1. \A w \in Value : Taken(w)' = Taken(w)
    BY DEF Taken, RowsOf
  <2> QED BY <2>1 DEF IInv, Conserved
<1> QED BY <1>1, <1>2, <1>3 DEF IInv

\* The rows of a new value change lists all at once.
LEMMA InsertValueKeeps ==
  ASSUME IInv, NEW v \in Value, At(v), UNCHANGED <<column, pending>>, InsertValue(v)
  PROVE  IInv'
<1>1. lhs \in [Value -> Seq(Row)] /\ rhs \in [Value -> Seq(Row)] /\ TypeOK
  BY DEF IInv, TypeOK, Lists
<1>2. /\ lhs[v] = <<>> /\ lhs'[v] = rhs[v] /\ rhs'[v] = <<>> /\ l' = 0 /\ wild' = wild
      /\ \A w \in Value : w # v => lhs'[w] = lhs[w] /\ rhs'[w] = rhs[w]
      /\ lhs' \in Lists /\ rhs' \in Lists
  BY <1>1 DEF InsertValue, Lists
<1>3. TypeOK'
  BY <1>1, <1>2 DEF TypeOK
<1>4. ToSet(<<>>) = {} /\ Ascending(<<>>)
  <2>1. DOMAIN <<>> = {}
    OBVIOUS
  <2> QED BY <2>1 DEF ToSet, Ascending
<1>5. ~wild => Ascending(rhs[v])
  BY DEF IInv, Sorted
<1> QED BY <1>2, <1>3, <1>4, <1>5, StepKeeps

\* The row that the iterator passes is less than the next one to insert.
LEMMA AdvanceKeeps ==
  ASSUME IInv, NEW v \in Value, At(v), UNCHANGED <<column, pending>>, Advance(v)
  PROVE  IInv'
<1>1. TypeOK /\ rhs[v] # <<>>
  BY DEF IInv, At
<1>2. /\ l \in 0 .. Len(lhs[v]) - 1 /\ lhs[v][l + 1] < Head(rhs[v])
      /\ l' = l + 1 /\ lhs' = lhs /\ rhs' = rhs /\ wild' = wild
  <2>1. Head(rhs[v]) \in Nat /\ \A i \in 1 .. Len(lhs[v]) : lhs[v][i] \in Nat
    BY <1>1, ListFacts, HeadAndTail
  <2> QED BY <1>1, <2>1, ListFacts DEF Advance, InVector
<1>3. TypeOK'
  BY <1>1, <1>2 DEF TypeOK
<1>4. ~wild => \A i \in 1 .. l + 1 : lhs[v][i] < Head(rhs[v])
  BY <1>1, <1>2 DEF IInv, Placed
<1>5. ~wild => /\ Ascending(lhs[v]) /\ Ascending(rhs[v])
               /\ ToSet(lhs[v]) \cap ToSet(rhs[v]) = {}
  BY DEF IInv, Sorted, Conserved
<1>6. l + 1 <= Len(lhs[v])
  BY <1>1, <1>2, ListFacts
<1> QED BY <1>1, <1>2, <1>3, <1>4, <1>5, <1>6, StepKeeps

\* The head of a list in order comes before the rest of it.
LEMMA HeadFirst ==
  ASSUME NEW s \in Seq(Row), s # <<>>, Ascending(s)
  PROVE  /\ Head(s) \in Nat
         /\ \A i \in 1 .. Len(s) : Head(s) <= s[i]
         /\ Ascending(Tail(s)) /\ Head(s) \notin ToSet(Tail(s))
         /\ Tail(s) = <<>> <=> Len(s) = 1
         /\ Tail(s) # <<>> => Head(s) < Head(Tail(s))
<1> Row \subseteq Nat
  BY DEF Row
<1> DEFINE n == Len(s)
           t == Tail(s)
<1>1. Head(s) = s[1] /\ n \in Nat \ {0}
  BY HeadAndTail
<1>2. /\ t \in Seq(Row) /\ Len(t) = n - 1
      /\ \A i \in 1 .. n - 1 : t[i] = s[i + 1]
  BY HeadAndTail
<1>3. DOMAIN s = 1 .. n /\ \A i \in 1 .. n : s[i] \in Nat
  <2>1. DOMAIN s = 1 .. n /\ \A i \in 1 .. n : s[i] \in Row
    OBVIOUS
  <2> QED BY <2>1
<1> HIDE DEF t
<1>4. DOMAIN t = 1 .. n - 1
  BY <1>2
<1> HIDE DEF n
<1>5. \A i, j \in 1 .. n : i < j => s[i] < s[j]
  BY <1>3 DEF Ascending
<1>6. 1 \in 1 .. n /\ \A i \in 1 .. n : i # 1 => 1 < i
  BY <1>1
<1>7. \A i \in 1 .. n : i # 1 => s[1] < s[i]
  BY <1>5, <1>6
<1>8. \A i \in 1 .. n - 1 : i + 1 \in 1 .. n /\ i + 1 # 1
  BY <1>1
<1>9. Ascending(t)
  <2> SUFFICES ASSUME NEW i \in 1 .. n - 1, NEW j \in 1 .. n - 1, i < j
               PROVE  t[i] < t[j]
    BY <1>4 DEF Ascending
  <2>1. t[i] = s[i + 1] /\ t[j] = s[j + 1] /\ i + 1 < j + 1
    BY <1>1, <1>2
  <2>2. i + 1 \in 1 .. n /\ j + 1 \in 1 .. n
    BY <1>8
  <2> QED BY <1>5, <2>1, <2>2
<1>10. \A i \in 1 .. n - 1 : s[1] < t[i]
  BY <1>2, <1>7, <1>8
<1>11. Head(s) \notin ToSet(t)
  <2>1. \A i \in 1 .. n - 1 : s[1] # t[i]
    <3> SUFFICES ASSUME NEW i \in 1 .. n - 1, s[1] = t[i] PROVE FALSE
      OBVIOUS
    <3>1. s[1] < s[1] /\ s[1] \in Nat
      BY <1>3, <1>6, <1>10
    <3> QED BY <3>1
  <2> QED BY <1>1, <1>4, <2>1 DEF ToSet
<1>12. t = <<>> <=> n = 1
  BY <1>1, <1>2, EmptySeq
<1>13. t # <<>> => Head(s) < Head(t)
  <2> SUFFICES ASSUME t # <<>> PROVE Head(s) < Head(t)
    OBVIOUS
  <2>1. Head(t) = t[1]
    BY <1>2, HeadAndTail
  <2>2. 1 \in 1 .. n - 1
    BY <1>1, <1>12
  <2> QED BY <1>1, <1>10, <2>1, <2>2
<1>14. \A i \in 1 .. n : Head(s) <= s[i]
  <2> SUFFICES ASSUME NEW i \in 1 .. n PROVE s[1] <= s[i]
    BY <1>1
  <2>1. s[1] \in Nat /\ s[i] \in Nat /\ (i # 1 => s[1] < s[i])
    BY <1>3, <1>6, <1>7
  <2> QED BY <2>1
<1>15. Head(s) \in Nat
  BY <1>1, <1>3, <1>6
<1> QED BY <1>9, <1>11, <1>12, <1>13, <1>14, <1>15 DEF t, n

\* A list stays in order when a row is put between smaller and greater ones.
LEMMA InsertedInOrder ==
  ASSUME NEW s \in Seq(Row), Ascending(s), NEW k \in 1 .. Len(s), NEW h \in Row,
         \A i \in 1 .. k - 1 : s[i] < h, h < s[k]
  PROVE  Ascending(InsertAt(s, k, h))
<1> DEFINE n == Len(s)
           t == InsertAt(s, k, h)
<1>1. /\ t \in Seq(Row) /\ Len(t) = n + 1
      /\ \A j \in 1 .. n + 1 :
           t[j] = IF j < k THEN s[j] ELSE IF j = k THEN h ELSE s[j - 1]
  BY Inserted
<1>2. n \in Nat /\ DOMAIN s = 1 .. n
  OBVIOUS
<1>3. h \in Nat /\ \A i \in 1 .. n : s[i] \in Nat
  <2>1. Row \subseteq Nat
    BY DEF Row
  <2>2. \A i \in 1 .. n : s[i] \in Row
    OBVIOUS
  <2> QED BY <2>1, <2>2
<1> HIDE DEF t
<1>4. DOMAIN t = 1 .. n + 1
  BY <1>1
<1> HIDE DEF n
<1>5. k \in 1 .. n
  BY DEF n
<1>6. \A i, j \in 1 .. n : i < j => s[i] < s[j]
  BY <1>2 DEF Ascending
<1>7. \A i \in 1 .. n : k <= i => h < s[i]
  <2> SUFFICES ASSUME NEW i \in 1 .. n, k < i PROVE h < s[i]
    BY <1>2, <1>5
  <2>1. h < s[k] /\ s[k] < s[i] /\ s[k] \in Nat /\ s[i] \in Nat
    BY <1>3, <1>5, <1>6
  <2> QED BY <1>3, <2>1
<1> SUFFICES ASSUME NEW i \in 1 .. n + 1, NEW j \in 1 .. n + 1, i < j
             PROVE  t[i] < t[j]
  BY <1>4 DEF Ascending, t
<1>8. CASE j < k
  <2>1. t[i] = s[i] /\ t[j] = s[j] /\ i \in 1 .. n /\ j \in 1 .. n
    BY <1>1, <1>2, <1>5, <1>8
  <2> QED BY <1>6, <2>1
<1>9. CASE j = k
  <2>1. t[i] = s[i] /\ t[j] = h /\ i \in 1 .. k - 1
    BY <1>1, <1>2, <1>5, <1>9
  <2> QED BY <2>1
<1>10. CASE k < j
  <2>1. t[j] = s[j - 1] /\ j - 1 \in 1 .. n /\ k <= j - 1
    BY <1>1, <1>2, <1>5, <1>10
  <2>2. CASE i < k
    <3>1. t[i] = s[i] /\ i \in 1 .. n /\ i < j - 1
      BY <1>1, <1>2, <1>5, <2>1, <2>2
    <3> QED BY <1>6, <2>1, <3>1
  <2>3. CASE i = k
    <3>1. t[i] = h
      BY <1>1, <1>2, <1>5, <2>3
    <3> QED BY <1>7, <2>1, <3>1
  <2>4. CASE k < i
    <3>1. t[i] = s[i - 1] /\ i - 1 \in 1 .. n /\ i - 1 < j - 1
      BY <1>1, <1>2, <1>5, <2>4
    <3> QED BY <1>6, <2>1, <3>1
  <2> QED BY <1>5, <2>2, <2>3, <2>4
<1> QED BY <1>5, <1>8, <1>9, <1>10

\* So do two lists of which one ends before the other begins.
LEMMA JoinedInOrder ==
  ASSUME NEW s \in Seq(Row), NEW t \in Seq(Row), t # <<>>, Ascending(s), Ascending(t),
         \A i \in 1 .. Len(s) : s[i] < Head(t)
  PROVE  Ascending(s \o t)
<1> DEFINE m == Len(s)
           n == Len(t)
           u == s \o t
<1>1. m \in Nat /\ n \in Nat /\ DOMAIN s = 1 .. m /\ DOMAIN t = 1 .. n
  OBVIOUS
<1>2. /\ u \in Seq(Row) /\ Len(u) = m + n
      /\ \A j \in 1 .. m + n : u[j] = IF j <= m THEN s[j] ELSE t[j - m]
  BY ConcatProperties
<1>3. /\ \A i \in 1 .. m : s[i] \in Nat
      /\ \A i \in 1 .. n : t[i] \in Nat
  <2>1. Row \subseteq Nat
    BY DEF Row
  <2>2. /\ \A i \in 1 .. m : s[i] \in Row
        /\ \A i \in 1 .. n : t[i] \in Row
    OBVIOUS
  <2> QED BY <2>1, <2>2
<1> HIDE DEF u
<1>4. DOMAIN u = 1 .. m + n
  BY <1>2
<1>5. Head(t) \in Nat /\ \A i \in 1 .. n : Head(t) <= t[i]
  BY HeadFirst
<1>6. \A i \in 1 .. m : s[i] < Head(t)
  OBVIOUS
<1> HIDE DEF m, n
<1>7. \A i, j \in 1 .. m : i < j => s[i] < s[j]
  BY <1>1 DEF Ascending
<1>8. \A i, j \in 1 .. n : i < j => t[i] < t[j]
  BY <1>1 DEF Ascending
<1> SUFFICES ASSUME NEW i \in 1 .. m + n, NEW j \in 1 .. m + n, i < j
             PROVE  u[i] < u[j]
  BY <1>4 DEF Ascending, u
<1>9. CASE j <= m
  <2>1. u[i] = s[i] /\ u[j] = s[j] /\ i \in 1 .. m /\ j \in 1 .. m
    BY <1>1, <1>2, <1>9
  <2> QED BY <1>7, <2>1
<1>10. CASE i <= m /\ m < j
  <2>1. u[i] = s[i] /\ u[j] = t[j - m] /\ i \in 1 .. m /\ j - m \in 1 .. n
    BY <1>1, <1>2, <1>10
  <2>2. s[i] \in Nat /\ t[j - m] \in Nat /\ s[i] < Head(t) /\ Head(t) <= t[j - m]
    BY <1>3, <1>5, <1>6, <2>1
  <2> QED BY <1>5, <2>1, <2>2
<1>11. CASE m < i
  <2>1. /\ u[i] = t[i - m] /\ u[j] = t[j - m]
        /\ i - m \in 1 .. n /\ j - m \in 1 .. n /\ i - m < j - m
    BY <1>1, <1>2, <1>11
  <2> QED BY <1>8, <2>1
<1> QED BY <1>1, <1>9, <1>10, <1>11

\* The row goes between those the iterator has passed and those ahead.
LEMMA InsertRowKeeps ==
  ASSUME IInv, NEW v \in Value, At(v), UNCHANGED <<column, pending>>, InsertRow(v)
  PROVE  IInv'
<1> DEFINE h == Head(rhs[v])
           t == InsertAt(lhs[v], l + 1, h)
           rest == Tail(rhs[v])
<1>1. TypeOK /\ rhs[v] # <<>>
  BY DEF IInv, At
<1>2. /\ l \in 0 .. Len(lhs[v]) - 1 /\ h < lhs[v][l + 1] /\ wild' = wild
      /\ lhs' = [lhs EXCEPT ![v] = t] /\ rhs' = [rhs EXCEPT ![v] = rest]
      /\ l' = IF Len(rhs[v]) = 1 THEN 0 ELSE 1 - l
  BY DEF InsertRow, InVector, NextRow
<1>3. lhs[v] \in Seq(Row) /\ rhs[v] \in Seq(Row) /\ Len(lhs[v]) \in Nat
  BY <1>1, ListFacts
<1>4. l + 1 \in 1 .. Len(lhs[v])
  BY <1>2, <1>3
<1>5. h \in Row /\ rest \in Seq(Row) /\ ToSet(rhs[v]) = {h} \cup ToSet(rest)
  BY <1>1, <1>3, HeadAndTail
<1> HIDE DEF h
<1>6. /\ t \in Seq(Row) /\ Len(t) = Len(lhs[v]) + 1 /\ ToSet(t) = ToSet(lhs[v]) \cup {h}
      /\ \A j \in 1 .. Len(lhs[v]) + 1 :
           t[j] = IF j < l + 1 THEN lhs[v][j] ELSE IF j = l + 1 THEN h ELSE lhs[v][j - 1]
  <2> DEFINE s == lhs[v]
             k == l + 1
  <2>1. s \in Seq(Row) /\ k \in 1 .. Len(s) /\ h \in Row
    BY <1>3, <1>4, <1>5
  <2> HIDE DEF s, k
  <2>2. /\ InsertAt(s, k, h) \in Seq(Row)
        /\ Len(InsertAt(s, k, h)) = Len(s) + 1
        /\ \A j \in 1 .. Len(s) + 1 :
             InsertAt(s, k, h)[j] = IF j < k THEN s[j] ELSE IF j = k THEN h ELSE s[j - 1]
        /\ ToSet(InsertAt(s, k, h)) = ToSet(s) \cup {h}
    BY <2>1, Inserted
  <2> QED BY <2>2 DEF s, k
<1>7. ASSUME ~wild'
      PROVE  /\ Ascending(t) /\ Ascending(rest)
             /\ ToSet(t) \cap ToSet(rest) = {}
             /\ ToSet(t) \cup ToSet(rest) = ToSet(lhs[v]) \cup ToSet(rhs[v])
             /\ IF rest = <<>> THEN l' = 0
                ELSE l' <= Len(t) /\ \A i \in 1 .. l' : t[i] < Head(rest)
  <2>1. /\ Ascending(lhs[v]) /\ Ascending(rhs[v])
        /\ ToSet(lhs[v]) \cap ToSet(rhs[v]) = {}
        /\ \A i \in 1 .. l : lhs[v][i] < h
    BY <1>2, <1>7 DEF IInv, Sorted, Conserved, Placed, h
  <2>2. /\ Ascending(rest) /\ h \notin ToSet(rest)
        /\ rest = <<>> <=> Len(rhs[v]) = 1
        /\ rest # <<>> => h < Head(rest)
    BY <1>1, <1>3, <2>1, HeadFirst DEF h
  <2>3. (l + 1) - 1 = l
    BY <1>2
  <2>4. Ascending(t)
    BY <1>2, <1>3, <1>4, <1>5, <2>1, <2>3, InsertedInOrder
  <2> HIDE DEF t, rest
  <2>5. ToSet(t) \cap ToSet(rest) = {}
    BY <1>5, <1>6, <2>1, <2>2
  <2>6. ToSet(t) \cup ToSet(rest) = ToSet(lhs[v]) \cup ToSet(rhs[v])
    BY <1>5, <1>6
  <2>7. ASSUME rest # <<>>
        PROVE  l' <= Len(t) /\ \A i \in 1 .. l' : t[i] < Head(rest)
    <3>1. l' = 1 - l /\ l \in Nat
      BY <1>2, <1>3, <2>2, <2>7
    <3>2. l' <= Len(t)
      BY <1>3, <1>6, <3>1
    <3>3. ASSUME NEW i \in 1 .. l' PROVE t[i] < Head(rest)
      <4>1. l = 0 /\ i = 1 /\ i \in 1 .. Len(lhs[v]) + 1
        BY <1>3, <3>1
      <4>2. t[i] = h
        BY <1>6, <4>1
      <4> QED BY <2>2, <2>7, <4>2
    <3> QED BY <3>2, <3>3
  <2>8. rest = <<>> => l' = 0
    BY <1>2, <2>2
  <2> QED BY <2>2, <2>4, <2>5, <2>6, <2>7, <2>8
<1> HIDE DEF t, rest
<1>8. /\ lhs'[v] = t /\ rhs'[v] = rest /\ lhs' \in Lists /\ rhs' \in Lists
      /\ \A w \in Value : w # v => lhs'[w] = lhs[w] /\ rhs'[w] = rhs[w]
  BY <1>1, <1>2, <1>5, <1>6 DEF TypeOK, Lists
<1>9. l' \in Int
  BY <1>2
<1>10. TypeOK'
  BY <1>1, <1>2, <1>8, <1>9 DEF TypeOK
<1> QED BY <1>2, <1>7, <1>8, <1>10, StepKeeps

\* What is left is greater than all that is there: the iterator has passed it.
LEMMA AppendRestKeeps ==
  ASSUME IInv, NEW v \in Value, At(v), UNCHANGED <<column, pending>>, AppendRest(v)
  PROVE  IInv'
<1> DEFINE t == lhs[v] \o rhs[v]
<1>1. TypeOK /\ rhs[v] # <<>>
  BY DEF IInv, At
<1>2. /\ l >= Len(lhs[v]) /\ l' = 0 /\ wild' = wild
      /\ lhs' = [lhs EXCEPT ![v] = t] /\ rhs' = [rhs EXCEPT ![v] = <<>>]
  BY DEF AppendRest
<1>3. /\ lhs[v] \in Seq(Row) /\ rhs[v] \in Seq(Row) /\ Len(lhs[v]) \in Nat
      /\ l \in Int
  BY <1>1, ListFacts
<1>4. t \in Seq(Row) /\ ToSet(t) = ToSet(lhs[v]) \cup ToSet(rhs[v])
  BY <1>3, Joined
<1>5. ASSUME ~wild'
      PROVE  Ascending(t)
  <2>1. /\ Ascending(lhs[v]) /\ Ascending(rhs[v])
        /\ l <= Len(lhs[v]) /\ \A i \in 1 .. l : lhs[v][i] < Head(rhs[v])
    BY <1>2, <1>5 DEF IInv, Sorted, Placed
  <2>2. l = Len(lhs[v])
    BY <1>2, <1>3, <2>1
  <2> QED BY <1>1, <1>3, <2>1, <2>2, JoinedInOrder
<1> HIDE DEF t
<1>6. /\ lhs'[v] = t /\ rhs'[v] = <<>> /\ TypeOK'
      /\ \A w \in Value : w # v => lhs'[w] = lhs[w] /\ rhs'[w] = rhs[w]
  BY <1>1, <1>2, <1>4 DEF TypeOK, Lists
<1>7. ToSet(<<>>) = {} /\ Ascending(<<>>)
  <2>1. DOMAIN <<>> = {}
    OBVIOUS
  <2> QED BY <2>1 DEF ToSet, Ascending
<1> QED BY <1>2, <1>4, <1>5, <1>6, <1>7, StepKeeps

\* Whatever is read outside of the vector, the lists remain lists of rows.
LEMMA ReadBeforeBeginKeeps ==
  ASSUME IInv, NEW v \in Value, At(v), UNCHANGED <<column, pending>>, ReadBeforeBegin(v)
  PROVE  IInv'
<1>1. TypeOK /\ rhs[v] # <<>> /\ l \in Int
  BY DEF IInv, At, TypeOK
<1>2. Tail(rhs[v]) \in Seq(Row)
  BY <1>1, ListFacts, HeadAndTail
<1>3. wild' = TRUE /\ lhs' = lhs
  BY DEF ReadBeforeBegin
<1>4. rhs \in Lists /\ [rhs EXCEPT ![v] = Tail(@)] \in Lists
  BY <1>1, <1>2 DEF TypeOK, Lists
<1>5. \A k \in Int : NextRow(v, k) => rhs' \in Lists /\ l' \in Int
  BY <1>4 DEF NextRow
<1>6. l + 1 \in Int /\ 1 - l \in Int
  BY <1>1
<1>7. rhs' \in Lists /\ l' \in Int
  <2>1. CASE l' = l + 1 /\ UNCHANGED rhs
    BY <1>4, <1>6, <2>1
  <2>2. CASE NextRow(v, l)
    BY <1>1, <1>5, <2>2
  <2>3. CASE NextRow(v, 1 - l)
    BY <1>5, <1>6, <2>3
  <2> QED BY <2>1, <2>2, <2>3 DEF ReadBeforeBegin
<1>8. TypeOK'
  BY <1>1, <1>3, <1>7 DEF TypeOK
<1> QED BY <1>3, <1>8 DEF IInv, Sorted, Placed, Conserved

-----------------------------------------------------------------------------
(***************************************************************************)
(* Lists are in order, the iterator is where it can be, and the rows of    *)
(* the blocks that were taken are in the lists, in every state of a fold   *)
(* whose iterator has not left its vector.                                 *)
(***************************************************************************)
THEOREM InvariantHolds == Spec => []IInv
<1>1. Init => IInv
  BY InitEstablishes
<1>2. IInv /\ [Next]_vars => IInv'
  <2> SUFFICES ASSUME IInv, [Next]_vars
               PROVE  IInv'
    OBVIOUS
  <2>1. CASE \E b \in Block : Fold(b)
    BY <2>1, FoldKeeps
  <2>2. CASE Folding /\ Combine(Current)
    <3>1. Current \in Value /\ At(Current)
      BY <2>2, CurrentIsAt DEF IInv
    <3>2. PICK v \in Value : At(v) /\ Combine(v)
      BY <2>2, <3>1
    <3> QED
      BY <3>2, InsertValueKeeps, InsertRowKeeps, AdvanceKeeps, AppendRestKeeps,
         ReadBeforeBeginKeeps
      DEF Combine
  <2>3. CASE UNCHANGED vars
    BY <2>3
    DEF vars, IInv, TypeOK, Sorted, Placed, At, Conserved, Taken, RowsOf
  <2> QED BY <2>1, <2>2, <2>3 DEF Next
<1> QED BY <1>1, <1>2, PTL DEF Spec

(***************************************************************************)
(* combine neither loses a row nor lists it twice, for whatever blocks and *)
(* order of folding, while its iterator stays in its vector.               *)
(***************************************************************************)
THEOREM NoRowLost == Spec => []RowsConserved
<1>1. IInv => RowsConserved
  <2> SUFFICES ASSUME IInv, ~wild, NEW v \in Value
               PROVE  IsInjective(lhs[v]) /\ IsInjective(rhs[v])
    BY DEF RowsConserved, IInv, Conserved, Taken
  <2>1. Row \subseteq Nat
    BY DEF Row
  <2>2. lhs[v] \in Seq(Nat) /\ rhs[v] \in Seq(Nat)
    BY <2>1, ListFacts, SeqMonotonic DEF IInv
  <2> QED BY <2>2, NoneTwice DEF IInv, Sorted
<1> QED BY <1>1, InvariantHolds, PTL

(***************************************************************************)
(* The index that create_index ends with lists for each value exactly its  *)
(* rows, in order, in whatever order the tasks' lists were folded.         *)
(***************************************************************************)
THEOREM IndexRight == Spec => []IndexExact
<1>1. IInv => IndexExact
  <2> SUFFICES ASSUME IInv, Finished, ~wild, NEW v \in Value
               PROVE  ToSet(lhs[v]) = {r \in Row : column[r] = v} /\ Ascending(lhs[v])
    BY DEF IndexExact
  <2>1. rhs[v] = <<>> /\ ToSet(rhs[v]) = {}
    BY EmptyLists DEF Finished, Folding
  <2>2. ToSet(lhs[v]) = Taken(v)
    BY <2>1 DEF IInv, Conserved
  <2>3. UNION {RowsOf(b) : b \in Block \ pending} = Row
    BY BlocksCover DEF Finished, RowsOf
  <2> QED BY <2>2, <2>3 DEF Taken, IInv, Sorted
<1> QED BY <1>1, InvariantHolds, PTL

=============================================================================

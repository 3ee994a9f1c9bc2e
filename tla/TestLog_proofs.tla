--------------------------- MODULE TestLog_proofs ---------------------------
(***************************************************************************)
(* The log of a test suite keeps the promise of TestReport, for logs of    *)
(* every length and any number of sub-tasks.                               *)
(*                                                                         *)
(* No result is lost because a recorder's place divides the entries of its *)
(* task's part into the ones that are written and the ones that are not    *)
(* (AtFirstUnknown); that this is so when a task starts, and stays so when *)
(* others record, needs that parts which are not written to by one task    *)
(* alone are filled from the front (FilledFromFront) and that the parts of *)
(* tasks are the same or have no entry in common (PartsApart).             *)
(***************************************************************************)
EXTENDS TestLog, Lemmas, FiniteSetTheorems, TLAPS

Known(i) == log[i].state # "UNKNOWN"
By(t, i) == Known(i) /\ log[i].name[1] = t
Active(t) == pc[t] \in {"launched", "running"}

\* An entry has a name once it was written, and may abort only then.
EntriesNamed ==
    \A i \in Points :
        /\ Known(i) <=> log[i].name # NoName
        /\ log[i].abort => Known(i)

AtFirstUnknown ==
    \A t \in Tasks : pc[t] = "running" =>
        /\ at[t] \in part[t] \cup {Length}
        /\ \A i \in part[t] : Known(i) <=> i < at[t]

FilledFromFront ==
    /\ \A t \in Tasks : pc[t] \in {"launched", "waiting"} =>
          \A i, j \in part[t] : i < j /\ Known(j) => Known(i)
    /\ pc[Top] = "waiting" => \A i \in Points : i < at[Top] => Known(i)
    /\ pc[Top] = "launched" => \A i \in Points : ~Known(i)

PartsApart ==
    /\ part[Top] = Points /\ pc[Top] # "none"
    /\ \A s \in Subs : pc[s] # "waiting"
    /\ Active(Top) => \A s \in Subs : ~Active(s)
    /\ pc[Top] = "waiting" => \A s \in Subs : Active(s) => part[s] = Points
    /\ \A t, u \in Tasks : t # u /\ Active(t) /\ Active(u) =>
          part[t] = part[u] \/ part[t] \cap part[u] = {}
    /\ \A t, u \in Tasks : t # u /\ pc[t] = "running" /\ pc[u] = "running" =>
          part[t] \cap part[u] = {}

\* The results of a task are as many as its recorder counts.
ResultsCounted ==
    \A t \in Tasks :
        /\ IsFiniteSet(Promise!Of(t))
        /\ Cardinality(Promise!Of(t)) = count[t]
        /\ \A i \in Points : By(t, i) => log[i].name[2] <= count[t]

\* What recorders, reductions and the abort state know of aborting entries.
AbortsKnown ==
    /\ \A t \in Tasks : \A i \in Points : By(t, i) =>
          /\ pc[t] \notin {"none", "launched"}
          /\ log[i].abort => instance[t] /\ aborted[t]
    /\ \A t \in Tasks : instance[t] =>
          /\ pc[t] \notin {"none", "launched"}
          /\ \E i \in Points : log[i].abort
          /\ pc[t] = "ended" => abortState
    /\ abortState => \E i \in Points : log[i].abort

ReportedAtEnd == report # <<>> => AllEnded

IInv ==
    /\ TypeOK
    /\ EntriesNamed
    /\ AtFirstUnknown
    /\ FilledFromFront
    /\ PartsApart
    /\ ResultsCounted
    /\ AbortsKnown
    /\ ReportedAtEnd

-----------------------------------------------------------------------------
(***************************************************************************)
(* Places in a log, and its parts.                                         *)
(***************************************************************************)

LEMMA FirstIsLeast ==
  ASSUME NEW S \in SUBSET Points
  PROVE  /\ First(S) \in S \cup {Length}
         /\ \A j \in S : First(S) <= j
<1> USE TestLogAssumption
<1>1. CASE S = {}
  BY <1>1 DEF First
<1>2. CASE S # {}
  <2>1. Min(S) \in S /\ \A y \in S : Min(S) <= y
    BY <1>2, MinIsLeast DEF Points
  <2> QED BY <1>2, <2>1 DEF First
<1> QED BY <1>1, <1>2

\* A part of the log is finite, and its size is a number.
LEMMA FiniteParts ==
  ASSUME NEW p \in SUBSET Points
  PROVE  IsFiniteSet(p) /\ Cardinality(p) \in Nat
<1>1. IsFiniteSet(Points)
  BY FS_Interval, TestLogAssumption DEF Points
<1> QED BY <1>1, FS_Subset, FS_CardinalityType

\* Sub-tasks can be numbered.
LEMMA Numbering ==
  LET k == Cardinality(Subs)
  IN  /\ k \in Nat
      /\ \E f \in [Subs -> 0 .. k - 1] : \A s, t \in Subs : s # t => f[s] # f[t]
<1> DEFINE k == Cardinality(Subs)
<1>1. k \in Nat /\ ExistsBijection(1 .. k, Subs)
  BY FS_CardinalityType, TestLogAssumption
<1>2. PICK b \in Bijection(1 .. k, Subs) : TRUE
  BY <1>1 DEF ExistsBijection
<1>3. \A s \in Subs : \E m \in 1 .. k : b[m] = s
  BY <1>2 DEF Bijection, Surjection
<1> DEFINE m(s) == CHOOSE n \in 1 .. k : b[n] = s
           f == [s \in Subs |-> m(s) - 1]
<1>4. \A s \in Subs : m(s) \in 1 .. k /\ b[m(s)] = s
  BY <1>3
<1> HIDE DEF m, k
<1>5. f \in [Subs -> 0 .. k - 1]
  BY <1>1, <1>4
<1>6. \A s, t \in Subs : s # t => f[s] # f[t]
  <2> SUFFICES ASSUME NEW s \in Subs, NEW t \in Subs, f[s] = f[t] PROVE s = t
    OBVIOUS
  <2>1. m(s) = m(t)
    BY <1>1, <1>4
  <2> QED BY <2>1, <1>4
<1>7. \E g \in [Subs -> 0 .. k - 1] : \A s, t \in Subs : s # t => g[s] # g[t]
  <2> HIDE DEF f
  <2> QED BY <1>5, <1>6
<1> QED BY <1>1, <1>7 DEF k

\* Equal parts have no entry in common.
LEMMA PartsOfParts ==
  ASSUME NEW p \in SUBSET Points, NEW s \in Subs, NEW t \in Subs
  PROVE  /\ EqualParts(p)[s] \subseteq p
         /\ s # t => EqualParts(p)[s] \cap EqualParts(p)[t] = {}
<1> DEFINE n == Cardinality(p)
           k == Cardinality(Subs)
           number == CHOOSE f \in [Subs -> 0 .. k - 1] :
                        \A x, y \in Subs : x # y => f[x] # f[y]
           rank(i) == Cardinality({j \in p : j < i})
           Of(x, i) == rank(i) * k >= n * number[x] /\ rank(i) * k < n * (number[x] + 1)
<1>1. n \in Nat
  BY FiniteParts
<1>2. k \in Nat
  BY Numbering
<1>3. number \in [Subs -> 0 .. k - 1] /\ \A x, y \in Subs : x # y => number[x] # number[y]
  BY Numbering
<1>4. \A i \in Points : rank(i) \in Nat
  BY FiniteParts
<1>5. \A x \in Subs : EqualParts(p)[x] = {i \in p : Of(x, i)}
  BY DEF EqualParts
<1> HIDE DEF n, k, number, rank
<1>6. \A x, y \in Subs : number[x] \in Nat /\ number[y] \in Nat
  BY <1>2, <1>3
<1>7. ASSUME NEW x \in Subs, NEW y \in Subs, NEW i \in p, Of(x, i), Of(y, i),
             number[x] < number[y]
      PROVE  FALSE
  <2>1. PICK d \in Nat : number[y] = (number[x] + 1) + d
    <3>1. number[y] - number[x] - 1 \in Nat
      BY <1>6, <1>7
    <3> QED BY <3>1, <1>6
  <2>2. n * number[y] = n * (number[x] + 1) + n * d /\ n * d >= 0
    BY <2>1, <1>1, <1>6
  <2>3. rank(i) * k \in Int /\ n * number[y] \in Int /\ n * (number[x] + 1) \in Int /\ n * d \in Int
    BY <1>1, <1>2, <1>4, <1>6
  <2>4. rank(i) * k < n * (number[x] + 1) /\ rank(i) * k >= n * number[y]
    BY <1>7
  <2> QED BY <2>2, <2>3, <2>4
<1>8. ASSUME s # t, NEW i \in EqualParts(p)[s] \cap EqualParts(p)[t] PROVE FALSE
  <2>1. i \in p /\ Of(s, i) /\ Of(t, i)
    BY <1>5
  <2>2. number[s] < number[t] \/ number[t] < number[s]
    BY <1>3, <1>6, <1>8
  <2> QED BY <2>1, <2>2, <1>7
<1> QED BY <1>5, <1>8

-----------------------------------------------------------------------------
(***************************************************************************)
(* Recording a result.                                                     *)
(***************************************************************************)

Recorded == {"SUCCESS", "FAILURE", "SKIPPED"}
Outcomes == [state : Recorded, abort : BOOLEAN]

\* What an append may be given.
LEMMA OutcomesOfTests ==
  /\ \A skip, assert \in BOOLEAN : \A value, expected :
        ExpectBool(skip, value, expected, assert) \in Outcomes
  /\ \A assert, thrown \in BOOLEAN : \A value :
        ExpectThrow(value, thrown, assert) \in Outcomes
  /\ \A state \in Recorded, abort \in BOOLEAN : Outcome(state, abort) \in Outcomes
BY DEF ExpectBool, ExpectThrow, Outcome, Outcomes, Recorded

\* What is written for a result is a result.
LEMMA WrittenOutcome ==
  ASSUME NEW skip \in BOOLEAN, NEW r \in Outcomes
  PROVE  /\ Written(skip, r) \in Outcomes
         /\ skip => Written(skip, r).state = "SKIPPED"
BY DEF Written, Outcome, Outcomes, Recorded

\* The results of a log, as TestReport sees them.
Results == {ResultOf(log[i]) : i \in {i \in Points : log[i].name # NoName}}

\* An append to an entry that was not written, in terms of that entry.
LEMMA Appended ==
  ASSUME IInv, NEW t \in Tasks, NEW r \in Outcomes, Recording(t), Append1(t, r)
  PROVE  LET i0 == at[t]
             w == Written(aborted[t], r)
             e == [state |-> w.state, abort |-> w.abort, name |-> <<t, count[t] + 1>>]
         IN /\ i0 \in part[t] /\ i0 \in Points /\ ~Known(i0) /\ log[i0].name = NoName
            /\ w \in Outcomes
            /\ aborted[t] => w.state = "SKIPPED"
            /\ e.name \in Tasks \X Nat /\ e.name # NoName
            /\ log' = [log EXCEPT ![i0] = e]
            /\ \A i \in Points : i # i0 => log'[i] = log[i]
            /\ log'[i0] = e
            /\ count' = [count EXCEPT ![t] = count[t] + 1]
<1> DEFINE i0 == at[t]
           w == Written(aborted[t], r)
           e == [state |-> w.state, abort |-> w.abort, name |-> <<t, count[t] + 1>>]
<1> USE TestLogAssumption
<1>1. /\ part[t] \in SUBSET Points /\ at[t] \in 0 .. Length
      /\ aborted[t] \in BOOLEAN /\ count[t] \in Nat
      /\ DOMAIN log = Points /\ DOMAIN count = Tasks
  BY DEF IInv, TypeOK
<1>2. i0 \in part[t] /\ i0 \in Points /\ ~Known(i0)
  BY <1>1 DEF IInv, AtFirstUnknown, Recording, Points
<1>3. log[i0].name = NoName
  BY <1>2 DEF IInv, EntriesNamed
<1>4. w \in Outcomes /\ (aborted[t] => w.state = "SKIPPED")
  BY <1>1, WrittenOutcome
<1>5. e.name \in Tasks \X Nat /\ e.name # NoName
  BY <1>1 DEF Tasks
<1>6. log' = [log EXCEPT ![i0] = e] /\ count' = [count EXCEPT ![t] = count[t] + 1]
  BY DEF Append1
<1>7. /\ \A i \in Points : i # i0 => log'[i] = log[i]
      /\ log'[i0] = e
  BY <1>1, <1>2, <1>6
<1> QED BY <1>2, <1>3, <1>4, <1>5, <1>6, <1>7

\* The results after an append: one more, of its task.
LEMMA ResultsAppended ==
  ASSUME IInv, NEW t \in Tasks, NEW r \in Outcomes, Recording(t), Append1(t, r)
  PROVE  LET w == Written(aborted[t], r)
             new == [by |-> t, nth |-> count[t] + 1, state |-> w.state, abort |-> w.abort]
         IN /\ Results' = Results \cup {new}
            /\ new \notin Results
            /\ \A u \in Tasks \ {t} : Promise!Of(u)' = Promise!Of(u)
            /\ Promise!Of(t)' = Promise!Of(t) \cup {new}
            /\ (\E x \in Promise!Of(t) : x.abort) => w.state = "SKIPPED"
<1> DEFINE i0 == at[t]
           w == Written(aborted[t], r)
           e == [state |-> w.state, abort |-> w.abort, name |-> <<t, count[t] + 1>>]
           new == [by |-> t, nth |-> count[t] + 1, state |-> w.state, abort |-> w.abort]
           N == {i \in Points : log[i].name # NoName}
<1>1. /\ i0 \in Points /\ log[i0].name = NoName
      /\ aborted[t] => w.state = "SKIPPED"
      /\ e.name # NoName
      /\ \A i \in Points : i # i0 => log'[i] = log[i]
      /\ log'[i0] = e
  BY Appended
<1>2. ResultOf(e) = new
  BY DEF ResultOf
<1> HIDE DEF i0, w, e
<1>3. {i \in Points : log'[i].name # NoName} = N \cup {i0} /\ i0 \notin N
  BY <1>1
<1>4. Results' = {ResultOf(log'[i]) : i \in N \cup {i0}}
  BY <1>3 DEF Results, ResultOf
<1>5. \A i \in N : ResultOf(log'[i]) = ResultOf(log[i])
  BY <1>1, <1>3
<1>6. Results' = Results \cup {new}
  <2>1. Results = {ResultOf(log[i]) : i \in N}
    BY DEF Results
  <2> HIDE DEF N, new
  <2> QED BY <1>1, <1>2, <1>4, <1>5, <2>1
<1>7. new \notin Results
  <2> SUFFICES ASSUME NEW i \in N, ResultOf(log[i]) = new PROVE FALSE
    BY DEF Results
  <2>1. log[i].name[1] = t /\ log[i].name[2] = count[t] + 1
    BY DEF ResultOf
  <2>2. By(t, i)
    BY <2>1 DEF By, IInv, EntriesNamed
  <2>3. log[i].name[2] <= count[t] /\ count[t] \in Nat
    BY <2>2 DEF IInv, ResultsCounted, TypeOK
  <2> QED BY <2>1, <2>3
<1>8. \A u : Promise!Of(u) = {x \in Results : x.by = u} /\ Promise!Of(u)' = {x \in Results' : x.by = u}
  BY DEF Promise!Of, Results
<1>9. new.by = t
  OBVIOUS
<1>10. \A u \in Tasks \ {t} : Promise!Of(u)' = Promise!Of(u)
  <2> HIDE DEF new
  <2> QED BY <1>6, <1>8, <1>9
<1>11. Promise!Of(t)' = Promise!Of(t) \cup {new}
  <2> HIDE DEF new
  <2> QED BY <1>6, <1>8, <1>9
<1>12. ASSUME NEW x \in Promise!Of(t), x.abort PROVE w.state = "SKIPPED"
  <2>1. PICK i \in N : x = ResultOf(log[i]) /\ x.by = t
    BY <1>8 DEF Results
  <2>2. log[i].name[1] = t /\ log[i].abort
    BY <1>12, <2>1 DEF ResultOf
  <2>3. aborted[t]
    BY <2>2 DEF IInv, EntriesNamed, AbortsKnown, By
  <2> QED BY <2>3, <1>1
<1> QED BY <1>6, <1>7, <1>10, <1>11, <1>12 DEF w, new

\* An append preserves the invariant, and is a record of TestReport.
LEMMA AppendPreserves ==
  ASSUME IInv, NEW t \in Tasks, NEW r \in Outcomes, Recording(t), Append1(t, r)
  PROVE  IInv' /\ Promise!Record(t)
<1>0. PICK i0 \in Points : i0 = at[t]
  BY Appended
<1> DEFINE w == Written(aborted[t], r)
           e == [state |-> w.state, abort |-> w.abort, name |-> <<t, count[t] + 1>>]
           new == [by |-> t, nth |-> count[t] + 1, state |-> w.state, abort |-> w.abort]
<1> USE TestLogAssumption
<1>1. /\ i0 \in part[t] /\ i0 \in Points /\ ~Known(i0)
      /\ w \in Outcomes
      /\ e.name \in Tasks \X Nat /\ e.name # NoName
      /\ log' = [log EXCEPT ![i0] = e]
      /\ \A i \in Points : i # i0 => log'[i] = log[i]
      /\ log'[i0] = e
      /\ count' = [count EXCEPT ![t] = count[t] + 1]
  BY <1>0, Appended
<1>2. /\ instance' = [instance EXCEPT ![t] = @ \/ w.abort]
      /\ aborted' = [aborted EXCEPT ![t] = @ \/ w.abort]
      /\ at' = [at EXCEPT ![t] = Next1(part[t], at[t])]
      /\ abortState' = abortState /\ pc' = pc /\ part' = part /\ report' = report
  BY DEF Append1
<1>3. pc[t] = "running"
  BY DEF Recording
<1>4. /\ \A u \in Tasks : part[u] \in SUBSET Points
      /\ \A u \in Tasks : aborted[u] \in BOOLEAN /\ instance[u] \in BOOLEAN /\ count[u] \in Nat
      /\ instance \in [Tasks -> BOOLEAN] /\ aborted \in [Tasks -> BOOLEAN]
      /\ at \in [Tasks -> 0 .. Length] /\ count \in [Tasks -> Nat]
  BY DEF IInv, TypeOK
<1>5. /\ Known(i0)' /\ ~Known(i0)
      /\ \A i \in Points : i # i0 => (Known(i)' <=> Known(i))
      /\ e.state \in Recorded /\ e.abort = w.abort /\ e.abort \in BOOLEAN
      /\ e.name[1] = t /\ e.name[2] = count[t] + 1
  <2>1. e.state = w.state /\ e.abort = w.abort /\ e.name[1] = t /\ e.name[2] = count[t] + 1
    OBVIOUS
  <2> HIDE DEF e, w
  <2>2. w.state \in Recorded /\ w.abort \in BOOLEAN
    BY <1>1 DEF Outcomes
  <2>3. w.state # "UNKNOWN"
    BY <2>2 DEF Recorded
  <2>4. Known(i0)' /\ ~Known(i0)
    BY <1>1, <2>1, <2>3 DEF Known
  <2>5. \A i \in Points : i # i0 => (Known(i)' <=> Known(i))
    BY <1>1 DEF Known
  <2> QED BY <2>1, <2>2, <2>4, <2>5
<1>6. Next1(part[t], i0) \in part[t] \cup {Length}
      /\ Next1(part[t], i0) > i0
      /\ \A j \in part[t] : j > i0 => Next1(part[t], i0) <= j
  <2> DEFINE S == {j \in part[t] : j > i0}
  <2>1. S \in SUBSET Points
    BY <1>4
  <2>2. First(S) \in S \cup {Length} /\ \A j \in S : First(S) <= j
    BY <2>1, FirstIsLeast
  <2>3. Next1(part[t], i0) = First(S)
    BY DEF Next1
  <2>4. Length > i0
    BY <1>1 DEF Points
  <2> QED BY <1>1, <1>4, <2>2, <2>3, <2>4 DEF Points
<1>7. \A u \in Tasks : \A i \in Points : By(u, i)' <=> By(u, i) \/ (u = t /\ i = i0)
  <2> HIDE DEF e, w
  <2> SUFFICES ASSUME NEW u \in Tasks, NEW i \in Points
               PROVE  By(u, i)' <=> By(u, i) \/ (u = t /\ i = i0)
    OBVIOUS
  <2>1. CASE i = i0
    <3>1. By(u, i)' <=> e.name[1] = u
      BY <2>1, <1>1, <1>5 DEF By
    <3>2. ~By(u, i)
      BY <2>1, <1>5 DEF By
    <3> QED BY <2>1, <3>1, <3>2, <1>5
  <2>2. CASE i # i0
    BY <2>2, <1>1, <1>5 DEF By
  <2> QED BY <2>1, <2>2
<1> HIDE DEF w, e
<1>8. TypeOK'
  <2>1. e \in [state : {"SUCCESS", "FAILURE", "SKIPPED", "UNKNOWN"}, abort : BOOLEAN,
               name : {NoName} \cup (Tasks \X Nat)]
    BY <1>1, <1>5 DEF e, Recorded
  <2>2. log' \in [Points -> [state : {"SUCCESS", "FAILURE", "SKIPPED", "UNKNOWN"},
                             abort : BOOLEAN, name : {NoName} \cup (Tasks \X Nat)]]
    BY <2>1, <1>1 DEF IInv, TypeOK
  <2>3. at' \in [Tasks -> 0 .. Length]
    <3>1. Next1(part[t], i0) \in 0 .. Length
      BY <1>4, <1>6 DEF Points
    <3> QED BY <3>1, <1>0, <1>2, <1>4
  <2>4. count' \in [Tasks -> Nat]
    BY <1>1, <1>4
  <2>5. aborted' \in [Tasks -> BOOLEAN]
    BY <1>2, <1>4, <1>5
  <2>6. instance' \in [Tasks -> BOOLEAN]
    BY <1>2, <1>4, <1>5
  <2> QED BY <1>2, <2>2, <2>3, <2>4, <2>5, <2>6 DEF IInv, TypeOK
<1>9. EntriesNamed'
  <2> SUFFICES ASSUME NEW i \in Points
               PROVE  /\ Known(i)' <=> log'[i].name # NoName
                      /\ log'[i].abort => Known(i)'
    BY DEF EntriesNamed, Points
  <2>1. CASE i = i0
    BY <2>1, <1>1, <1>5
  <2>2. CASE i # i0
    BY <2>2, <1>1, <1>5 DEF IInv, EntriesNamed
  <2> QED BY <2>1, <2>2
<1>10. AtFirstUnknown'
  <2> SUFFICES ASSUME NEW u \in Tasks, pc[u] = "running"
               PROVE  /\ at'[u] \in part[u] \cup {Length}
                      /\ \A i \in part[u] : Known(i)' <=> i < at'[u]
    BY <1>2 DEF AtFirstUnknown
  <2>1. CASE u = t
    <3>1. at'[t] = Next1(part[t], i0)
      BY <1>0, <1>2, <1>4
    <3>2. \A i \in part[t] : Known(i) <=> i < i0
      BY <1>0, <1>3 DEF IInv, AtFirstUnknown
    <3>3. \A i \in part[t] : i \in Nat
      BY <1>4 DEF Points
    <3>4. i0 \in Nat /\ Next1(part[t], i0) \in Nat
      BY <3>3, <1>1, <1>6
    <3>5. ASSUME NEW i \in part[t] PROVE Known(i)' <=> i <= i0
      <4>1. i \in Points /\ i \in Nat
        BY <1>4, <3>3
      <4>2. CASE i = i0
        BY <4>1, <4>2, <1>5
      <4>3. CASE i # i0
        <5>1. Known(i)' <=> i < i0
          BY <4>1, <4>3, <1>5, <3>2
        <5> QED BY <5>1, <4>1, <4>3, <3>4
      <4> QED BY <4>2, <4>3
    <3> QED BY <2>1, <1>6, <3>1, <3>3, <3>4, <3>5
  <2>2. CASE u # t
    <3>1. at'[u] = at[u]
      BY <1>2, <1>4, <2>2
    <3>2. i0 \notin part[u]
      BY <1>1, <1>3, <2>2 DEF IInv, PartsApart
    <3>3. \A i \in part[u] : Known(i)' <=> Known(i)
      BY <1>4, <1>5, <3>2
    <3> QED BY <3>1, <3>3 DEF IInv, AtFirstUnknown
  <2> QED BY <2>1, <2>2
<1>11. FilledFromFront'
  <2>1. ASSUME NEW u \in Tasks, pc[u] \in {"launched", "waiting"},
               NEW i \in part[u], NEW j \in part[u], i < j, Known(j)'
        PROVE  Known(i)'
    <3>1. CASE part[u] = part[t]
      <4>1. i \in Nat /\ j \in Nat /\ i0 \in Nat
        BY <1>1, <1>4 DEF Points
      <4>2. \A k \in part[t] : Known(k) <=> k < i0
        BY <1>0, <1>3 DEF IInv, AtFirstUnknown
      <4>3. j <= i0
        BY <2>1, <1>4, <1>5, <3>1, <4>1, <4>2
      <4>4. Known(i)
        BY <2>1, <3>1, <4>1, <4>2, <4>3
      <4> QED BY <4>4, <1>4, <1>5
    <3>2. CASE i0 \notin part[u]
      <4>1. Known(j)
        BY <2>1, <1>4, <1>5, <3>2
      <4>2. Known(i)
        BY <2>1, <4>1 DEF IInv, FilledFromFront
      <4> QED BY <4>2, <1>4, <1>5
    <3>3. part[u] = part[t] \/ i0 \notin part[u]
      <4>1. CASE u = Top
        <5>1. t # Top
          BY <1>3, <2>1, <4>1
        <5>2. t \in Subs /\ Active(t)
          BY <1>3, <5>1 DEF Tasks, Active
        <5>3. pc[Top] = "waiting"
          BY <2>1, <4>1, <5>2 DEF IInv, PartsApart, Active
        <5> QED BY <4>1, <5>2, <5>3 DEF IInv, PartsApart
      <4>2. CASE u # Top
        <5>1. Active(u) /\ Active(t) /\ u # t
          BY <1>3, <2>1, <4>2 DEF IInv, PartsApart, Active, Tasks
        <5> QED BY <5>1, <1>1 DEF IInv, PartsApart
      <4> QED BY <4>1, <4>2
    <3> QED BY <3>1, <3>2, <3>3
  <2>2. pc[Top] = "waiting" => \A i \in Points : i < at'[Top] => Known(i)'
    <3>1. pc[Top] = "waiting" => at'[Top] = at[Top]
      BY <1>2, <1>3, <1>4 DEF Tasks
    <3> QED BY <3>1, <1>5 DEF IInv, FilledFromFront
  <2>3. pc[Top] # "launched"
    <3>1. pc[Top] = "launched" => t \in Subs /\ Active(Top) /\ Active(t)
      BY <1>3 DEF Active, Tasks
    <3> QED BY <3>1 DEF IInv, PartsApart
  <2> QED BY <2>1, <2>2, <2>3, <1>2 DEF FilledFromFront
<1>12. PartsApart'
  BY <1>2 DEF IInv, PartsApart, Active
<1>13. ResultsCounted'
  <2> SUFFICES ASSUME NEW u \in Tasks
               PROVE  /\ IsFiniteSet(Promise!Of(u)') /\ Cardinality(Promise!Of(u)') = count'[u]
                      /\ \A i \in Points : By(u, i)' => log'[i].name[2] <= count'[u]
    BY DEF ResultsCounted
  <2>1. CASE u = t
    <3>1. /\ Promise!Of(t)' = Promise!Of(t) \cup {new} /\ new \notin Promise!Of(t)
      BY ResultsAppended DEF Promise!Of, Results, w
    <3>2. IsFiniteSet(Promise!Of(t)) /\ Cardinality(Promise!Of(t)) = count[t]
      BY DEF IInv, ResultsCounted
    <3>3. count'[t] = count[t] + 1
      BY <1>1, <1>4
    <3> HIDE DEF new
    <3>4. IsFiniteSet(Promise!Of(t)') /\ Cardinality(Promise!Of(t)') = count'[t]
      BY <3>1, <3>2, <3>3, FS_AddElement
    <3>5. \A i \in Points : By(t, i)' => log'[i].name[2] <= count'[t]
      <4> SUFFICES ASSUME NEW i \in Points, By(t, i)' PROVE log'[i].name[2] <= count'[t]
        OBVIOUS
      <4>1. CASE i = i0
        BY <4>1, <1>1, <1>4, <1>5, <3>3
      <4>2. CASE i # i0
        <5>1. By(t, i) /\ log'[i] = log[i]
          BY <4>2, <1>1, <1>7
        <5>2. log[i].name[2] \in Nat
          <6>1. log[i].name \in Tasks \X Nat
            BY <5>1 DEF By, IInv, EntriesNamed, TypeOK
          <6> QED BY <6>1
        <5>3. log[i].name[2] <= count[t]
          BY <5>1 DEF IInv, ResultsCounted
        <5> QED BY <5>1, <5>2, <5>3, <3>3, <1>4
      <4> QED BY <4>1, <4>2
    <3> QED BY <2>1, <3>4, <3>5
  <2>2. CASE u # t
    <3>1. Promise!Of(u)' = Promise!Of(u)
      BY <2>2, ResultsAppended
    <3>2. count'[u] = count[u]
      BY <2>2, <1>1, <1>4
    <3>3. ASSUME NEW i \in Points, By(u, i)' PROVE By(u, i) /\ log'[i] = log[i]
      <4>1. By(u, i)
        BY <2>2, <3>3, <1>7
      <4>2. i # i0
        BY <4>1, <1>5 DEF By
      <4> QED BY <4>1, <4>2, <1>1
    <3> QED BY <3>1, <3>2, <3>3 DEF IInv, ResultsCounted
  <2> QED BY <2>1, <2>2
<1>14. AbortsKnown'
  <2>1. \A u \in Tasks : (instance[u] => instance'[u]) /\ (aborted[u] => aborted'[u])
    BY <1>2, <1>4, <1>5
  <2>2. w.abort => instance'[t] /\ aborted'[t]
    BY <1>2, <1>4, <1>5
  <2>3. \A u \in Tasks : instance'[u] => instance[u] \/ (u = t /\ w.abort)
    BY <1>2, <1>4, <1>5
  <2>4. (\E i \in Points : log[i].abort) \/ w.abort => \E i \in Points : log'[i].abort
    <3>1. \A i \in Points : log[i].abort => log'[i].abort
      BY <1>1 DEF IInv, EntriesNamed
    <3>2. w.abort => log'[i0].abort
      BY <1>1, <1>5
    <3> QED BY <3>1, <3>2, <1>1
  <2>5. ASSUME NEW u \in Tasks, NEW i \in Points, By(u, i)'
        PROVE  /\ pc'[u] \notin {"none", "launched"}
               /\ log'[i].abort => instance'[u] /\ aborted'[u]
    <3>1. CASE u = t /\ i = i0
      BY <3>1, <2>2, <1>1, <1>2, <1>3, <1>5
    <3>2. CASE ~(u = t /\ i = i0)
      <4>1. By(u, i)
        BY <2>5, <3>2, <1>7
      <4>2. i # i0 /\ log'[i] = log[i]
        BY <4>1, <1>1 DEF By
      <4> QED BY <4>1, <4>2, <2>1, <1>2 DEF IInv, AbortsKnown
    <3> QED BY <3>1, <3>2
  <2>6. ASSUME NEW u \in Tasks, instance'[u]
        PROVE  /\ pc'[u] \notin {"none", "launched"}
               /\ \E i \in Points : log'[i].abort
               /\ pc'[u] = "ended" => abortState'
    BY <2>3, <2>4, <2>6, <1>2, <1>3 DEF IInv, AbortsKnown
  <2>7. abortState' => \E i \in Points : log'[i].abort
    BY <2>4, <1>2 DEF IInv, AbortsKnown
  <2> QED BY <2>5, <2>6, <2>7 DEF AbortsKnown
<1>15. ReportedAtEnd' /\ report = <<>>
  BY <1>2, <1>3 DEF IInv, ReportedAtEnd, AllEnded
<1>16. Promise!Record(t)
  <2>1. /\ Results' = Results \cup {new}
        /\ (\E x \in Promise!Of(t) : x.abort) => w.state = "SKIPPED"
    BY ResultsAppended DEF w
  <2>2. count[t] = Cardinality(Promise!Of(t))
    BY DEF IInv, ResultsCounted
  <2>3. {ResultOf(report[k]) : k \in DOMAIN report} = {}
    BY <1>15
  <2>4. w.state \in Promise!States /\ w.abort \in BOOLEAN
    BY <1>1 DEF Outcomes, Recorded, Promise!States
  <2> HIDE DEF new
  <2>5. new = [by |-> t, nth |-> Cardinality(Promise!Of(t)) + 1, state |-> w.state, abort |-> w.abort]
    BY <2>2 DEF new
  <2>6. \E state \in Promise!States, abort \in BOOLEAN :
          /\ (\E x \in Promise!Of(t) : x.abort) => state = "SKIPPED"
          /\ Results' = Results \cup
               {[by |-> t, nth |-> Cardinality(Promise!Of(t)) + 1, state |-> state, abort |-> abort]}
    BY <2>1, <2>4, <2>5
  <2>7. {ResultOf(report'[k]) : k \in DOMAIN report'} = {ResultOf(report[k]) : k \in DOMAIN report}
    BY <1>2 DEF ResultOf
  <2>8. \A S : Promise!Cardinality(S) = Cardinality(S)
    BY Zenon DEF Promise!Cardinality, Cardinality
  <2> QED BY <2>3, <2>6, <2>7, <2>8 DEF Promise!Record, Results
<1> QED BY <1>8, <1>9, <1>10, <1>11, <1>12, <1>13, <1>14, <1>15, <1>16 DEF IInv

-----------------------------------------------------------------------------
(***************************************************************************)
(* The other actions, which leave the entries alone.                       *)
(***************************************************************************)

LEMMA InitHolds == Init => IInv /\ Promise!Init
<1> SUFFICES ASSUME Init PROVE IInv /\ Promise!Init
  OBVIOUS
<1> USE TestLogAssumption
<1>1. \A i \in Points : log[i] = Blank /\ ~Known(i) /\ log[i].name = NoName /\ ~log[i].abort
  BY DEF Init, Known, Blank
<1>2. TypeOK
  <2>1. log \in [Points -> [state : {"SUCCESS", "FAILURE", "SKIPPED", "UNKNOWN"},
                            abort : BOOLEAN, name : {NoName} \cup (Tasks \X Nat)]]
    BY DEF Init, Blank
  <2>2. DOMAIN report \subseteq Points
    BY DEF Init
  <2>3. Length \in 0 .. Length
    OBVIOUS
  <2> QED BY <2>1, <2>2, <2>3 DEF Init, TypeOK
<1>3. EntriesNamed
  BY <1>1 DEF EntriesNamed
<1>4. AtFirstUnknown /\ FilledFromFront /\ ReportedAtEnd
  BY <1>1 DEF Init, AtFirstUnknown, FilledFromFront, ReportedAtEnd, Tasks
<1>5. PartsApart
  BY DEF Init, PartsApart, Tasks, Active
<1>6. Results = {}
  BY <1>1 DEF Results
<1>7. ResultsCounted
  <2>1. \A t \in Tasks : Promise!Of(t) = {}
    BY <1>6 DEF Promise!Of, Results
  <2> QED BY <1>1, <2>1, FS_EmptySet DEF Init, ResultsCounted, By
<1>8. AbortsKnown
  BY <1>1 DEF Init, AbortsKnown, By, Tasks
<1>9. {ResultOf(report[k]) : k \in DOMAIN report} = {}
  BY DEF Init
<1> QED BY <1>2, <1>3, <1>4, <1>5, <1>6, <1>7, <1>8, <1>9 DEF IInv, Promise!Init, Results

\* What follows from the entries alone.
LEMMA EntriesKept ==
  ASSUME IInv, UNCHANGED <<log, count>>
  PROVE  /\ EntriesNamed' /\ ResultsCounted' /\ Results' = Results
         /\ \A i \in Points : Known(i)' <=> Known(i)
         /\ \A t \in Tasks, i \in Points : By(t, i)' <=> By(t, i)
<1>1. \A i \in Points : Known(i)' <=> Known(i)
  BY DEF Known
<1>2. \A t \in Tasks, i \in Points : By(t, i)' <=> By(t, i)
  BY <1>1 DEF By
<1>3. EntriesNamed'
  BY <1>1 DEF IInv, EntriesNamed, Points
<1>4. Results' = Results
  BY DEF Results, ResultOf
<1>5. ResultsCounted'
  <2>1. \A t \in Tasks : Promise!Of(t)' = Promise!Of(t)
    BY <1>4 DEF Promise!Of, Results
  <2> QED BY <1>2, <2>1 DEF IInv, ResultsCounted, Points
<1> QED BY <1>1, <1>2, <1>3, <1>4, <1>5

\* A recorder finds the first entry that was not written.
LEMMA StartPreserves ==
  ASSUME IInv, Careful, NEW t \in Tasks, Start(t)
  PROVE  IInv'
<1> USE TestLogAssumption
<1>1. PICK seen \in {FALSE} \cup {instance[u] : u \in {u \in Tasks : pc[u] # "none"}} :
        /\ aborted' = [aborted EXCEPT ![t] = seen]
        /\ instance' = [instance EXCEPT ![t] = seen]
  BY DEF Start
<1> DEFINE from == IF t # Top THEN GoToEnd(part[t], First(part[t])) ELSE First(part[t])
<1>2. /\ pc[t] = "launched" /\ Unshared(t)
      /\ at' = [at EXCEPT ![t] = from]
      /\ pc' = [pc EXCEPT ![t] = "running"]
      /\ UNCHANGED <<log, abortState, part, count, report>>
  BY DEF Start
<1>3. /\ \A u \in Tasks : part[u] \in SUBSET Points
      /\ instance \in [Tasks -> BOOLEAN] /\ aborted \in [Tasks -> BOOLEAN]
      /\ at \in [Tasks -> 0 .. Length] /\ abortState \in BOOLEAN
      /\ pc \in [Tasks -> {"none", "launched", "running", "waiting", "ended"}]
  BY DEF IInv, TypeOK
<1>4. /\ EntriesNamed' /\ ResultsCounted' /\ Results' = Results
      /\ \A i \in Points : Known(i)' <=> Known(i)
      /\ \A u \in Tasks, i \in Points : By(u, i)' <=> By(u, i)
  BY <1>2, EntriesKept
<1>5. /\ from \in part[t] \cup {Length}
      /\ \A i \in part[t] : Known(i) <=> i < from
  <2> DEFINE p == part[t]
             first == First(p)
             S == {j \in p : j >= first /\ log[j].state = "UNKNOWN"}
  <2>1. first \in p \cup {Length} /\ \A j \in p : first <= j
    BY <1>3, FirstIsLeast
  <2>2. CASE t # Top
    <3>1. S \in SUBSET Points
      BY <1>3
    <3>2. from \in S \cup {Length} /\ \A j \in S : from <= j
      <4>1. from = First(S)
        BY <2>2 DEF GoToEnd
      <4> HIDE DEF from, S
      <4> QED BY <4>1, <3>1, FirstIsLeast
    <3>3. S = {j \in p : ~Known(j)}
      BY <2>1 DEF Known
    <3> HIDE DEF from, S
    <3>4. \A i, j \in p : i < j /\ Known(j) => Known(i)
      BY <1>2 DEF IInv, FilledFromFront
    <3>5. \A i \in p : i \in Nat /\ i < Length
      BY <1>3 DEF Points
    <3>6. ASSUME NEW i \in p, ~Known(i) PROVE ~(i < from)
      BY <3>2, <3>3, <3>5, <3>6
    <3>7. ASSUME NEW i \in p, Known(i) PROVE i < from
      <4>1. CASE from = Length
        BY <4>1, <3>5
      <4>2. CASE from \in S
        <5>1. from \in p /\ ~Known(from) /\ i # from
          BY <4>2, <3>3, <3>7
        <5>2. ~(from < i)
          BY <5>1, <3>4, <3>7
        <5> QED BY <5>1, <5>2, <3>5
      <4> QED BY <3>2, <4>1, <4>2
    <3> QED BY <3>2, <3>3, <3>6, <3>7
  <2>3. CASE t = Top
    <3>1. \A i \in p : ~Known(i)
      BY <1>2, <1>3, <2>3 DEF IInv, FilledFromFront
    <3>2. \A i \in p : i \in Nat
      BY <1>3 DEF Points
    <3>3. from = first
      BY <2>3
    <3> HIDE DEF from, first
    <3>4. \A i \in p : ~(i < from)
      BY <2>1, <3>2, <3>3 DEF Points
    <3> QED BY <2>1, <3>1, <3>3, <3>4
  <2> QED BY <2>2, <2>3
<1> HIDE DEF from
<1>6. seen \in BOOLEAN /\ (seen => \E u \in Tasks : instance[u])
  BY <1>1, <1>3
<1>7. TypeOK'
  <2>1. from \in 0 .. Length
    BY <1>3, <1>5 DEF Points
  <2> QED BY <2>1, <1>1, <1>2, <1>3, <1>6 DEF IInv, TypeOK
<1>8. AtFirstUnknown'
  <2> SUFFICES ASSUME NEW u \in Tasks, pc'[u] = "running"
               PROVE  /\ at'[u] \in part[u] \cup {Length}
                      /\ \A i \in part[u] : Known(i)' <=> i < at'[u]
    BY <1>2 DEF AtFirstUnknown
  <2>1. \A i \in part[u] : Known(i)' <=> Known(i)
    BY <1>3, <1>4
  <2>2. CASE u = t
    BY <2>1, <2>2, <1>2, <1>3, <1>5
  <2>3. CASE u # t
    <3>1. pc[u] = "running" /\ at'[u] = at[u]
      BY <2>3, <1>2, <1>3
    <3> QED BY <2>1, <3>1 DEF IInv, AtFirstUnknown
  <2> QED BY <2>2, <2>3
<1>9. FilledFromFront'
  <2>1. \A u \in Tasks : pc'[u] # "running" => pc'[u] = pc[u] /\ at'[u] = at[u]
    BY <1>2, <1>3
  <2>2. Top \in Tasks
    BY DEF Tasks
  <2>3. \A u \in Tasks : \A i \in part[u] : Known(i)' <=> Known(i)
    BY <1>3, <1>4
  <2> QED BY <1>2, <1>4, <2>1, <2>2, <2>3 DEF IInv, FilledFromFront
<1>10. PartsApart'
  <2>1. \A u \in Tasks : /\ Active(u)' <=> Active(u)
                         /\ pc'[u] = "waiting" <=> pc[u] = "waiting"
                         /\ pc'[u] = "none" <=> pc[u] = "none"
                         /\ pc'[u] = "running" <=> pc[u] = "running" \/ u = t
    BY <1>2, <1>3 DEF Active
  <2>2. Top \in Tasks /\ Subs \subseteq Tasks
    BY DEF Tasks
  <2>3. \A u \in Tasks \ {t} : pc[u] = "running" => part[u] \cap part[t] = {}
    BY <1>2 DEF Unshared
  <2> QED BY <1>2, <2>1, <2>2, <2>3 DEF IInv, PartsApart
<1>11. AbortsKnown'
  <2>1. \A u \in Tasks : u # t => instance'[u] = instance[u] /\ aborted'[u] = aborted[u] /\ pc'[u] = pc[u]
    BY <1>1, <1>2
  <2>2. pc'[t] = "running" /\ instance'[t] = seen
    BY <1>1, <1>2, <1>3
  <2>3. \A i \in Points : ~By(t, i)
    BY <1>2 DEF IInv, AbortsKnown
  <2>4. seen => \E i \in Points : log[i].abort
    BY <1>6 DEF IInv, AbortsKnown
  <2>5. \A u \in Tasks : \A i \in Points : By(u, i)' => u # t /\ By(u, i)
    BY <1>4, <2>3
  <2> QED BY <1>2, <2>1, <2>2, <2>4, <2>5 DEF IInv, AbortsKnown, Points
<1>12. ReportedAtEnd'
  BY <1>2, <1>3 DEF IInv, ReportedAtEnd, AllEnded
<1> QED BY <1>4, <1>7, <1>8, <1>9, <1>10, <1>11, <1>12 DEF IInv

\* Equal parts of the suite's rest are apart and empty.
LEMMA LaunchOnPartsPreserves ==
  ASSUME IInv, LaunchOnParts
  PROVE  IInv'
<1> USE TestLogAssumption
<1> DEFINE parts == EqualParts(UnknownPart)
<1>1. /\ pc[Top] = "running" /\ \A s \in Subs : pc[s] = "none"
      /\ part' = [t \in Tasks |-> IF t = Top THEN part[t] ELSE parts[t]]
      /\ pc' = [t \in Tasks |-> IF t = Top THEN "ended" ELSE "launched"]
      /\ abortState' = (abortState \/ instance[Top])
      /\ UNCHANGED <<log, at, aborted, instance, count, report>>
  BY DEF LaunchOnParts
<1>2. Top \in Tasks /\ Subs = Tasks \ {Top}
  BY DEF Tasks
<1>3. UnknownPart \in SUBSET Points /\ \A i \in UnknownPart : ~Known(i)
  BY DEF UnknownPart, Known
<1>4. \A s, u \in Subs : /\ parts[s] \subseteq UnknownPart
                         /\ s # u => parts[s] \cap parts[u] = {}
  BY <1>3, PartsOfParts
<1> HIDE DEF parts
<1>5. /\ EntriesNamed' /\ ResultsCounted' /\ Results' = Results
      /\ \A i \in Points : Known(i)' <=> Known(i)
      /\ \A u \in Tasks, i \in Points : By(u, i)' <=> By(u, i)
  BY <1>1, EntriesKept
<1>6. /\ pc'[Top] = "ended" /\ part'[Top] = part[Top]
      /\ \A s \in Subs : pc'[s] = "launched" /\ part'[s] = parts[s]
  BY <1>1, <1>2
<1>7. TypeOK'
  <2>1. part' \in [Tasks -> SUBSET Points]
    BY <1>1, <1>2, <1>3, <1>4 DEF IInv, TypeOK
  <2>2. pc' \in [Tasks -> {"none", "launched", "running", "waiting", "ended"}]
    BY <1>1
  <2>3. abortState' \in BOOLEAN
    BY <1>1, <1>2 DEF IInv, TypeOK
  <2> QED BY <1>1, <2>1, <2>2, <2>3 DEF IInv, TypeOK
<1>8. AtFirstUnknown'
  BY <1>2, <1>6 DEF AtFirstUnknown
<1>9. FilledFromFront'
  <2>1. \A s \in Subs : \A i \in parts[s] : ~Known(i)'
    BY <1>3, <1>4, <1>5
  <2> QED BY <1>2, <1>6, <2>1 DEF FilledFromFront
<1>10. PartsApart'
  BY <1>2, <1>4, <1>6 DEF IInv, PartsApart, Active
<1>11. AbortsKnown'
  <2>1. \A s \in Subs : ~instance[s] /\ \A i \in Points : ~By(s, i)
    BY <1>1, <1>2 DEF IInv, AbortsKnown
  <2>2. \A i \in Points : By(Top, i) /\ log[i].abort => instance[Top] /\ aborted[Top]
    BY <1>2 DEF IInv, AbortsKnown
  <2>3. abortState \/ instance[Top] => \E i \in Points : log[i].abort
    BY <1>2 DEF IInv, AbortsKnown
  <2>4. \A u \in Tasks : \A i \in Points : By(u, i)' =>
          /\ pc'[u] \notin {"none", "launched"}
          /\ log[i].abort => instance[u] /\ aborted[u]
    BY <1>2, <1>5, <1>6, <2>1, <2>2
  <2>5. \A u \in Tasks : instance[u] =>
          /\ pc'[u] \notin {"none", "launched"}
          /\ \E i \in Points : log[i].abort
          /\ pc'[u] = "ended" => abortState'
    BY <1>1, <1>2, <1>6, <2>1, <2>3
  <2> QED BY <1>1, <2>3, <2>4, <2>5 DEF AbortsKnown, Points
<1>12. ReportedAtEnd'
  BY <1>1, <1>2 DEF IInv, ReportedAtEnd, AllEnded
<1> QED BY <1>5, <1>7, <1>8, <1>9, <1>10, <1>11, <1>12 DEF IInv

\* Sub-tasks that get the same part run one after the other.
LEMMA LaunchOnLogPreserves ==
  ASSUME IInv, LaunchOnLog
  PROVE  IInv'
<1> USE TestLogAssumption
<1>1. PICK S \in SUBSET {s \in Subs : pc[s] = "none"} :
        /\ pc' = [t \in Tasks |-> IF t \in S THEN "launched" ELSE IF t = Top THEN "waiting" ELSE pc[t]]
        /\ part' = [t \in Tasks |-> IF t \in S THEN part[Top] ELSE part[t]]
  BY DEF LaunchOnLog
<1>2. pc[Top] = "running" /\ UNCHANGED <<log, abortState, at, aborted, instance, count, report>>
  BY DEF LaunchOnLog
<1>3. Top \in Tasks /\ Subs = Tasks \ {Top} /\ S \subseteq Subs /\ Top \notin S
  BY DEF Tasks
<1>4. /\ EntriesNamed' /\ ResultsCounted' /\ Results' = Results
      /\ \A i \in Points : Known(i)' <=> Known(i)
      /\ \A u \in Tasks, i \in Points : By(u, i)' <=> By(u, i)
  BY <1>2, EntriesKept
<1>5. /\ pc'[Top] = "waiting" /\ part'[Top] = Points /\ part[Top] = Points
      /\ \A s \in S : pc[s] = "none" /\ pc'[s] = "launched" /\ part'[s] = Points
      /\ \A s \in Subs \ S : pc'[s] = pc[s] /\ part'[s] = part[s]
      /\ \A s \in Subs : ~Active(s) /\ pc[s] # "waiting"
  BY <1>1, <1>2, <1>3 DEF IInv, PartsApart, Active
<1>6. \A s \in Subs : Active(s)' => s \in S
  BY <1>5 DEF Active
<1>7. TypeOK'
  <2>1. part' \in [Tasks -> SUBSET Points]
    BY <1>1, <1>3 DEF IInv, TypeOK
  <2>2. pc' \in [Tasks -> {"none", "launched", "running", "waiting", "ended"}]
    BY <1>1 DEF IInv, TypeOK
  <2> QED BY <1>2, <2>1, <2>2 DEF IInv, TypeOK
<1>8. AtFirstUnknown'
  BY <1>3, <1>5, <1>6 DEF AtFirstUnknown, Active
<1>9. FilledFromFront'
  <2>1. \A i \in Points : Known(i) <=> i < at[Top]
    BY <1>2, <1>3, <1>5 DEF IInv, AtFirstUnknown
  <2>2. at[Top] \in Int /\ \A i \in Points : i \in Int
    BY <1>3 DEF IInv, TypeOK, Points
  <2>3. \A i, j \in Points : i < j /\ Known(j) => Known(i)
    BY <2>1, <2>2
  <2>4. \A t \in Tasks : pc'[t] \in {"launched", "waiting"} => part'[t] = Points
    BY <1>3, <1>5, <1>6 DEF Active
  <2> QED BY <1>2, <1>4, <1>5, <2>1, <2>3, <2>4 DEF FilledFromFront
<1>10. PartsApart'
  <2>1. \A t \in Tasks : Active(t)' => t \in S /\ part'[t] = Points /\ pc'[t] = "launched"
    BY <1>3, <1>5, <1>6 DEF Active
  <2> QED BY <1>3, <1>5, <2>1 DEF PartsApart, Active
<1>11. AbortsKnown'
  <2>1. \A s \in S : ~instance[s] /\ \A i \in Points : ~By(s, i)
    BY <1>3, <1>5 DEF IInv, AbortsKnown
  <2>2. \A t \in Tasks \ S : pc'[t] = pc[t] \/ t = Top
    BY <1>3, <1>5
  <2> QED BY <1>2, <1>4, <1>5, <2>1, <2>2 DEF IInv, AbortsKnown, Points
<1>12. ReportedAtEnd'
  BY <1>2, <1>3 DEF IInv, ReportedAtEnd, AllEnded
<1> QED BY <1>4, <1>7, <1>8, <1>9, <1>10, <1>11, <1>12 DEF IInv

\* The suite goes on behind what its sub-tasks have written.
LEMMA ResumePreserves ==
  ASSUME IInv, Resume
  PROVE  IInv'
<1> USE TestLogAssumption
<1>1. /\ pc[Top] = "waiting" /\ \A s \in Subs : pc[s] \in {"none", "ended"}
      /\ pc' = [pc EXCEPT ![Top] = "running"]
      /\ at' = [at EXCEPT ![Top] = GoToEnd(part[Top], at[Top])]
      /\ UNCHANGED <<log, abortState, part, aborted, instance, count, report>>
  BY DEF Resume
<1>2. Top \in Tasks /\ Subs = Tasks \ {Top}
  BY DEF Tasks
<1>3. /\ pc \in [Tasks -> {"none", "launched", "running", "waiting", "ended"}]
      /\ at \in [Tasks -> 0 .. Length] /\ part[Top] = Points
  BY DEF IInv, TypeOK, PartsApart
<1>4. /\ EntriesNamed' /\ ResultsCounted' /\ Results' = Results
      /\ \A i \in Points : Known(i)' <=> Known(i)
      /\ \A u \in Tasks, i \in Points : By(u, i)' <=> By(u, i)
  BY <1>1, EntriesKept
<1>5. /\ pc'[Top] = "running" /\ \A s \in Subs : pc'[s] = pc[s] /\ at'[s] = at[s]
  BY <1>1, <1>2, <1>3
<1>6. /\ at'[Top] \in Points \cup {Length}
      /\ \A i \in Points : Known(i) <=> i < at'[Top]
  <2> DEFINE from == at'[Top]
             S == {j \in Points : j >= at[Top] /\ log[j].state = "UNKNOWN"}
  <2>1. from \in S \cup {Length} /\ \A j \in S : from <= j
    <3>1. from = First(S)
      BY <1>1, <1>2, <1>3 DEF GoToEnd
    <3>2. S \in SUBSET Points
      OBVIOUS
    <3> HIDE DEF from, S
    <3> QED BY <3>1, <3>2, FirstIsLeast
  <2>2. \A i \in Points : i < at[Top] => Known(i)
    BY <1>1 DEF IInv, FilledFromFront
  <2>3. at[Top] \in Nat /\ \A i \in Points : i \in Nat /\ i < Length
    BY <1>2, <1>3 DEF Points
  <2>4. S = {j \in Points : ~Known(j)}
    BY <2>2, <2>3 DEF Known
  <2>5. \A i, j \in Points : i < j /\ Known(j) => Known(i)
    BY <1>1, <1>2, <1>3 DEF IInv, FilledFromFront
  <2> HIDE DEF from, S
  <2>6. ASSUME NEW i \in Points, ~Known(i) PROVE ~(i < from)
    BY <2>1, <2>3, <2>4, <2>6
  <2>7. ASSUME NEW i \in Points, Known(i) PROVE i < from
    <3>1. CASE from = Length
      BY <3>1, <2>3
    <3>2. CASE from \in S
      <4>1. from \in Points /\ ~Known(from) /\ i # from
        BY <3>2, <2>4, <2>7
      <4>2. ~(from < i)
        BY <4>1, <2>5, <2>7
      <4> QED BY <4>1, <4>2, <2>3
    <3> QED BY <2>1, <3>1, <3>2
  <2> QED BY <2>1, <2>4, <2>6, <2>7 DEF from
<1>7. TypeOK'
  <2>1. at'[Top] \in 0 .. Length
    BY <1>6 DEF Points
  <2>2. at' \in [Tasks -> 0 .. Length]
    BY <2>1, <1>1, <1>2, <1>3
  <2>3. pc' \in [Tasks -> {"none", "launched", "running", "waiting", "ended"}]
    BY <1>1, <1>3
  <2> QED BY <1>1, <2>2, <2>3 DEF IInv, TypeOK
<1>8. AtFirstUnknown'
  <2>1. \A t \in Tasks : pc'[t] = "running" => t = Top
    BY <1>1, <1>2, <1>5
  <2> QED BY <1>1, <1>3, <1>4, <1>6, <2>1 DEF AtFirstUnknown
<1>9. FilledFromFront'
  BY <1>1, <1>2, <1>5 DEF FilledFromFront
<1>10. PartsApart'
  BY <1>1, <1>2, <1>5 DEF IInv, PartsApart, Active
<1>11. AbortsKnown'
  <2>1. \A t \in Tasks : pc'[t] = pc[t] \/ (t = Top /\ pc'[t] = "running")
    BY <1>2, <1>5
  <2> QED BY <1>1, <1>4, <2>1 DEF IInv, AbortsKnown, Points
<1>12. ReportedAtEnd'
  BY <1>1, <1>2 DEF IInv, ReportedAtEnd, AllEnded
<1> QED BY <1>4, <1>7, <1>8, <1>9, <1>10, <1>11, <1>12 DEF IInv

\* A task that ends folds what it knows of an abort into the state.
LEMMA EndPreserves ==
  ASSUME IInv, NEW t \in Tasks, End(t)
  PROVE  IInv'
<1> USE TestLogAssumption
<1>1. /\ pc[t] = "running" /\ pc' = [pc EXCEPT ![t] = "ended"]
      /\ abortState' = (abortState \/ instance[t])
      /\ UNCHANGED <<log, part, at, aborted, instance, count, report>>
  BY DEF End
<1>2. Top \in Tasks /\ Subs = Tasks \ {Top}
  BY DEF Tasks
<1>3. /\ pc \in [Tasks -> {"none", "launched", "running", "waiting", "ended"}]
      /\ instance \in [Tasks -> BOOLEAN] /\ abortState \in BOOLEAN
  BY DEF IInv, TypeOK
<1>4. /\ EntriesNamed' /\ ResultsCounted' /\ Results' = Results
      /\ \A i \in Points : Known(i)' <=> Known(i)
      /\ \A u \in Tasks, i \in Points : By(u, i)' <=> By(u, i)
  BY <1>1, EntriesKept
<1>5. pc'[t] = "ended" /\ \A u \in Tasks : u # t => pc'[u] = pc[u]
  BY <1>1, <1>3
<1>6. TypeOK'
  BY <1>1, <1>3 DEF IInv, TypeOK
<1>7. AtFirstUnknown'
  <2> SUFFICES ASSUME NEW u \in Tasks, pc'[u] = "running"
               PROVE  /\ at[u] \in part[u] \cup {Length}
                      /\ \A i \in part[u] : Known(i)' <=> i < at[u]
    BY <1>1 DEF AtFirstUnknown
  <2>1. pc[u] = "running" /\ part[u] \in SUBSET Points
    BY <1>5 DEF IInv, TypeOK
  <2> QED BY <2>1, <1>4 DEF IInv, AtFirstUnknown
<1>8. FilledFromFront'
  <2>1. \A u \in Tasks : \A i \in part[u] : Known(i)' <=> Known(i)
    BY <1>4 DEF IInv, TypeOK
  <2> QED BY <1>1, <1>2, <1>4, <1>5, <2>1 DEF IInv, FilledFromFront
<1>9. PartsApart'
  BY <1>1, <1>2, <1>5 DEF IInv, PartsApart, Active
<1>10. AbortsKnown'
  <2>1. instance[t] => \E i \in Points : log[i].abort
    BY DEF IInv, AbortsKnown
  <2>2. \A u \in Tasks : pc'[u] \in {"none", "launched"} => pc[u] \in {"none", "launched"}
    BY <1>5
  <2> QED BY <1>1, <1>4, <1>5, <2>1, <2>2 DEF IInv, AbortsKnown, Points
<1>11. ReportedAtEnd'
  BY <1>1 DEF IInv, ReportedAtEnd, AllEnded
<1> QED BY <1>4, <1>6, <1>7, <1>8, <1>9, <1>10, <1>11 DEF IInv

\* The report has the results of the log.
LEMMA ReportPreserves ==
  ASSUME IInv, Report
  PROVE  IInv' /\ Promise!Report
<1>1. /\ AllEnded /\ report = <<>> /\ report' = Lines
      /\ UNCHANGED <<log, abortState, pc, part, at, aborted, instance, count>>
  BY DEF Report
<1>2. /\ EntriesNamed' /\ ResultsCounted' /\ Results' = Results
      /\ \A i \in Points : Known(i)' <=> Known(i)
      /\ \A u \in Tasks, i \in Points : By(u, i)' <=> By(u, i)
  BY <1>1, EntriesKept
<1> DEFINE K == {i \in Points : log[i].state # "UNKNOWN"}
<1>3. Lines = [i \in K |-> log[i]]
  BY DEF Lines
<1>4. TypeOK'
  BY <1>1, <1>3 DEF IInv, TypeOK
<1>5. AtFirstUnknown' /\ FilledFromFront'
  <2>1. \A u \in Tasks : \A i \in part[u] : Known(i)' <=> Known(i)
    BY <1>2 DEF IInv, TypeOK
  <2> QED BY <1>1, <1>2, <2>1 DEF IInv, AtFirstUnknown, FilledFromFront, Points
<1>6. PartsApart'
  BY <1>1 DEF IInv, PartsApart, Active
<1>7. AbortsKnown'
  BY <1>1, <1>2 DEF IInv, AbortsKnown, Points
<1>8. ReportedAtEnd'
  BY <1>1 DEF ReportedAtEnd, AllEnded
<1>9. {ResultOf(report'[k]) : k \in DOMAIN report'} = Results
  <2>1. K = {i \in Points : log[i].name # NoName}
    BY DEF IInv, EntriesNamed, Known
  <2> HIDE DEF K
  <2>2. DOMAIN report' = K /\ \A k \in K : report'[k] = log[k]
    BY <1>1, <1>3
  <2>3. {ResultOf(report'[k]) : k \in DOMAIN report'} = {ResultOf(log[k]) : k \in K}
    BY <2>2
  <2> QED BY <2>1, <2>3 DEF Results
<1>10. {ResultOf(report[k]) : k \in DOMAIN report} = {}
  BY <1>1
<1>11. Promise!Report
  BY <1>2, <1>9, <1>10 DEF Promise!Report, Results, ResultOf
<1> QED BY <1>2, <1>4, <1>5, <1>6, <1>7, <1>8, <1>11 DEF IInv

-----------------------------------------------------------------------------
\* Every step preserves the invariant and is one of TestReport, or none to it.
LEMMA StepHolds ==
  ASSUME IInv, Careful, [Next]_vars
  PROVE  IInv' /\ [Promise!Next]_(Promise!vars)
<1>1. ASSUME NEW t \in Tasks, NEW r \in Outcomes, Recording(t), Append1(t, r)
      PROVE  IInv' /\ [Promise!Next]_(Promise!vars)
  BY <1>1, AppendPreserves DEF Promise!Next
<1>2. ASSUME UNCHANGED <<log, report>> PROVE UNCHANGED Promise!vars
  BY <1>2 DEF Promise!vars, ResultOf
<1>3. CASE \E t \in Tasks : Start(t)
  BY <1>2, <1>3, StartPreserves DEF Start
<1>4. CASE \E t \in Tasks : ExpectValue(t)
  <2>1. PICK t \in Tasks : ExpectValue(t)
    BY <1>4
  <2>2. PICK op \in {"or", "and", "eq"}, l \in Atoms, r \in Atoms,
             expected \in {"TRUE", "FALSE"}, assert \in BOOLEAN :
          Append1(t, ExpectBool(aborted[t], Evaluated(op, l, r), expected, assert))
    BY <2>1 DEF ExpectValue
  <2>3. aborted[t] \in BOOLEAN
    BY DEF IInv, TypeOK
  <2> QED BY <2>1, <2>2, <2>3, <1>1, OutcomesOfTests DEF ExpectValue
<1>5. CASE \E t \in Tasks : ExpectException(t)
  BY <1>1, <1>5, OutcomesOfTests DEF ExpectException
<1>6. CASE \E t \in Tasks : AppendResult(t)
  <2>1. PICK t \in Tasks, state \in Recorded, abort \in BOOLEAN :
          Recording(t) /\ Append1(t, Outcome(state, abort))
    BY <1>6 DEF AppendResult, Recorded
  <2> QED BY <2>1, <1>1, OutcomesOfTests
<1>7. CASE \E t \in Tasks : End(t)
  BY <1>2, <1>7, EndPreserves DEF End
<1>8. CASE LaunchOnParts
  BY <1>2, <1>8, LaunchOnPartsPreserves DEF LaunchOnParts
<1>9. CASE LaunchOnLog
  BY <1>2, <1>9, LaunchOnLogPreserves DEF LaunchOnLog
<1>10. CASE Resume
  BY <1>2, <1>10, ResumePreserves DEF Resume
<1>11. CASE Report
  BY <1>11, ReportPreserves DEF Promise!Next
<1>12. CASE UNCHANGED vars
  <2>1. UNCHANGED <<log, count>> /\ UNCHANGED <<log, report>>
    BY <1>12 DEF vars
  <2>2. EntriesNamed' /\ ResultsCounted' /\ \A i \in Points : Known(i)' <=> Known(i)
    BY <2>1, EntriesKept
  <2>3. \A u \in Tasks : \A i \in part[u] : Known(i)' <=> Known(i)
    BY <2>2 DEF IInv, TypeOK
  <2>4. AtFirstUnknown' /\ FilledFromFront'
    BY <1>12, <2>2, <2>3 DEF vars, IInv, AtFirstUnknown, FilledFromFront, Points
  <2>5. TypeOK' /\ PartsApart' /\ ReportedAtEnd'
    BY <1>12 DEF vars, IInv, TypeOK, PartsApart, Active, ReportedAtEnd, AllEnded
  <2>6. AbortsKnown'
    BY <1>12, <2>2 DEF vars, IInv, AbortsKnown, By, Points
  <2> QED BY <1>2, <2>1, <2>2, <2>4, <2>5, <2>6 DEF IInv
<1> QED BY <1>3, <1>4, <1>5, <1>6, <1>7, <1>8, <1>9, <1>10, <1>11, <1>12 DEF Next

\* The invariant, for sub-tasks that call update_position.
THEOREM InvariantHolds == Careful => (Spec => []IInv)
<1> SUFFICES ASSUME Careful PROVE Spec => []IInv
  OBVIOUS
<1>1. Init => IInv
  BY InitHolds
<1>2. IInv /\ [Next]_vars => IInv'
  BY StepHolds
<1> QED BY <1>1, <1>2, PTL DEF Spec

\* The log implements the report that tests rely on: no result is lost or
\* overwritten, none that follows an abort of its task counts, and all are told.
\* Code: TestRecorder.h:48-64 and the launches of utTestLog.cc and utTable.cc.
THEOREM PromiseKept == Careful => (Spec => KeepsPromise)
<1> SUFFICES ASSUME Careful PROVE Spec => KeepsPromise
  OBVIOUS
<1>1. Init => Promise!Init
  BY InitHolds
<1>2. IInv /\ [Next]_vars => [Promise!Next]_(Promise!vars)
  BY StepHolds
<1>3. Spec => []IInv
  BY InvariantHolds
<1> QED BY <1>1, <1>2, <1>3, PTL DEF Spec, KeepsPromise, Promise!Spec

\* At the end the abort state says whether some entry aborts, though it is only
\* folded from reductions of tasks that may have started from one another's.
\* Code: TestLog.h:692 and TestLog.cc:137-316.
THEOREM AbortTold == Careful => (Spec => []AbortToldByEntries)
<1> SUFFICES ASSUME Careful PROVE Spec => []AbortToldByEntries
  OBVIOUS
<1>1. IInv => AbortToldByEntries
  <2> SUFFICES ASSUME IInv, AllEnded
               PROVE  abortState <=> \E i \in Points : log[i].abort
    BY DEF AbortToldByEntries
  <2>1. ASSUME NEW i \in Points, log[i].abort PROVE abortState
    <3>1. Known(i) /\ log[i].name # NoName
      BY <2>1 DEF IInv, EntriesNamed
    <3>2. log[i].name \in Tasks \X Nat
      BY <3>1 DEF IInv, TypeOK
    <3>3. PICK t \in Tasks : By(t, i)
      BY <3>1, <3>2 DEF By
    <3>4. instance[t]
      BY <2>1, <3>3 DEF IInv, AbortsKnown
    <3>5. pc[t] = "ended"
      BY <3>4 DEF IInv, AbortsKnown, AllEnded
    <3> QED BY <3>4, <3>5 DEF IInv, AbortsKnown
  <2> QED BY <2>1 DEF IInv, AbortsKnown
<1>2. Spec => []IInv
  BY InvariantHolds
<1> QED BY <1>1, <1>2, PTL

=============================================================================

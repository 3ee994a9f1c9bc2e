------------------------ MODULE Requirements_proofs ------------------------
(***************************************************************************)
(* Table::requirements hands each partition that it makes to its caller,   *)
(* once, and a launch names none that is gone; for tables of any number of *)
(* columns, and any requests.                                              *)
(*                                                                         *)
(* The partitions are told apart by their places on record (PlacesTold),   *)
(* so that what is returned, a part of the record, has none twice; what is *)
(* alive is what was made (MadeAreLive) and then what the caller still     *)
(* holds (HeldAreLive); and a requirement names a partition off the record *)
(* or one of the caller's (NamedAreLive).                                  *)
(***************************************************************************)
EXTENDS Requirements, Lemmas, TLAPS

Space == Region \cup {Index}
Partition == [of : Space, nr : Nat]

\* Partitions that a Table does not make.
Foreign == {NoPart, TablePart} \cup {OwnPart(n) : n \in Column}

OnRecord ==
  /\ cols \in Tables
  /\ call \in Calls
  /\ phase \in {"collect", "gather", "emit", "create", "deserialize", "done", "aborted"}
  /\ partitions \in Seq([region : Space, part : Partition \cup {TablePart}, isNew : BOOLEAN])
  /\ phase = "collect" => partitions = <<>> /\ DOMAIN valReqs = {}
  /\ phase = "emit" => reqs \in Seq(ToSet(reqs))

PlacesTold ==
  \A i \in DOMAIN partitions :
    IF partitions[i].isNew
    THEN partitions[i].part = [of |-> partitions[i].region, nr |-> i]
    ELSE partitions[i].part \in Foreign

MadeAreLive ==
  /\ phase = "collect" => live = {}
  /\ phase = "gather" =>
       live = {partitions[i].part : i \in {j \in DOMAIN partitions : partitions[j].isNew}}

HeldAreLive ==
  IF phase \in {"collect", "gather", "aborted"}
  THEN DOMAIN returned = {}
  ELSE IsInjective(returned) /\ ToSet(returned) = live

NamedAreLive ==
  /\ phase \in {"gather", "emit"} =>
       \A k \in DOMAIN valReqs : valReqs[k].part \in Foreign \cup live
  /\ phase = "emit" =>
       /\ \A n \in Selected : Known(n)
       /\ \A i \in DOMAIN reqs :
            reqs[i].kind \in {"values", "index"} => reqs[i].part \in Foreign \cup live

Handed == PlacesTold /\ MadeAreLive /\ HeldAreLive /\ NamedAreLive

IInv == OnRecord /\ (Keeps => Handed)

-----------------------------------------------------------------------------
(***************************************************************************)
(* Columns and their partitions.                                           *)
(***************************************************************************)

\* The loops take a column.
LEMMA Numbered ==
  ASSUME NEW S \in SUBSET Column, S # {}
  PROVE  Min(S) \in S
BY MinIsLeast, RequirementsAssumption DEF Column

\* What the loops read of a column.
LEMMA ColumnKnown ==
  ASSUME OnRecord, NEW n \in Column
  PROVE  /\ cols[n].region \in Region
         /\ cols[n].extras \in Seq(STRING \ {"index", "metadata", "values"})
         /\ OwnPart(n) \in Partition
BY RequirementsAssumption DEF OnRecord, OwnPart, Partition, Space

\* A key names no partition, or the column's own.
LEMMA KeyPart ==
  ASSUME NEW n
  PROVE  Key(n)[3] \in {NoPart, OwnPart(n)}
BY DEF Key

\* The second loop: where the partition of a requirement comes from.
LEMMA PartFound ==
  ASSUME OnRecord, Keeps, Handed, phase = "gather", NEW n \in Column, ~Known(n)
  PROVE  \/ PartFor(n) \in Foreign \cup live /\ (Serving(n) # {} \/ PartFor(n) = NoPart)
         \/ PartFor(n) = OwnPart(n) /\ Serving(n) = {}
         \/ PartFor(n) = Projected(cols[n].region) /\ Serving(n) = {}
<1>1. CASE call.over = "none" /\ Key(n)[3] = NoPart
  BY <1>1 DEF PartFor, Foreign
<1>2. CASE ~(call.over = "none" /\ Key(n)[3] = NoPart) /\ Serving(n) # {}
  <2> DEFINE i == Min(Serving(n))
  <2>1. DOMAIN partitions \subseteq Nat
    BY DEF OnRecord
  <2>2. i \in DOMAIN partitions
    <3>1. Serving(n) \in SUBSET Nat /\ Serving(n) \subseteq DOMAIN partitions
      BY <2>1 DEF Serving
    <3> QED BY <1>2, <3>1, MinIsLeast
  <2>3. PartFor(n) = partitions[i].part
    BY <1>2 DEF PartFor
  <2> HIDE DEF i
  <2>4. partitions[i].part \in Foreign \cup live
    BY <2>2 DEF Handed, PlacesTold, MadeAreLive, OnRecord
  <2> QED BY <1>2, <2>3, <2>4
<1>3. CASE ~(call.over = "none" /\ Key(n)[3] = NoPart) /\ Serving(n) = {}
  BY <1>3, KeyPart DEF PartFor
<1> QED BY <1>1, <1>2, <1>3

-----------------------------------------------------------------------------
(***************************************************************************)
(* The steps of the sender.                                                *)
(***************************************************************************)

\* Before the walk, nothing is on record.
LEMMA InitEstablishes ==
  ASSUME Init
  PROVE  IInv
<1>1. OnRecord
  BY DEF Init, OnRecord
<1>2. DOMAIN returned = {} /\ DOMAIN partitions = {} /\ DOMAIN valReqs = {}
  BY DEF Init
<1> QED BY <1>1, <1>2 DEF Init, IInv, Handed, PlacesTold, MadeAreLive, HeldAreLive, NamedAreLive

\* At most the partition of the index column is on record.
LEMMA CollectKeeps ==
  ASSUME IInv, Collect
  PROVE  IInv'
<1> DEFINE E == [region : Space, part : Partition \cup {TablePart}, isNew : BOOLEAN]
<1>1. call \in Calls /\ call.over \in {"none", "index", "other"}
  BY RequirementsAssumption DEF IInv, OnRecord
<1>2. partitions = <<>> /\ Projected(Index) = [of |-> Index, nr |-> 1]
  BY DEF IInv, OnRecord, Collect, Projected
<1>3. TablePart # Projected(Index) /\ Projected(Index) \in Partition /\ Index \in Space
  BY <1>2, RequirementsAssumption DEF Partition, Space
<1>4. /\ Entry(Index, TablePart) = [region |-> Index, part |-> TablePart, isNew |-> FALSE]
      /\ Keeps => Entry(Index, Projected(Index))
                    = [region |-> Index, part |-> Projected(Index), isNew |-> TRUE]
      /\ Entry(Index, TablePart) \in E /\ Entry(Index, Projected(Index)) \in E
  BY <1>3 DEF Entry
<1>5. partitions' \in Seq(E)
  <2>1. CASE call.over = "none"
    <3>1. partitions' = <<>>
      BY <2>1 DEF Collect
    <3> HIDE DEF E
    <3>2. <<>> \in Seq(E)
      OBVIOUS
    <3> QED BY <3>1, <3>2, Zenon
  <2>2. CASE call.over # "none"
    <3>1. \/ partitions' = <<Entry(Index, TablePart)>>
          \/ partitions' = <<Entry(Index, Projected(Index))>>
      BY <2>2 DEF Collect
    <3> HIDE DEF E
    <3>2. \A e \in E : <<e>> \in Seq(E)
      OBVIOUS
    <3> QED BY <3>1, <3>2, <1>4, Zenon
  <2> QED BY <2>1, <2>2
<1>6. OnRecord'
  BY <1>5 DEF IInv, OnRecord, Collect
<1>7. ASSUME Keeps PROVE PlacesTold' /\ MadeAreLive'
  <2>1. CASE call.over = "none"
    <3>1. DOMAIN partitions' = {} /\ live' = {} /\ phase' = "gather"
      BY <2>1 DEF Collect
    <3> QED BY <3>1 DEF PlacesTold, MadeAreLive
  <2>2. CASE call.over = "index"
    <3>1. partitions' = <<[region |-> Index, part |-> TablePart, isNew |-> FALSE]>>
      BY <2>2, <1>4 DEF Collect
    <3>2. DOMAIN partitions' = {1} /\ live' = {} /\ phase' = "gather"
      BY <3>1, <2>2 DEF Collect
    <3> QED BY <3>1, <3>2 DEF PlacesTold, MadeAreLive, Foreign
  <2>3. CASE call.over = "other"
    <3>1. partitions' = <<[region |-> Index, part |-> [of |-> Index, nr |-> 1], isNew |-> TRUE]>>
      BY <2>3, <1>2, <1>4, <1>7 DEF Collect
    <3>2. /\ DOMAIN partitions' = {1} /\ phase' = "gather"
          /\ live' = {[of |-> Index, nr |-> 1]}
      BY <3>1, <2>3, <1>2, <1>7 DEF Collect, Made
    <3> QED BY <3>1, <3>2 DEF PlacesTold, MadeAreLive
  <2> QED BY <1>1, <2>1, <2>2, <2>3
<1>8. ASSUME Keeps PROVE HeldAreLive' /\ NamedAreLive'
  <2>1. DOMAIN valReqs = {}
    BY DEF IInv, OnRecord, Collect
  <2> QED BY <1>8, <2>1 DEF IInv, Handed, HeldAreLive, NamedAreLive, Collect
<1>9. Keeps' <=> Keeps
  BY DEF Collect, Keeps
<1> QED BY <1>6, <1>7, <1>8, <1>9 DEF IInv, Handed

\* A requirement that joins known ones has their partition; for a new one the
\* second loop has found a partition, which it may have to put on record.
LEMMA GatherKeeps ==
  ASSUME IInv, Gather
  PROVE  IInv'
<1> DEFINE n == Min(Ungathered)
           key == Key(n)
           part == IF Known(n) THEN valReqs[key].part ELSE PartFor(n)
           fresh == ~Known(n) /\ part # NoPart /\ Serving(n) = {}
           E == [region : Space, part : Partition \cup {TablePart}, isNew : BOOLEAN]
           entry == Entry(cols[n].region, part)
<1>1. n \in Column
  BY Numbered DEF Gather, Ungathered, Selected
<1>2. /\ phase = "gather" /\ phase' = "gather"
      /\ UNCHANGED <<cols, call, colReqs, returned, reqs>>
      /\ partitions' = IF fresh THEN Append(partitions, entry) ELSE partitions
      /\ live' = IF fresh /\ part = Projected(cols[n].region)
                 THEN live \cup Made(part) ELSE live
      /\ DOMAIN valReqs' = DOMAIN valReqs \cup {key}
      /\ \A k \in DOMAIN valReqs' :
           valReqs'[k].part = IF k # key THEN valReqs[k].part ELSE part
  BY DEF Gather
<1> HIDE DEF n
<1>3. ~Known(n) => part = PartFor(n)
  OBVIOUS
<1>4. Known(n) => part = valReqs[key].part /\ ~fresh
  OBVIOUS
<1> HIDE DEF key
<1>5. /\ partitions \in Seq(E)
      /\ Len(partitions) \in Nat /\ DOMAIN partitions = 1 .. Len(partitions)
  BY DEF IInv, OnRecord
<1>6. /\ OwnPart(n) \in Partition /\ Projected(cols[n].region) \in Partition
      /\ Projected(cols[n].region) = [of |-> cols[n].region, nr |-> Len(partitions) + 1]
      /\ OwnPart(n) # Projected(cols[n].region)
      /\ cols[n].region \in Space
      /\ OwnPart(n) \in Foreign
  BY <1>1, <1>5, ColumnKnown DEF IInv, Projected, OwnPart, Partition, Space, Foreign
<1>7. OnRecord' /\ (Keeps' <=> Keeps)
  <2>1. CASE ~fresh
    BY <1>2, <2>1 DEF IInv, OnRecord, Keeps
  <2>2. CASE fresh
    <3>1. part \in Partition
      <4>1. part \in {OwnPart(n), Projected(cols[n].region)}
        BY <1>3, <2>2, KeyPart DEF PartFor
      <4> QED BY <4>1, <1>6
    <3>2. entry \in E
      BY <3>1, <1>6 DEF Entry, Keeps
    <3>3. Append(partitions, entry) \in Seq(E)
      <4> HIDE DEF E, entry
      <4> QED BY <3>2, <1>5
    <3> QED BY <1>2, <2>2, <3>3 DEF IInv, OnRecord, Keeps
  <2> QED BY <2>1, <2>2
<1>8. ASSUME Keeps PROVE Handed'
  <2>1. Handed /\ OnRecord
    BY <1>8 DEF IInv
  <2>2. CASE ~fresh
    <3>1. partitions' = partitions /\ live' = live
      BY <1>2, <2>2
    <3>2. part \in Foreign \cup live
      <4>1. CASE Known(n)
        BY <4>1, <1>2, <1>4, <2>1 DEF Handed, NamedAreLive, Known, key
      <4>2. CASE ~Known(n)
        BY <4>2, <1>1, <1>2, <1>3, <1>8, <2>1, <2>2, PartFound DEF Foreign
      <4> QED BY <4>1, <4>2
    <3> HIDE DEF part
    <3>3. PlacesTold' /\ MadeAreLive' /\ HeldAreLive'
      BY <1>2, <2>1, <3>1 DEF Handed, PlacesTold, MadeAreLive, HeldAreLive, Foreign, OwnPart
    <3>4. NamedAreLive'
      BY <1>2, <2>1, <3>1, <3>2 DEF Handed, NamedAreLive, Foreign, OwnPart
    <3> QED BY <3>3, <3>4 DEF Handed
  <2>3. CASE fresh
    <3> DEFINE last == Len(partitions) + 1
    <3>1. /\ last \notin DOMAIN partitions
          /\ DOMAIN partitions' = DOMAIN partitions \cup {last}
          /\ partitions'[last] = entry
          /\ \A i \in DOMAIN partitions : partitions'[i] = partitions[i]
      <4> HIDE DEF E, entry
      <4> QED BY <1>2, <1>5, <2>3
    <3> HIDE DEF fresh
    <3>2. CASE part = Projected(cols[n].region)
      <4>1. /\ entry = [region |-> cols[n].region, part |-> part, isNew |-> TRUE]
            /\ live' = live \cup {part}
            /\ part = [of |-> cols[n].region, nr |-> last]
        BY <1>2, <1>6, <1>8, <2>3, <3>2 DEF Entry, Made
      <4> HIDE DEF part, entry, last
      <4>2. PlacesTold'
        BY <1>2, <2>1, <3>1, <4>1 DEF Handed, PlacesTold, Foreign, OwnPart
      <4>3. MadeAreLive'
        <5> DEFINE new == {j \in DOMAIN partitions : partitions[j].isNew}
        <5>1. {j \in DOMAIN partitions' : partitions'[j].isNew} = new \cup {last}
          BY <3>1, <4>1
        <5>2. \A j \in new : partitions'[j].part = partitions[j].part
          BY <3>1
        <5>3. live = {partitions[i].part : i \in new}
          BY <1>2, <2>1 DEF Handed, MadeAreLive
        <5>4. partitions'[last].part = part
          BY <3>1, <4>1
        <5> HIDE DEF new
        <5>5. live' = {partitions'[i].part : i \in new \cup {last}}
          BY <4>1, <5>2, <5>3, <5>4
        <5> QED BY <1>2, <5>1, <5>5 DEF MadeAreLive
      <4>4. HeldAreLive' /\ NamedAreLive'
        BY <1>2, <2>1, <4>1 DEF Handed, HeldAreLive, NamedAreLive, Foreign, OwnPart
      <4> QED BY <4>2, <4>3, <4>4 DEF Handed
    <3>3. CASE part # Projected(cols[n].region)
      <4>1. part = OwnPart(n)
        BY <1>3, <2>3, <3>3, KeyPart DEF PartFor, fresh
      <4>2. /\ entry = [region |-> cols[n].region, part |-> part, isNew |-> FALSE]
            /\ live' = live /\ part \in Foreign
        BY <1>2, <1>6, <1>8, <3>3, <4>1 DEF Entry
      <4> HIDE DEF part, entry, last
      <4>3. PlacesTold'
        BY <1>2, <2>1, <3>1, <4>2 DEF Handed, PlacesTold, Foreign, OwnPart
      <4>4. MadeAreLive'
        <5> DEFINE new == {j \in DOMAIN partitions : partitions[j].isNew}
        <5>1. {j \in DOMAIN partitions' : partitions'[j].isNew} = new
          BY <3>1, <4>2
        <5>2. \A j \in new : partitions'[j].part = partitions[j].part
          BY <3>1
        <5>3. live = {partitions[i].part : i \in new}
          BY <1>2, <2>1 DEF Handed, MadeAreLive
        <5> HIDE DEF new
        <5>4. live' = {partitions'[i].part : i \in new}
          BY <4>2, <5>2, <5>3
        <5> QED BY <1>2, <5>1, <5>4 DEF MadeAreLive
      <4>5. HeldAreLive' /\ NamedAreLive'
        BY <1>2, <2>1, <4>2 DEF Handed, HeldAreLive, NamedAreLive, Foreign, OwnPart
      <4> QED BY <4>3, <4>4, <4>5 DEF Handed
    <3> QED BY <3>2, <3>3
  <2> QED BY <2>2, <2>3
<1> QED BY <1>7, <1>8 DEF IInv

\* What is returned has none twice, as a partition knows its place.
LEMMA BeginKeeps ==
  ASSUME IInv, Begin
  PROVE  IInv'
<1> DEFINE new == {j \in DOMAIN partitions : partitions[j].isNew}
<1>1. /\ phase = "gather" /\ phase' = "emit"
      /\ reqs' = IndexReqs /\ returned' = Returned
      /\ UNCHANGED <<cols, call, colReqs, partitions, valReqs, live>>
      /\ Ungathered = {}
  BY DEF Begin, sender
<1>3. reqs' \in Seq(ToSet(reqs'))
  <2>1. \E a, b : reqs' = <<a, b>>
    BY <1>1 DEF IndexReqs
  <2>2. PICK a, b : reqs' = <<a, b>>
    BY <2>1
  <2>3. reqs' \in Seq({a, b})
    BY <2>2
  <2> QED BY <2>3, ListOfItsOwn
<1>4. OnRecord' /\ (Keeps' <=> Keeps)
  BY <1>1, <1>3 DEF IInv, OnRecord, Keeps
<1>5. ASSUME Keeps PROVE HeldAreLive'
  <2>1. DOMAIN returned' = new /\ \A i \in new : returned'[i] = partitions[i].part
    BY <1>1 DEF Returned
  <2>2. ToSet(returned') = {partitions[i].part : i \in new}
    BY <2>1 DEF ToSet
  <2>3. live' = {partitions[i].part : i \in new}
    BY <1>1, <1>5 DEF IInv, Handed, MadeAreLive
  <2>4. \A i \in new : partitions[i].part = [of |-> partitions[i].region, nr |-> i]
    BY <1>5 DEF IInv, Handed, PlacesTold
  <2>5. \A i \in new : partitions[i].part.nr = i
    <3> HIDE DEF new
    <3> SUFFICES ASSUME NEW i \in new PROVE partitions[i].part.nr = i
      OBVIOUS
    <3>1. partitions[i].part = [of |-> partitions[i].region, nr |-> i]
      BY <2>4
    <3> QED BY <3>1
  <2>6. IsInjective(returned')
    BY <2>1, <2>5 DEF IsInjective
  <2> QED BY <1>1, <2>2, <2>3, <2>6 DEF HeldAreLive
<1>6. ASSUME Keeps PROVE NamedAreLive'
  <2>1. \A n \in Selected : Known(n)
    BY <1>1 DEF Ungathered
  <2>2. (\A n \in Selected : Known(n))'
    BY <1>1, <2>1 DEF Selected, Known, Key, Keeps, OwnPart
  <2>3. \A i \in DOMAIN partitions : partitions[i].part \in Foreign \cup live
    BY <1>1, <1>6 DEF IInv, Handed, PlacesTold, MadeAreLive
  <2>4. partitions # <<>> => 1 \in DOMAIN partitions
    BY DEF IInv, OnRecord
  <2>5. \A i \in DOMAIN reqs' :
          reqs'[i].kind \in {"values", "index"} => reqs'[i].part \in Foreign \cup live
    <3>1. DOMAIN reqs' = {1, 2} /\ reqs'[1].kind = "index_metadata"
          /\ reqs'[2].part = IF partitions = <<>> THEN NoPart ELSE partitions[1].part
      BY <1>1 DEF IndexReqs
    <3> QED BY <2>3, <2>4, <3>1 DEF Foreign
  <2>6. \A k \in DOMAIN valReqs : valReqs[k].part \in Foreign \cup live
    BY <1>1, <1>6 DEF IInv, Handed, NamedAreLive
  <2> QED BY <1>1, <2>2, <2>5, <2>6 DEF NamedAreLive, Foreign, OwnPart
<1>7. ASSUME Keeps PROVE PlacesTold' /\ MadeAreLive'
  BY <1>1, <1>7 DEF IInv, Handed, PlacesTold, MadeAreLive, Foreign, OwnPart
<1> QED BY <1>4, <1>5, <1>6, <1>7 DEF IInv, Handed

\* A column adds requirements over the partition that was found for it.
LEMMA EmitKeeps ==
  ASSUME IInv, Emit
  PROVE  IInv'
<1> DEFINE n == Min(Unsent)
<1>1. n \in Selected /\ n \in Column
  BY Numbered DEF Emit, Unsent, Selected
<1>2. /\ phase = "emit" /\ phase' = "emit"
      /\ reqs' = reqs \o Pushed(n)
      /\ UNCHANGED <<cols, call, colReqs, partitions, valReqs, live, returned>>
  BY DEF Emit, sender
<1> HIDE DEF n
<1>3. reqs \in Seq(ToSet(reqs))
  BY <1>2 DEF IInv, OnRecord
<1> DEFINE S == {Metadata(n), Values(n)} \cup ToSet(Extra(n))
<1>4. Extra(n) \in Seq(ToSet(Extra(n))) /\ \A e \in ToSet(Extra(n)) : e.kind \notin {"values", "index"}
  <2>1. cols[n].extras \in Seq(STRING \ {"index", "metadata", "values"})
    BY <1>1, ColumnKnown DEF IInv
  <2> DEFINE L == Len(cols[n].extras)
  <2>2. L \in Nat /\ DOMAIN cols[n].extras = 1 .. L
    BY <2>1
  <2>3. /\ DOMAIN Extra(n) = 1 .. L
        /\ \A i \in 1 .. L : /\ Extra(n)[i].kind = cols[n].extras[i]
                             /\ cols[n].extras[i] \notin {"index", "values"}
    BY <2>1, <2>2 DEF Extra
  <2>4. \A e \in ToSet(Extra(n)) : e.kind \notin {"values", "index"}
    BY <2>3 DEF ToSet
  <2>5. Extra(n) = [i \in 1 .. L |-> Extra(n)[i]]
    BY <2>2 DEF Extra
  <2>6. Extra(n) \in [1 .. L -> ToSet(Extra(n))]
    BY <2>3, <2>5 DEF ToSet
  <2> QED BY <2>2, <2>4, <2>6
<1>5. Pushed(n) \in Seq(S)
  <2>1. Extra(n) \in Seq(S)
    BY <1>4
  <2>2. Metadata(n) \in S /\ Values(n) \in S
    OBVIOUS
  <2> HIDE DEF S
  <2>3. <<>> \in Seq(S) /\ <<Metadata(n)>> \in Seq(S) /\ <<Values(n)>> \in Seq(S)
    BY <2>2
  <2> QED BY <2>1, <2>2, <2>3 DEF Pushed
<1>6. reqs' \in Seq(ToSet(reqs')) /\ ToSet(reqs') = ToSet(reqs) \cup ToSet(Pushed(n))
  BY <1>2, <1>3, <1>5, Joined
<1>7. ToSet(Pushed(n)) \subseteq S
  <2> HIDE DEF S
  <2> QED BY <1>5 DEF ToSet
<1>8. OnRecord' /\ (Keeps' <=> Keeps)
  BY <1>2, <1>6 DEF IInv, OnRecord, Keeps
<1>9. ASSUME Keeps PROVE Handed'
  <2>1. Handed
    BY <1>9 DEF IInv
  <2>2. PlacesTold' /\ MadeAreLive' /\ HeldAreLive'
    BY <1>2, <2>1 DEF Handed, PlacesTold, MadeAreLive, HeldAreLive, Foreign, OwnPart
  <2>3. (\A m \in Selected : Known(m))'
    <3>1. \A m \in Selected : Known(m)
      BY <1>2, <2>1 DEF Handed, NamedAreLive
    <3> QED BY <1>2, <3>1 DEF Selected, Known, Key, Keeps, OwnPart
  <2>4. Values(n).part \in Foreign \cup live
    BY <1>1, <1>2, <2>1 DEF Handed, NamedAreLive, Known, Values
  <2>5. \A e \in S : e.kind \in {"values", "index"} => e.part \in Foreign \cup live
    BY <1>4, <2>4 DEF Metadata
  <2>6. \A e \in ToSet(reqs) :
          e.kind \in {"values", "index"} => e.part \in Foreign \cup live
    BY <1>2, <2>1 DEF Handed, NamedAreLive, ToSet
  <2> HIDE DEF S
  <2>7. \A e \in ToSet(reqs') :
          e.kind \in {"values", "index"} => e.part \in Foreign \cup live
    BY <1>6, <1>7, <2>5, <2>6
  <2>8. \A i \in DOMAIN reqs' : reqs'[i] \in ToSet(reqs')
    BY DEF ToSet
  <2>9. \A k \in DOMAIN valReqs : valReqs[k].part \in Foreign \cup live
    BY <1>2, <2>1 DEF Handed, NamedAreLive
  <2>10. NamedAreLive'
    BY <1>2, <2>3, <2>7, <2>8, <2>9 DEF NamedAreLive, Foreign, OwnPart
  <2> QED BY <2>2, <2>10 DEF Handed
<1> QED BY <1>8, <1>9 DEF IInv

\* The caller destroys one of the partitions that it holds.
LEMMA CleanKeeps ==
  ASSUME IInv, Clean
  PROVE  IInv'
<1>1. PICK i \in DOMAIN returned :
        /\ live' = live \ {returned[i]}
        /\ returned' = Restrict(returned, DOMAIN returned \ {i})
  BY DEF Clean
<1>2. /\ phase \in {"create", "done"}
      /\ UNCHANGED <<cols, call, phase, partitions>>
  BY DEF Clean, sender
<1>3. OnRecord' /\ (Keeps' <=> Keeps)
  BY <1>2 DEF IInv, OnRecord, Keeps
<1>4. ASSUME Keeps PROVE HeldAreLive'
  <2>1. IsInjective(returned) /\ ToSet(returned) = live
    BY <1>2, <1>4 DEF IInv, Handed, HeldAreLive
  <2>2. /\ DOMAIN returned' = DOMAIN returned \ {i}
        /\ \A j \in DOMAIN returned \ {i} : returned'[j] = returned[j]
    BY <1>1 DEF Restrict
  <2>3. \A j \in DOMAIN returned \ {i} : returned[j] # returned[i]
    BY <2>1 DEF IsInjective
  <2>4. ToSet(returned') = live'
    BY <1>1, <2>1, <2>2, <2>3 DEF ToSet
  <2>5. IsInjective(returned')
    BY <2>1, <2>2 DEF IsInjective
  <2> QED BY <1>2, <2>4, <2>5 DEF HeldAreLive
<1>5. ASSUME Keeps PROVE PlacesTold' /\ MadeAreLive' /\ NamedAreLive'
  BY <1>2, <1>5 DEF IInv, Handed, PlacesTold, MadeAreLive, NamedAreLive, Foreign, OwnPart
<1> QED BY <1>3, <1>4, <1>5 DEF IInv, Handed

\* Other steps leave the partitions alone.
LEMMA OthersKeep ==
  ASSUME IInv, Abort \/ Send \/ TakeIndex \/ Create \/ Deserialize \/ Received
  PROVE  IInv'
<1>1. UNCHANGED <<cols, call, partitions, live, returned>>
  BY DEF Abort, Send, TakeIndex, Create, Deserialize, Received, sender
<1>2. \/ phase = "collect" /\ phase' = "aborted"
      \/ /\ phase \in {"emit", "create", "deserialize"}
         /\ phase' \in {"create", "deserialize", "done"}
  BY DEF Abort, Send, TakeIndex, Create, Deserialize, Received
<1>3. OnRecord' /\ (Keeps' <=> Keeps)
  BY <1>1, <1>2 DEF IInv, OnRecord, Keeps
<1>4. ASSUME Keeps PROVE Handed'
  BY <1>1, <1>2, <1>4
  DEF IInv, Handed, PlacesTold, MadeAreLive, HeldAreLive, NamedAreLive, Foreign, OwnPart
<1> QED BY <1>3, <1>4 DEF IInv

\* IInv is about nothing but vars.
LEMMA StutterKeeps ==
  ASSUME IInv, UNCHANGED vars
  PROVE  IInv'
BY DEF vars, sender, receiver, IInv, OnRecord, Keeps, Handed, PlacesTold, MadeAreLive,
       HeldAreLive, NamedAreLive, Foreign, OwnPart, Selected, Known, Key

-----------------------------------------------------------------------------
(***************************************************************************)
(* The record of partitions, what is alive, what the caller holds and what *)
(* the requirements name agree in every state of a launch.                 *)
(***************************************************************************)
THEOREM InvariantHolds == Spec => []IInv
<1>1. Init => IInv
  BY InitEstablishes
<1>2. IInv /\ [Next]_vars => IInv'
  BY CollectKeeps, GatherKeeps, BeginKeeps, EmitKeeps, CleanKeeps, OthersKeep, StutterKeeps
  DEF Next
<1> QED BY <1>1, <1>2, PTL DEF Spec

(***************************************************************************)
(* The caller of Table::requirements gets each partition that was made for *)
(* a launch once and none that it passed itself, the launch names none     *)
(* that is gone, and none outlives the caller's loop (Table.h:189-190).    *)
(***************************************************************************)
THEOREM EachHandedOver == Spec => []PartitionsHandedOver
<1>1. IInv => PartitionsHandedOver
  <2> SUFFICES ASSUME IInv, Keeps
               PROVE  PartitionsHandedOver
    BY DEF PartitionsHandedOver
  <2>1. OnRecord /\ Handed
    BY DEF IInv
  <2>2. phase = "emit" =>
          \A i \in DOMAIN reqs :
            (/\ reqs[i].kind \in {"values", "index"}
             /\ reqs[i].part \notin {NoPart, TablePart} \cup {OwnPart(n) : n \in Column})
            => reqs[i].part \in live
    BY <2>1 DEF Handed, NamedAreLive, Foreign
  <2>3. IsInjective(returned) /\ ToSet(returned) \subseteq live
    <3>1. CASE phase \in {"collect", "gather", "aborted"}
      BY <2>1, <3>1 DEF Handed, HeldAreLive, IsInjective, ToSet
    <3>2. CASE phase \notin {"collect", "gather", "aborted"}
      BY <2>1, <3>2 DEF Handed, HeldAreLive
    <3> QED BY <3>1, <3>2
  <2>4. phase = "done" /\ DOMAIN returned = {} => live = {}
    BY <2>1 DEF Handed, HeldAreLive, ToSet
  <2> QED BY <2>2, <2>3, <2>4 DEF PartitionsHandedOver
<1> QED BY <1>1, InvariantHolds, PTL

-----------------------------------------------------------------------------
(***************************************************************************)
(* What the receiver takes is what the sender laid out.  A column's block  *)
(* in the list depends on the columns before it: Seen keeps track of the   *)
(* columns that have been taken, and LaidOut says where the blocks of      *)
(* those to come are, without recursion, by the places at which they begin.*)
(***************************************************************************)

\* Whose requests are heeded.
Heeded(n) == Keeps \/ ~colReqs[n].own

Asked ==
  /\ phase = "collect" => colReqs = call.ask
  /\ phase \notin {"collect", "aborted"} =>
       \A n \in Selected :
         /\ Serialized => colReqs[n] = Default
         /\ AllHeeded => Heeded(n)

\* The requirements on record tell the columns apart, and have partitions
\* that were meant.
Gathered ==
  phase \notin {"collect", "aborted"} =>
    /\ \A i \in DOMAIN partitions :
         \/ partitions[i].region = Index
         \/ partitions[i].part = [of |-> partitions[i].region, nr |-> i]
         \/ \E m \in Selected : colReqs[m].own /\ cols[m].region = partitions[i].region
    /\ \A n \in Selected : Known(n) =>
         /\ \A m \in Selected :
              cols[m].region = cols[n].region /\ cols[m].fid \in valReqs[Key(n)].fids
              => Key(m) = Key(n)
         /\ Unmixed(n) /\ Heeded(n) => valReqs[Key(n)].part \in Meant(n)
    /\ phase # "gather" =>
         \A n \in Selected : Known(n) /\ cols[n].fid \in valReqs[Key(n)].fids

\* The columns that the receiver has made.
Seen == DOMAIN columns

\* What column n has in the list after the columns of E.
BlockOf(E, n) ==
  (IF \E m \in E : cols[m].region = cols[n].region THEN <<>> ELSE <<Metadata(n)>>)
  \o (IF \E m \in E : Key(m) = Key(n) THEN <<>> ELSE <<Values(n)>>)
  \o Extra(n)

\* The block of the j-th column that is still to come.
Block(j) == BlockOf(Seen \cup {desc[k] : k \in 1 .. j - 1}, desc[j])

BlocksAt(at) ==
  /\ \A j, k \in 1 .. Len(desc) + 1 : j <= k => at[j] <= at[k]
  /\ at[Len(desc) + 1] = Len(reqs)
  /\ \A j \in 1 .. Len(desc) :
       /\ at[j + 1] = at[j] + Len(Block(j))
       /\ \A i \in 1 .. Len(Block(j)) : reqs[at[j] + i] = Block(j)[i]

LaidOut(base) ==
  \E at \in [1 .. Len(desc) + 1 -> Nat] : at[1] = base /\ BlocksAt(at)

\* What has been sent for the columns so far, and nothing else.
SentSoFar ==
  /\ \A n \in ToSet(desc) : Metadata(n) \in ToSet(reqs) /\ Values(n) \in ToSet(reqs)
  /\ \A n \in Selected :
       /\ Metadata(n) \in ToSet(reqs) => \E m \in ToSet(desc) : cols[m].region = cols[n].region
       /\ Values(n) \in ToSet(reqs) => \E m \in ToSet(desc) : Values(m) = Values(n)

\* What the receiver knows of a region and of a field of it.
MdKnown ==
  \A n \in Selected :
    LET r == cols[n].region IN
    /\ r \in DOMAIN mdRegions <=> \E m \in Seen : cols[m].region = r
    /\ r \in DOMAIN mdRegions =>
         mdRegions[r] = IF phase = "create" THEN Metadata(n) ELSE [md |-> Metadata(n), is |-> r]
ValKnown ==
  \A n \in Selected :
    LET k == <<cols[n].region, cols[n].fid>> IN
    /\ k \in DOMAIN valRegions <=> \E m \in Seen : Key(m) = Key(n)
    /\ k \in DOMAIN valRegions => valRegions[k] = Values(n)

\* A column that the receiver has made is as it was sent.
GotIt(n) ==
  /\ columns[n].metadata = Metadata(n)
  /\ columns[n].extras = Extra(n)
  /\ IF "space" \in DOMAIN columns[n] THEN columns[n].space = cols[n].region
     ELSE columns[n].values = Values(n)

InTheList ==
  /\ desc \in Seq(Selected) /\ IsInjective(desc)
  /\ Seen \subseteq Selected /\ Seen \cap ToSet(desc) = {}
  /\ reqs \in Seq(ToSet(reqs))
  /\ phase \in {"collect", "gather", "aborted"} => desc = <<>>
  /\ phase \in {"collect", "gather", "aborted", "emit"} => index = <<>>
  /\ phase = "done" => desc = <<>> /\ index # <<>>
  /\ phase \in {"create", "deserialize", "done"} => Seen \cup ToSet(desc) = Selected
  /\ phase = "deserialize" => Serialized
  /\ phase = "emit" => SentSoFar
  /\ phase \in {"emit", "create", "deserialize", "done"} =>
       IF index = <<>>
       THEN LaidOut(2) /\ Len(reqs) >= 2 /\ reqs[1] = IndexReqs[1] /\ reqs[2] = IndexReqs[2]
       ELSE LaidOut(0) /\ index = IndexReqs

Taken ==
  /\ index = <<>> => columns = <<>> /\ mdRegions = <<>> /\ valRegions = <<>>
  /\ phase \in {"create", "deserialize"} => MdKnown
  /\ phase = "create" => ValKnown
  /\ \A n \in Seen : GotIt(n)

DInv == Asked /\ Gathered /\ InTheList /\ Taken

\* The extras of a column, which are of no kind that a column has one of.
LEMMA ExtrasAre ==
  ASSUME OnRecord, NEW n \in Column
  PROVE  /\ Extra(n) \in Seq(ToSet(Extra(n))) /\ Len(Extra(n)) = Len(cols[n].extras)
         /\ Len(cols[n].extras) \in Nat
         /\ \A e \in ToSet(Extra(n)) : e.kind \notin {"index", "metadata", "values"}
<1> DEFINE L == Len(cols[n].extras)
<1>1. cols[n].extras \in Seq(STRING \ {"index", "metadata", "values"})
  BY ColumnKnown
<1>2. L \in Nat /\ DOMAIN cols[n].extras = 1 .. L
  BY <1>1
<1>3. /\ DOMAIN Extra(n) = 1 .. L
      /\ \A i \in 1 .. L : /\ Extra(n)[i].kind = cols[n].extras[i]
                           /\ cols[n].extras[i] \notin {"index", "metadata", "values"}
  BY <1>1, <1>2 DEF Extra
<1>4. \A e \in ToSet(Extra(n)) : e.kind \notin {"index", "metadata", "values"}
  BY <1>3 DEF ToSet
<1>5. Extra(n) = [i \in 1 .. L |-> Extra(n)[i]]
  BY <1>2 DEF Extra
<1>6. Extra(n) \in [1 .. L -> ToSet(Extra(n))]
  BY <1>3, <1>5 DEF ToSet
<1> HIDE DEF L
<1>7. Extra(n) \in Seq(ToSet(Extra(n))) /\ Len(Extra(n)) = L
  BY <1>2, <1>3, <1>6
<1> QED BY <1>2, <1>4, <1>7 DEF L

\* The parts of a block: metadata and values, if they are new, and extras.
LEMMA BlockParts ==
  ASSUME OnRecord, NEW n \in Column, NEW E
  PROVE  LET b == BlockOf(E, n)
             md == IF \E m \in E : cols[m].region = cols[n].region THEN 0 ELSE 1
             val == IF \E m \in E : Key(m) = Key(n) THEN 0 ELSE 1 IN
         /\ b \in Seq(ToSet(b))
         /\ ToSet(b) \subseteq {Metadata(n), Values(n)} \cup ToSet(Extra(n))
         /\ Len(b) = md + val + Len(cols[n].extras)
         /\ md = 1 => b[1] = Metadata(n)
         /\ val = 1 => b[md + 1] = Values(n)
         /\ \A i \in 1 .. Len(cols[n].extras) : b[md + val + i] = Extra(n)[i]
<1> DEFINE S == {Metadata(n), Values(n)} \cup ToSet(Extra(n))
           md == IF \E m \in E : cols[m].region = cols[n].region THEN 0 ELSE 1
           val == IF \E m \in E : Key(m) = Key(n) THEN 0 ELSE 1
           a == IF \E m \in E : cols[m].region = cols[n].region THEN <<>> ELSE <<Metadata(n)>>
           v == IF \E m \in E : Key(m) = Key(n) THEN <<>> ELSE <<Values(n)>>
           x == Extra(n)
           b == BlockOf(E, n)
           L == Len(cols[n].extras)
<1>1. x \in Seq(S) /\ Len(x) = L /\ L \in Nat
  BY ExtrasAre
<1>2. Metadata(n) \in S /\ Values(n) \in S
  OBVIOUS
<1> HIDE DEF S
<1>3. a \in Seq(S) /\ Len(a) = md /\ (md = 1 => a[1] = Metadata(n))
  BY <1>2
<1>4. v \in Seq(S) /\ Len(v) = val /\ (val = 1 => v[1] = Values(n))
  BY <1>2
<1>5. md \in {0, 1} /\ val \in {0, 1}
  OBVIOUS
<1>6. b = (a \o v) \o x
  BY DEF BlockOf
<1> HIDE DEF a, v, x, b, md, val, L
<1>7. /\ a \o v \in Seq(S) /\ Len(a \o v) = md + val
      /\ \A i \in 1 .. md + val : (a \o v)[i] = IF i <= md THEN a[i] ELSE v[i - md]
  BY <1>3, <1>4, ConcatProperties
<1> DEFINE w == a \o v
<1> HIDE DEF w
<1>8. /\ b \in Seq(S) /\ Len(b) = (md + val) + L
      /\ \A i \in 1 .. (md + val) + L : b[i] = IF i <= md + val THEN w[i] ELSE x[i - (md + val)]
  <2>1. w \in Seq(S) /\ Len(w) = md + val /\ b = w \o x
    BY <1>6, <1>7 DEF w
  <2>2. /\ w \o x \in Seq(S) /\ Len(w \o x) = Len(w) + Len(x)
        /\ \A i \in 1 .. Len(w) + Len(x) : (w \o x)[i] = IF i <= Len(w) THEN w[i] ELSE x[i - Len(w)]
    BY <1>1, <2>1, ConcatProperties
  <2> QED BY <1>1, <2>1, <2>2
<1>9. md = 1 => b[1] = Metadata(n)
  <2> SUFFICES ASSUME md = 1 PROVE b[1] = Metadata(n)
    OBVIOUS
  <2>1. b[1] = w[1]
    BY <1>1, <1>5, <1>8
  <2>2. w[1] = a[1]
    BY <1>5, <1>7 DEF w
  <2> QED BY <1>3, <2>1, <2>2
<1>10. val = 1 => b[md + 1] = Values(n)
  <2> SUFFICES ASSUME val = 1 PROVE b[md + 1] = Values(n)
    OBVIOUS
  <2>1. md + 1 \in 1 .. md + val /\ ~(md + 1 <= md) /\ (md + 1) - md = 1
    BY <1>5
  <2>2. w[md + 1] = v[1]
    BY <1>7, <2>1 DEF w
  <2>3. b[md + 1] = w[md + 1]
    <3>1. md + 1 \in 1 .. (md + val) + L /\ md + 1 <= md + val
      BY <1>1, <1>5, <2>1
    <3> QED BY <1>8, <3>1
  <2> QED BY <1>4, <2>2, <2>3
<1>11. ASSUME NEW i \in 1 .. L PROVE b[md + val + i] = x[i]
  <2>1. /\ md + val + i \in 1 .. (md + val) + L /\ ~(md + val + i <= md + val)
        /\ (md + val + i) - (md + val) = i
    BY <1>1, <1>5
  <2> QED BY <1>8, <2>1
<1>12. b \in Seq(ToSet(b)) /\ ToSet(b) \subseteq S
  <2>1. ToSet(b) \subseteq S
    BY <1>8 DEF ToSet
  <2> QED BY <1>8, <2>1, ListOfItsOwn
<1> QED BY <1>8, <1>9, <1>10, <1>11, <1>12 DEF S, md, val, b, x, L

\* The places of a block's parts, for a receiver that knows which it needs.
LEMMA BlockSplits ==
  ASSUME OnRecord, NEW n \in Column, NEW E, NEW md \in {0, 1}, NEW val \in {0, 1},
         md = 0 <=> \E m \in E : cols[m].region = cols[n].region,
         val = 0 <=> \E m \in E : Key(m) = Key(n)
  PROVE  /\ Len(cols[n].extras) \in Nat
         /\ Len(BlockOf(E, n)) = md + val + Len(cols[n].extras)
         /\ md = 1 => BlockOf(E, n)[1] = Metadata(n)
         /\ val = 1 => BlockOf(E, n)[md + 1] = Values(n)
         /\ \A i \in 1 .. Len(cols[n].extras) : BlockOf(E, n)[md + val + i] = Extra(n)[i]
<1> DEFINE a == IF \E m \in E : cols[m].region = cols[n].region THEN 0 ELSE 1
           v == IF \E m \in E : Key(m) = Key(n) THEN 0 ELSE 1
           b == BlockOf(E, n)
           L == Len(cols[n].extras)
<1>1. /\ Len(b) = a + v + L /\ (a = 1 => b[1] = Metadata(n)) /\ (v = 1 => b[a + 1] = Values(n))
      /\ \A i \in 1 .. L : b[a + v + i] = Extra(n)[i]
  BY BlockParts
<1>2. a = md /\ v = val
  OBVIOUS
<1>3. L \in Nat
  BY ExtrasAre
<1> HIDE DEF a, v, b, L
<1> QED BY <1>1, <1>2, <1>3 DEF b, L

\* A block has what no column of E has brought.
LEMMA BlockHas ==
  ASSUME OnRecord, NEW n \in Column, NEW E
  PROVE  /\ (\E m \in E : cols[m].region = cols[n].region) \/ Metadata(n) \in ToSet(BlockOf(E, n))
         /\ (\E m \in E : Key(m) = Key(n)) \/ Values(n) \in ToSet(BlockOf(E, n))
<1>1. PICK md \in {0, 1}, val \in {0, 1} :
        /\ md = 0 => \E m \in E : cols[m].region = cols[n].region
        /\ val = 0 => \E m \in E : Key(m) = Key(n)
        /\ BlockOf(E, n) \in Seq(ToSet(BlockOf(E, n)))
        /\ Len(BlockOf(E, n)) = md + val + Len(cols[n].extras)
        /\ md = 1 => BlockOf(E, n)[1] = Metadata(n)
        /\ val = 1 => BlockOf(E, n)[md + 1] = Values(n)
  <2> DEFINE a == IF \E m \in E : cols[m].region = cols[n].region THEN 0 ELSE 1
             v == IF \E m \in E : Key(m) = Key(n) THEN 0 ELSE 1
             b == BlockOf(E, n)
  <2>1. /\ b \in Seq(ToSet(b)) /\ Len(b) = a + v + Len(cols[n].extras)
        /\ (a = 1 => b[1] = Metadata(n)) /\ (v = 1 => b[a + 1] = Values(n))
    BY BlockParts
  <2>2. /\ a \in {0, 1} /\ v \in {0, 1}
        /\ a = 0 => \E m \in E : cols[m].region = cols[n].region
        /\ v = 0 => \E m \in E : Key(m) = Key(n)
    OBVIOUS
  <2> HIDE DEF a, v, b
  <2> QED BY <2>1, <2>2 DEF b
<1> DEFINE b == BlockOf(E, n)
<1>2. Len(cols[n].extras) \in Nat
  BY ExtrasAre
<1>3. b \in Seq(ToSet(b)) /\ Len(b) = md + val + Len(cols[n].extras)
  BY <1>1
<1> HIDE DEF b
<1>4. DOMAIN b = 1 .. md + val + Len(cols[n].extras)
  <2>1. DOMAIN b = 1 .. Len(b)
    BY <1>3
  <2> QED BY <1>3, <2>1
<1>5. (md = 1 => 1 \in DOMAIN b) /\ (val = 1 => md + 1 \in DOMAIN b)
  <2>1. md \in Nat /\ val \in Nat
    BY <1>1
  <2> DEFINE M == md + val + Len(cols[n].extras)
  <2>2. (md = 1 => 1 \in 1 .. M) /\ (val = 1 => md + 1 \in 1 .. M)
    <3> DEFINE L == Len(cols[n].extras)
    <3>1. L \in Nat
      BY <1>2
    <3> HIDE DEF L
    <3>2. (md = 1 => 1 \in 1 .. md + val + L) /\ (val = 1 => md + 1 \in 1 .. md + val + L)
      BY <2>1, <3>1
    <3> QED BY <3>2 DEF L
  <2> QED BY <1>4, <2>2
<1> QED BY <1>1, <1>5 DEF ToSet, b

\* Requirements for values are told apart as their keys are.
LEMMA ValuesTell ==
  ASSUME Gathered, phase \notin {"collect", "aborted", "gather"},
         NEW m \in Selected, NEW n \in Selected
  PROVE  Values(m) = Values(n) <=> Key(m) = Key(n)
<1>1. Key(m) = Key(n) => Values(m) = Values(n)
  <2>1. /\ Key(m)[1] = cols[m].region /\ Key(m)[2] = colReqs[m].values
        /\ Key(n)[1] = cols[n].region /\ Key(n)[2] = colReqs[n].values
    BY DEF Key
  <2> QED BY <2>1 DEF Values
<1>2. ASSUME Values(m) = Values(n) PROVE Key(m) = Key(n)
  <2>1. cols[m].region = cols[n].region /\ valReqs[Key(m)].fids = valReqs[Key(n)].fids
    BY <1>2 DEF Values
  <2>2. Known(n) /\ cols[m].fid \in valReqs[Key(m)].fids
    BY DEF Gathered
  <2> QED BY <2>1, <2>2 DEF Gathered
<1> QED BY <1>1, <1>2

\* A field that a requirement has is of a column with the same key.
LEMMA FieldsTell ==
  ASSUME Gathered, phase \notin {"collect", "aborted", "gather"},
         NEW m \in Selected, NEW n \in Selected
  PROVE  cols[m].region = cols[n].region /\ cols[m].fid \in Values(n).fids <=> Key(m) = Key(n)
<1>1. Values(n).fids = valReqs[Key(n)].fids
  BY DEF Values
<1>2. Known(n) /\ cols[m].fid \in valReqs[Key(m)].fids
  BY DEF Gathered
<1>3. Key(m) = Key(n) => cols[m].region = cols[n].region
  BY DEF Key
<1> QED BY <1>1, <1>2, <1>3 DEF Gathered

\* In a table that is serialized, columns of a region have the same key.
LEMMA SerializedKeys ==
  ASSUME Asked, Serialized, phase \notin {"collect", "aborted"},
         NEW m \in Selected, NEW n \in Selected
  PROVE  Key(m) = Key(n) <=> cols[m].region = cols[n].region
<1>1. colReqs[m] = Default /\ colReqs[n] = Default
  BY DEF Asked
<1>2. Key(m) = Key(n) => cols[m].region = cols[n].region
  BY DEF Key
<1>3. cols[m].region = cols[n].region => OwnPart(m) = OwnPart(n)
  BY DEF OwnPart
<1> QED BY <1>1, <1>2, <1>3 DEF Key

\* What the loops of the sender and the receiver read of the columns does not
\* change once the requirements are known.
LEMMA SameColumns ==
  ASSUME UNCHANGED <<cols, call, colReqs, partitions, valReqs>>
  PROVE  /\ Selected' = Selected /\ (Keeps' <=> Keeps) /\ (Serialized' <=> Serialized)
         /\ IndexReqs' = IndexReqs
         /\ \A n : /\ Metadata(n)' = Metadata(n) /\ Values(n)' = Values(n)
                   /\ Extra(n)' = Extra(n) /\ Key(n)' = Key(n)
                   /\ (Known(n)' <=> Known(n)) /\ (Heeded(n)' <=> Heeded(n))
                   /\ (Unmixed(n)' <=> Unmixed(n)) /\ Meant(n)' = Meant(n)
<1>1. Selected' = Selected /\ (Keeps' <=> Keeps) /\ (Serialized' <=> Serialized)
  BY DEF Selected, Keeps, Serialized
<1>2. IndexReqs' = IndexReqs
  BY DEF IndexReqs
<1>3. \A n : Key(n)' = Key(n) /\ OwnPart(n)' = OwnPart(n)
  BY <1>1 DEF Key, OwnPart
<1>4. \A n : Metadata(n)' = Metadata(n) /\ Values(n)' = Values(n) /\ Extra(n)' = Extra(n)
  BY <1>3 DEF Metadata, Values, Extra
<1>5. \A n : (Known(n)' <=> Known(n)) /\ (Heeded(n)' <=> Heeded(n))
  BY <1>1, <1>3 DEF Known, Heeded
<1>6. \A n : (Unmixed(n)' <=> Unmixed(n)) /\ Meant(n)' = Meant(n)
  BY <1>1, <1>3 DEF Unmixed, Meant
<1> QED BY <1>1, <1>2, <1>3, <1>4, <1>5, <1>6

\* Then the blocks of the list are the same after the same columns.
LEMMA SameBlocks ==
  ASSUME UNCHANGED <<cols, call, colReqs, partitions, valReqs>>
  PROVE  \A E, n : BlockOf(E, n)' = BlockOf(E, n)
BY SameColumns DEF BlockOf

\* What is pushed for a column is its block after those sent before.
LEMMA PushedIsBlock ==
  ASSUME Gathered, phase \notin {"collect", "aborted", "gather"}, SentSoFar,
         desc \in Seq(Selected), reqs \in Seq(ToSet(reqs)), NEW n \in Selected
  PROVE  Pushed(n) = BlockOf(ToSet(desc), n)
<1>1. \A e : Contains(reqs, e) <=> e \in ToSet(reqs)
  <2>1. DOMAIN reqs = 1 .. Len(reqs)
    OBVIOUS
  <2> QED BY <2>1 DEF Contains, ToSet
<1>2. ToSet(desc) \subseteq Selected
  BY DEF ToSet
<1>3. Contains(reqs, Metadata(n)) <=> \E m \in ToSet(desc) : cols[m].region = cols[n].region
  <2>1. ASSUME NEW m \in ToSet(desc), cols[m].region = cols[n].region
        PROVE  Metadata(n) \in ToSet(reqs)
    <3>1. Metadata(m) = Metadata(n)
      BY <2>1 DEF Metadata
    <3> QED BY <3>1 DEF SentSoFar
  <2> QED BY <1>1, <2>1 DEF SentSoFar
<1>4. Contains(reqs, Values(n)) <=> \E m \in ToSet(desc) : Key(m) = Key(n)
  <2>1. \A m \in ToSet(desc) : Values(m) = Values(n) <=> Key(m) = Key(n)
    BY <1>2, ValuesTell
  <2> QED BY <1>1, <2>1 DEF SentSoFar
<1> QED BY <1>3, <1>4 DEF Pushed, BlockOf

\* A block has a length.
LEMMA BlockTyped ==
  ASSUME OnRecord, desc \in Seq(Selected), NEW j \in 1 .. Len(desc)
  PROVE  desc[j] \in Selected /\ Len(Block(j)) \in Nat
<1>1. desc[j] \in Selected
  OBVIOUS
<1>2. desc[j] \in Column
  BY <1>1 DEF Selected
<1> DEFINE b == Block(j)
<1>3. b \in Seq(ToSet(b))
  BY <1>2, BlockParts DEF Block
<1> HIDE DEF b
<1>4. Len(b) \in Nat
  BY <1>3
<1> QED BY <1>1, <1>4 DEF b

\* A column that is sent adds its block after the others.
LEMMA BlockAdded ==
  ASSUME OnRecord, Seen = {}, Seen' = {}, LaidOut(2), NEW n \in Selected,
         desc \in Seq(Selected), desc' = Append(desc, n),
         reqs \in Seq(ToSet(reqs)), reqs' = reqs \o BlockOf(ToSet(desc), n),
         \A E, m : BlockOf(E, m)' = BlockOf(E, m)
  PROVE  LaidOut(2)'
<1> DEFINE L == Len(desc)
           P == BlockOf(ToSet(desc), n)
           R == Len(reqs)
<1>1. PICK at \in [1 .. L + 1 -> Nat] : at[1] = 2 /\ BlocksAt(at)
  BY DEF LaidOut
<1>2. P \in Seq(ToSet(P))
  BY BlockParts DEF Selected
<1>3. /\ L \in Nat /\ R \in Nat /\ Len(P) \in Nat
      /\ \A k \in 1 .. L + 1 : at[k] <= R
      /\ at[L + 1] = R
  <2>1. L \in Nat /\ R \in Nat /\ Len(P) \in Nat
    BY <1>2
  <2> QED BY <1>1, <2>1 DEF BlocksAt
<1> DEFINE T == ToSet(reqs) \cup ToSet(P)
<1>4. /\ Len(reqs') = R + Len(P)
      /\ \A i \in 1 .. R : reqs'[i] = reqs[i]
      /\ \A i \in 1 .. Len(P) : reqs'[R + i] = P[i]
  <2>1. reqs \in Seq(T) /\ P \in Seq(T)
    BY <1>2
  <2> HIDE DEF T, P
  <2>2. /\ Len(reqs \o P) = R + Len(P)
        /\ \A i \in 1 .. R + Len(P) : (reqs \o P)[i] = IF i <= R THEN reqs[i] ELSE P[i - R]
    BY <2>1, ConcatProperties
  <2>3. reqs' = reqs \o P
    BY DEF P
  <2> HIDE DEF R
  <2>4. \A i \in 1 .. R : i \in 1 .. R + Len(P) /\ i <= R
    BY <1>3
  <2>5. \A i \in 1 .. Len(P) : R + i \in 1 .. R + Len(P) /\ ~(R + i <= R) /\ (R + i) - R = i
    BY <1>3
  <2> QED BY <2>2, <2>3, <2>4, <2>5 DEF R
<1>5. /\ Len(desc') = L + 1 /\ desc'[L + 1] = n
      /\ \A j \in 1 .. L : desc'[j] = desc[j]
  BY AppendProperties
<1>6. {desc[k] : k \in 1 .. L} = ToSet(desc)
  <2>1. DOMAIN desc = 1 .. L
    OBVIOUS
  <2> QED BY <2>1 DEF ToSet
<1> HIDE DEF L, P, R
<1>7. \A j \in 1 .. L : Block(j)' = Block(j)
  <2> SUFFICES ASSUME NEW j \in 1 .. L PROVE Block(j)' = Block(j)
    OBVIOUS
  <2>1. \A k \in 1 .. j - 1 : k \in 1 .. L
    BY <1>3
  <2>2. {desc'[k] : k \in 1 .. j - 1} = {desc[k] : k \in 1 .. j - 1} /\ desc'[j] = desc[j]
    BY <1>5, <2>1
  <2> QED BY <2>2 DEF Block
<1>8. ASSUME NEW j, j = L + 1 PROVE Block(j)' = P
  <2>1. \A k : k \in 1 .. j - 1 <=> k \in 1 .. L
    BY <1>3, <1>8
  <2>2. {desc'[k] : k \in 1 .. j - 1} = ToSet(desc) /\ desc'[j] = n
    BY <1>5, <1>6, <1>8, <2>1
  <2> QED BY <2>2 DEF Block, P
<1>9. PICK at2 \in [1 .. L + 2 -> Nat] :
        at2[1] = 2 /\ at2[L + 2] = R + Len(P) /\ \A j \in 1 .. L + 1 : at2[j] = at[j]
  <2> DEFINE a == [j \in 1 .. L + 2 |-> IF j <= L + 1 THEN at[j] ELSE R + Len(P)]
  <2>1. /\ a \in [1 .. L + 2 -> Nat] /\ a[1] = 2 /\ a[L + 2] = R + Len(P)
        /\ \A j \in 1 .. L + 1 : a[j] = at[j]
    BY <1>1, <1>3
  <2> QED BY <2>1
<1>10. \A j, k \in 1 .. L + 2 : j <= k => at2[j] <= at2[k]
  <2> SUFFICES ASSUME NEW j \in 1 .. L + 2, NEW k \in 1 .. L + 2, j <= k
               PROVE  at2[j] <= at2[k]
    OBVIOUS
  <2>1. CASE k # L + 2
    <3>1. j \in 1 .. L + 1 /\ k \in 1 .. L + 1
      BY <1>3, <2>1
    <3> QED BY <1>1, <1>9, <3>1 DEF BlocksAt, L
  <2>2. CASE k = L + 2 /\ j # L + 2
    <3>1. j \in 1 .. L + 1
      BY <1>3, <2>2
    <3>2. at2[j] <= R /\ at2[j] \in Nat /\ at2[k] = R + Len(P)
      BY <1>3, <1>9, <2>2, <3>1
    <3> QED BY <1>3, <3>2
  <2>3. CASE j = L + 2 /\ k = L + 2
    BY <1>9, <2>3
  <2> QED BY <2>1, <2>2, <2>3
<1>11. ASSUME NEW j \in 1 .. L + 1
       PROVE  /\ at2[j + 1] = at2[j] + Len(Block(j)')
              /\ \A i \in 1 .. Len(Block(j)') : reqs'[at2[j] + i] = Block(j)'[i]
  <2>1. CASE j \in 1 .. L
    <3>1. /\ at[j + 1] = at[j] + Len(Block(j))
          /\ \A i \in 1 .. Len(Block(j)) : reqs[at[j] + i] = Block(j)[i]
      BY <1>1, <2>1 DEF BlocksAt, L
    <3>2. j + 1 \in 1 .. L + 1 /\ j \in 1 .. L + 1
      BY <1>3, <2>1
    <3>3. at2[j + 1] = at[j + 1] /\ at2[j] = at[j] /\ Block(j)' = Block(j)
      BY <1>7, <1>9, <2>1, <3>2
    <3>4. at[j] \in Nat /\ at[j + 1] <= R /\ at[j + 1] \in Nat
      BY <1>1, <1>3, <3>2
    <3> DEFINE len == Len(Block(j))
    <3>5. len \in Nat
      BY <2>1, BlockTyped DEF L
    <3> HIDE DEF len
    <3>6. \A i \in 1 .. len : at[j] + i \in 1 .. R
      <4>1. at[j + 1] = at[j] + len
        BY <3>1 DEF len
      <4>2. at[j] \in Nat /\ R \in Nat /\ at[j] + len <= R
        BY <1>3, <3>4, <4>1
      <4> QED BY <3>5, <4>2
    <3> QED BY <1>4, <3>1, <3>3, <3>6 DEF len
  <2>2. CASE j = L + 1
    <3>1. j \in 1 .. L + 1 /\ j + 1 = L + 2
      BY <1>3, <2>2
    <3>2. at2[j + 1] = R + Len(P) /\ at2[j] = R
      BY <1>3, <1>9, <2>2, <3>1
    <3>3. Block(j)' = P
      BY <1>8, <2>2
    <3>4. Len(Block(j)') = Len(P)
      BY <3>3
    <3>5. \A i \in 1 .. Len(P) : reqs'[at2[j] + i] = P[i]
      BY <1>4, <3>2
    <3>6. \A i \in 1 .. Len(Block(j)') : reqs'[at2[j] + i] = Block(j)'[i]
      BY <3>3, <3>4, <3>5, Zenon
    <3>7. at2[j + 1] = at2[j] + Len(Block(j)')
      BY <3>2, <3>4
    <3> QED BY <3>6, <3>7, Zenon
  <2>3. j \in 1 .. L \/ j = L + 1
    BY <1>3
  <2> QED BY <2>1, <2>2, <2>3, Zenon
<1>12. (L + 1) + 1 = L + 2
  BY <1>3
<1>13. BlocksAt(at2)'
  BY <1>4, <1>5, <1>9, <1>10, <1>11, <1>12 DEF BlocksAt
<1>14. at2 \in [1 .. Len(desc') + 1 -> Nat]
  BY <1>5, <1>9, <1>12
<1> QED BY <1>9, <1>13, <1>14 DEF LaidOut

\* When the first blocks have been taken off the list, those to come are at
\* its beginning.
LEMMA BlocksMoved ==
  ASSUME OnRecord, desc \in Seq(Selected), reqs \in Seq(ToSet(reqs)),
         NEW c \in 0 .. Len(desc), NEW at \in [1 .. Len(desc) + 1 -> Nat], BlocksAt(at),
         reqs' = SubSeq(reqs, at[c + 1] + 1, Len(reqs)),
         Len(desc') = Len(desc) - c,
         \A j \in 1 .. Len(desc) - c : Block(j)' = Block(j + c)
  PROVE  LaidOut(0)' /\ Len(reqs') = Len(reqs) - at[c + 1]
<1> DEFINE L == Len(desc)
           R == Len(reqs)
           t == at[c + 1]
<1>1. L \in Nat /\ R \in Nat /\ c \in Nat /\ c <= L /\ DOMAIN reqs = 1 .. R
  OBVIOUS
<1>2. \A j \in 1 .. L + 1 : at[j] \in Nat /\ at[j] <= R /\ (c + 1 <= j => t <= at[j])
  <2>1. at[L + 1] = R /\ \A j, k \in 1 .. L + 1 : j <= k => at[j] <= at[k]
    BY DEF BlocksAt
  <2>2. L + 1 \in 1 .. L + 1 /\ c + 1 \in 1 .. L + 1 /\ \A j \in 1 .. L + 1 : j <= L + 1
    BY <1>1
  <2> HIDE DEF L, R
  <2> QED BY <2>1, <2>2 DEF L
<1>3. t \in Nat /\ t <= R
  <2>1. c + 1 \in 1 .. L + 1
    BY <1>1
  <2> QED BY <1>2, <2>1
<1> HIDE DEF t, R
<1>4. /\ Len(reqs') = R - t
      /\ \A i \in 1 .. R - t : reqs'[i] = reqs[t + i]
  <2>1. \A i \in t + 1 .. R : reqs[i] \in ToSet(reqs)
    BY <1>1, <1>3 DEF ToSet
  <2>2. reqs' = SubSeq(reqs, t + 1, R) /\ t + 1 \in Int /\ R \in Int
    BY <1>1, <1>3 DEF t, R
  <2>3. /\ Len(SubSeq(reqs, t + 1, R)) = IF t + 1 <= R THEN R - (t + 1) + 1 ELSE 0
        /\ \A i \in 1 .. R - (t + 1) + 1 : SubSeq(reqs, t + 1, R)[i] = reqs[(t + 1) + i - 1]
    BY <2>1, <2>2, SubSeqProperties
  <2>4. (t + 1 <= R => R - (t + 1) + 1 = R - t) /\ (~(t + 1 <= R) => 0 = R - t)
    BY <1>1, <1>3
  <2>5. R - (t + 1) + 1 = R - t /\ \A i \in 1 .. R - t : (t + 1) + i - 1 = t + i
    BY <1>1, <1>3
  <2> QED BY <2>2, <2>3, <2>4, <2>5
<1>5. PICK at2 \in [1 .. L - c + 1 -> Nat] : \A j \in 1 .. L - c + 1 : at2[j] = at[j + c] - t
  <2> DEFINE a == [j \in 1 .. L - c + 1 |-> at[j + c] - t]
  <2>1. ASSUME NEW j \in 1 .. L - c + 1 PROVE at[j + c] - t \in Nat
    <3>1. j + c \in 1 .. L + 1 /\ c + 1 <= j + c
      BY <1>1
    <3> QED BY <1>2, <1>3, <3>1
  <2>2. a \in [1 .. L - c + 1 -> Nat]
    BY <2>1
  <2> QED BY <2>2
<1>6. \A j, k \in 1 .. L - c + 1 : j <= k => at2[j] <= at2[k]
  <2> SUFFICES ASSUME NEW j \in 1 .. L - c + 1, NEW k \in 1 .. L - c + 1, j <= k
               PROVE  at2[j] <= at2[k]
    OBVIOUS
  <2>1. j + c \in 1 .. L + 1 /\ k + c \in 1 .. L + 1 /\ j + c <= k + c
    BY <1>1
  <2>2. at[j + c] <= at[k + c]
    BY <2>1 DEF BlocksAt
  <2> QED BY <1>2, <1>3, <1>5, <2>1, <2>2
<1>7. at2[1] = 0 /\ at2[L - c + 1] = R - t
  <2>1. /\ 1 \in 1 .. L - c + 1 /\ 1 + c = c + 1
        /\ L - c + 1 \in 1 .. L - c + 1 /\ (L - c + 1) + c = L + 1
    BY <1>1
  <2>2. at2[1] = t - t
    BY <1>5, <2>1 DEF t
  <2>3. at2[L - c + 1] = R - t
    BY <1>5, <2>1 DEF BlocksAt, R
  <2> QED BY <1>3, <2>2, <2>3
<1>8. ASSUME NEW j \in 1 .. L - c
      PROVE  /\ at2[j + 1] = at2[j] + Len(Block(j)')
             /\ \A i \in 1 .. Len(Block(j)') : reqs'[at2[j] + i] = Block(j)'[i]
  <2>1. j + c \in 1 .. L /\ j + c \in 1 .. L + 1 /\ (j + c) + 1 \in 1 .. L + 1
        /\ c + 1 <= j + c /\ j \in 1 .. L - c + 1 /\ j + 1 \in 1 .. L - c + 1
        /\ (j + 1) + c = (j + c) + 1
    BY <1>1
  <2> DEFINE b == Block(j + c)
             len == Len(b)
             x == at[j + c]
             y == at[(j + c) + 1]
  <2>2. y = x + len /\ \A i \in 1 .. len : reqs[x + i] = b[i]
    BY <2>1 DEF BlocksAt
  <2>3. len \in Nat
    BY <2>1, BlockTyped
  <2>4. at2[j] = x - t /\ at2[j + 1] = y - t
    BY <1>5, <2>1
  <2>5. x \in Nat /\ y \in Nat /\ t <= x /\ y <= R
    BY <1>2, <2>1
  <2>6. Block(j)' = b
    OBVIOUS
  <2> HIDE DEF b, len, x, y
  <2>7. \A i \in 1 .. len : (x - t) + i \in 1 .. R - t /\ t + ((x - t) + i) = x + i
    BY <1>1, <1>3, <2>2, <2>3, <2>5
  <2>8. \A i \in 1 .. len : reqs'[(x - t) + i] = b[i]
    BY <1>4, <2>2, <2>7
  <2>9. y - t = (x - t) + len
    BY <1>3, <2>2, <2>3, <2>5
  <2> QED BY <2>4, <2>6, <2>8, <2>9 DEF len
<1> HIDE DEF L
<1>9. Len(desc') = L - c
  BY DEF L
<1>10. BlocksAt(at2)'
  BY <1>4, <1>6, <1>7, <1>8, <1>9 DEF BlocksAt
<1>11. at2 \in [1 .. Len(desc') + 1 -> Nat]
  BY <1>9
<1>12. Len(reqs') = Len(reqs) - at[c + 1]
  BY <1>4 DEF R, t
<1> QED BY <1>7, <1>10, <1>11, <1>12 DEF LaidOut

\* The next column's block is at the head of the list, and taking it off
\* leaves the others.
LEMMA BlockTaken ==
  ASSUME OnRecord, desc \in Seq(Selected), desc # <<>>, reqs \in Seq(ToSet(reqs)), LaidOut(0)
  PROVE  /\ Len(Block(1)) \in Nat /\ Len(Block(1)) <= Len(reqs)
         /\ \A i \in 1 .. Len(Block(1)) : reqs[i] = Block(1)[i]
         /\ Block(1) = BlockOf(Seen, Head(desc))
         /\ (/\ reqs' = SubSeq(reqs, Len(Block(1)) + 1, Len(reqs))
             /\ desc' = Tail(desc) /\ Seen' = Seen \cup {Head(desc)}
             /\ \A E, n : BlockOf(E, n)' = BlockOf(E, n))
            => LaidOut(0)'
<1> DEFINE L == Len(desc)
           len == Len(Block(1))
<1>1. L \in Nat /\ L >= 1 /\ 1 \in 1 .. L /\ 1 \in 1 .. L + 1 /\ 2 \in 1 .. L + 1 /\ L + 1 \in 1 .. L + 1
  BY EmptySeq
<1>2. PICK at \in [1 .. L + 1 -> Nat] : at[1] = 0 /\ BlocksAt(at)
  BY DEF LaidOut
<1>3. len \in Nat /\ at[2] = len
  <2>1. len \in Nat
    BY <1>1, BlockTyped
  <2>2. at[1 + 1] = at[1] + len
    BY <1>1, <1>2 DEF BlocksAt
  <2> QED BY <1>2, <2>1, <2>2
<1>4. len <= Len(reqs)
  BY <1>1, <1>2, <1>3 DEF BlocksAt
<1>5. \A i \in 1 .. len : reqs[i] = Block(1)[i]
  <2>1. \A i \in 1 .. len : reqs[at[1] + i] = Block(1)[i]
    BY <1>1, <1>2 DEF BlocksAt
  <2>2. \A i \in 1 .. len : at[1] + i = i
    BY <1>2, <1>3
  <2> QED BY <2>1, <2>2
<1>6. Head(desc) = desc[1]
  BY HeadAndTail
<1>7. Block(1) = BlockOf(Seen, Head(desc))
  <2>1. {desc[k] : k \in 1 .. 1 - 1} = {}
    OBVIOUS
  <2>2. Seen \cup {desc[k] : k \in 1 .. 1 - 1} = Seen
    BY <2>1
  <2> QED BY <1>6, <2>2 DEF Block
<1>8. ASSUME reqs' = SubSeq(reqs, len + 1, Len(reqs)),
             desc' = Tail(desc), Seen' = Seen \cup {Head(desc)},
             \A E, n : BlockOf(E, n)' = BlockOf(E, n)
      PROVE  LaidOut(0)'
  <2>1. /\ Len(desc') = L - 1
        /\ \A i \in 1 .. L - 1 : desc'[i] = desc[i + 1]
    BY <1>8, HeadAndTail
  <2>2. ASSUME NEW j \in 1 .. L - 1 PROVE Block(j)' = Block(j + 1)
    <3>9. \A k \in 1 .. j - 1 : k \in 1 .. L - 1 /\ k + 1 \in 1 .. (j + 1) - 1
      BY <1>1
    <3>1. \A k \in 1 .. j - 1 : desc'[k] = desc[k + 1] /\ k + 1 \in 1 .. (j + 1) - 1
      BY <2>1, <3>9
    <3>2. \A k \in 1 .. (j + 1) - 1 : k = 1 \/ (k - 1 \in 1 .. j - 1 /\ (k - 1) + 1 = k)
      BY <1>1
    <3>3. 1 \in 1 .. (j + 1) - 1
      OBVIOUS
    <3> DEFINE D == {desc[k] : k \in 1 .. (j + 1) - 1}
               D2 == {desc'[k] : k \in 1 .. j - 1}
    <3>4. D2 \subseteq D /\ desc[1] \in D
      BY <3>1, <3>3
    <3>5. ASSUME NEW k \in 1 .. (j + 1) - 1 PROVE desc[k] \in {desc[1]} \cup D2
      <4>1. CASE k = 1
        BY <4>1
      <4>2. CASE k - 1 \in 1 .. j - 1 /\ (k - 1) + 1 = k
        <5>1. desc'[k - 1] = desc[k]
          BY <3>1, <4>2
        <5>2. desc'[k - 1] \in D2
          BY <4>2
        <5> QED BY <5>1, <5>2
      <4> QED BY <3>2, <4>1, <4>2
    <3>6. D \subseteq {desc[1]} \cup D2
      <4> HIDE DEF D2
      <4> QED BY <3>5
    <3>7. Seen' \cup D2 = Seen \cup D
      <4> HIDE DEF D, D2
      <4> QED BY <1>6, <1>8, <3>4, <3>6
    <3>8. desc'[j] = desc[j + 1]
      BY <2>1
    <3> QED BY <1>8, <3>7, <3>8 DEF Block
  <2>3. 1 \in 0 .. L /\ reqs' = SubSeq(reqs, at[1 + 1] + 1, Len(reqs))
    <3>1. at[1 + 1] = len /\ 1 \in 0 .. L
      BY <1>1, <1>3
    <3> HIDE DEF len
    <3> QED BY <1>8, <3>1
  <2> QED BY <1>2, <2>1, <2>2, <2>3, BlocksMoved
<1> QED BY <1>3, <1>4, <1>5, <1>7, <1>8

\* At first nothing has been asked for.
LEMMA InitDelivers ==
  ASSUME Init
  PROVE  DInv
<1>1. /\ phase = "collect" /\ colReqs = call.ask /\ desc = <<>> /\ reqs = <<>>
      /\ index = <<>> /\ columns = <<>> /\ mdRegions = <<>> /\ valRegions = <<>>
  BY DEF Init
<1>2. Seen = {}
  BY <1>1 DEF Seen
<1>3. desc \in Seq(Selected) /\ IsInjective(desc) /\ ToSet(desc) = {}
  BY <1>1 DEF IsInjective, ToSet
<1>4. reqs \in Seq(ToSet(reqs))
  BY <1>1
<1> QED BY <1>1, <1>2, <1>3, <1>4 DEF DInv, Asked, Gathered, InTheList, Taken

\* A reference column is asked for as a column that refers to it, which is
\* asked for with the same call.
LEMMA CollectDelivers ==
  ASSUME IInv, DInv, Collect
  PROVE  DInv'
<1>1. /\ phase = "collect" /\ phase' = "gather"
      /\ colReqs' = [n \in Column |->
           IF Referring(n) = {} THEN call.ask[n] ELSE call.ask[Max(Referring(n))]]
      /\ UNCHANGED <<cols, call, valReqs, reqs, desc>> /\ UNCHANGED receiver
      /\ partitions' = IF call.over = "none" THEN <<>>
                       ELSE <<Entry(Index, IF call.over = "index" THEN TablePart ELSE Projected(Index))>>
  BY DEF Collect
<1>2. Selected' = Selected /\ (Keeps' <=> Keeps) /\ (Serialized' <=> Serialized)
  BY <1>1 DEF Selected, Keeps, Serialized
<1>3. ASSUME NEW n \in Selected PROVE \E m \in Selected : colReqs'[n] = call.ask[m]
  <2>1. n \in Column
    BY DEF Selected
  <2>2. CASE Referring(n) = {}
    BY <1>1, <2>1, <2>2
  <2>3. CASE Referring(n) # {}
    <3>1. Referring(n) \in SUBSET Nat /\ IsFiniteSet(Referring(n))
      <4>1. Referring(n) \in SUBSET Column
        BY DEF Referring, Selected
      <4>2. Column = 1 .. NumColumns /\ NumColumns \in Nat
        BY RequirementsAssumption DEF Column
      <4>3. IsFiniteSet(Column)
        BY <4>2, FS_Interval
      <4> QED BY <4>1, <4>2, <4>3, FS_Subset
    <3>2. Max(Referring(n)) \in Referring(n)
      BY <2>3, <3>1, Greatest
    <3>3. Max(Referring(n)) \in Selected
      BY <3>2 DEF Referring
    <3> QED BY <1>1, <2>1, <2>3, <3>3
  <2> QED BY <2>2, <2>3
<1>4. Asked'
  <2> SUFFICES ASSUME NEW n \in Selected
               PROVE  /\ Serialized => colReqs'[n] = Default
                      /\ AllHeeded => Keeps \/ ~colReqs'[n].own
    BY <1>1, <1>2 DEF Asked, Heeded
  <2>1. PICK m \in Selected : colReqs'[n] = call.ask[m]
    BY <1>3
  <2>2. m \in Column /\ call.ask[m] # Omitted
    BY DEF Selected
  <2>3. call \in Calls
    BY DEF IInv, OnRecord
  <2>4. Serialized => call.ask[m] = Default
    BY <2>2 DEF Serialized
  <2>5. ~Keeps => call.sender = "physical"
    BY <2>3, RequirementsAssumption DEF Keeps
  <2> QED BY <2>1, <2>2, <2>3, <2>4, <2>5 DEF AllHeeded
<1>5. Gathered'
  <2>1. DOMAIN valReqs' = {}
    BY <1>1 DEF IInv, OnRecord
  <2>2. \A n : ~Known(n)'
    BY <2>1 DEF Known
  <2>3. \A i \in DOMAIN partitions' : partitions'[i].region = Index
    <3>1. CASE call.over = "none"
      BY <1>1, <3>1
    <3>2. CASE call.over # "none"
      <4>1. PICK e : partitions' = <<e>> /\ e.region = Index
        BY <1>1, <3>2 DEF Entry
      <4> QED BY <4>1
    <3> QED BY <3>1, <3>2
  <2> QED BY <1>1, <2>2, <2>3 DEF Gathered
<1>6. InTheList'
  BY <1>1, <1>2 DEF DInv, InTheList, Seen, receiver
<1>7. Taken'
  <2>1. Seen = {} /\ Seen' = {} /\ index' = <<>> /\ columns' = <<>> /\ mdRegions' = <<>> /\ valRegions' = <<>>
    BY <1>1 DEF DInv, InTheList, Taken, Seen, receiver
  <2> QED BY <1>1, <2>1 DEF Taken
<1> QED BY <1>4, <1>5, <1>6, <1>7 DEF DInv

\* Where the second loop finds a partition, it is one that is meant.
LEMMA PartIsMeant ==
  ASSUME OnRecord, Gathered, phase = "gather", NEW n \in Selected, Unmixed(n), Heeded(n)
  PROVE  \/ PartFor(n) \in Meant(n)
         \/ /\ PartFor(n) = Projected(cols[n].region) /\ Serving(n) = {}
            /\ Meant(n) = [of : {cols[n].region}, nr : 1 .. Len(partitions)]
<1> DEFINE r == cols[n].region
<1>1. n \in Column /\ r \in Region /\ OwnPart(n) \in Partition /\ OwnPart(n) # NoPart
  <2>1. n \in Column
    BY DEF Selected
  <2>2. r \in Region /\ OwnPart(n) \in Partition
    BY <2>1, ColumnKnown
  <2>3. NoPart \notin Partition
    BY RequirementsAssumption DEF Partition, Space
  <2> QED BY <2>1, <2>2, <2>3
<1>2. DOMAIN partitions = 1 .. Len(partitions) /\ Len(partitions) \in Nat
  BY DEF OnRecord
<1>3. Serving(n) # {} => Min(Serving(n)) \in Serving(n)
  <2>1. Serving(n) \in SUBSET Nat
    BY <1>2 DEF Serving
  <2> QED BY <2>1, MinIsLeast
<1>4. CASE colReqs[n].own
  <2>1. Key(n)[3] = OwnPart(n)
    BY <1>4 DEF Heeded, Key
  <2>2. Meant(n) = {OwnPart(n)}
    BY <1>4 DEF Meant
  <2>3. PartFor(n) = OwnPart(n)
    BY <1>1, <1>3, <2>1 DEF PartFor, Serving
  <2> QED BY <2>2, <2>3
<1>5. CASE ~colReqs[n].own /\ call.over = "none"
  <2>1. Key(n)[3] = NoPart
    BY <1>5 DEF Key
  <2> QED BY <1>5, <2>1 DEF PartFor, Meant
<1>6. CASE ~colReqs[n].own /\ call.over # "none"
  <2>1. Key(n)[3] = NoPart
    BY <1>6 DEF Key
  <2>2. Meant(n) = [of : {r}, nr : 1 .. Len(partitions)]
    BY <1>6 DEF Meant
  <2>3. CASE Serving(n) = {}
    BY <1>6, <2>1, <2>2, <2>3 DEF PartFor
  <2>4. CASE Serving(n) # {}
    <3> DEFINE i == Min(Serving(n))
    <3>1. i \in DOMAIN partitions /\ partitions[i].region = r
      BY <1>3, <2>4 DEF Serving
    <3>2. PartFor(n) = partitions[i].part
      BY <1>6, <2>4 DEF PartFor
    <3> HIDE DEF i
    <3>3. r # Index
      BY <1>1, RequirementsAssumption
    <3>4. ~ \E m \in Selected : colReqs[m].own /\ cols[m].region = r
      BY <1>6 DEF Unmixed
    <3>5. partitions[i].part = [of |-> r, nr |-> i]
      BY <3>1, <3>3, <3>4 DEF Gathered
    <3> QED BY <1>2, <2>2, <3>1, <3>2, <3>5
  <2> QED BY <2>3, <2>4
<1> QED BY <1>4, <1>5, <1>6

\* The second loop puts a field and its column's partition on record.
LEMMA GatherDelivers ==
  ASSUME IInv, DInv, Gather
  PROVE  DInv'
<1> DEFINE n == Min(Ungathered)
           key == Key(n)
           part == IF Known(n) THEN valReqs[key].part ELSE PartFor(n)
           fresh == ~Known(n) /\ part # NoPart /\ Serving(n) = {}
           entry == Entry(cols[n].region, part)
           N == Len(partitions)
<1>1. n \in Selected
  BY Numbered DEF Gather, Ungathered, Selected
<1>2. /\ phase = "gather" /\ phase' = "gather"
      /\ UNCHANGED <<cols, call, colReqs, reqs, desc>> /\ UNCHANGED receiver
      /\ partitions' = IF fresh THEN Append(partitions, entry) ELSE partitions
      /\ DOMAIN valReqs' = DOMAIN valReqs \cup {key}
      /\ \A k \in DOMAIN valReqs' : k # key => valReqs'[k] = valReqs[k]
      /\ valReqs'[key].part = part
      /\ valReqs'[key].fids =
           {cols[n].fid} \cup (IF Known(n) THEN valReqs[key].fids ELSE {})
  BY DEF Gather
<1> HIDE DEF n
<1>3. /\ ~Known(n) => part = PartFor(n)
      /\ Known(n) => part = valReqs[key].part /\ ~fresh
      /\ fresh => part # NoPart /\ ~Known(n)
      /\ ~Known(n) /\ part # NoPart /\ Serving(n) = {} => fresh
  OBVIOUS
<1> HIDE DEF part, fresh
<1>4. /\ Selected' = Selected /\ (Keeps' <=> Keeps) /\ (Serialized' <=> Serialized)
      /\ \A m : Key(m)' = Key(m) /\ (Heeded(m)' <=> Heeded(m)) /\ (Unmixed(m)' <=> Unmixed(m))
  <2>1. Selected' = Selected /\ (Keeps' <=> Keeps) /\ (Serialized' <=> Serialized)
    BY <1>2 DEF Selected, Keeps, Serialized
  <2>2. \A m : Key(m)' = Key(m)
    BY <1>2, <2>1 DEF Key, OwnPart
  <2>3. \A m : (Heeded(m)' <=> Heeded(m)) /\ (Unmixed(m)' <=> Unmixed(m))
    BY <1>2, <2>1 DEF Heeded, Unmixed
  <2> QED BY <2>1, <2>2, <2>3
<1>5. OnRecord /\ Asked /\ Gathered
  BY DEF IInv, DInv
<1>6. /\ N \in Nat /\ DOMAIN partitions = 1 .. N
      /\ Len(partitions') \in {N, N + 1}
      /\ fresh => Len(partitions') = N + 1
  <2>1. N \in Nat /\ DOMAIN partitions = 1 .. N
    BY <1>5 DEF OnRecord
  <2>2. Len(Append(partitions, entry)) = N + 1
    <3> HIDE DEF entry
    <3> QED BY <1>5 DEF OnRecord
  <2> HIDE DEF entry
  <2> QED BY <1>2, <2>1, <2>2
<1>7. Asked'
  BY <1>2, <1>4, <1>5 DEF Asked
<1>8. \A i \in DOMAIN partitions' :
        \/ partitions'[i].region = Index
        \/ partitions'[i].part = [of |-> partitions'[i].region, nr |-> i]
        \/ \E m \in Selected : colReqs[m].own /\ cols[m].region = partitions'[i].region
  <2>1. \A i \in DOMAIN partitions :
        \/ partitions[i].region = Index
        \/ partitions[i].part = [of |-> partitions[i].region, nr |-> i]
        \/ \E m \in Selected : colReqs[m].own /\ cols[m].region = partitions[i].region
    BY <1>2, <1>5 DEF Gathered
  <2>2. CASE ~fresh
    BY <1>2, <2>1, <2>2
  <2>3. CASE fresh
    <3>1. /\ DOMAIN partitions' = 1 .. N + 1
          /\ \A i \in 1 .. N : partitions'[i] = partitions[i]
          /\ partitions'[N + 1] = entry
      <4>1. partitions' = Append(partitions, entry)
        BY <1>2, <2>3
      <4> HIDE DEF entry
      <4>2. \E S : partitions \in Seq(S)
        BY <1>5 DEF OnRecord
      <4> QED BY <1>6, <4>1, <4>2
    <3>2. \/ part = [of |-> cols[n].region, nr |-> N + 1]
          \/ colReqs[n].own
      <4>1. part = PartFor(n) /\ part # NoPart /\ Serving(n) = {}
        BY <1>3, <2>3 DEF fresh
      <4>2. CASE Key(n)[3] = NoPart
        BY <4>1, <4>2 DEF PartFor, Projected
      <4>3. CASE Key(n)[3] # NoPart
        BY <4>3 DEF Key
      <4> QED BY <4>2, <4>3
    <3>3. entry.region = cols[n].region /\ entry.part = part
      BY DEF Entry
    <3> HIDE DEF entry
    <3>4. \A i \in 1 .. N + 1 : i \in 1 .. N \/ i = N + 1
      BY <1>6
    <3> QED BY <1>1, <1>6, <2>1, <3>1, <3>2, <3>3, <3>4
  <2> QED BY <2>2, <2>3
<1>9. ASSUME NEW m \in Selected, Known(m)'
      PROVE  /\ \A l \in Selected :
                  cols[l].region = cols[m].region /\ cols[l].fid \in valReqs'[Key(m)].fids
                  => Key(l) = Key(m)
             /\ Unmixed(m) /\ Heeded(m) => valReqs'[Key(m)].part \in Meant(m)'
  <2>1. Key(m) \in DOMAIN valReqs'
    <3>1. Key(m)' \in DOMAIN valReqs'
      BY <1>9 DEF Known
    <3> QED BY <1>4, <3>1
  <2>2. Meant(m) \subseteq Meant(m)'
    BY <1>2, <1>6 DEF Meant, OwnPart
  <2>3. CASE Key(m) # key
    <3>1. Known(m) /\ valReqs'[Key(m)] = valReqs[Key(m)]
      BY <1>2, <2>1, <2>3 DEF Known
    <3> QED BY <1>5, <1>2, <2>2, <3>1 DEF Gathered
  <2>4. CASE Key(m) = key
    <3>1. cols[m].region = cols[n].region /\ (Known(m) <=> Known(n))
      BY <2>4 DEF Key, Known
    <3>2. ASSUME NEW l \in Selected, cols[l].region = cols[m].region,
                 cols[l].fid \in valReqs'[Key(m)].fids
          PROVE  Key(l) = Key(m)
      <4>1. CASE cols[l].fid = cols[n].fid
        <5>1. l \in Column /\ n \in Column /\ cols \in Tables
          BY <1>1, <1>5 DEF Selected, OnRecord
        <5>2. l = n
          BY <3>1, <3>2, <4>1, <5>1, RequirementsAssumption
        <5> QED BY <2>4, <5>2
      <4>2. CASE cols[l].fid # cols[n].fid
        <5>1. Known(m) /\ cols[l].fid \in valReqs[Key(m)].fids
          BY <1>2, <2>4, <3>1, <3>2, <4>2
        <5> QED BY <1>2, <1>5, <3>2, <5>1 DEF Gathered
      <4> QED BY <4>1, <4>2
    <3>3. ASSUME Unmixed(m), Heeded(m) PROVE valReqs'[Key(m)].part \in Meant(m)'
      <4>1. CASE Known(m)
        <5>1. valReqs[Key(m)].part \in Meant(m)
          BY <1>2, <1>5, <3>3, <4>1 DEF Gathered
        <5>2. valReqs'[Key(m)].part = valReqs[Key(m)].part
          BY <1>2, <1>3, <2>4, <3>1, <4>1
        <5> QED BY <2>2, <5>1, <5>2
      <4>2. CASE ~Known(m)
        <5>1. PartFor(m) = PartFor(n) /\ Serving(m) = Serving(n)
          BY <2>4, <3>1 DEF PartFor, Serving
        <5>2. valReqs'[Key(m)].part = PartFor(m)
          BY <1>2, <1>3, <2>4, <3>1, <4>2, <5>1
        <5>3. CASE PartFor(m) \in Meant(m)
          BY <2>2, <5>2, <5>3
        <5>4. CASE /\ PartFor(m) = Projected(cols[m].region) /\ Serving(m) = {}
                   /\ Meant(m) = [of : {cols[m].region}, nr : 1 .. Len(partitions)]
          <6>1. PartFor(m) = [of |-> cols[m].region, nr |-> N + 1]
            BY <5>4 DEF Projected
          <6>2. PartFor(m) # NoPart
            <7>1. m \in Column
              BY DEF Selected
            <7>2. cols[m].region \in Region
              BY <1>5, <7>1, ColumnKnown
            <7> QED BY <1>6, <6>1, <7>2, RequirementsAssumption
          <6>3. fresh
            BY <1>3, <3>1, <4>2, <5>1, <5>4, <6>2
          <6>4. Len(partitions') = N + 1
            BY <1>6, <6>3
          <6>5. CASE colReqs[m].own
            <7>1. Meant(m) = {OwnPart(m)}
              BY <6>5 DEF Meant
            <7>2. Key(m)[3] = OwnPart(m)
              BY <3>3, <6>5 DEF Heeded, Key
            <7>3. OwnPart(m) # NoPart
              <8>1. OwnPart(m) \in Partition
                BY <1>5, ColumnKnown DEF Selected
              <8> QED BY <8>1, RequirementsAssumption DEF Partition, Space
            <7>4. PartFor(m) = OwnPart(m)
              BY <5>4, <7>2, <7>3 DEF PartFor
            <7> QED BY <2>2, <5>2, <7>1, <7>4
          <6>6. CASE ~colReqs[m].own
            <7>1. call.over # "none"
              <8> SUFFICES ASSUME call.over = "none" PROVE FALSE
                OBVIOUS
              <8>1. Key(m)[3] = NoPart
                BY <6>6 DEF Key
              <8> QED BY <6>2, <8>1 DEF PartFor
            <7>2. Meant(m)' = [of : {cols[m].region}, nr : 1 .. Len(partitions')]
              BY <1>2, <6>6, <7>1 DEF Meant
            <7> QED BY <1>6, <5>2, <6>1, <6>4, <7>2
          <6> QED BY <6>5, <6>6
        <5> QED BY <1>2, <1>5, <3>3, <5>3, <5>4, PartIsMeant
      <4> QED BY <4>1, <4>2
    <3> QED BY <3>2, <3>3
  <2> QED BY <2>3, <2>4
<1>10. Gathered'
  BY <1>2, <1>4, <1>8, <1>9 DEF Gathered
<1>11. InTheList'
  BY <1>2, <1>4 DEF DInv, InTheList, Seen, receiver
<1>12. Taken'
  <2>1. Seen = {} /\ Seen' = {} /\ index' = <<>> /\ columns' = <<>> /\ mdRegions' = <<>> /\ valRegions' = <<>>
    BY <1>2 DEF DInv, InTheList, Taken, Seen, receiver
  <2> QED BY <1>2, <2>1 DEF Taken
<1> QED BY <1>7, <1>10, <1>11, <1>12 DEF DInv

\* A step that leaves the requests alone leaves alone what is said of them.
LEMMA AskedStays ==
  ASSUME DInv, UNCHANGED <<cols, call, colReqs, partitions, valReqs>>,
         phase \notin {"collect", "aborted"}, phase' \notin {"collect", "aborted"},
         phase = "gather" => Ungathered = {}
  PROVE  /\ Asked' /\ Gathered'
         /\ \A n : columns'[n] = columns[n] => (GotIt(n)' <=> GotIt(n))
<1>1. Asked'
  BY SameColumns DEF DInv, Asked
<1>2. Gathered
  BY DEF DInv
<1>3. \A n \in Selected : Known(n) /\ cols[n].fid \in valReqs[Key(n)].fids
  BY <1>2 DEF Gathered, Ungathered
<1>4. Gathered'
  <2>1. \A i \in DOMAIN partitions :
         \/ partitions[i].region = Index
         \/ partitions[i].part = [of |-> partitions[i].region, nr |-> i]
         \/ \E m \in Selected : colReqs[m].own /\ cols[m].region = partitions[i].region
    BY <1>2 DEF Gathered
  <2>2. \A n \in Selected :
         /\ \A m \in Selected :
              cols[m].region = cols[n].region /\ cols[m].fid \in valReqs[Key(n)].fids
              => Key(m) = Key(n)
         /\ Unmixed(n) /\ Heeded(n) => valReqs[Key(n)].part \in Meant(n)
    BY <1>2, <1>3 DEF Gathered
  <2> QED BY <1>3, <2>1, <2>2, SameColumns DEF Gathered
<1>5. \A n : columns'[n] = columns[n] => (GotIt(n)' <=> GotIt(n))
  BY SameColumns DEF GotIt
<1> QED BY <1>1, <1>4, <1>5

\* The list begins with the index column.
LEMMA BeginDelivers ==
  ASSUME IInv, DInv, Begin
  PROVE  DInv'
<1>1. /\ phase = "gather" /\ phase' = "emit" /\ Ungathered = {} /\ reqs' = IndexReqs
      /\ UNCHANGED <<cols, call, colReqs, partitions, valReqs>>
      /\ UNCHANGED <<desc, index, mdRegions, valRegions, columns>>
  BY DEF Begin, sender, receiver
<1>2. /\ desc = <<>> /\ desc' = <<>> /\ index' = <<>> /\ Seen' = {}
      /\ columns' = <<>> /\ mdRegions' = <<>> /\ valRegions' = <<>>
  BY <1>1 DEF DInv, InTheList, Taken, Seen
<1>3. Asked' /\ Gathered'
  BY <1>1, AskedStays
<1>4. /\ reqs' \in Seq(ToSet(reqs')) /\ Len(reqs') >= 2
      /\ reqs'[1] = IndexReqs[1] /\ reqs'[2] = IndexReqs[2] /\ Len(reqs') = 2
  <2>1. reqs' \in Seq(ToSet(reqs'))
    BY <1>1, BeginKeeps DEF IInv, OnRecord
  <2>2. Len(IndexReqs) = 2
    BY DEF IndexReqs
  <2> QED BY <1>1, <2>1, <2>2
<1>5. LaidOut(2)'
  <2> DEFINE a == [j \in 1 .. 1 |-> 2]
  <2>1. Len(desc') = 0
    BY <1>2
  <2>2. a \in [1 .. Len(desc') + 1 -> Nat] /\ a[1] = 2 /\ 1 .. Len(desc') = {}
        /\ \A j \in 1 .. Len(desc') + 1 : a[j] = 2
    BY <2>1
  <2> HIDE DEF a
  <2>3. BlocksAt(a)'
    BY <1>4, <2>1, <2>2 DEF BlocksAt
  <2> QED BY <2>2, <2>3 DEF LaidOut
<1>6. SentSoFar'
  <2>1. \A e \in ToSet(reqs') : e.kind \in {"index_metadata", "index"}
    <3>1. DOMAIN reqs' = {1, 2} /\ reqs'[1].kind = "index_metadata" /\ reqs'[2].kind = "index"
      BY <1>1 DEF IndexReqs
    <3> QED BY <3>1 DEF ToSet
  <2>2. \A n : Metadata(n)' \notin ToSet(reqs') /\ Values(n)' \notin ToSet(reqs')
    BY <2>1 DEF Metadata, Values
  <2>3. ToSet(desc') = {}
    BY <1>2 DEF ToSet
  <2> QED BY <2>2, <2>3 DEF SentSoFar
<1>7. InTheList'
  <2>1. desc' \in Seq(Selected') /\ IsInjective(desc') /\ ToSet(desc') = {}
    BY <1>2 DEF IsInjective, ToSet
  <2>2. IndexReqs' = IndexReqs
    BY <1>1, SameColumns
  <2> QED BY <1>1, <1>2, <1>4, <1>5, <1>6, <2>1, <2>2 DEF InTheList
<1>8. Taken'
  BY <1>1, <1>2 DEF Taken
<1> QED BY <1>3, <1>7, <1>8 DEF DInv

\* A column adds its block to the list and is the next of the descriptor.
LEMMA EmitDelivers ==
  ASSUME IInv, DInv, Emit
  PROVE  DInv'
<1> DEFINE n == Min(Unsent)
           P == Pushed(n)
<1>1. n \in Unsent /\ n \in Selected /\ n \in Column
  <2>1. Unsent \in SUBSET Column /\ Unsent # {}
    BY DEF Emit, Unsent, Selected
  <2>2. n \in Unsent
    BY <2>1, Numbered
  <2> QED BY <2>1, <2>2 DEF Unsent
<1>2. /\ phase = "emit" /\ phase' = "emit" /\ reqs' = reqs \o P /\ desc' = Append(desc, n)
      /\ UNCHANGED <<cols, call, colReqs, partitions, valReqs>>
      /\ UNCHANGED <<index, mdRegions, valRegions, columns>>
  BY DEF Emit, sender, receiver
<1> HIDE DEF n
<1>3. /\ OnRecord /\ Gathered /\ SentSoFar /\ LaidOut(2)
      /\ index = <<>> /\ columns = <<>> /\ mdRegions = <<>> /\ valRegions = <<>>
      /\ desc \in Seq(Selected) /\ IsInjective(desc) /\ reqs \in Seq(ToSet(reqs))
      /\ Len(reqs) >= 2 /\ reqs[1] = IndexReqs[1] /\ reqs[2] = IndexReqs[2]
  BY <1>2 DEF IInv, DInv, InTheList, Taken
<1>4. Asked' /\ Gathered'
  BY <1>2, AskedStays
<1>5. /\ Selected' = Selected /\ IndexReqs' = IndexReqs
      /\ \A m : Metadata(m)' = Metadata(m) /\ Values(m)' = Values(m)
      /\ \A E, m : BlockOf(E, m)' = BlockOf(E, m)
  BY <1>2, SameColumns, SameBlocks
<1>6. Seen = {} /\ Seen' = {}
  BY <1>2, <1>3 DEF Seen
<1>7. P = BlockOf(ToSet(desc), n)
  BY <1>1, <1>2, <1>3, PushedIsBlock
<1> HIDE DEF P
<1>8. LaidOut(2)'
  BY <1>1, <1>2, <1>3, <1>5, <1>6, <1>7, BlockAdded
<1>9. P \in Seq(ToSet(P)) /\ ToSet(P) \subseteq {Metadata(n), Values(n)} \cup ToSet(Extra(n))
  BY <1>1, <1>3, <1>7, BlockParts
<1>10. /\ reqs' \in Seq(ToSet(reqs')) /\ ToSet(reqs') = ToSet(reqs) \cup ToSet(P)
       /\ Len(reqs') >= 2 /\ reqs'[1] = reqs[1] /\ reqs'[2] = reqs[2]
  <2>1. reqs' \in Seq(ToSet(reqs')) /\ ToSet(reqs') = ToSet(reqs) \cup ToSet(P)
    BY <1>2, <1>3, <1>9, Joined
  <2> DEFINE T == ToSet(reqs) \cup ToSet(P)
  <2>2. reqs \in Seq(T) /\ P \in Seq(T)
    BY <1>3, <1>9
  <2> HIDE DEF T
  <2>3. /\ Len(reqs \o P) = Len(reqs) + Len(P)
        /\ \A i \in 1 .. Len(reqs) + Len(P) :
             (reqs \o P)[i] = IF i <= Len(reqs) THEN reqs[i] ELSE P[i - Len(reqs)]
    BY <2>2, ConcatProperties
  <2>4. /\ Len(reqs) \in Nat /\ Len(P) \in Nat
        /\ 1 \in 1 .. Len(reqs) + Len(P) /\ 2 \in 1 .. Len(reqs) + Len(P)
        /\ 1 <= Len(reqs) /\ 2 <= Len(reqs)
    BY <1>3, <2>2
  <2> QED BY <1>2, <2>1, <2>3, <2>4
<1>11. desc' \in Seq(Selected) /\ IsInjective(desc') /\ ToSet(desc') = ToSet(desc) \cup {n}
  <2>1. /\ Len(desc) \in Nat /\ DOMAIN desc = 1 .. Len(desc)
        /\ desc' \in Seq(Selected) /\ Len(desc') = Len(desc) + 1
        /\ DOMAIN desc' = 1 .. Len(desc) + 1
        /\ \A i \in 1 .. Len(desc) : desc'[i] = desc[i]
        /\ desc'[Len(desc) + 1] = n
    BY <1>1, <1>2, <1>3, AppendProperties
  <2>2. \A i \in 1 .. Len(desc) : desc[i] # n
    BY <1>1, <2>1 DEF Unsent, Contains
  <2>3. \A i \in 1 .. Len(desc) + 1 : i \in 1 .. Len(desc) \/ i = Len(desc) + 1
    BY <2>1
  <2>4. Len(desc) + 1 \in 1 .. Len(desc) + 1 /\ 1 .. Len(desc) \subseteq 1 .. Len(desc) + 1
    BY <2>1
  <2>5. IsInjective(desc')
    BY <1>3, <2>1, <2>2, <2>3 DEF IsInjective
  <2>6. ToSet(desc') = ToSet(desc) \cup {n}
    BY <2>1, <2>3, <2>4 DEF ToSet
  <2> QED BY <2>1, <2>5, <2>6
<1>12. SentSoFar'
  <2>1. Metadata(n) \in ToSet(reqs') /\ Values(n) \in ToSet(reqs')
    <3>1. ToSet(desc) \subseteq Selected
      BY <1>3 DEF ToSet
    <3>2. /\ (\E m \in ToSet(desc) : cols[m].region = cols[n].region) \/ Metadata(n) \in ToSet(P)
          /\ (\E m \in ToSet(desc) : Key(m) = Key(n)) \/ Values(n) \in ToSet(P)
      BY <1>1, <1>3, <1>7, BlockHas
    <3>3. ASSUME NEW m \in ToSet(desc), cols[m].region = cols[n].region
          PROVE  Metadata(n) \in ToSet(reqs)
      <4>1. Metadata(m) = Metadata(n)
        BY <3>3 DEF Metadata
      <4> QED BY <1>3, <4>1 DEF SentSoFar
    <3>4. ASSUME NEW m \in ToSet(desc), Key(m) = Key(n)
          PROVE  Values(n) \in ToSet(reqs)
      <4>1. Values(m) = Values(n)
        BY <1>1, <1>2, <1>3, <3>1, <3>4, ValuesTell
      <4> QED BY <1>3, <4>1 DEF SentSoFar
    <3> QED BY <1>10, <3>2, <3>3, <3>4
  <2>2. \A m \in ToSet(desc') : Metadata(m) \in ToSet(reqs') /\ Values(m) \in ToSet(reqs')
    BY <1>3, <1>10, <1>11, <2>1 DEF SentSoFar
  <2>3. \A e \in ToSet(Extra(n)) : e.kind \notin {"metadata", "values"}
    BY <1>1, <1>3, ExtrasAre
  <2>4. ASSUME NEW l \in Selected, Metadata(l) \in ToSet(reqs')
        PROVE  \E m \in ToSet(desc') : cols[m].region = cols[l].region
    <3>1. CASE Metadata(l) \in ToSet(reqs)
      BY <1>3, <1>11, <3>1 DEF SentSoFar
    <3>2. CASE Metadata(l) \in ToSet(P)
      <4>1. Metadata(l).kind = "metadata" /\ Values(n).kind = "values"
        BY DEF Metadata, Values
      <4>2. Metadata(l) = Metadata(n)
        BY <1>9, <2>3, <3>2, <4>1
      <4>3. cols[n].region = cols[l].region
        BY <4>2 DEF Metadata
      <4> QED BY <1>11, <4>3
    <3> QED BY <1>10, <2>4, <3>1, <3>2
  <2>5. ASSUME NEW l \in Selected, Values(l) \in ToSet(reqs')
        PROVE  \E m \in ToSet(desc') : Values(m) = Values(l)
    <3>1. CASE Values(l) \in ToSet(reqs)
      BY <1>3, <1>11, <3>1 DEF SentSoFar
    <3>2. CASE Values(l) \in ToSet(P)
      <4>1. Values(l).kind = "values" /\ Metadata(n).kind = "metadata"
        BY DEF Metadata, Values
      <4>2. Values(l) = Values(n)
        BY <1>9, <2>3, <3>2, <4>1
      <4> QED BY <1>11, <4>2
    <3> QED BY <1>10, <2>5, <3>1, <3>2
  <2> QED BY <1>2, <1>5, <2>2, <2>4, <2>5 DEF SentSoFar
<1>13. InTheList'
  BY <1>2, <1>3, <1>5, <1>6, <1>8, <1>10, <1>11, <1>12 DEF InTheList
<1>14. Taken'
  BY <1>2, <1>3, <1>6 DEF Taken
<1> QED BY <1>4, <1>13, <1>14 DEF DInv

\* Blocks are where they were unless the list, the descriptor or the columns
\* change.
LEMMA SamePlaces ==
  ASSUME UNCHANGED <<cols, call, colReqs, partitions, valReqs>>,
         UNCHANGED <<reqs, desc, columns>>
  PROVE  \A base : LaidOut(base) => LaidOut(base)'
<1>1. \A j : Block(j)' = Block(j)
  BY SameBlocks DEF Block, Seen
<1> SUFFICES ASSUME NEW base, LaidOut(base) PROVE LaidOut(base)'
  OBVIOUS
<1>2. PICK at \in [1 .. Len(desc) + 1 -> Nat] : at[1] = base /\ BlocksAt(at)
  BY DEF LaidOut
<1>3. BlocksAt(at)'
  BY <1>1, <1>2 DEF BlocksAt
<1> QED BY <1>2, <1>3 DEF LaidOut

\* The receiver has the whole descriptor and no column yet.
LEMMA SendDelivers ==
  ASSUME IInv, DInv, Send
  PROVE  DInv'
<1>1. /\ phase = "emit" /\ Unsent = {}
      /\ phase' = "create" \/ (Serialized /\ phase' = "deserialize")
      /\ UNCHANGED <<cols, call, colReqs, partitions, valReqs>>
      /\ UNCHANGED <<reqs, desc, columns>> /\ UNCHANGED <<index, mdRegions, valRegions>>
  BY DEF Send, sender, receiver
<1>2. /\ InTheList /\ index = <<>> /\ columns = <<>> /\ mdRegions = <<>> /\ valRegions = <<>>
  BY <1>1 DEF DInv, InTheList, Taken
<1>3. Asked' /\ Gathered'
  BY <1>1, AskedStays
<1>4. ToSet(desc) = Selected
  <2>1. ToSet(desc) \subseteq Selected
    BY <1>2 DEF InTheList, ToSet
  <2>2. desc \in Seq(Selected)
    BY <1>2 DEF InTheList
  <2>3. DOMAIN desc = 1 .. Len(desc)
    BY <2>2
  <2>4. \A n \in Selected : n \in ToSet(desc)
    BY <1>1, <2>3 DEF Unsent, Contains, ToSet
  <2> QED BY <2>1, <2>4
<1>5. /\ Selected' = Selected /\ (Serialized' <=> Serialized) /\ IndexReqs' = IndexReqs
  BY <1>1, SameColumns
<1>6. LaidOut(2)'
  BY <1>1, <1>2, SamePlaces DEF InTheList
<1>7. InTheList'
  BY <1>1, <1>2, <1>4, <1>5, <1>6 DEF InTheList, Seen
<1>8. Seen' = {} /\ DOMAIN mdRegions' = {} /\ DOMAIN valRegions' = {}
  BY <1>1, <1>2 DEF Seen
<1>9. Taken'
  BY <1>1, <1>2, <1>8 DEF Taken, MdKnown, ValKnown
<1> QED BY <1>3, <1>7, <1>9 DEF DInv

\* The receiver takes the index column.
LEMMA TakeIndexDelivers ==
  ASSUME IInv, DInv, TakeIndex
  PROVE  DInv'
<1>1. /\ phase \in {"create", "deserialize"} /\ phase' = phase /\ index = <<>>
      /\ index' = SubSeq(reqs, 1, 2) /\ reqs' = SubSeq(reqs, 3, Len(reqs))
      /\ UNCHANGED <<cols, call, colReqs, partitions, valReqs>>
      /\ UNCHANGED <<desc, mdRegions, valRegions, columns>>
  BY DEF TakeIndex, sender, receiver
<1>2. /\ OnRecord /\ InTheList /\ Taken /\ LaidOut(2) /\ Len(reqs) >= 2
      /\ desc \in Seq(Selected) /\ reqs \in Seq(ToSet(reqs))
      /\ reqs[1] = IndexReqs[1] /\ reqs[2] = IndexReqs[2]
  BY <1>1 DEF IInv, DInv, InTheList
<1>3. Asked' /\ Gathered' /\ \A n : GotIt(n)' <=> GotIt(n)
  BY <1>1, AskedStays
<1>4. /\ Selected' = Selected /\ (Serialized' <=> Serialized) /\ IndexReqs' = IndexReqs
      /\ \A n : Metadata(n)' = Metadata(n) /\ Values(n)' = Values(n) /\ Key(n)' = Key(n)
      /\ Seen' = Seen /\ \A j : Block(j)' = Block(j)
  BY <1>1, SameColumns, SameBlocks DEF Seen, Block
<1>5. index' = IndexReqs /\ index' # <<>>
  <2>1. /\ 1 \in Nat /\ 2 \in Nat /\ Len(reqs) \in Nat /\ 2 <= Len(reqs)
        /\ \A i \in 1 .. 2 : reqs[i] \in ToSet(reqs)
    BY <1>2 DEF ToSet
  <2>2. /\ index' \in Seq(ToSet(reqs)) /\ Len(index') = 2
        /\ index'[1] = reqs[1] /\ index'[2] = reqs[2]
    <3>1. /\ SubSeq(reqs, 1, 2) \in Seq(ToSet(reqs))
          /\ Len(SubSeq(reqs, 1, 2)) = IF 1 <= 2 THEN 2 - 1 + 1 ELSE 0
          /\ \A i \in 1 .. 2 - 1 + 1 : SubSeq(reqs, 1, 2)[i] = reqs[1 + i - 1]
      BY <2>1, SubSeqProperties
    <3> QED BY <1>1, <3>1
  <2>3. /\ DOMAIN index' = {1, 2} /\ index' = [i \in 1 .. 2 |-> index'[i]]
    BY <2>2
  <2>4. PICK a, b : IndexReqs = <<a, b>>
    BY DEF IndexReqs
  <2>5. index' = <<a, b>>
    BY <1>2, <2>2, <2>3, <2>4
  <2> QED BY <2>4, <2>5
<1>6. LaidOut(0)'
  <2>1. PICK at \in [1 .. Len(desc) + 1 -> Nat] : at[1] = 2 /\ BlocksAt(at)
    BY <1>2 DEF LaidOut
  <2>2. /\ 0 \in 0 .. Len(desc) /\ at[0 + 1] = 2
        /\ reqs' = SubSeq(reqs, at[0 + 1] + 1, Len(reqs))
        /\ Len(desc') = Len(desc) - 0
    BY <1>1, <1>2, <2>1
  <2>3. \A j \in 1 .. Len(desc) - 0 : Block(j)' = Block(j + 0)
    <3>1. \A j \in 1 .. Len(desc) - 0 : j + 0 = j
      BY <1>2
    <3> QED BY <1>4, <3>1
  <2> QED BY <1>2, <2>1, <2>2, <2>3, BlocksMoved
<1>7. reqs' \in Seq(ToSet(reqs'))
  <2>1. \A i \in 3 .. Len(reqs) : reqs[i] \in ToSet(reqs)
    BY <1>2 DEF ToSet
  <2>2. reqs' \in Seq(ToSet(reqs))
    BY <1>1, <1>2, <2>1, SubSeqProperties
  <2> QED BY <2>2, ListOfItsOwn
<1>8. InTheList'
  BY <1>1, <1>2, <1>4, <1>5, <1>6, <1>7 DEF InTheList
<1>9. Taken'
  BY <1>1, <1>2, <1>3, <1>4, <1>5 DEF Taken, MdKnown, ValKnown
<1> QED BY <1>3, <1>8, <1>9 DEF DInv

\* Neither the caller's cleaning up nor the receiver's return changes what has
\* been received.
LEMMA EndDelivers ==
  ASSUME IInv, DInv, Clean \/ Received
  PROVE  DInv'
<1>1. /\ UNCHANGED <<cols, call, colReqs, partitions, valReqs>>
      /\ UNCHANGED <<reqs, desc, columns>> /\ UNCHANGED <<index, mdRegions, valRegions>>
      /\ \/ phase \in {"create", "done"} /\ phase' = phase
         \/ /\ phase \in {"create", "deserialize"} /\ phase' = "done"
            /\ index # <<>> /\ desc = <<>>
  BY DEF Clean, Received, sender, receiver
<1>2. InTheList /\ Taken
  BY DEF DInv
<1>3. Asked' /\ Gathered' /\ \A n : GotIt(n)' <=> GotIt(n)
  BY <1>1, AskedStays
<1>4. /\ Selected' = Selected /\ (Serialized' <=> Serialized) /\ IndexReqs' = IndexReqs
      /\ \A n : Metadata(n)' = Metadata(n) /\ Values(n)' = Values(n) /\ Key(n)' = Key(n)
      /\ Seen' = Seen
  BY <1>1, SameColumns DEF Seen
<1>5. (LaidOut(2) => LaidOut(2)') /\ (LaidOut(0) => LaidOut(0)')
  BY <1>1, SamePlaces
<1>6. InTheList'
  BY <1>1, <1>2, <1>4, <1>5 DEF InTheList
<1>7. Taken'
  BY <1>1, <1>2, <1>3, <1>4 DEF Taken, MdKnown, ValKnown
<1> QED BY <1>3, <1>6, <1>7 DEF DInv

\* A request that is refused asks for nothing.
LEMMA AbortDelivers ==
  ASSUME IInv, DInv, Abort
  PROVE  DInv'
<1>1. /\ phase = "collect" /\ phase' = "aborted"
      /\ UNCHANGED <<cols, call, colReqs, partitions, valReqs>>
      /\ UNCHANGED <<reqs, desc, columns>> /\ UNCHANGED <<index, mdRegions, valRegions>>
  BY DEF Abort, sender, receiver
<1>2. InTheList /\ Taken /\ index = <<>> /\ columns = <<>>
  BY <1>1 DEF DInv, InTheList, Taken
<1>3. Selected' = Selected /\ Seen = {} /\ Seen' = {}
  BY <1>1, <1>2, SameColumns DEF Seen
<1>4. Asked' /\ Gathered'
  BY <1>1 DEF Asked, Gathered
<1>5. InTheList'
  BY <1>1, <1>2, <1>3 DEF InTheList
<1>6. Taken'
  BY <1>1, <1>2, <1>3 DEF Taken
<1> QED BY <1>4, <1>5, <1>6 DEF DInv

\* DInv is about nothing but vars.
LEMMA StutterDelivers ==
  ASSUME IInv, DInv, UNCHANGED vars
  PROVE  DInv'
<1>1. /\ UNCHANGED <<cols, call, colReqs, partitions, valReqs>> /\ UNCHANGED phase
      /\ UNCHANGED <<reqs, desc, columns>> /\ UNCHANGED <<index, mdRegions, valRegions>>
  BY DEF vars, sender, receiver
<1>2. InTheList /\ Taken /\ Asked /\ Gathered
  BY DEF DInv
<1>3. /\ Selected' = Selected /\ (Keeps' <=> Keeps) /\ (Serialized' <=> Serialized)
      /\ IndexReqs' = IndexReqs /\ Seen' = Seen
      /\ \A n : /\ Metadata(n)' = Metadata(n) /\ Values(n)' = Values(n)
                /\ Extra(n)' = Extra(n) /\ Key(n)' = Key(n)
                /\ (Known(n)' <=> Known(n)) /\ (Heeded(n)' <=> Heeded(n))
                /\ (Unmixed(n)' <=> Unmixed(n)) /\ Meant(n)' = Meant(n)
  BY <1>1, SameColumns DEF Seen
<1>4. (LaidOut(2) => LaidOut(2)') /\ (LaidOut(0) => LaidOut(0)')
  BY <1>1, SamePlaces
<1>5. Asked' /\ Gathered'
  BY <1>1, <1>2, <1>3 DEF Asked, Gathered
<1>6. SentSoFar => SentSoFar'
  BY <1>1, <1>3 DEF SentSoFar
<1>7. InTheList'
  BY <1>1, <1>2, <1>3, <1>4, <1>6 DEF InTheList
<1>8. \A n : GotIt(n)' <=> GotIt(n)
  BY <1>1, <1>3 DEF GotIt
<1>9. Taken'
  BY <1>1, <1>2, <1>3, <1>8 DEF Taken, MdKnown, ValKnown
<1> QED BY <1>5, <1>7, <1>9 DEF DInv

\* The extras of a column, after k requirements of its block.
LEMMA ExtrasTaken ==
  ASSUME OnRecord, NEW n \in Column, reqs \in Seq(ToSet(reqs)), NEW k \in Nat,
         k + Len(cols[n].extras) <= Len(reqs),
         \A i \in 1 .. Len(cols[n].extras) : reqs[k + i] = Extra(n)[i]
  PROVE  SubSeq(reqs, k + 1, k + Len(cols[n].extras)) = Extra(n)
<1> DEFINE L == Len(cols[n].extras)
           s == SubSeq(reqs, k + 1, k + L)
           x == Extra(n)
<1>1. L \in Nat /\ x \in Seq(ToSet(x)) /\ Len(x) = L
  BY ExtrasAre
<1>2. DOMAIN reqs = 1 .. Len(reqs) /\ Len(reqs) \in Nat /\ k + L <= Len(reqs)
  OBVIOUS
<1>3. \A i \in 1 .. L : reqs[k + i] = x[i]
  OBVIOUS
<1> HIDE DEF L, x
<1>4. \A i \in k + 1 .. k + L : reqs[i] \in ToSet(reqs)
  <2>1. \A i \in k + 1 .. k + L : i \in 1 .. Len(reqs)
    BY <1>1, <1>2
  <2> QED BY <1>2, <2>1 DEF ToSet
<1>5. /\ s \in Seq(ToSet(reqs)) /\ Len(s) = L
      /\ \A i \in 1 .. L : s[i] = reqs[k + i]
  <2>1. k + 1 \in Int /\ k + L \in Int
    BY <1>1
  <2>2. /\ s \in Seq(ToSet(reqs))
        /\ Len(s) = IF k + 1 <= k + L THEN (k + L) - (k + 1) + 1 ELSE 0
        /\ \A i \in 1 .. (k + L) - (k + 1) + 1 : s[i] = reqs[(k + 1) + i - 1]
    BY <1>4, <2>1, SubSeqProperties
  <2> HIDE DEF s
  <2>3. /\ (k + 1 <= k + L => (k + L) - (k + 1) + 1 = L) /\ (~(k + 1 <= k + L) => L = 0)
        /\ \A i \in 1 .. L : (k + 1) + i - 1 = k + i /\ i \in 1 .. (k + L) - (k + 1) + 1
    BY <1>1
  <2> QED BY <2>2, <2>3
<1> HIDE DEF s
<1>6. /\ s = [i \in 1 .. L |-> s[i]] /\ x = [i \in 1 .. L |-> x[i]]
  BY <1>1, <1>5
<1>7. \A i \in 1 .. L : s[i] = x[i]
  BY <1>3, <1>5
<1>8. s = x
  BY <1>6, <1>7
<1> QED BY <1>8 DEF s, x, L

\* The receiver goes on to the next column.
LEMMA NextInTheList ==
  ASSUME IInv, DInv, phase \in {"create", "deserialize"}, index # <<>>, desc # <<>>,
         UNCHANGED <<cols, call, colReqs, partitions, valReqs>>, UNCHANGED <<phase, index>>,
         reqs' = SubSeq(reqs, Len(BlockOf(Seen, Head(desc))) + 1, Len(reqs)),
         desc' = Tail(desc), Seen' = Seen \cup {Head(desc)}
  PROVE  InTheList'
<1>1. /\ OnRecord /\ LaidOut(0) /\ index = IndexReqs
      /\ desc \in Seq(Selected) /\ IsInjective(desc) /\ reqs \in Seq(ToSet(reqs))
      /\ Seen \subseteq Selected /\ Seen \cap ToSet(desc) = {} /\ Seen \cup ToSet(desc) = Selected
      /\ phase = "deserialize" => Serialized
  BY DEF IInv, DInv, InTheList
<1>2. /\ Selected' = Selected /\ (Serialized' <=> Serialized) /\ IndexReqs' = IndexReqs
      /\ \A E, n : BlockOf(E, n)' = BlockOf(E, n)
  BY SameColumns, SameBlocks
<1> DEFINE n == Head(desc)
           b == BlockOf(Seen, n)
<1>3. /\ Len(b) \in Nat /\ Len(b) <= Len(reqs) /\ LaidOut(0)'
  BY <1>1, <1>2, BlockTaken
<1>4. /\ n \in Selected /\ n = desc[1] /\ Len(desc) \in Nat \ {0}
      /\ desc' \in Seq(Selected) /\ Len(desc') = Len(desc) - 1
      /\ \A i \in 1 .. Len(desc) - 1 : desc'[i] = desc[i + 1]
      /\ ToSet(desc) = {n} \cup ToSet(desc')
  BY <1>1, HeadAndTail
<1> HIDE DEF n, b
<1>5. IsInjective(desc') /\ n \notin ToSet(desc')
  <2>1. DOMAIN desc' = 1 .. Len(desc) - 1 /\ DOMAIN desc = 1 .. Len(desc)
    BY <1>1, <1>4
  <2>2. \A i \in 1 .. Len(desc) - 1 : i + 1 \in 1 .. Len(desc) /\ i + 1 # 1
    BY <1>4
  <2>3. 1 \in 1 .. Len(desc)
    BY <1>4
  <2>4. \A i, j \in 1 .. Len(desc) - 1 : i + 1 = j + 1 => i = j
    BY <1>4
  <2>5. IsInjective(desc')
    BY <1>1, <1>4, <2>1, <2>2, <2>4 DEF IsInjective
  <2>6. ASSUME n \in ToSet(desc') PROVE FALSE
    <3>1. PICK i \in 1 .. Len(desc) - 1 : desc'[i] = n
      BY <2>1, <2>6 DEF ToSet
    <3>2. desc[i + 1] = desc[1] /\ i + 1 \in DOMAIN desc /\ 1 \in DOMAIN desc /\ i + 1 # 1
      BY <1>4, <2>1, <2>2, <2>3, <3>1
    <3> QED BY <1>1, <3>2 DEF IsInjective
  <2> QED BY <2>5, <2>6
<1>6. reqs' \in Seq(ToSet(reqs'))
  <2>1. reqs' = SubSeq(reqs, Len(b) + 1, Len(reqs)) /\ Len(reqs) \in Int /\ Len(b) + 1 \in Int
    BY <1>1, <1>3 DEF b, n
  <2>2. \A i \in Len(b) + 1 .. Len(reqs) : reqs[i] \in ToSet(reqs)
    <3>1. \A i \in Len(b) + 1 .. Len(reqs) : i \in DOMAIN reqs
      BY <1>1, <1>3
    <3> QED BY <3>1 DEF ToSet
  <2>3. reqs' \in Seq(ToSet(reqs))
    BY <2>1, <2>2, SubSeqProperties
  <2> QED BY <2>3, ListOfItsOwn
<1>7. Seen' = Seen \cup {n}
  BY DEF n
<1> QED BY <1>1, <1>2, <1>3, <1>4, <1>5, <1>6, <1>7 DEF InTheList

\* PhysicalTable::create makes the column of what was sent for it.
LEMMA CreateDelivers ==
  ASSUME IInv, DInv, Create
  PROVE  DInv'
<1> DEFINE n == Head(desc)
           L == Len(cols[n].extras)
           b == BlockOf(Seen, n)
           r == cols[n].region
           vkey == <<r, cols[n].fid>>
           needMd == IF r \in DOMAIN mdRegions THEN 0 ELSE 1
           needVal == IF vkey \in DOMAIN valRegions THEN 0 ELSE 1
           md == IF needMd = 0 THEN mdRegions[r] ELSE reqs[1]
           val == IF needVal = 0 THEN valRegions[vkey] ELSE reqs[needMd + 1]
<1>1. /\ phase = "create" /\ phase' = "create" /\ index # <<>> /\ desc # <<>>
      /\ UNCHANGED <<cols, call, colReqs, partitions, valReqs>> /\ UNCHANGED index
      /\ desc' = Tail(desc)
  BY DEF Create, sender
<1>2. /\ reqs' = SubSeq(reqs, needMd + needVal + L + 1, Len(reqs))
      /\ mdRegions' = [q \in DOMAIN mdRegions \cup {r} |-> IF q = r THEN md ELSE mdRegions[q]]
      /\ valRegions' = [k \in DOMAIN valRegions \cup {<<r, f>> : f \in val.fids} |->
           IF k[1] = r /\ k[2] \in val.fids THEN val ELSE valRegions[k]]
      /\ columns' = [m \in DOMAIN columns \cup {n} |->
           IF m = n
           THEN [metadata |-> md, values |-> val,
                 extras |-> SubSeq(reqs, needMd + needVal + 1, needMd + needVal + L)]
           ELSE columns[m]]
  BY DEF Create
<1>3. /\ OnRecord /\ Gathered /\ InTheList /\ Taken /\ LaidOut(0) /\ MdKnown /\ ValKnown
      /\ desc \in Seq(Selected) /\ reqs \in Seq(ToSet(reqs)) /\ Seen \subseteq Selected
  BY <1>1 DEF IInv, DInv, InTheList, Taken
<1>4. n \in Selected /\ n \in Column
  <2>1. n \in Selected
    BY <1>1, <1>3, HeadAndTail
  <2> QED BY <2>1 DEF Selected
<1>5. /\ needMd \in {0, 1} /\ needVal \in {0, 1}
      /\ needMd = 0 <=> \E m \in Seen : cols[m].region = r
      /\ needVal = 0 <=> \E m \in Seen : Key(m) = Key(n)
      /\ needMd = 0 => mdRegions[r] = Metadata(n)
      /\ needVal = 0 => valRegions[vkey] = Values(n)
  <2>1. /\ r \in DOMAIN mdRegions <=> \E m \in Seen : cols[m].region = r
        /\ r \in DOMAIN mdRegions => mdRegions[r] = Metadata(n)
    BY <1>1, <1>3, <1>4 DEF MdKnown
  <2>2. /\ vkey \in DOMAIN valRegions <=> \E m \in Seen : Key(m) = Key(n)
        /\ vkey \in DOMAIN valRegions => valRegions[vkey] = Values(n)
    BY <1>3, <1>4 DEF ValKnown
  <2>3. /\ needMd \in {0, 1} /\ (needMd = 0 <=> r \in DOMAIN mdRegions)
        /\ needVal \in {0, 1} /\ (needVal = 0 <=> vkey \in DOMAIN valRegions)
    OBVIOUS
  <2> HIDE DEF needMd, needVal, vkey
  <2> QED BY <2>1, <2>2, <2>3
<1>6. /\ Len(b) \in Nat /\ Len(b) <= Len(reqs)
      /\ \A i \in 1 .. Len(b) : reqs[i] = b[i]
  BY <1>1, <1>3, BlockTaken
<1>7. /\ L \in Nat
      /\ Len(b) = needMd + needVal + L
      /\ needMd = 1 => b[1] = Metadata(n)
      /\ needVal = 1 => b[needMd + 1] = Values(n)
      /\ \A i \in 1 .. L : b[needMd + needVal + i] = Extra(n)[i]
  <2> HIDE DEF n, needMd, needVal, b, L
  <2>1. PICK x, y : x = needMd /\ y = needVal
    OBVIOUS
  <2>2. /\ OnRecord /\ n \in Column /\ x \in {0, 1} /\ y \in {0, 1}
        /\ x = 0 <=> \E m \in Seen : cols[m].region = cols[n].region
        /\ y = 0 <=> \E m \in Seen : Key(m) = Key(n)
    BY <1>3, <1>4, <1>5, <2>1
  <2>3. /\ Len(cols[n].extras) \in Nat
        /\ Len(BlockOf(Seen, n)) = x + y + Len(cols[n].extras)
        /\ x = 1 => BlockOf(Seen, n)[1] = Metadata(n)
        /\ y = 1 => BlockOf(Seen, n)[x + 1] = Values(n)
        /\ \A i \in 1 .. Len(cols[n].extras) : BlockOf(Seen, n)[x + y + i] = Extra(n)[i]
    BY <2>2, BlockSplits
  <2> QED BY <2>1, <2>3 DEF b, L
<1> HIDE DEF b, needMd, needVal
<1>8. md = Metadata(n)
  <2>1. CASE needMd = 0
    BY <1>5, <2>1
  <2>2. CASE needMd = 1
    <3>1. 1 \in 1 .. Len(b)
      <4> HIDE DEF L
      <4> QED BY <1>5, <1>7, <2>2
    <3> QED BY <1>6, <1>7, <2>2, <3>1
  <2> QED BY <1>5, <2>1, <2>2
<1>9. val = Values(n)
  <2>1. CASE needVal = 0
    BY <1>5, <2>1
  <2>2. CASE needVal = 1
    <3>1. needMd + 1 \in 1 .. Len(b)
      <4> HIDE DEF L
      <4> QED BY <1>5, <1>7, <2>2
    <3> QED BY <1>6, <1>7, <2>2, <3>1
  <2> QED BY <1>5, <2>1, <2>2
<1>10. SubSeq(reqs, needMd + needVal + 1, needMd + needVal + L) = Extra(n)
  <2> DEFINE k == needMd + needVal
  <2>1. k \in Nat /\ k + L <= Len(reqs) /\ \A i \in 1 .. L : k + i \in 1 .. Len(b)
    <3> HIDE DEF L
    <3> QED BY <1>5, <1>6, <1>7
  <2>2. \A i \in 1 .. L : reqs[k + i] = Extra(n)[i]
    BY <1>6, <1>7, <2>1
  <2> HIDE DEF k
  <2>3. SubSeq(reqs, k + 1, k + L) = Extra(n)
    BY <1>3, <1>4, <2>1, <2>2, ExtrasTaken
  <2> QED BY <2>3 DEF k
<1> HIDE DEF md, val, L
<1>11. /\ Seen' = Seen \cup {n}
       /\ \A m \in Seen : m # n => columns'[m] = columns[m]
       /\ columns'[n] = [metadata |-> Metadata(n), values |-> Values(n), extras |-> Extra(n)]
  BY <1>2, <1>8, <1>9, <1>10 DEF Seen
<1>12. /\ Selected' = Selected
       /\ \A m : Metadata(m)' = Metadata(m) /\ Values(m)' = Values(m)
                 /\ Extra(m)' = Extra(m) /\ Key(m)' = Key(m)
  BY <1>1, SameColumns
<1>13. Asked' /\ Gathered'
  BY <1>1, AskedStays
<1>14. InTheList'
  <2>1. reqs' = SubSeq(reqs, Len(b) + 1, Len(reqs))
    BY <1>2, <1>7
  <2> QED BY <1>1, <1>11, <2>1, NextInTheList DEF b
<1>15. MdKnown'
  <2> SUFFICES ASSUME NEW m \in Selected
               PROVE  /\ cols[m].region \in DOMAIN mdRegions' <=>
                           \E l \in Seen' : cols[l].region = cols[m].region
                      /\ cols[m].region \in DOMAIN mdRegions' =>
                           mdRegions'[cols[m].region] = Metadata(m)
    BY <1>1, <1>12 DEF MdKnown
  <2>1. DOMAIN mdRegions' = DOMAIN mdRegions \cup {r}
    BY <1>2
  <2>2. /\ cols[m].region \in DOMAIN mdRegions <=> \E l \in Seen : cols[l].region = cols[m].region
        /\ cols[m].region \in DOMAIN mdRegions => mdRegions[cols[m].region] = Metadata(m)
    BY <1>1, <1>3 DEF MdKnown
  <2>3. CASE cols[m].region = r
    <3>1. mdRegions'[r] = Metadata(n) /\ Metadata(n) = Metadata(m)
      BY <1>2, <1>8, <2>3 DEF Metadata
    <3> QED BY <1>11, <2>1, <2>3, <3>1
  <2>4. CASE cols[m].region # r
    <3>1. cols[m].region \in DOMAIN mdRegions => mdRegions'[cols[m].region] = mdRegions[cols[m].region]
      BY <1>2, <2>4
    <3> QED BY <1>11, <2>1, <2>2, <2>4, <3>1
  <2> QED BY <2>3, <2>4
<1>16. ValKnown'
  <2> SUFFICES ASSUME NEW m \in Selected
               PROVE  /\ <<cols[m].region, cols[m].fid>> \in DOMAIN valRegions' <=>
                           \E l \in Seen' : Key(l) = Key(m)
                      /\ <<cols[m].region, cols[m].fid>> \in DOMAIN valRegions' =>
                           valRegions'[<<cols[m].region, cols[m].fid>>] = Values(m)
    BY <1>1, <1>12 DEF ValKnown
  <2> DEFINE k == <<cols[m].region, cols[m].fid>>
             new == {<<r, f>> : f \in Values(n).fids}
  <2>1. /\ DOMAIN valRegions' = DOMAIN valRegions \cup new
        /\ k \in new => valRegions'[k] = Values(n)
        /\ k \in DOMAIN valRegions /\ k \notin new => valRegions'[k] = valRegions[k]
    BY <1>2, <1>9
  <2>2. /\ k \in DOMAIN valRegions <=> \E l \in Seen : Key(l) = Key(m)
        /\ k \in DOMAIN valRegions => valRegions[k] = Values(m)
    BY <1>3 DEF ValKnown
  <2>3. k \in new <=> Key(m) = Key(n)
    <3>1. k \in new <=> cols[m].region = r /\ cols[m].fid \in Values(n).fids
      OBVIOUS
    <3>2. cols[m].region = r /\ cols[m].fid \in Values(n).fids <=> Key(m) = Key(n)
      BY <1>1, <1>3, <1>4, FieldsTell
    <3> QED BY <3>1, <3>2
  <2>4. Key(m) = Key(n) => Values(m) = Values(n)
    BY <1>1, <1>3, <1>4, ValuesTell
  <2> HIDE DEF k, new
  <2>5. k \in DOMAIN valRegions' <=> \E l \in Seen' : Key(l) = Key(m)
    BY <1>11, <2>1, <2>2, <2>3
  <2>6. k \in DOMAIN valRegions' => valRegions'[k] = Values(m)
    BY <2>1, <2>2, <2>3, <2>4
  <2> QED BY <2>5, <2>6 DEF k
<1>17. ASSUME NEW m \in Seen' PROVE GotIt(m)'
  <2>1. CASE m = n
    <3>1. "space" \notin DOMAIN columns'[n]
      BY <1>11
    <3>2. /\ columns'[n].metadata = Metadata(n) /\ columns'[n].values = Values(n)
          /\ columns'[n].extras = Extra(n)
      BY <1>11
    <3> QED BY <1>12, <2>1, <3>1, <3>2 DEF GotIt
  <2>2. CASE m # n
    <3>1. m \in Seen /\ GotIt(m)
      BY <1>3, <1>11, <2>2 DEF Taken
    <3>2. columns'[m] = columns[m]
      BY <1>11, <2>2, <3>1
    <3> QED BY <1>1, <3>1, <3>2, AskedStays
  <2> QED BY <2>1, <2>2
<1>18. Taken'
  BY <1>1, <1>15, <1>16, <1>17 DEF Taken
<1> QED BY <1>13, <1>14, <1>18 DEF DInv

\* Table::legion_deserialize makes the column of what was sent for it: a
\* region's first column has brought the metadata and, since all columns are
\* asked for alike, the one requirement for values of the region after it.
LEMMA DeserializeDelivers ==
  ASSUME IInv, DInv, Deserialize
  PROVE  DInv'
<1> DEFINE n == Head(desc)
           L == Len(cols[n].extras)
           b == BlockOf(Seen, n)
           r == cols[n].region
           need == IF r \in DOMAIN mdRegions THEN 0 ELSE 2
           cs == IF need = 0 THEN mdRegions[r] ELSE [md |-> reqs[1], is |-> reqs[2].region]
<1>1. /\ phase = "deserialize" /\ phase' = "deserialize" /\ index # <<>> /\ desc # <<>>
      /\ UNCHANGED <<cols, call, colReqs, partitions, valReqs>> /\ UNCHANGED index
      /\ desc' = Tail(desc)
  BY DEF Deserialize, sender
<1>2. /\ reqs' = SubSeq(reqs, need + L + 1, Len(reqs))
      /\ mdRegions' = [q \in DOMAIN mdRegions \cup {r} |-> IF q = r THEN cs ELSE mdRegions[q]]
      /\ columns' = [m \in DOMAIN columns \cup {n} |->
           IF m = n
           THEN [metadata |-> cs.md, space |-> cs.is,
                 extras |-> SubSeq(reqs, need + 1, need + L)]
           ELSE columns[m]]
  BY DEF Deserialize
<1>3. /\ OnRecord /\ Asked /\ Gathered /\ InTheList /\ Taken /\ LaidOut(0) /\ MdKnown
      /\ Serialized /\ desc \in Seq(Selected) /\ reqs \in Seq(ToSet(reqs)) /\ Seen \subseteq Selected
  BY <1>1 DEF IInv, DInv, InTheList, Taken
<1>4. n \in Selected /\ n \in Column
  <2>1. n \in Selected
    BY <1>1, <1>3, HeadAndTail
  <2> QED BY <2>1 DEF Selected
<1>5. /\ need \in {0, 2}
      /\ need = 0 <=> \E m \in Seen : cols[m].region = r
      /\ need = 0 => mdRegions[r] = [md |-> Metadata(n), is |-> r]
  <2>1. /\ r \in DOMAIN mdRegions <=> \E m \in Seen : cols[m].region = r
        /\ r \in DOMAIN mdRegions => mdRegions[r] = [md |-> Metadata(n), is |-> r]
    BY <1>1, <1>3, <1>4 DEF MdKnown
  <2>2. need \in {0, 2} /\ (need = 0 <=> r \in DOMAIN mdRegions)
    OBVIOUS
  <2> HIDE DEF need
  <2> QED BY <2>1, <2>2
<1>6. /\ Len(b) \in Nat /\ Len(b) <= Len(reqs)
      /\ \A i \in 1 .. Len(b) : reqs[i] = b[i]
  BY <1>1, <1>3, BlockTaken
<1>7. /\ L \in Nat
      /\ Len(b) = need + L
      /\ need = 2 => b[1] = Metadata(n) /\ b[2] = Values(n)
      /\ \A i \in 1 .. L : b[need + i] = Extra(n)[i]
  <2> HIDE DEF n, need, b, L
  <2>1. PICK x \in {0, 1} : need = x + x
    BY <1>5
  <2>2. need = 0 <=> \E m \in Seen : Key(m) = Key(n)
    BY <1>1, <1>3, <1>4, <1>5, SerializedKeys
  <2>3. /\ OnRecord /\ n \in Column
        /\ x = 0 <=> \E m \in Seen : cols[m].region = cols[n].region
        /\ x = 0 <=> \E m \in Seen : Key(m) = Key(n)
    BY <1>3, <1>4, <1>5, <2>1, <2>2
  <2>4. /\ Len(cols[n].extras) \in Nat
        /\ Len(BlockOf(Seen, n)) = x + x + Len(cols[n].extras)
        /\ x = 1 => BlockOf(Seen, n)[1] = Metadata(n)
        /\ x = 1 => BlockOf(Seen, n)[x + 1] = Values(n)
        /\ \A i \in 1 .. Len(cols[n].extras) : BlockOf(Seen, n)[x + x + i] = Extra(n)[i]
    BY <2>3, BlockSplits
  <2>5. need = 2 => x = 1 /\ x + 1 = 2
    BY <2>1
  <2> QED BY <2>1, <2>4, <2>5 DEF b, L
<1> HIDE DEF b, need
<1>8. cs = [md |-> Metadata(n), is |-> r]
  <2>1. CASE need = 0
    BY <1>5, <2>1
  <2>2. CASE need = 2
    <3>1. 1 \in 1 .. Len(b) /\ 2 \in 1 .. Len(b)
      <4> HIDE DEF L
      <4> QED BY <1>5, <1>7, <2>2
    <3>2. reqs[1] = Metadata(n) /\ reqs[2] = Values(n)
      BY <1>6, <1>7, <2>2, <3>1
    <3>3. reqs[2].region = r
      BY <3>2 DEF Values
    <3> QED BY <2>2, <3>2, <3>3
  <2> QED BY <1>5, <2>1, <2>2
<1>9. SubSeq(reqs, need + 1, need + L) = Extra(n)
  <2>1. need \in Nat /\ need + L <= Len(reqs) /\ \A i \in 1 .. L : need + i \in 1 .. Len(b)
    <3> HIDE DEF L
    <3> QED BY <1>5, <1>6, <1>7
  <2>2. \A i \in 1 .. L : reqs[need + i] = Extra(n)[i]
    BY <1>6, <1>7, <2>1
  <2> QED BY <1>3, <1>4, <2>1, <2>2, ExtrasTaken
<1> HIDE DEF cs, L
<1>10. /\ Seen' = Seen \cup {n}
       /\ \A m \in Seen : m # n => columns'[m] = columns[m]
       /\ columns'[n] = [metadata |-> Metadata(n), space |-> r, extras |-> Extra(n)]
  <2>1. cs.md = Metadata(n) /\ cs.is = r
    BY <1>8
  <2> QED BY <1>2, <1>9, <2>1 DEF Seen
<1>11. /\ Selected' = Selected
       /\ \A m : Metadata(m)' = Metadata(m) /\ Extra(m)' = Extra(m)
  BY <1>1, SameColumns
<1>12. Asked' /\ Gathered'
  BY <1>1, AskedStays
<1>13. InTheList'
  <2>1. reqs' = SubSeq(reqs, Len(b) + 1, Len(reqs))
    BY <1>2, <1>7
  <2> QED BY <1>1, <1>10, <2>1, NextInTheList DEF b
<1>14. MdKnown'
  <2> SUFFICES ASSUME NEW m \in Selected
               PROVE  /\ cols[m].region \in DOMAIN mdRegions' <=>
                           \E l \in Seen' : cols[l].region = cols[m].region
                      /\ cols[m].region \in DOMAIN mdRegions' =>
                           mdRegions'[cols[m].region] =
                             [md |-> Metadata(m), is |-> cols[m].region]
    BY <1>1, <1>11 DEF MdKnown
  <2>1. DOMAIN mdRegions' = DOMAIN mdRegions \cup {r}
    BY <1>2
  <2>2. /\ cols[m].region \in DOMAIN mdRegions <=> \E l \in Seen : cols[l].region = cols[m].region
        /\ cols[m].region \in DOMAIN mdRegions =>
             mdRegions[cols[m].region] = [md |-> Metadata(m), is |-> cols[m].region]
    BY <1>1, <1>3 DEF MdKnown
  <2>3. CASE cols[m].region = r
    <3>1. mdRegions'[r] = [md |-> Metadata(n), is |-> r] /\ Metadata(n) = Metadata(m)
      BY <1>2, <1>8, <2>3 DEF Metadata
    <3> QED BY <1>10, <2>1, <2>3, <3>1
  <2>4. CASE cols[m].region # r
    <3>1. cols[m].region \in DOMAIN mdRegions => mdRegions'[cols[m].region] = mdRegions[cols[m].region]
      BY <1>2, <2>4
    <3> QED BY <1>10, <2>1, <2>2, <2>4, <3>1
  <2> QED BY <2>3, <2>4
<1>15. ASSUME NEW m \in Seen' PROVE GotIt(m)'
  <2>1. CASE m = n
    <3>1. /\ columns'[n].metadata = Metadata(n) /\ columns'[n].space = r
          /\ columns'[n].extras = Extra(n) /\ "space" \in DOMAIN columns'[n]
      BY <1>10
    <3> QED BY <1>1, <1>11, <2>1, <3>1 DEF GotIt
  <2>2. CASE m # n
    <3>1. m \in Seen /\ GotIt(m)
      BY <1>3, <1>10, <2>2 DEF Taken
    <3>2. columns'[m] = columns[m]
      BY <1>10, <2>2, <3>1
    <3> QED BY <1>1, <3>1, <3>2, AskedStays
  <2> QED BY <2>1, <2>2
<1>16. Taken'
  BY <1>1, <1>14, <1>15 DEF Taken
<1> QED BY <1>12, <1>13, <1>16 DEF DInv

(***************************************************************************)
(* What is asked for, laid out in the list and taken from it agree in      *)
(* every state of a launch, for columns in any number, in any order.       *)
(***************************************************************************)
THEOREM DeliveryHolds == Spec => []DInv
<1>1. Init => DInv
  BY InitDelivers
<1>2. IInv /\ DInv /\ [Next]_vars => DInv'
  BY CollectDelivers, AbortDelivers, GatherDelivers, BeginDelivers, EmitDelivers, SendDelivers,
     EndDelivers, TakeIndexDelivers, CreateDelivers, DeserializeDelivers, StutterDelivers
  DEF Next
<1> QED BY <1>1, <1>2, InvariantHolds, PTL DEF Spec

(***************************************************************************)
(* PhysicalTable::create and Table::legion_deserialize take all of the     *)
(* requirements: where create returns, those of the next table begin.      *)
(***************************************************************************)
THEOREM NothingLeft == Spec => []AllTaken
<1>1. DInv => AllTaken
  <2> SUFFICES ASSUME DInv, phase = "done"
               PROVE  reqs = <<>>
    BY DEF AllTaken
  <2>1. desc = <<>> /\ LaidOut(0) /\ reqs \in Seq(ToSet(reqs))
    BY DEF DInv, InTheList
  <2>2. Len(desc) = 0
    BY <2>1
  <2>3. PICK at \in [1 .. Len(desc) + 1 -> Nat] : at[1] = 0 /\ BlocksAt(at)
    BY <2>1 DEF LaidOut
  <2>4. Len(reqs) = 0
    BY <2>2, <2>3 DEF BlocksAt
  <2> QED BY <2>1, <2>4, EmptySeq
<1> QED BY <1>1, DeliveryHolds, PTL

(***************************************************************************)
(* Each column that was selected, and no other, is made by the receiver of *)
(* its own metadata, of values with its field, in its mode and over a      *)
(* partition that was meant, and of its own keywords and measure           *)
(* reference; if a PhysicalTable is given no partition for a column, which *)
(* it would not look at.                                                   *)
(***************************************************************************)
THEOREM EachGetsItsOwn ==
  ASSUME AllHeeded
  PROVE  Spec => []ColumnsGetTheirOwn
<1>1. DInv => ColumnsGetTheirOwn
  <2> SUFFICES ASSUME DInv, phase = "done"
               PROVE  /\ index = IndexReqs
                      /\ DOMAIN columns = Selected
                      /\ \A n \in Selected :
                           /\ columns[n].metadata = Metadata(n)
                           /\ columns[n].extras = Extra(n)
                           /\ IF "space" \in DOMAIN columns[n]
                              THEN columns[n].space = cols[n].region
                              ELSE /\ columns[n].values.region = cols[n].region
                                   /\ columns[n].values.mode = colReqs[n].values
                                   /\ Unmixed(n) => columns[n].values.part \in Meant(n)
                                   /\ cols[n].fid \in columns[n].values.fids
    BY DEF ColumnsGetTheirOwn
  <2>1. /\ index = IndexReqs /\ desc = <<>> /\ Seen \cup ToSet(desc) = Selected
    BY DEF DInv, InTheList
  <2>2. Seen = Selected
    <3>1. ToSet(desc) = {}
      BY <2>1 DEF ToSet
    <3> HIDE DEF Seen
    <3> QED BY <2>1, <3>1
  <2>3. ASSUME NEW n \in Selected
        PROVE  /\ columns[n].metadata = Metadata(n)
               /\ columns[n].extras = Extra(n)
               /\ IF "space" \in DOMAIN columns[n]
                  THEN columns[n].space = cols[n].region
                  ELSE /\ columns[n].values.region = cols[n].region
                       /\ columns[n].values.mode = colReqs[n].values
                       /\ Unmixed(n) => columns[n].values.part \in Meant(n)
                       /\ cols[n].fid \in columns[n].values.fids
    <3>1. GotIt(n)
      BY <2>2 DEF DInv, Taken
    <3>2. Heeded(n)
      BY DEF DInv, Asked
    <3>3. /\ Values(n).region = cols[n].region /\ Values(n).mode = colReqs[n].values
          /\ Unmixed(n) => Values(n).part \in Meant(n)
          /\ cols[n].fid \in Values(n).fids
      BY <3>2 DEF DInv, Gathered, Values
    <3> QED BY <3>1, <3>3 DEF GotIt
  <2> QED BY <2>1, <2>2, <2>3 DEF Seen
<1> QED BY <1>1, DeliveryHolds, PTL

=============================================================================

------------------------------- MODULE Table_proofs -------------------------------
(***************************************************************************)
(* What a session does through its PhysicalTable leaves the Table whole,   *)
(* and attachments never overlap: for every set of names, ColumnSpaces,    *)
(* regions, FieldIDs and modes, and for sessions of any length.            *)
(*                                                                         *)
(* The handles know nothing of each other, so the invariant has to: while  *)
(* the PhysicalTable is in use its map extends the Table's (Extends), and  *)
(* no two of its columns share a field (Separate).  That is why fields it  *)
(* frees are no column's of the Table.  Attachments are tied to columns    *)
(* the same way: a field that is attached is a column's that knows of it   *)
(* (Owned), so columns that are not attached bring other fields.           *)
(*                                                                         *)
(* The second part is about a Table by itself, from create to destroy; the *)
(* third about the keywords and measure references of a column; the fourth *)
(* about the program that makes Tables of a MeasurementSet in a file.      *)
(***************************************************************************)
EXTENDS TableSession, TableStorage, ColumnContent, Conversion, FiniteSetTheorems, TLAPS

\* The PhysicalTable has the columns of the Table.
Extends == \A n \in Present(table) : physical[n] = table[n]

\* An attached column is one of the fields of its attachment, and a field
\* that is attached belongs to a column that holds the attachment.
Owned ==
  /\ \A n \in Attached :
       /\ n \in Present(physical)
       /\ attached[n].region = physical[n].region
  /\ \A g \in files : \A f \in g.fids :
       \E n \in Attached :
         /\ attached[n] = g
         /\ physical[n].region = g.region
         /\ physical[n].fid = f

IInv ==
  /\ TypeOK
  /\ phase = "closed" => \A r \in Region : home[r] = NoSpace /\ fields[r] = {}
  /\ phase \in {"closed", "open"} => physical = NoColumns /\ files = {}
  /\ phase \in {"closed", "done"} => table = NoColumns
  /\ phase \in {"cleanup", "done"} => physical = NoColumns
  /\ phase # "attached" => attached = NoInstances
  /\ phase = "attached" => Extends /\ Owned
  /\ Backed(table)
  /\ Separate(table)
  /\ Backed(physical)
  /\ Separate(physical)
  /\ AttachedIsHeld
  /\ AttachmentsDisjoint

\* The columns a handle knows are Column records.
LEMMA PresentColumn ==
  ASSUME NEW cols \in [Name -> Column \cup {NoColumn}], NEW n \in Present(cols)
  PROVE  /\ n \in Name
         /\ cols[n] \in Column
         /\ cols[n].cs \in Space
         /\ cols[n].region \in Region
         /\ cols[n].fid \in Field
BY DEF Present, Column

\* A handle without columns.
LEMMA NoPresent ==
  /\ Present(NoColumns) = {}
  /\ Backed(NoColumns)
  /\ Separate(NoColumns)
  /\ NoColumns \in [Name -> Column \cup {NoColumn}]
BY DEF Present, NoColumns, Backed, Separate

\* The arguments of a call are well formed.
LEMMA NewColumn ==
  ASSUME NEW N \in SUBSET Name, NEW new \in NewColumns(N), NEW n \in DOMAIN new
  PROVE  n \in N /\ n \in Name /\ new[n].cs \in Space /\ new[n].fid \in Field
<1>1. PICK M \in SUBSET N : new \in [M -> TableField]
  BY DEF NewColumns
<1> QED BY <1>1 DEF TableField

\* Opening a table makes a region for each of its ColumnSpaces.
LEMMA Opening ==
  ASSUME ForestTypeOK,
         \A r \in Region : home[r] = NoSpace /\ fields[r] = {},
         NEW new \in NewColumns(FileName), NEW made, NEW kws,
         AllocateColumns(NoColumns, new, made, kws),
         table' = WithNew(NoColumns, new, made)
  PROVE  /\ table' \in [Name -> Column \cup {NoColumn}]
         /\ ForestTypeOK'
         /\ Backed(table)' /\ Separate(table)'
<1> USE ForestAssumption, SessionAssumption
<1> DEFINE R(n) == made[new[n].cs]
<1>1. \A n \in DOMAIN new :
        /\ n \in Name /\ new[n].cs \in Space /\ new[n].fid \in Field
        /\ new[n].cs \in spaces
  BY NewColumn DEF AllocateColumns
<1>2. \A s : Stored(NoColumns, s) = {}
  BY NoPresent DEF Stored
<1>3. NewSpaces(NoColumns, new) = {new[n].cs : n \in DOMAIN new}
  BY <1>2 DEF NewSpaces
<1>4. \A n \in DOMAIN new : RegionFor(NoColumns, made, new[n].cs) = R(n)
  BY <1>2 DEF RegionFor
<1>5. Makes(NoColumns, new, made)
  BY DEF AllocateColumns
<1>6. /\ DOMAIN made = {new[n].cs : n \in DOMAIN new}
      /\ \A s \in DOMAIN made : made[s] \in Region
      /\ \A s, t \in DOMAIN made : made[s] = made[t] => s = t
  BY <1>3, <1>5 DEF Makes
<1>7. \A n \in DOMAIN new : R(n) \in Region /\ new[n].cs \in DOMAIN made
  BY <1>6
<1>8. /\ regions' = regions \cup {made[s] : s \in DOMAIN made}
      /\ spaces' = spaces
      /\ keywords' = keywords \cup kws
      /\ kws \subseteq DOMAIN new
  BY DEF AllocateColumns
<1>9. \A s \in DOMAIN made : home'[made[s]] = s
  BY <1>6 DEF AllocateColumns
<1>10. \A r \in Region : Taken(NoColumns, new, made, r) \subseteq Field
  BY <1>1 DEF Taken
<1>11. \A n \in DOMAIN new : new[n].fid \in fields'[R(n)]
  BY <1>4, <1>7 DEF AllocateColumns, Taken
<1>12. ForestTypeOK'
  <2>1. regions' \subseteq Region
    BY <1>6, <1>8 DEF ForestTypeOK
  <2>2. home' \in [Region -> Space \cup {NoSpace}]
    BY <1>1, <1>6 DEF AllocateColumns, ForestTypeOK
  <2>3. fields' \in [Region -> SUBSET Field]
    BY <1>10 DEF AllocateColumns, ForestTypeOK
  <2>4. keywords' \subseteq Name /\ spaces' \subseteq Space
    BY <1>1, <1>8 DEF ForestTypeOK
  <2> QED BY <2>1, <2>2, <2>3, <2>4 DEF ForestTypeOK
<1>13. \A n \in Name \ DOMAIN new : table'[n] = NoColumn
  BY DEF WithNew, NoColumns
<1>14. \A n \in DOMAIN new :
         table'[n] = [cs |-> new[n].cs, region |-> R(n), fid |-> new[n].fid]
  BY <1>1, <1>4 DEF WithNew
<1>15. FieldsFree(NoColumns, new, made)
  BY DEF AllocateColumns
<1>16. \A m, n \in DOMAIN new :
         /\ new[m].cs = new[n].cs => R(m) = R(n)
         /\ R(m) = R(n) /\ new[m].fid = new[n].fid => m = n
  BY <1>4, <1>15 DEF FieldsFree
<1> HIDE DEF R
<1>17. \A n \in DOMAIN new :
         /\ table'[n] \in Column /\ table'[n].cs = new[n].cs
         /\ table'[n].region = R(n) /\ table'[n].fid = new[n].fid
  <2> SUFFICES ASSUME NEW n \in DOMAIN new
               PROVE  /\ table'[n] \in Column /\ table'[n].cs = new[n].cs
                      /\ table'[n].region = R(n) /\ table'[n].fid = new[n].fid
    OBVIOUS
  <2>1. new[n].cs \in Space /\ R(n) \in Region /\ new[n].fid \in Field
    BY <1>1, <1>7
  <2>2. table'[n] = [cs |-> new[n].cs, region |-> R(n), fid |-> new[n].fid]
    BY <1>14
  <2> QED BY <2>1, <2>2 DEF Column
<1>18. table' \in [Name -> Column \cup {NoColumn}]
  <2>1. table' = [n \in Name |-> table'[n]]
    BY DEF WithNew
  <2>2. \A n \in Name : table'[n] \in Column \cup {NoColumn}
    BY <1>13, <1>17
  <2> QED BY <2>1, <2>2
<1>19. Present(table)' = DOMAIN new
  BY <1>1, <1>13, <1>17 DEF Present
<1>20. Backed(table)'
  <2>1. \A n \in DOMAIN new : R(n) \in regions' /\ home'[R(n)] = new[n].cs
    BY <1>7, <1>8, <1>9 DEF R
  <2> QED BY <1>1, <1>8, <1>11, <1>17, <1>19, <2>1 DEF Backed
<1>21. Separate(table)'
  BY <1>16, <1>17, <1>19 DEF Separate
<1> QED BY <1>12, <1>18, <1>20, <1>21

\* Adding columns to ColumnSpaces in use: their regions gain fields, and
\* nothing else of them changes.
LEMMA Adding ==
  ASSUME TypeOK, Backed(physical), Separate(physical),
         NEW new \in NewColumns(Name \ FileName), NEW kws,
         NewSpaces(physical, new) = {},
         AllocateColumns(physical, new, <<>>, kws),
         physical' = WithNew(physical, new, <<>>)
  PROVE  /\ physical' \in [Name -> Column \cup {NoColumn}]
         /\ ForestTypeOK'
         /\ regions' = regions /\ home' = home /\ spaces' = spaces
         /\ \A r \in Region : fields[r] \subseteq fields'[r]
         /\ DOMAIN new \cap Present(physical) = {}
         /\ \A n \in Name : n \notin DOMAIN new => physical'[n] = physical[n]
         /\ Present(physical)' = Present(physical) \cup DOMAIN new
         /\ \A n \in DOMAIN new :
              /\ RegionFor(physical, <<>>, new[n].cs) \in Region
              /\ Taken(physical, new, <<>>, RegionFor(physical, <<>>, new[n].cs))
                   \subseteq Field
         /\ Backed(physical)' /\ Separate(physical)'
<1> USE ForestAssumption, SessionAssumption
<1> DEFINE R(n) == RegionFor(physical, <<>>, new[n].cs)
<1>1. \A n \in DOMAIN new :
        /\ n \in Name /\ new[n].cs \in Space /\ new[n].fid \in Field
        /\ new[n].cs \in spaces
  BY NewColumn DEF AllocateColumns
<1>2. DOMAIN new \cap Present(physical) = {}
  BY DEF AllocateColumns, MayAdd
<1>3. \A m \in Present(physical) :
        /\ m \in Name /\ m \notin DOMAIN new
        /\ physical[m] \in Column
        /\ physical[m].cs \in Space /\ physical[m].region \in Region
        /\ physical[m].fid \in Field
        /\ physical[m].region \in regions
        /\ home[physical[m].region] = physical[m].cs
        /\ physical[m].fid \in fields[physical[m].region]
        /\ physical[m].cs \in spaces
  BY <1>2, PresentColumn DEF TypeOK, Backed
<1>4. \A n \in DOMAIN new :
        \E m \in Present(physical) :
          physical[m].cs = new[n].cs /\ physical[m].region = R(n)
  <2> SUFFICES ASSUME NEW n \in DOMAIN new
               PROVE  \E m \in Present(physical) :
                        physical[m].cs = new[n].cs /\ physical[m].region = R(n)
    OBVIOUS
  <2>1. Stored(physical, new[n].cs) # {}
    BY DEF NewSpaces
  <2>2. PICK m \in Stored(physical, new[n].cs) : R(n) = physical[m].region
    BY <2>1 DEF RegionFor
  <2> QED BY <2>2 DEF Stored
<1>5. DOMAIN << >> = {}
  OBVIOUS
<1>6. /\ regions' = regions /\ spaces' = spaces
      /\ keywords' = keywords \cup kws /\ kws \subseteq DOMAIN new
      /\ fields' = [r \in Region |-> fields[r] \cup Taken(physical, new, <<>>, r)]
  BY <1>5 DEF AllocateColumns
<1>7. home' = home
  <2>1. home' = [r \in Region |-> home[r]]
    BY <1>5 DEF AllocateColumns
  <2> QED BY <2>1 DEF TypeOK, ForestTypeOK
<1>8. \A r \in Region : Taken(physical, new, <<>>, r) \subseteq Field
  BY <1>1 DEF Taken
<1>9. ForestTypeOK'
  <2>1. fields' \in [Region -> SUBSET Field]
    BY <1>6, <1>8 DEF TypeOK, ForestTypeOK
  <2> QED BY <1>1, <1>6, <1>7, <2>1 DEF TypeOK, ForestTypeOK
<1>10. \A n \in DOMAIN new : R(n) \in Region
  BY <1>3, <1>4
<1>11. \A n \in DOMAIN new : new[n].fid \in fields'[R(n)]
  BY <1>6, <1>10 DEF Taken
<1>12. \A n \in DOMAIN new :
         physical'[n] = [cs |-> new[n].cs, region |-> R(n), fid |-> new[n].fid]
  BY <1>1 DEF WithNew
<1>13. \A n \in Name : n \notin DOMAIN new => physical'[n] = physical[n]
  BY DEF WithNew
<1>14. \A m, n \in DOMAIN new :
         R(m) = R(n) /\ new[m].fid = new[n].fid => m = n
  BY DEF AllocateColumns, FieldsFree
<1>15. \A n \in DOMAIN new : new[n].fid \notin fields[R(n)]
  BY DEF AllocateColumns, FieldsFree
<1>16. \A m, n \in DOMAIN new : new[m].cs = new[n].cs => R(m) = R(n)
  OBVIOUS
<1> HIDE DEF R
<1>17. \A n \in DOMAIN new :
         /\ physical'[n] \in Column /\ physical'[n].cs = new[n].cs
         /\ physical'[n].region = R(n) /\ physical'[n].fid = new[n].fid
  <2> SUFFICES ASSUME NEW n \in DOMAIN new
               PROVE  /\ physical'[n] \in Column /\ physical'[n].cs = new[n].cs
                      /\ physical'[n].region = R(n) /\ physical'[n].fid = new[n].fid
    OBVIOUS
  <2>1. new[n].cs \in Space /\ R(n) \in Region /\ new[n].fid \in Field
    BY <1>1, <1>10
  <2>2. physical'[n] = [cs |-> new[n].cs, region |-> R(n), fid |-> new[n].fid]
    BY <1>12
  <2> QED BY <2>1, <2>2 DEF Column
<1>18. physical' \in [Name -> Column \cup {NoColumn}]
  <2>1. physical' = [n \in Name |-> physical'[n]]
    BY DEF WithNew
  <2>2. \A n \in Name : physical'[n] \in Column \cup {NoColumn}
    BY <1>13, <1>17 DEF TypeOK
  <2> QED BY <2>1, <2>2
<1>19. Present(physical)' = Present(physical) \cup DOMAIN new
  BY <1>1, <1>13, <1>17 DEF Present
<1>20. \A m \in Present(physical) : physical'[m] = physical[m]
  BY <1>3, <1>13
<1>21. \A r \in Region : fields[r] \subseteq fields'[r]
  BY <1>6
<1>22. Backed(physical)'
  <2>1. ASSUME NEW n \in DOMAIN new
        PROVE  R(n) \in regions /\ home[R(n)] = new[n].cs
    BY <1>3, <1>4
  <2> DEFINE kept(n) == /\ physical'[n].region \in regions'
                        /\ home'[physical'[n].region] = physical'[n].cs
                        /\ physical'[n].fid \in fields'[physical'[n].region]
                        /\ physical'[n].cs \in spaces'
  <2>2. ASSUME NEW n \in DOMAIN new PROVE kept(n)
    <3>1. new[n].cs \in spaces /\ new[n].fid \in fields'[R(n)]
      BY <1>1, <1>11
    <3> QED BY <1>6, <1>7, <1>17, <2>1, <3>1
  <2>3. ASSUME NEW n \in Present(physical) PROVE kept(n)
    <3>1. physical'[n] = physical[n]
      BY <1>20
    <3>2. physical[n].fid \in fields'[physical[n].region]
      BY <1>3, <1>21
    <3> QED BY <1>3, <1>6, <1>7, <3>1, <3>2
  <2>4. \A n \in Present(physical)' : kept(n)
    BY <1>19, <2>2, <2>3
  <2> QED BY <2>4 DEF Backed
<1>23. Separate(physical)'
  <2>1. \A m, n \in Present(physical) :
          /\ physical[m].cs = physical[n].cs => physical[m].region = physical[n].region
          /\ /\ physical[m].region = physical[n].region
             /\ physical[m].fid = physical[n].fid
             => m = n
    BY DEF Separate
  <2>2. ASSUME NEW m \in Present(physical), NEW n \in DOMAIN new
        PROVE  /\ physical[m].cs = new[n].cs => physical[m].region = R(n)
               /\ physical[m].region = R(n) => physical[m].fid # new[n].fid
    BY <1>3, <1>4, <1>15, <2>1
  <2> QED BY <1>14, <1>16, <1>17, <1>19, <1>20, <2>1, <2>2 DEF Separate
<1>24. \A n \in DOMAIN new :
         /\ RegionFor(physical, <<>>, new[n].cs) \in Region
         /\ Taken(physical, new, <<>>, RegionFor(physical, <<>>, new[n].cs))
              \subseteq Field
  BY <1>8, <1>10 DEF R
<1> QED BY <1>2, <1>6, <1>7, <1>9, <1>13, <1>18, <1>19, <1>21, <1>22, <1>23, <1>24

\* Removing the application's columns leaves those of the Table backed,
\* though every region and ColumnSpace of the PhysicalTable is looked at.
LEMMA Removing ==
  ASSUME TypeOK, Backed(table), Backed(physical), Separate(physical), Extends,
         NEW rm, rm \subseteq Present(physical) \ Present(table),
         FreeColumns(physical, rm, Present(physical)),
         UNCHANGED table
  PROVE  ForestTypeOK' /\ Backed(table)'
<1> DEFINE gone == Emptied(physical, rm, Present(physical))
<1>1. /\ regions' = regions \ gone
      /\ fields' = [r \in Region |-> FieldsLeft(physical, rm, r)]
      /\ spaces' = spaces \
           {physical[n].cs : n \in {m \in Present(physical) : physical[m].region \in gone}}
      /\ keywords' = keywords \ Present(physical)
      /\ home' = home
  BY DEF FreeColumns
<1>2. \A n \in Present(table) : n \in Name /\ table[n] # NoColumn
  BY DEF Present
<1>3. \A n \in Present(table) :
        n \in Present(physical) /\ physical[n] = table[n] /\ n \notin rm
  BY <1>2 DEF Extends, Present
<1>4. \A m, n \in Present(physical) :
        /\ physical[m].cs = physical[n].cs => physical[m].region = physical[n].region
        /\ physical[m].region = physical[n].region /\ physical[m].fid = physical[n].fid
           => m = n
  BY DEF Separate
<1>5. \A n \in Present(table) :
        /\ table[n].region \in Region /\ table[n].region \in regions
        /\ home[table[n].region] = table[n].cs
        /\ table[n].fid \in fields[table[n].region]
        /\ table[n].cs \in spaces
  BY PresentColumn DEF TypeOK, Backed
<1>6. \A n \in Present(table) :
        table[n].fid \in FieldsLeft(physical, rm, table[n].region)
  BY <1>3, <1>4, <1>5 DEF FieldsLeft
<1>7. \A r \in gone : FieldsLeft(physical, rm, r) = {}
  BY DEF Emptied
<1>8. \A n \in Present(table) : table[n].region \notin gone
  BY <1>6, <1>7
<1>9. ForestTypeOK'
  BY <1>1 DEF FieldsLeft, TypeOK, ForestTypeOK
<1>10. ASSUME NEW n \in Present(table)
       PROVE  /\ table[n].region \in regions'
              /\ table[n].fid \in fields'[table[n].region]
              /\ table[n].cs \in spaces'
  <2>1. table[n].region \in regions'
    BY <1>1, <1>5, <1>8
  <2>2. table[n].fid \in fields'[table[n].region]
    BY <1>1, <1>5, <1>6
  <2>3. \A m \in Present(physical) :
          physical[m].region \in gone => physical[m].cs # table[n].cs
    BY <1>3, <1>4, <1>8
  <2> QED BY <1>1, <1>5, <2>1, <2>2, <2>3
<1>11. Backed(table)'
  BY <1>1, <1>5, <1>10 DEF Backed, Present
<1> QED BY <1>9, <1>11

\* Attaching columns of the PhysicalTable that are not attached: the fields
\* of the new attachments are in no other one, old or new.
LEMMA Attaching ==
  ASSUME NEW cols \in [Name -> Column \cup {NoColumn}], Separate(cols),
         NEW N, NEW mode, N \subseteq Present(cols), N \cap Attached = {},
         files \subseteq Instance,
         values \in [Name -> Instance \cup {NoInstance}],
         attached \in [Name -> Instance \cup {NoInstance}],
         AttachedIsHeld, AttachmentsDisjoint,
         files = {} \/ cols = physical,
         Attached = {} \/ cols = physical,
         Owned,
         physical' = cols,
         AttachTo(cols, N, mode)
  PROVE  /\ files' \subseteq Instance
         /\ values' \in [Name -> Instance \cup {NoInstance}]
         /\ attached' \in [Name -> Instance \cup {NoInstance}]
         /\ Owned'
         /\ AttachedIsHeld'
         /\ AttachmentsDisjoint'
<1> USE SessionAssumption
<1> DEFINE G(n) == Group(cols, N, mode, n)
           Mates(n) == {l \in N : cols[l].region = cols[n].region /\ mode[l] = mode[n]}
<1>1. \A n \in N : /\ n \in Name /\ n \in Present(cols) /\ cols[n] \in Column
                   /\ cols[n].region \in Region /\ cols[n].fid \in Field
  BY PresentColumn
<1>2. \A n \in N : /\ G(n).kind = "file" /\ G(n).region = cols[n].region
                   /\ G(n).fids = {cols[m].fid : m \in Mates(n)}
  BY DEF Group
<1>3. \A n \in N : G(n) \in Instance
  BY <1>1 DEF Group, Instance
<1>4. \A m, n \in N : cols[m].region = cols[n].region /\ mode[m] = mode[n] => G(m) = G(n)
  BY DEF Group
<1>5. \A m, n \in Present(cols) :
        cols[m].region = cols[n].region /\ cols[m].fid = cols[n].fid => m = n
  BY DEF Separate
<1>6. \A n \in N : \A f \in G(n).fids :
        \E m \in N : G(m) = G(n) /\ cols[m].region = cols[n].region /\ cols[m].fid = f
  BY <1>2, <1>4
<1>7. /\ files' = files \cup {G(n) : n \in N}
      /\ \A n \in N : values'[n] = G(n) /\ attached'[n] = G(n)
      /\ \A n \in Name \ N : values'[n] = values[n] /\ attached'[n] = attached[n]
      /\ values' = [n \in Name |-> values'[n]]
      /\ attached' = [n \in Name |-> attached'[n]]
  BY <1>1 DEF AttachTo
<1> HIDE DEF G, Mates
<1>8. files' \subseteq Instance
  BY <1>3, <1>7
<1>9. \A n \in Name : values'[n] \in Instance \cup {NoInstance}
  BY <1>3, <1>7
<1>10. \A n \in Name : attached'[n] \in Instance \cup {NoInstance}
  BY <1>3, <1>7
<1>11. Attached' = Attached \cup N
  BY <1>1, <1>3, <1>7 DEF Attached
<1>12. \A n \in Attached : n \in Name /\ n \notin N /\ attached'[n] = attached[n]
                           /\ values'[n] = values[n] /\ cols = physical
  BY <1>7 DEF Attached
<1>13. Owned'
  <2>1. \A n \in Attached' : n \in Present(cols) /\ attached'[n].region = cols[n].region
    BY <1>1, <1>2, <1>7, <1>11, <1>12 DEF Owned
  <2>2. ASSUME NEW g \in files', NEW f \in g.fids
        PROVE  \E n \in Attached' :
                 attached'[n] = g /\ cols[n].region = g.region /\ cols[n].fid = f
    <3>1. CASE g \in files
      <4>1. PICK n \in Attached :
              attached[n] = g /\ physical[n].region = g.region /\ physical[n].fid = f
        BY <2>2, <3>1 DEF Owned
      <4> QED BY <1>11, <1>12, <4>1
    <3>2. CASE g \in {G(n) : n \in N}
      <4>1. PICK n \in N : g = G(n)
        BY <3>2
      <4>2. PICK m \in N :
              G(m) = G(n) /\ cols[m].region = cols[n].region /\ cols[m].fid = f
        BY <1>6, <2>2, <4>1
      <4> QED BY <1>2, <1>7, <1>11, <4>1, <4>2
    <3> QED BY <1>7, <3>1, <3>2
  <2>3. Present(physical)' = Present(cols)
    BY DEF Present
  <2> QED BY <2>1, <2>2, <2>3 DEF Owned
<1>14. AttachedIsHeld'
  BY <1>7, <1>11, <1>12 DEF AttachedIsHeld
<1>15. AttachmentsDisjoint'
  <2>1. ASSUME NEW a \in files', NEW b \in files', a.region = b.region,
               NEW f \in a.fids, f \in b.fids
        PROVE  a = b
    <3>1. PICK m \in Attached' :
            attached'[m] = a /\ cols[m].region = a.region /\ cols[m].fid = f
      BY <1>13, <2>1 DEF Owned
    <3>2. PICK n \in Attached' :
            attached'[n] = b /\ cols[n].region = b.region /\ cols[n].fid = f
      BY <1>13, <2>1 DEF Owned
    <3>3. m \in Present(cols) /\ n \in Present(cols)
      BY <1>1, <1>11, <1>12 DEF Owned
    <3> QED BY <1>5, <2>1, <3>1, <3>2, <3>3
  <2> QED BY <2>1 DEF AttachmentsDisjoint
<1> QED BY <1>7, <1>8, <1>9, <1>10, <1>13, <1>14, <1>15

(* Before the file is opened no handle has a column and nothing is attached.  *)
LEMMA InitInv == Init => IInv
<1> SUFFICES ASSUME Init PROVE IInv
  OBVIOUS
<1>1. /\ table = NoColumns /\ physical = NoColumns /\ files = {}
      /\ attached = NoInstances /\ values = NoInstances /\ phase = "closed"
      /\ released = {}
  BY DEF Init
<1>2. TypeOK
  BY <1>1, NoPresent DEF Init, ForestInit, NoInstances, TypeOK, ForestTypeOK
<1>3. \A r \in Region : home[r] = NoSpace /\ fields[r] = {}
  BY DEF Init, ForestInit
<1>4. Backed(table) /\ Separate(table) /\ Backed(physical) /\ Separate(physical)
  BY <1>1, NoPresent
<1>5. Attached = {}
  BY <1>1 DEF Attached, NoInstances
<1>6. AttachedIsHeld /\ AttachmentsDisjoint
  BY <1>1, <1>5 DEF AttachedIsHeld, AttachmentsDisjoint
<1> QED BY <1>1, <1>2, <1>3, <1>4, <1>6 DEF IInv

\* One step per action of the session.
LEMMA OpenInv ==
  ASSUME IInv, NEW new \in NewColumns(FileName), NEW made, NEW kws,
         OpenTable(new, made, kws)
  PROVE  IInv'
<1>1. /\ phase = "closed" /\ phase' = "open"
      /\ AllocateColumns(NoColumns, new, made, kws)
      /\ table' = WithNew(NoColumns, new, made)
      /\ UNCHANGED <<physical, values, attached, files, released>>
  BY DEF OpenTable
<1>2. /\ table' \in [Name -> Column \cup {NoColumn}]
      /\ ForestTypeOK'
      /\ Backed(table)' /\ Separate(table)'
  BY <1>1, Opening DEF IInv, TypeOK
<1>3. physical' = NoColumns /\ files' = {} /\ attached' = NoInstances
  BY <1>1 DEF IInv
<1>4. Backed(physical)' /\ Separate(physical)'
  BY <1>3 DEF Backed, Separate, Present, NoColumns
<1>5. TypeOK'
  BY <1>1, <1>2 DEF IInv, TypeOK
<1>6. AttachedIsHeld' /\ AttachmentsDisjoint'
  BY <1>1 DEF IInv, AttachedIsHeld, AttachmentsDisjoint, Attached
<1> QED BY <1>1, <1>2, <1>3, <1>4, <1>5, <1>6 DEF IInv

\* What the Table attaches are fields of its columns.
LEMMA AttachTableInv ==
  ASSUME IInv, NEW mode, AttachTable(mode)
  PROVE  IInv'
<1>1. /\ phase = "open" /\ phase' = "attached"
      /\ physical' = table /\ table' = table
      /\ AttachTo(table, Present(table), mode)
      /\ released' = released
      /\ UNCHANGED forest
  BY DEF AttachTable
<1>2. /\ files = {} /\ attached = NoInstances
      /\ table \in [Name -> Column \cup {NoColumn}]
      /\ values \in [Name -> Instance \cup {NoInstance}]
      /\ attached \in [Name -> Instance \cup {NoInstance}]
      /\ Separate(table) /\ Backed(table) /\ AttachedIsHeld /\ AttachmentsDisjoint
  BY <1>1 DEF IInv, TypeOK
<1>3. Attached = {}
  BY <1>2 DEF Attached, NoInstances
<1>4. Owned
  BY <1>2, <1>3 DEF Owned
<1>5. /\ files' \subseteq Instance
      /\ values' \in [Name -> Instance \cup {NoInstance}]
      /\ attached' \in [Name -> Instance \cup {NoInstance}]
      /\ Owned' /\ AttachedIsHeld' /\ AttachmentsDisjoint'
  BY <1>1, <1>2, <1>3, <1>4, Attaching
<1>6. Extends'
  BY <1>1 DEF Extends
<1>7. TypeOK'
  BY <1>1, <1>2, <1>5 DEF IInv, TypeOK, ForestTypeOK, forest
<1>8. Backed(table)' /\ Separate(table)' /\ Backed(physical)' /\ Separate(physical)'
  BY <1>1, <1>2 DEF Backed, Separate, Present, forest
<1> QED BY <1>1, <1>5, <1>6, <1>7, <1>8 DEF IInv

\* The columns named are not attached, so their fields are in no instance.
LEMMA AttachColumnsInv ==
  ASSUME IInv, NEW N, NEW mode, AttachColumns(N, mode)
  PROVE  IInv'
<1>1. /\ phase = "attached" /\ phase' = "attached"
      /\ physical' = physical /\ table' = table
      /\ N \subseteq Present(physical) /\ N \cap Attached = {}
      /\ AttachTo(physical, N, mode)
      /\ released' = released
      /\ UNCHANGED forest
  BY DEF AttachColumns
<1>2. /\ files \subseteq Instance
      /\ physical \in [Name -> Column \cup {NoColumn}]
      /\ values \in [Name -> Instance \cup {NoInstance}]
      /\ attached \in [Name -> Instance \cup {NoInstance}]
      /\ Separate(physical) /\ AttachedIsHeld /\ AttachmentsDisjoint /\ Owned
  BY <1>1 DEF IInv, TypeOK
<1>3. /\ files' \subseteq Instance
      /\ values' \in [Name -> Instance \cup {NoInstance}]
      /\ attached' \in [Name -> Instance \cup {NoInstance}]
      /\ Owned' /\ AttachedIsHeld' /\ AttachmentsDisjoint'
  BY <1>1, <1>2, Attaching
<1>4. Extends'
  BY <1>1 DEF IInv, Extends, Present
<1>5. TypeOK'
  BY <1>1, <1>3 DEF IInv, TypeOK, ForestTypeOK, forest
<1>6. Backed(table)' /\ Separate(table)' /\ Backed(physical)' /\ Separate(physical)'
  BY <1>1 DEF IInv, Backed, Separate, Present, forest
<1> QED BY <1>1, <1>3, <1>4, <1>5, <1>6 DEF IInv

\* What is detached is no longer any column's.
LEMMA DetachColumnsInv ==
  ASSUME IInv, NEW N \in SUBSET Name, DetachColumns(N)
  PROVE  IInv'
<1> DEFINE gone == {attached[n] : n \in N \cap Attached}
<1>1. /\ phase \in {"attached", "cleanup"} /\ phase' = phase
      /\ physical' = physical /\ table' = table
      /\ files' = files \ gone
      /\ values' = [n \in Name |->
           IF n \in N \cap Attached THEN NoInstance ELSE values[n]]
      /\ attached' = [n \in Name |->
           IF attached[n] \in gone THEN NoInstance ELSE attached[n]]
      /\ UNCHANGED forest
  BY DEF DetachColumns
<1> HIDE DEF gone
<1>2. /\ files \subseteq Instance
      /\ values \in [Name -> Instance \cup {NoInstance}]
      /\ attached \in [Name -> Instance \cup {NoInstance}]
      /\ AttachedIsHeld /\ AttachmentsDisjoint
  BY DEF IInv, TypeOK
<1>3. Attached' = {n \in Attached : attached[n] \notin gone}
  BY <1>1 DEF Attached
<1>4. \A n \in Attached' :
        /\ n \in Attached /\ n \in Name /\ n \notin N \cap Attached
        /\ attached'[n] = attached[n] /\ values'[n] = values[n]
        /\ attached[n] \notin gone
  BY <1>1, <1>3 DEF Attached, gone
<1>5. AttachedIsHeld'
  BY <1>1, <1>2, <1>4 DEF AttachedIsHeld
<1>6. AttachmentsDisjoint'
  BY <1>1, <1>2 DEF AttachmentsDisjoint
<1>7. phase = "attached" => Owned'
  <2> SUFFICES ASSUME phase = "attached" PROVE Owned'
    OBVIOUS
  <2>1. Owned
    BY DEF IInv
  <2>2. Present(physical)' = Present(physical)
    BY <1>1 DEF Present
  <2>3. ASSUME NEW g \in files', NEW f \in g.fids
        PROVE  \E n \in Attached' :
                 attached'[n] = g /\ physical'[n].region = g.region
                 /\ physical'[n].fid = f
    <3>1. g \in files /\ g \notin gone
      BY <1>1
    <3>2. PICK n \in Attached :
            attached[n] = g /\ physical[n].region = g.region /\ physical[n].fid = f
      BY <2>1, <2>3, <3>1 DEF Owned
    <3>3. n \in Attached'
      BY <1>3, <3>1, <3>2
    <3> QED BY <1>1, <1>4, <3>2, <3>3
  <2>4. \A n \in Attached' :
          n \in Present(physical)' /\ attached'[n].region = physical'[n].region
    BY <1>1, <1>4, <2>1, <2>2 DEF Owned
  <2> QED BY <2>3, <2>4 DEF Owned
<1>8. phase # "attached" => attached' = NoInstances
  BY <1>1 DEF IInv, NoInstances
<1>9. TypeOK'
  <2>1. released' \subseteq Name
    BY <1>1 DEF IInv, TypeOK, DetachColumns
  <2> QED BY <1>1, <1>2, <2>1 DEF IInv, TypeOK, ForestTypeOK, forest
<1>10. Backed(table)' /\ Separate(table)' /\ Backed(physical)' /\ Separate(physical)'
  BY <1>1 DEF IInv, Backed, Separate, Present, forest
<1>11. phase = "attached" => Extends'
  BY <1>1 DEF IInv, Extends, Present
<1> QED BY <1>1, <1>5, <1>6, <1>7, <1>8, <1>9, <1>10, <1>11 DEF IInv

\* New columns get fields that no column has, of the Table or of its copy.
LEMMA AddColumnsInv ==
  ASSUME IInv, NEW new \in NewColumns(Name \ FileName), NEW kws,
         AddColumns(new, kws)
  PROVE  IInv'
<1> DEFINE R(n) == RegionFor(physical, <<>>, new[n].cs)
           T(n) == Taken(physical, new, <<>>, R(n))
<1>1. /\ phase = "attached" /\ phase' = "attached"
      /\ NewSpaces(physical, new) = {}
      /\ AllocateColumns(physical, new, <<>>, kws)
      /\ physical' = WithNew(physical, new, <<>>)
      /\ table' = table /\ attached' = attached /\ files' = files
      /\ released' = released
  BY DEF AddColumns
<1>2. /\ physical' \in [Name -> Column \cup {NoColumn}]
      /\ ForestTypeOK'
      /\ regions' = regions /\ home' = home /\ spaces' = spaces
      /\ \A r \in Region : fields[r] \subseteq fields'[r]
      /\ DOMAIN new \cap Present(physical) = {}
      /\ \A n \in Name : n \notin DOMAIN new => physical'[n] = physical[n]
      /\ Present(physical)' = Present(physical) \cup DOMAIN new
      /\ \A n \in DOMAIN new : R(n) \in Region /\ T(n) \subseteq Field
      /\ Backed(physical)' /\ Separate(physical)'
  BY <1>1, Adding DEF IInv
<1>3. \A n \in Name : n \notin DOMAIN new => values'[n] = values[n]
  BY DEF AddColumns
<1>4. values' \in [Name -> Instance \cup {NoInstance}]
  <2>1. \A n \in DOMAIN new :
          [kind |-> "inline", region |-> R(n), fids |-> T(n)] \in Instance
    BY <1>2 DEF Instance
  <2>2. \A n \in Name : n \in DOMAIN new =>
          values'[n] = [kind |-> "inline", region |-> R(n), fids |-> T(n)]
    BY DEF AddColumns
  <2>3. values' = [n \in Name |-> values'[n]]
    BY DEF AddColumns
  <2> HIDE DEF R, T
  <2> QED BY <1>3, <2>1, <2>2, <2>3 DEF IInv, TypeOK
<1> HIDE DEF R, T
<1>5. TypeOK'
  BY <1>1, <1>2, <1>4 DEF IInv, TypeOK
<1>6. /\ Extends /\ Owned /\ AttachedIsHeld /\ AttachmentsDisjoint
      /\ Backed(table) /\ Separate(table)
      /\ table \in [Name -> Column \cup {NoColumn}]
  BY <1>1 DEF IInv, TypeOK
<1>7. Attached' = Attached
  BY <1>1 DEF Attached
<1>8. \A n \in Present(physical) :
        n \in Name /\ n \notin DOMAIN new /\ physical'[n] = physical[n]
        /\ values'[n] = values[n]
  BY <1>2, <1>3 DEF Present
<1>9. \A n \in Present(table) : n \in Present(physical)
  BY <1>6 DEF Extends, Present
<1>10. Extends'
  BY <1>1, <1>6, <1>8, <1>9 DEF Extends, Present
<1>11. \A n \in Attached : n \in Present(physical)
  BY <1>6 DEF Owned
<1>12. Owned'
  BY <1>1, <1>2, <1>6, <1>7, <1>8, <1>11 DEF Owned
<1>13. AttachedIsHeld'
  BY <1>1, <1>6, <1>7, <1>8, <1>11 DEF AttachedIsHeld
<1>14. AttachmentsDisjoint'
  BY <1>1, <1>6 DEF AttachmentsDisjoint
<1>15. Backed(table)'
  <2>1. \A n \in Present(table) : table[n].region \in Region
    BY <1>6, PresentColumn
  <2> QED BY <1>1, <1>2, <1>6, <2>1 DEF Backed, Present
<1>16. Separate(table)'
  BY <1>1, <1>6 DEF Separate, Present
<1> QED BY <1>1, <1>2, <1>5, <1>10, <1>12, <1>13, <1>14, <1>15, <1>16 DEF IInv

\* The columns that go share no field with those of the Table.
LEMMA RemoveColumnsInv ==
  ASSUME IInv, NEW rm, RemoveColumns(rm)
  PROVE  IInv'
<1>1. /\ phase \in {"attached", "cleanup"} /\ phase' = "cleanup"
      /\ rm # {} /\ rm \subseteq Present(physical) \ Present(table)
      /\ FreeColumns(physical, rm, Present(physical))
      /\ physical' = NoColumns
      /\ values' = NoInstances /\ attached' = NoInstances
      /\ table' = table /\ files' = files /\ released' = released
  BY DEF RemoveColumns
<1>2. phase = "attached"
  BY <1>1, NoPresent DEF IInv
<1>3. ForestTypeOK' /\ Backed(table)'
  BY <1>1, <1>2, Removing DEF IInv
<1>4. TypeOK'
  BY <1>1, <1>3, NoPresent DEF IInv, TypeOK, NoInstances
<1>5. Backed(physical)' /\ Separate(physical)'
  BY <1>1 DEF Backed, Separate, Present, NoColumns
<1>6. Separate(table)'
  BY <1>1 DEF IInv, Separate, Present
<1>7. Attached' = {}
  BY <1>1 DEF Attached, NoInstances
<1>8. AttachedIsHeld' /\ AttachmentsDisjoint'
  BY <1>1, <1>7 DEF IInv, AttachedIsHeld, AttachmentsDisjoint
<1> QED BY <1>1, <1>3, <1>4, <1>5, <1>6, <1>8 DEF IInv

\* The Table goes when nobody else uses its storage.
LEMMA DestroyTableInv ==
  ASSUME IInv, DestroyTable
  PROVE  IInv'
<1>1. /\ phase = "cleanup" /\ phase' = "done"
      /\ FreeColumns(table, Present(table), Present(table))
      /\ table' = NoColumns
      /\ UNCHANGED <<physical, values, attached, files, released>>
  BY DEF DestroyTable
<1>2. ForestTypeOK'
  BY <1>1 DEF FreeColumns, FieldsLeft, IInv, TypeOK, ForestTypeOK
<1>3. TypeOK'
  BY <1>1, <1>2, NoPresent DEF IInv, TypeOK
<1>4. physical' = NoColumns /\ attached' = NoInstances
  BY <1>1 DEF IInv
<1>5. Backed(table)' /\ Separate(table)' /\ Backed(physical)' /\ Separate(physical)'
  BY <1>1, <1>4 DEF Backed, Separate, Present, NoColumns
<1>6. AttachedIsHeld' /\ AttachmentsDisjoint'
  BY <1>1 DEF IInv, AttachedIsHeld, AttachmentsDisjoint, Attached
<1> QED BY <1>1, <1>3, <1>4, <1>5, <1>6 DEF IInv

\* Every step of the session keeps the invariant.
LEMMA NextInv == IInv /\ [Next]_vars => IInv'
<1> SUFFICES ASSUME IInv, [Next]_vars PROVE IInv'
  OBVIOUS
<1>1. ASSUME UNCHANGED vars PROVE IInv'
  BY <1>1 DEF vars, forest, IInv, TypeOK, ForestTypeOK, Extends, Owned, Attached,
              Backed, Separate, Present, AttachedIsHeld, AttachmentsDisjoint
<1>2. ASSUME NEW N \in SUBSET FileName, NEW mode, AttachColumns(N, mode)
      PROVE  IInv'
  BY <1>2, AttachColumnsInv
<1>3. ASSUME NEW new \in NewColumns(FileName), NEW made, NEW kws,
             OpenTable(new, made, kws)
      PROVE  IInv'
  BY <1>3, OpenInv
<1>4. ASSUME NEW new \in NewColumns(Name \ FileName), NEW kws, AddColumns(new, kws)
      PROVE  IInv'
  BY <1>4, AddColumnsInv
<1> QED BY <1>1, <1>2, <1>3, <1>4, AttachTableInv, DetachColumnsInv,
           RemoveColumnsInv, DestroyTableInv DEF Next

\* The inductive invariant holds in every reachable state.
THEOREM InvariantHolds == Spec => []IInv
<1> QED BY InitInv, NextInv, PTL DEF Spec

\* Whatever the application adds and removes through the PhysicalTable
\* (PhysicalTable.cc, add_columns and remove_columns), the columns of the
\* Table keep region, field and ColumnSpace.
THEOREM TableStaysWhole == Spec => []TableUnaffected
<1>1. IInv => TableUnaffected
  BY DEF IInv, TableUnaffected
<1> QED BY <1>1, InvariantHolds, PTL

\* The PhysicalTable's own columns keep theirs, and never share a field.
THEOREM PhysicalStaysBacked == Spec => []PhysicalBacked
<1>1. IInv => PhysicalBacked
  BY DEF IInv, PhysicalBacked
<1> QED BY <1>1, InvariantHolds, PTL

\* What m_attached says is what the runtime holds (attach_columns and
\* detach_columns of PhysicalTable.cc), in whatever groups columns are
\* attached and detached.
THEOREM AttachedStaysHeld == Spec => []AttachedIsHeld
<1>1. IInv => AttachedIsHeld
  BY DEF IInv
<1> QED BY <1>1, InvariantHolds, PTL

\* No field is ever attached twice.
THEOREM AttachmentsStayDisjoint == Spec => []AttachmentsDisjoint
<1>1. IInv => AttachmentsDisjoint
  BY DEF IInv
<1> QED BY <1>1, InvariantHolds, PTL

-----------------------------------------------------------------------------
(***************************************************************************)
(* The life of one Table value, of TableColumns: the storage of a table's  *)
(* columns is sound after every sequence of calls, for every set of names, *)
(* ColumnSpaces, regions and FieldIDs.                                     *)
(*                                                                         *)
(* No one of the invariants is inductive alone.  Freeing columns keeps the *)
(* others backed only because no two share a field (StorageSeparate) and   *)
(* because a ColumnSpace has one region; a new region can be taken for a   *)
(* ColumnSpace only because regions that are gone left neither fields nor  *)
(* their ColumnSpace behind (NothingOrphaned).  LifeInv is their           *)
(* conjunction.                                                            *)
(***************************************************************************)
CONSTANT RowAxis   \* as in TableColumns

VARIABLE life      \* the phase of the Table

Life == INSTANCE TableColumns WITH phase <- life

\* The constants of the storage are the ones above.
LEMMA ForestConstants ==
  /\ NoColumn \notin Life!Column
  /\ NoSpace \notin Space
  /\ IndexSpaces \subseteq Space
  /\ SameUid \subseteq Space
  /\ SameRows \subseteq Space
BY ForestAssumption DEF ForestAssumption, Column, Life!Column

LifeInv ==
  /\ Life!TypeOK
  /\ life # "live" => columns = Life!NoColumns
  /\ Life!ColumnsBacked
  /\ Life!StorageSeparate
  /\ Life!NothingOrphaned

\* A column of the table is a Column record.
LEMMA LifeColumn ==
  ASSUME LifeInv, NEW n \in Life!Present(columns)
  PROVE  /\ n \in Name
         /\ columns[n] \in Life!Column
         /\ columns[n].cs \in Space
         /\ columns[n].region \in Region
         /\ columns[n].fid \in Field
BY DEF LifeInv, Life!TypeOK, Life!Present, Life!Column

\* A live region was made over a ColumnSpace; an identity that was never
\* used names no live region, and no field.
LEMMA LiveRegion ==
  ASSUME LifeInv, NEW r \in Region
  PROVE  /\ r \in regions => home[r] \in Space
         /\ home[r] = NoSpace => r \notin regions /\ fields[r] = {}
<1>1. ASSUME r \in regions PROVE home[r] \in Space
  <2>1. PICK n \in Life!Present(columns) : columns[n].region = r
    BY <1>1 DEF LifeInv, Life!NothingOrphaned, Life!Accounted
  <2>2. home[r] = columns[n].cs
    BY <2>1 DEF LifeInv, Life!ColumnsBacked, Life!Backed
  <2> QED BY <2>2, LifeColumn
<1>2. ASSUME home[r] = NoSpace PROVE r \notin regions /\ fields[r] = {}
  <2>1. r \notin regions
    BY <1>1, <1>2, ForestConstants
  <2> QED BY <2>1 DEF LifeInv, Life!NothingOrphaned, Life!CleanedUp
<1> QED BY <1>1, <1>2

\* The arguments of a call are well formed.
LEMMA LifeNewColumn ==
  ASSUME NEW new \in Life!NewColumns, NEW n \in DOMAIN new
  PROVE  n \in Name /\ new[n].cs \in Space /\ new[n].fid \in Field
<1>1. PICK N \in SUBSET Name : new \in [N -> Life!TableField]
  BY DEF Life!NewColumns
<1> QED BY <1>1 DEF Life!TableField

\* Where the columns of a ColumnSpace go: to the region of a column it
\* already stores, or to one whose identity was never used.
LEMMA Placement ==
  ASSUME LifeInv, NEW new \in Life!NewColumns, NEW made,
         Life!Makes(columns, new, made), NEW n \in DOMAIN new
  PROVE  LET s == new[n].cs
             r == Life!RegionFor(columns, made, s)
         IN /\ r \in Region
            /\ \/ /\ s \notin DOMAIN made
                  /\ \E m \in Life!Present(columns) :
                       columns[m].cs = s /\ columns[m].region = r
               \/ /\ s \in DOMAIN made
                  /\ r = made[s]
                  /\ home[r] = NoSpace
                  /\ \A m \in Life!Present(columns) : columns[m].cs # s
<1> DEFINE s == new[n].cs
           r == Life!RegionFor(columns, made, s)
<1>1. DOMAIN made = Life!NewSpaces(columns, new)
  BY DEF Life!Makes
<1>2. CASE Life!Stored(columns, s) # {}
  <2>1. PICK m \in Life!Stored(columns, s) : r = columns[m].region
    BY <1>2 DEF Life!RegionFor
  <2>2. m \in Life!Present(columns) /\ columns[m].cs = s
    BY <2>1 DEF Life!Stored
  <2>3. s \notin DOMAIN made
    BY <1>1, <1>2 DEF Life!NewSpaces
  <2> QED BY <2>1, <2>2, <2>3, LifeColumn
<1>3. CASE Life!Stored(columns, s) = {}
  <2>1. s \in DOMAIN made
    BY <1>1, <1>3 DEF Life!NewSpaces
  <2>2. r = made[s]
    BY <1>3 DEF Life!RegionFor
  <2>3. made[s] \in Region /\ home[made[s]] = NoSpace
    BY <2>1 DEF Life!Makes
  <2>4. \A m \in Life!Present(columns) : columns[m].cs # s
    BY <1>3 DEF Life!Stored
  <2> QED BY <2>1, <2>2, <2>3, <2>4
<1> QED BY <1>2, <1>3


\* Adding columns, by create or by add_columns.
LEMMA Allocation ==
  ASSUME LifeInv, NEW new \in Life!NewColumns, NEW made, NEW kws,
         Life!AllocateColumns(columns, new, made, kws),
         columns' = Life!WithNew(columns, new, made)
  PROVE  /\ columns' \in [Name -> Life!Column \cup {NoColumn}]
         /\ Life!ForestTypeOK'
         /\ Life!ColumnsBacked' /\ Life!StorageSeparate'
         /\ Life!NothingOrphaned'
<1> DEFINE R(n) == Life!RegionFor(columns, made, new[n].cs)
<1> USE ForestConstants
<1>1. Life!Makes(columns, new, made) /\ Life!MayAdd(columns, new)
  BY DEF Life!AllocateColumns
<1>0. /\ regions' = regions \cup {made[s] : s \in DOMAIN made}
      /\ spaces' = spaces
  BY DEF Life!AllocateColumns
<1>2. \A n \in DOMAIN new :
        /\ n \in Name /\ new[n].cs \in Space /\ new[n].fid \in Field
        /\ new[n].cs \in spaces
        /\ n \notin Life!Present(columns)
  <2>1. \A n \in DOMAIN new : n \notin Life!Present(columns)
    BY <1>1 DEF Life!MayAdd
  <2> QED BY <2>1, LifeNewColumn DEF Life!AllocateColumns
<1>3. \A n \in DOMAIN new :
        /\ R(n) \in Region
        /\ \/ /\ new[n].cs \notin DOMAIN made
              /\ \E m \in Life!Present(columns) :
                   columns[m].cs = new[n].cs /\ columns[m].region = R(n)
           \/ /\ new[n].cs \in DOMAIN made
              /\ R(n) = made[new[n].cs]
              /\ home[R(n)] = NoSpace
              /\ \A m \in Life!Present(columns) : columns[m].cs # new[n].cs
  BY <1>1, Placement
<1>4. /\ DOMAIN made \subseteq {new[n].cs : n \in DOMAIN new}
      /\ \A s \in DOMAIN made :
           /\ made[s] \in Region /\ home[made[s]] = NoSpace
           /\ \A m \in Life!Present(columns) : columns[m].cs # s
      /\ \A s, t \in DOMAIN made : made[s] = made[t] => s = t
  BY <1>1 DEF Life!Makes, Life!NewSpaces, Life!Stored
<1>5. /\ \A s \in DOMAIN made : home'[made[s]] = s
      /\ \A r \in Region : (\A s \in DOMAIN made : made[s] # r) => home'[r] = home[r]
      /\ \A r \in Region :
           home'[r] = home[r] \/ \E s \in DOMAIN made : made[s] = r /\ home'[r] = s
  BY <1>4 DEF Life!AllocateColumns
<1>6. \A n \in DOMAIN new :
        columns'[n] = [cs |-> new[n].cs, region |-> R(n), fid |-> new[n].fid]
  BY <1>2 DEF Life!WithNew
<1> HIDE DEF R
<1>7. \A n \in DOMAIN new :
        /\ columns'[n] \in Life!Column /\ columns'[n].cs = new[n].cs
        /\ columns'[n].region = R(n) /\ columns'[n].fid = new[n].fid
  <2> SUFFICES ASSUME NEW n \in DOMAIN new
               PROVE  /\ columns'[n] \in Life!Column /\ columns'[n].cs = new[n].cs
                      /\ columns'[n].region = R(n) /\ columns'[n].fid = new[n].fid
    OBVIOUS
  <2>1. new[n].cs \in Space /\ R(n) \in Region /\ new[n].fid \in Field
    BY <1>2, <1>3
  <2>2. columns'[n] = [cs |-> new[n].cs, region |-> R(n), fid |-> new[n].fid]
    BY <1>6
  <2> QED BY <2>1, <2>2 DEF Life!Column
<1>8. \A n \in Name : n \notin DOMAIN new => columns'[n] = columns[n]
  BY DEF Life!WithNew
<1>9. columns' \in [Name -> Life!Column \cup {NoColumn}]
  <2>1. columns' = [n \in Name |-> columns'[n]]
    BY DEF Life!WithNew
  <2>2. \A n \in Name : columns'[n] \in Life!Column \cup {NoColumn}
    BY <1>7, <1>8 DEF LifeInv, Life!TypeOK
  <2> QED BY <2>1, <2>2
<1>10. Life!Present(columns)' = Life!Present(columns) \cup DOMAIN new
  BY <1>2, <1>7, <1>8 DEF Life!Present
<1>11. Life!ForestTypeOK'
  <2>1. regions' \subseteq Region
    BY <1>4 DEF Life!AllocateColumns, LifeInv, Life!TypeOK, Life!ForestTypeOK
  <2>2. home' \in [Region -> Space \cup {NoSpace}]
    <3>1. home' = [r \in Region |-> home'[r]]
      BY DEF Life!AllocateColumns
    <3>2. \A r \in Region : home'[r] \in Space \cup {NoSpace}
      BY <1>2, <1>4, <1>5 DEF LifeInv, Life!TypeOK, Life!ForestTypeOK
    <3> QED BY <3>1, <3>2
  <2>3. fields' \in [Region -> SUBSET Field]
    BY <1>2 DEF Life!AllocateColumns, Life!Taken, LifeInv, Life!TypeOK, Life!ForestTypeOK
  <2>4. keywords' \subseteq Name
    BY <1>2 DEF Life!AllocateColumns, LifeInv, Life!TypeOK, Life!ForestTypeOK
  <2>5. spaces' \subseteq Space
    BY DEF Life!AllocateColumns, LifeInv, Life!TypeOK, Life!ForestTypeOK
  <2> QED BY <2>1, <2>2, <2>3, <2>4, <2>5 DEF Life!ForestTypeOK
<1>12. \A r \in Region : fields[r] \subseteq fields'[r]
  BY DEF Life!AllocateColumns
<1>13. \A n \in DOMAIN new : new[n].fid \in fields'[R(n)]
  BY <1>3 DEF Life!AllocateColumns, Life!Taken, R
<1>14. \A m \in Life!Present(columns) :
         /\ m \notin DOMAIN new /\ columns'[m] = columns[m]
         /\ columns[m].region \in regions /\ home[columns[m].region] = columns[m].cs
         /\ columns[m].fid \in fields[columns[m].region] /\ columns[m].cs \in spaces
         /\ columns[m].region \in Region /\ columns[m].cs \in Space
         /\ m \in Name
  BY <1>2, <1>8, LifeColumn DEF LifeInv, Life!ColumnsBacked, Life!Backed
<1>15. Life!ColumnsBacked'
  <2>1. ASSUME NEW m \in Life!Present(columns)
        PROVE  /\ columns[m].region \in regions'
               /\ home'[columns[m].region] = columns[m].cs
               /\ columns[m].fid \in fields'[columns[m].region]
               /\ columns[m].cs \in spaces'
    <3>1. home[columns[m].region] # NoSpace
      BY <1>14
    <3> QED BY <1>0, <1>4, <1>5, <1>12, <1>14, <3>1
  <2>2. ASSUME NEW n \in DOMAIN new
        PROVE  R(n) \in regions' /\ home'[R(n)] = new[n].cs /\ new[n].cs \in spaces'
    <3>1. CASE new[n].cs \in DOMAIN made
      <4>1. R(n) = made[new[n].cs]
        BY <1>3, <3>1
      <4> QED BY <1>0, <1>2, <1>5, <3>1, <4>1
    <3>2. CASE new[n].cs \notin DOMAIN made
      <4>1. PICK m \in Life!Present(columns) :
              columns[m].cs = new[n].cs /\ columns[m].region = R(n)
        BY <1>3, <3>2
      <4> QED BY <1>0, <1>2, <2>1, <4>1
    <3> QED BY <3>1, <3>2
  <2> QED BY <1>7, <1>10, <1>13, <1>14, <2>1, <2>2 DEF Life!ColumnsBacked, Life!Backed
<1>16. Life!StorageSeparate'
  <2>1. \A m, n \in Life!Present(columns) :
          /\ columns[m].cs = columns[n].cs => columns[m].region = columns[n].region
          /\ /\ columns[m].region = columns[n].region
             /\ columns[m].fid = columns[n].fid
             => m = n
    BY DEF LifeInv, Life!StorageSeparate, Life!Separate
  <2>2. ASSUME NEW m \in Life!Present(columns), NEW n \in DOMAIN new
        PROVE  /\ columns[m].cs = new[n].cs => columns[m].region = R(n)
               /\ columns[m].region = R(n) => columns[m].fid # new[n].fid
    <3>1. columns[m].cs = new[n].cs => columns[m].region = R(n)
      BY <1>3, <2>1
    <3>2. new[n].fid \notin fields[R(n)]
      BY DEF Life!AllocateColumns, Life!FieldsFree, R
    <3> QED BY <1>14, <3>1, <3>2
  <2>3. ASSUME NEW m \in DOMAIN new, NEW n \in DOMAIN new
        PROVE  /\ new[m].cs = new[n].cs => R(m) = R(n)
               /\ R(m) = R(n) /\ new[m].fid = new[n].fid => m = n
    BY DEF Life!AllocateColumns, Life!FieldsFree, R
  <2> QED BY <1>7, <1>10, <1>14, <2>1, <2>2, <2>3 DEF Life!StorageSeparate, Life!Separate
<1>17. Life!NothingOrphaned'
  <2>1. Life!Accounted(columns)'
    <3>1. ASSUME NEW r \in regions', NEW f \in fields'[r]
          PROVE  \E n \in Life!Present(columns)' :
                   columns'[n].region = r /\ columns'[n].fid = f
      <4>1. CASE f \in fields[r] /\ r \in regions
        BY <1>10, <1>14, <4>1 DEF LifeInv, Life!NothingOrphaned, Life!Accounted
      <4>2. CASE f \in Life!Taken(columns, new, made, r)
        BY <1>7, <1>10, <4>2 DEF Life!Taken, R
      <4>3. r \notin regions => fields[r] = {}
        BY <1>11 DEF LifeInv, Life!NothingOrphaned, Life!CleanedUp, Life!ForestTypeOK
      <4>4. f \in fields[r] \/ f \in Life!Taken(columns, new, made, r)
        BY <1>11 DEF Life!AllocateColumns, Life!ForestTypeOK
      <4> QED BY <4>1, <4>2, <4>3, <4>4
    <3>2. ASSUME NEW r \in regions' PROVE fields'[r] # {}
      <4>1. CASE r \in regions
        BY <1>11, <1>12, <4>1 DEF LifeInv, Life!NothingOrphaned, Life!Accounted, Life!ForestTypeOK
      <4>2. CASE r \notin regions
        <5>1. PICK s \in DOMAIN made : made[s] = r
          BY <4>2 DEF Life!AllocateColumns
        <5>2. PICK n \in DOMAIN new : new[n].cs = s
          BY <1>4
        <5> QED BY <1>3, <1>13, <5>1, <5>2
      <4> QED BY <4>1, <4>2
    <3> QED BY <3>1, <3>2 DEF Life!Accounted
  <2>2. Life!CleanedUp'
    <3>1. ASSUME NEW r \in Region \ regions'
          PROVE  fields'[r] = {} /\ home'[r] \notin spaces'
      <4>1. r \notin regions /\ \A s \in DOMAIN made : made[s] # r
        BY DEF Life!AllocateColumns
      <4>2. \A n \in DOMAIN new : R(n) # r
        BY <1>3, <1>14, <4>1
      <4>3. Life!Taken(columns, new, made, r) = {}
        BY <4>2 DEF Life!Taken, R
      <4>4. fields[r] = {} /\ home[r] \notin spaces
        BY <4>1 DEF LifeInv, Life!NothingOrphaned, Life!CleanedUp
      <4> QED BY <1>5, <4>1, <4>3, <4>4 DEF Life!AllocateColumns
    <3> QED BY <3>1 DEF Life!CleanedUp
  <2>3. (keywords \subseteq Life!Present(columns))'
    BY <1>10 DEF Life!AllocateColumns, LifeInv, Life!NothingOrphaned
  <2> QED BY <2>1, <2>2, <2>3 DEF Life!NothingOrphaned
<1> QED BY <1>9, <1>11, <1>15, <1>16, <1>17

\* Freeing columns, by remove_columns or by destroy.
LEMMA Removal ==
  ASSUME LifeInv, NEW rm, rm \subseteq Life!Present(columns),
         Life!FreeColumns(columns, rm, rm),
         columns' = Life!Without(columns, rm)
  PROVE  /\ columns' \in [Name -> Life!Column \cup {NoColumn}]
         /\ Life!ForestTypeOK'
         /\ Life!ColumnsBacked' /\ Life!StorageSeparate'
         /\ Life!NothingOrphaned'
<1> DEFINE gone == Life!Emptied(columns, rm, rm)
<1>1. /\ regions' = regions \ gone
      /\ fields' = [r \in Region |-> Life!FieldsLeft(columns, rm, r)]
      /\ spaces' = spaces \
           {columns[n].cs : n \in {m \in rm : columns[m].region \in gone}}
      /\ keywords' = keywords \ rm
      /\ home' = home
  BY DEF Life!FreeColumns
<1>2. \A n \in Life!Present(columns) :
        /\ n \in Name /\ columns[n] \in Life!Column
        /\ columns[n].cs \in Space /\ columns[n].region \in Region
        /\ columns[n].region \in regions
        /\ home[columns[n].region] = columns[n].cs
        /\ columns[n].fid \in fields[columns[n].region]
        /\ columns[n].cs \in spaces
  BY LifeColumn DEF LifeInv, Life!ColumnsBacked, Life!Backed
<1>3. \A m, n \in Life!Present(columns) :
        /\ columns[m].cs = columns[n].cs => columns[m].region = columns[n].region
        /\ columns[m].region = columns[n].region /\ columns[m].fid = columns[n].fid
           => m = n
  BY DEF LifeInv, Life!StorageSeparate, Life!Separate
<1>4. Life!Present(columns)' = Life!Present(columns) \ rm
  BY DEF Life!Present, Life!Without
<1>5. \A n \in Life!Present(columns) \ rm : columns'[n] = columns[n]
  BY <1>2 DEF Life!Without
<1>6. \A r \in Region : fields'[r] = Life!FieldsLeft(columns, rm, r)
  BY <1>1
<1>7. \A n \in Life!Present(columns) \ rm :
        columns[n].fid \in Life!FieldsLeft(columns, rm, columns[n].region)
  BY <1>2, <1>3 DEF Life!FieldsLeft
<1>8. \A r \in gone : r \in Region /\ Life!FieldsLeft(columns, rm, r) = {}
  BY <1>2 DEF Life!Emptied
<1>9. \A n \in Life!Present(columns) \ rm : columns[n].region \notin gone
  BY <1>7, <1>8
<1>10. columns' \in [Name -> Life!Column \cup {NoColumn}]
  BY DEF Life!Without, LifeInv, Life!TypeOK
<1>11. Life!ForestTypeOK'
  BY <1>1 DEF Life!FieldsLeft, LifeInv, Life!TypeOK, Life!ForestTypeOK
<1>12. Life!ColumnsBacked'
  <2>1. ASSUME NEW n \in Life!Present(columns) \ rm
        PROVE  /\ columns[n].region \in regions'
               /\ columns[n].fid \in fields'[columns[n].region]
               /\ columns[n].cs \in spaces'
    <3>1. columns[n].region \in regions'
      BY <1>1, <1>2, <1>9
    <3>2. columns[n].fid \in fields'[columns[n].region]
      BY <1>2, <1>6, <1>7
    <3>3. \A m \in rm : columns[m].region \in gone => columns[m].cs # columns[n].cs
      BY <1>3, <1>9
    <3> QED BY <1>1, <1>2, <3>1, <3>2, <3>3
  <2> QED BY <1>1, <1>2, <1>4, <1>5, <2>1 DEF Life!ColumnsBacked, Life!Backed
<1>13. Life!StorageSeparate'
  BY <1>3, <1>4, <1>5 DEF Life!StorageSeparate, Life!Separate
<1>14. Life!Accounted(columns)'
  <2>1. ASSUME NEW r \in regions', NEW f \in fields'[r]
        PROVE  \E n \in Life!Present(columns)' :
                 columns'[n].region = r /\ columns'[n].fid = f
    <3>1. r \in regions /\ r \in Region
      BY <1>1 DEF LifeInv, Life!TypeOK, Life!ForestTypeOK
    <3>2. /\ f \in fields[r]
          /\ f \notin {columns[n].fid : n \in {m \in rm : columns[m].region = r}}
      BY <1>6, <3>1 DEF Life!FieldsLeft
    <3>3. PICK n \in Life!Present(columns) : columns[n].region = r /\ columns[n].fid = f
      BY <3>1, <3>2 DEF LifeInv, Life!NothingOrphaned, Life!Accounted
    <3> QED BY <1>4, <1>5, <3>2, <3>3
  <2>2. ASSUME NEW r \in regions' PROVE fields'[r] # {}
    <3>1. r \in regions /\ r \in Region /\ r \notin gone
      BY <1>1 DEF LifeInv, Life!TypeOK, Life!ForestTypeOK
    <3>2. CASE \E n \in rm : columns[n].region = r
      BY <1>6, <3>1, <3>2 DEF Life!Emptied
    <3>3. CASE \A n \in rm : columns[n].region # r
      <4>1. {columns[n].fid : n \in {m \in rm : columns[m].region = r}} = {}
        BY <3>3
      <4>2. fields'[r] = fields[r] \ {}
        BY <1>6, <3>1, <4>1 DEF Life!FieldsLeft
      <4> QED BY <3>1, <4>2 DEF LifeInv, Life!NothingOrphaned, Life!Accounted
    <3> QED BY <3>2, <3>3
  <2> QED BY <2>1, <2>2 DEF Life!Accounted
<1>15. Life!CleanedUp'
  <2>1. ASSUME NEW r \in Region \ regions'
        PROVE  fields'[r] = {} /\ home'[r] \notin spaces'
    <3>1. CASE r \in gone
      <4>1. fields'[r] = {}
        BY <1>6, <1>8, <3>1
      <4>2. PICK n \in rm : columns[n].region = r
        BY <3>1 DEF Life!Emptied
      <4>3. home'[r] = columns[n].cs
        BY <1>1, <1>2, <4>2
      <4> QED BY <1>1, <3>1, <4>1, <4>2, <4>3
    <3>2. CASE r \notin regions
      BY <1>1, <1>6, <3>2 DEF Life!FieldsLeft, LifeInv, Life!NothingOrphaned, Life!CleanedUp
    <3> QED BY <1>1, <3>1, <3>2
  <2> QED BY <2>1 DEF Life!CleanedUp
<1>16. (keywords \subseteq Life!Present(columns))'
  BY <1>1, <1>4 DEF LifeInv, Life!NothingOrphaned
<1> QED BY <1>10, <1>11, <1>12, <1>13, <1>14, <1>15, <1>16 DEF Life!NothingOrphaned

(* A table that has not been created, which is how Table::create finds it     *)
(* (Table.cc:330-375), satisfies every conjunct of the inductive invariant.   *)
LEMMA LifeInit == Life!Init => LifeInv
<1> SUFFICES ASSUME Life!Init PROVE LifeInv
  OBVIOUS
<1>1. Life!Present(columns) = {}
  BY DEF Life!Init, Life!NoColumns, Life!Present
<1>2. Life!TypeOK
  BY DEF Life!Init, Life!ForestInit, Life!NoColumns, Life!TypeOK, Life!ForestTypeOK
<1>3. Life!NothingOrphaned
  BY ForestConstants DEF Life!Init, Life!ForestInit, Life!NothingOrphaned, Life!Accounted, Life!CleanedUp
<1>4. columns = Life!NoColumns
  BY DEF Life!Init
<1> QED
  BY <1>1, <1>2, <1>3, <1>4
     DEF LifeInv, Life!ColumnsBacked, Life!Backed, Life!StorageSeparate, Life!Separate

(* Every operation of Table.cc (create, add_columns, the two remove_columns,  *)
(* destroy) keeps the inductive invariant: one step for each of them.         *)
LEMMA LifeNext == LifeInv /\ [Life!Next]_(Life!vars) => LifeInv'
<1> SUFFICES ASSUME LifeInv, [Life!Next]_(Life!vars) PROVE LifeInv'
  OBVIOUS
<1>1. ASSUME NEW new \in Life!NewColumns, NEW kws, Life!Create(new, kws)
      PROVE  LifeInv'
  <2>1. columns = Life!NoColumns
    BY <1>1 DEF Life!Create, LifeInv
  <2>2. PICK made : /\ Life!AllocateColumns(columns, new, made, kws)
                    /\ columns' = Life!WithNew(columns, new, made)
    BY <1>1, <2>1 DEF Life!Create
  <2>3. life' = "live"
    BY <1>1 DEF Life!Create
  <2> QED BY <2>2, <2>3, Allocation DEF LifeInv, Life!TypeOK
<1>2. ASSUME NEW new \in Life!NewColumns, NEW kws, Life!AddColumns(new, kws)
      PROVE  LifeInv'
  <2>1. PICK made : /\ Life!AllocateColumns(columns, new, made, kws)
                    /\ columns' = Life!WithNew(columns, new, made)
    BY <1>2 DEF Life!AddColumns
  <2>2. life' = "live"
    BY <1>2 DEF Life!AddColumns
  <2> QED BY <2>1, <2>2, Allocation DEF LifeInv, Life!TypeOK
<1>3. ASSUME NEW rm \in SUBSET Name, Life!RemoveColumns(rm)
      PROVE  LifeInv'
  <2>1. /\ rm \subseteq Life!Present(columns)
        /\ Life!FreeColumns(columns, rm, rm)
        /\ columns' = Life!Without(columns, rm)
        /\ life' = "live"
    BY <1>3 DEF Life!RemoveColumns
  <2> QED BY <2>1, Removal DEF LifeInv, Life!TypeOK
<1>4. ASSUME Life!Destroy PROVE LifeInv'
  <2>1. Life!Without(columns, Life!Present(columns)) = Life!NoColumns
    BY DEF Life!Without, Life!Present, Life!NoColumns
  <2>2. /\ Life!FreeColumns(columns, Life!Present(columns), Life!Present(columns))
        /\ columns' = Life!Without(columns, Life!Present(columns))
        /\ columns' = Life!NoColumns
        /\ life' = "destroyed"
    BY <1>4, <2>1 DEF Life!Destroy
  <2> QED BY <2>2, Removal DEF LifeInv, Life!TypeOK
<1>5. ASSUME UNCHANGED Life!vars PROVE LifeInv'
  BY <1>5 DEF Life!vars, Life!forest, LifeInv, Life!TypeOK, Life!ForestTypeOK, Life!ColumnsBacked, Life!Backed,
              Life!StorageSeparate, Life!Separate, Life!NothingOrphaned, Life!Accounted, Life!CleanedUp,
              Life!Present
<1> QED BY <1>1, <1>2, <1>3, <1>4, <1>5 DEF Life!Next

\* The inductive invariant holds in every reachable state.
THEOREM LifeInvariantHolds == Life!Spec => []LifeInv
<1> QED BY LifeInit, LifeNext, PTL DEF Life!Spec

\* Every variable of the table and of its storage keeps its type.
THEOREM LifeTypeCorrect == Life!Spec => []Life!TypeOK
<1>1. LifeInv => Life!TypeOK
  BY DEF LifeInv
<1> QED BY <1>1, LifeInvariantHolds, PTL

\* Whatever a client adds and removes, in whatever order, the columns a table
\* knows keep their region, field and ColumnSpace.
THEOREM ColumnsStayBacked == Life!Spec => []ColumnsBacked
<1>1. LifeInv => ColumnsBacked
  BY DEF LifeInv, ColumnsBacked, Life!ColumnsBacked,
         Backed, Life!Backed, Present, Life!Present
<1> QED BY <1>1, LifeInvariantHolds, PTL

\* No two columns of a table ever share a field.
THEOREM StorageStaysSeparate == Life!Spec => []StorageSeparate
<1>1. LifeInv => StorageSeparate
  BY DEF LifeInv, StorageSeparate, Life!StorageSeparate,
         Separate, Life!Separate, Present, Life!Present
<1> QED BY <1>1, LifeInvariantHolds, PTL

\* A table leaks no field, region, ColumnSpace or keyword region.
THEOREM NothingIsOrphaned == Life!Spec => []NothingOrphaned
<1>1. LifeInv => NothingOrphaned
  BY DEF LifeInv, NothingOrphaned, Life!NothingOrphaned,
         Accounted, Life!Accounted, CleanedUp, Life!CleanedUp, Present, Life!Present
<1> QED BY <1>1, LifeInvariantHolds, PTL

-----------------------------------------------------------------------------
(***************************************************************************)
(* What a column of measures carries.                                      *)
(*                                                                         *)
(* A list of keywords has one of a name (Listing), so the field that is    *)
(* found first and the entry that is made last are the same, and a list    *)
(* that is made again from its descriptions and values is the list.  All   *)
(* MeasRefs of a column are of the same references, and each row's code,   *)
(* now and when the row was written, is one of those (MeasuresInv): that   *)
(* is why it does not matter which of the MeasRefs an accessor goes by.    *)
(***************************************************************************)
CONSTANT MaxOps
VARIABLE ops

Meta == INSTANCE ColumnMeta

\* A function on 1 .. n is a list of length n.
LEMMA OfLength ==
  ASSUME NEW n \in Nat, NEW f, f = [i \in 1 .. n |-> f[i]]
  PROVE  Len(f) = n
<1>1. f \in Seq({f[i] : i \in 1 .. n})
  OBVIOUS
<1> QED BY <1>1

\* A list of keywords with one of a name.
Listing(list) ==
  /\ Len(list) \in Nat /\ DOMAIN list = 1 .. Len(list)
  /\ \A k \in DOMAIN list :
       list[k] = [name |-> list[k].name, tag |-> list[k].tag, val |-> list[k].val]
  /\ \A j, k \in DOMAIN list : list[j].name = list[k].name => j = k

\* The list has the values that were told of it, by name.
Tells(told, list) ==
  /\ DOMAIN told = {list[k].name : k \in DOMAIN list}
  /\ \A k \in DOMAIN list : told[list[k].name] = list[k].val

\* Slots and rows keep their places.
MetaDomains ==
  /\ DOMAIN mrs = Slots /\ DOMAIN source = Slots /\ DOMAIN kwsets = Slots /\ DOMAIN said = Slots
  /\ DOMAIN codes = Rows /\ DOMAIN stored = Rows /\ DOMAIN written = Rows

KeywordsInv ==
  \A s \in Slots : Own(s) \/ kwsets[s] # Absent => Listing(kwsets[s]) /\ Tells(said[s], kwsets[s])

\* create() makes a keyword of each description, without a value.
LEMMA Created ==
  ASSUME NEW desc \in Descs
  PROVE  LET list == CreateKeywords(desc)
         IN  Listing(list) /\ Tells([name \in {desc[k][1] : k \in DOMAIN desc} |-> Unwritten], list)
<1> DEFINE list == CreateKeywords(desc)
<1>1. Len(desc) \in Nat /\ DOMAIN desc = 1 .. Len(desc)
  BY DescsAssumption
<1>2. \A j, k \in DOMAIN desc : desc[j][1] = desc[k][1] => j = k
  BY DescsAssumption
<1>3. /\ DOMAIN list = DOMAIN desc
      /\ \A k \in DOMAIN desc :
           list[k] = [name |-> desc[k][1], tag |-> desc[k][2], val |-> Unwritten]
  BY DEF CreateKeywords
<1>4. Len(list) = Len(desc)
  <2>1. list = [k \in 1 .. Len(desc) |-> list[k]]
    BY <1>1 DEF CreateKeywords
  <2> HIDE DEF list
  <2> QED BY <1>1, <2>1, OfLength
<1> HIDE DEF list
<1>5. Listing(list)
  BY <1>1, <1>2, <1>3, <1>4 DEF Listing
<1>6. Tells([name \in {desc[k][1] : k \in DOMAIN desc} |-> Unwritten], list)
  BY <1>3 DEF Tells
<1> QED BY <1>5, <1>6 DEF list

\* clone() makes the same list.
LEMMA Cloned ==
  ASSUME NEW list, NEW told, Listing(list), Tells(told, list)
  PROVE  Listing(CloneKeywords(list)) /\ Tells(told, CloneKeywords(list))
<1> DEFINE new == CloneKeywords(list)
<1>1. /\ DOMAIN new = DOMAIN list
      /\ \A k \in DOMAIN list : new[k] = [name |-> list[k].name, tag |-> list[k].tag,
                                          val |-> ReadOfType(list, k - 1)]
  BY DEF CloneKeywords, CreateKeywords
<1>2. \A k \in DOMAIN list : ReadOfType(list, k - 1) = list[k].val
  <2>1. ASSUME NEW k \in DOMAIN list PROVE (k - 1) + 1 = k /\ k - 1 \in Fids(list)
    BY DEF Listing, Fids
  <2> QED BY <2>1 DEF ReadOfType, ReadKeyword, MayRequire
<1>3. Len(new) = Len(list)
  <2>1. new = [k \in 1 .. Len(list) |-> new[k]]
    BY DEF Listing, CloneKeywords
  <2> HIDE DEF new
  <2> QED BY <2>1, OfLength DEF Listing
<1> HIDE DEF new
<1>4. Listing(new)
  BY <1>1, <1>2, <1>3 DEF Listing
<1>5. Tells(told, new)
  BY <1>1, <1>2 DEF Tells
<1> QED BY <1>4, <1>5 DEF new

\* A name stands for one field.
LEMMA Found ==
  ASSUME NEW list, Listing(list), NEW k \in DOMAIN list
  PROVE  FindKeyword(list, list[k].name) = {k - 1}
<1>1. \A j \in DOMAIN list : (j - 1) + 1 = j
  BY DEF Listing
<1>2. k - 1 \in Fids(list)
  BY DEF Fids
<1>3. ASSUME NEW f \in Fids(list), list[f + 1].name = list[k].name
      PROVE  f = k - 1
  <2>1. PICK j \in DOMAIN list : f = j - 1
    BY DEF Fids
  <2> QED BY <1>1, <1>3, <2>1 DEF Listing
<1>4. k - 1 <= k - 1
  BY DEF Listing
<1> QED BY <1>1, <1>2, <1>3, <1>4 DEF FindKeyword

\* write() changes the value of one keyword, if it has the type.
LEMMA Rewritten ==
  ASSUME NEW list, NEW told, Listing(list), Tells(told, list), NEW k \in DOMAIN list,
         NEW tag, NEW val
  PROVE  LET new == WriteKeyword(list, k - 1, tag, val)
             now == IF list[k].tag = tag THEN [told EXCEPT ![list[k].name] = <<tag, val>>] ELSE told
         IN  Listing(new) /\ Tells(now, new)
<1>1. (k - 1) + 1 = k /\ k - 1 \in Fids(list)
  BY DEF Listing, Fids
<1>2. MayWrite(list, k - 1, tag) <=> list[k].tag = tag
  BY <1>1 DEF MayWrite, MayRequire
<1>3. CASE list[k].tag # tag
  BY <1>2, <1>3 DEF WriteKeyword
<1>4. CASE list[k].tag = tag
  <2> DEFINE new == [list EXCEPT ![k].val = <<tag, val>>]
             now == [told EXCEPT ![list[k].name] = <<tag, val>>]
  <2>1. WriteKeyword(list, k - 1, tag, val) = new
    BY <1>1, <1>2, <1>4 DEF WriteKeyword
  <2>2. /\ DOMAIN new = DOMAIN list
        /\ \A j \in DOMAIN list :
             new[j] = [name |-> list[j].name, tag |-> list[j].tag,
                       val |-> IF j = k THEN <<tag, val>> ELSE list[j].val]
    BY DEF Listing
  <2>3. Len(new) = Len(list)
    <3>1. new = [j \in 1 .. Len(list) |-> new[j]]
      BY DEF Listing
    <3> HIDE DEF new
    <3> QED BY <3>1, OfLength DEF Listing
  <2>4. /\ DOMAIN now = DOMAIN told
        /\ \A j \in DOMAIN list :
             now[list[j].name] = IF j = k THEN <<tag, val>> ELSE list[j].val
    BY DEF Tells, Listing
  <2> HIDE DEF new, now
  <2>5. Listing(new)
    BY <2>2, <2>3 DEF Listing
  <2>6. Tells(now, new)
    BY <2>2, <2>4 DEF Tells
  <2> QED BY <1>4, <2>1, <2>5, <2>6 DEF new, now
<1> QED BY <1>3, <1>4

\* Every step keeps the domains.
LEMMA MetaDomainsStay == MetaDomains /\ [Meta!Next]_(Meta!vars) => MetaDomains'
<1> SUFFICES ASSUME MetaDomains, [Meta!Next]_(Meta!vars) PROVE MetaDomains'
  OBVIOUS
<1>1. ASSUME NEW s \in Slots, NEW refs, NEW desc, Meta!CreateColumn(s, refs, desc) PROVE MetaDomains'
  BY <1>1 DEF Meta!CreateColumn, MetaDomains
<1>2. ASSUME NEW s \in Slots, NEW ref, Meta!CreateOther(s, ref) PROVE MetaDomains'
  BY <1>2 DEF Meta!CreateOther, MetaDomains
<1>3. ASSUME NEW s \in Slots, NEW to \in Slots, Meta!CloneColumn(s, to) PROVE MetaDomains'
  BY <1>3 DEF Meta!CloneColumn, MetaDomains
<1>4. ASSUME NEW s \in Slots, Meta!Destroy(s) PROVE MetaDomains'
  BY <1>4 DEF Meta!Destroy, MetaDomains
<1>5. ASSUME NEW s \in Slots, NEW r \in Rows, NEW q, Meta!WriteMeasure(s, r, q) PROVE MetaDomains'
  BY <1>5 DEF Meta!WriteMeasure, MetaDomains
<1>6. ASSUME NEW s \in Slots, NEW r \in Rows, Meta!WriteCode(s, r) PROVE MetaDomains'
  BY <1>6 DEF Meta!WriteCode, MetaDomains
<1>7. ASSUME NEW s \in Slots, NEW tag, NEW val, Meta!SetKeyword(s, tag, val) PROVE MetaDomains'
  BY <1>7 DEF Meta!SetKeyword, MetaDomains
<1>8. ASSUME UNCHANGED Meta!vars PROVE MetaDomains'
  BY <1>8 DEF Meta!vars, MetaDomains
<1> QED BY <1>1, <1>2, <1>3, <1>4, <1>5, <1>6, <1>7, <1>8 DEF Meta!Next

\* The keywords of the instance are the keywords.
LEMMA SameKeywords ==
  ASSUME NEW list
  PROVE  /\ Meta!Range(Meta!Keys(list)) = Range(Keys(list))
         /\ \A name : Meta!FindKeyword(list, name) = FindKeyword(list, name)
         /\ \A fid, tag, val : Meta!WriteKeyword(list, fid, tag, val) = WriteKeyword(list, fid, tag, val)
<1>1. Meta!Range(Meta!Keys(list)) = Range(Keys(list))
  BY DEF Range, Meta!Range, Keys, Meta!Keys
<1>2. \A name : Meta!FindKeyword(list, name) = FindKeyword(list, name)
  BY DEF FindKeyword, Meta!FindKeyword, Fids, Meta!Fids
<1>3. \A fid, tag, val : Meta!WriteKeyword(list, fid, tag, val) = WriteKeyword(list, fid, tag, val)
  BY DEF WriteKeyword, Meta!WriteKeyword, MayWrite, Meta!MayWrite, MayRequire, Meta!MayRequire, Fids, Meta!Fids
<1> QED BY <1>1, <1>2, <1>3

\* Every step keeps the keywords of a column.
LEMMA KeywordsStay == MetaDomains /\ KeywordsInv /\ [Meta!Next]_(Meta!vars) => KeywordsInv'
<1> SUFFICES ASSUME MetaDomains, KeywordsInv, [Meta!Next]_(Meta!vars),
                    NEW t \in Slots, Own(t)' \/ kwsets'[t] # Absent
             PROVE  Listing(kwsets'[t]) /\ Tells(said'[t], kwsets'[t])
  BY DEF KeywordsInv
<1> DEFINE Good == Listing(kwsets'[t]) /\ Tells(said'[t], kwsets'[t])
<1>0. ASSUME mrs'[t] = mrs[t], source'[t] = source[t], kwsets'[t] = kwsets[t], said'[t] = said[t]
      PROVE  Good
  BY <1>0 DEF KeywordsInv, Own, Live
<1>1. ASSUME NEW s \in Slots, NEW refs, NEW desc \in Descs, Meta!CreateColumn(s, refs, desc) PROVE Good
  <2>1. CASE t = s
    <3>1. /\ kwsets'[t] = CreateKeywords(desc)
          /\ said'[t] = [name \in {desc[k][1] : k \in DOMAIN desc} |-> Unwritten]
      BY <1>1, <2>1 DEF Meta!CreateColumn, MetaDomains, CreateKeywords, Meta!CreateKeywords
    <3> QED BY <3>1, Created
  <2>2. CASE t # s
    BY <1>0, <1>1, <2>2 DEF Meta!CreateColumn, MetaDomains
  <2> QED BY <2>1, <2>2
<1>2. ASSUME NEW s \in Slots, NEW ref, Meta!CreateOther(s, ref) PROVE Good
  <2>1. CASE t = s
    <3>1. source'[t] = <<<<ref>>, <<>>, FALSE>> /\ kwsets' = kwsets /\ said' = said
      BY <1>2, <2>1 DEF Meta!CreateOther, MetaDomains
    <3>2. ~ Own(t)'
      BY <3>1 DEF Own
    <3> QED BY <3>1, <3>2 DEF KeywordsInv
  <2>2. CASE t # s
    BY <1>0, <1>2, <2>2 DEF Meta!CreateOther, MetaDomains
  <2> QED BY <2>1, <2>2
<1>3. ASSUME NEW s \in Slots, NEW to \in Slots, Meta!CloneColumn(s, to) PROVE Good
  <2>1. CASE t = to
    <3>1. kwsets'[t] = CloneKeywords(kwsets[s]) /\ said'[t] = said[s] /\ Own(s)
      BY <1>3, <2>1 DEF Meta!CloneColumn, MetaDomains, CloneKeywords, Meta!CloneKeywords,
         CreateKeywords, Meta!CreateKeywords, ReadOfType, Meta!ReadOfType, ReadKeyword, Meta!ReadKeyword,
         MayRequire, Meta!MayRequire, Fids, Meta!Fids, Own, Meta!Own, Live, Meta!Live
    <3> QED BY <3>1, Cloned DEF KeywordsInv
  <2>2. CASE t # to
    BY <1>0, <1>3, <2>2 DEF Meta!CloneColumn, MetaDomains
  <2> QED BY <2>1, <2>2
<1>4. ASSUME NEW s \in Slots, Meta!Destroy(s) PROVE Good
  <2>1. CASE t = s
    BY <1>4, <2>1 DEF Meta!Destroy, MetaDomains, Own, Live
  <2>2. CASE t # s
    BY <1>0, <1>4, <2>2 DEF Meta!Destroy, MetaDomains
  <2> QED BY <2>1, <2>2
<1>5. ASSUME NEW s \in Slots, NEW r \in Rows, NEW q, Meta!WriteMeasure(s, r, q) PROVE Good
  BY <1>0, <1>5 DEF Meta!WriteMeasure
<1>6. ASSUME NEW s \in Slots, NEW r \in Rows, Meta!WriteCode(s, r) PROVE Good
  BY <1>0, <1>6 DEF Meta!WriteCode
<1>7. ASSUME NEW s \in Slots, NEW tag, NEW val, Meta!SetKeyword(s, tag, val) PROVE Good
  <2>1. CASE t = s
    <3>1. Listing(kwsets[s]) /\ Tells(said[s], kwsets[s])
      BY <1>7 DEF Meta!SetKeyword, KeywordsInv, Own, Meta!Own, Live, Meta!Live
    <3>2. PICK name \in Range(Keys(kwsets[s])) : \E fid \in FindKeyword(kwsets[s], name) :
            /\ kwsets' = [kwsets EXCEPT ![s] = WriteKeyword(@, fid, tag, val)]
            /\ said' = IF kwsets[s][fid + 1].tag = tag THEN [said EXCEPT ![s][name] = <<tag, val>>] ELSE said
      <4>1. PICK name \in Meta!Range(Meta!Keys(kwsets[s])) : \E fid \in Meta!FindKeyword(kwsets[s], name) :
              /\ kwsets' = [kwsets EXCEPT ![s] = Meta!WriteKeyword(@, fid, tag, val)]
              /\ said' = IF kwsets[s][fid + 1].tag = tag THEN [said EXCEPT ![s][name] = <<tag, val>>] ELSE said
        BY <1>7 DEF Meta!SetKeyword
      <4>2. PICK fid \in Meta!FindKeyword(kwsets[s], name) :
              /\ kwsets' = [kwsets EXCEPT ![s] = Meta!WriteKeyword(@, fid, tag, val)]
              /\ said' = IF kwsets[s][fid + 1].tag = tag THEN [said EXCEPT ![s][name] = <<tag, val>>] ELSE said
        BY <4>1
      <4>3. name \in Range(Keys(kwsets[s])) /\ fid \in FindKeyword(kwsets[s], name)
        BY <4>1, <4>2, SameKeywords
      <4>4. kwsets' = [kwsets EXCEPT ![s] = WriteKeyword(@, fid, tag, val)]
        BY <4>2, SameKeywords
      <4> QED BY <4>2, <4>3, <4>4
    <3>3. PICK k \in DOMAIN kwsets[s] : name = kwsets[s][k].name
      BY DEF Range, Keys
    <3>4. FindKeyword(kwsets[s], name) = {k - 1} /\ (k - 1) + 1 = k
      <4>1. FindKeyword(kwsets[s], name) = {k - 1}
        BY <3>1, <3>3, Found
      <4>2. (k - 1) + 1 = k
        BY <3>1 DEF Listing
      <4> QED BY <4>1, <4>2
    <3>5. /\ kwsets' = [kwsets EXCEPT ![s] = WriteKeyword(@, k - 1, tag, val)]
          /\ said' = IF kwsets[s][k].tag = tag THEN [said EXCEPT ![s][name] = <<tag, val>>] ELSE said
      BY <3>2, <3>4
    <3>6. /\ kwsets'[s] = WriteKeyword(kwsets[s], k - 1, tag, val)
          /\ said'[s] = IF kwsets[s][k].tag = tag
                        THEN [said[s] EXCEPT ![kwsets[s][k].name] = <<tag, val>>] ELSE said[s]
      BY <3>3, <3>5 DEF MetaDomains
    <3> QED BY <2>1, <3>1, <3>6, Rewritten
  <2>2. CASE t # s
    BY <1>0, <1>7, <2>2 DEF Meta!SetKeyword, MetaDomains
  <2> QED BY <2>1, <2>2
<1>8. ASSUME UNCHANGED Meta!vars PROVE Good
  BY <1>0, <1>8 DEF Meta!vars
<1> QED BY <1>1, <1>2, <1>3, <1>4, <1>5, <1>6, <1>7, <1>8 DEF Meta!Next

\* A keyword that is looked up by its name, one way or the other, is the one
\* that has it.
LEMMA KeywordsFound == KeywordsInv => KeywordsKept
<1> SUFFICES ASSUME KeywordsInv, NEW s \in Slots, kwsets[s] # Absent, NEW name \in DOMAIN said[s]
             PROVE  /\ ToMap(kwsets[s])[name][2] = said[s][name]
                    /\ \A fid \in FindKeyword(kwsets[s], name) :
                         ReadKeyword(kwsets[s], fid, kwsets[s][fid + 1].tag) = said[s][name]
  BY DEF KeywordsKept
<1>1. Listing(kwsets[s]) /\ Tells(said[s], kwsets[s])
  BY DEF KeywordsInv
<1>2. PICK k \in DOMAIN kwsets[s] : name = kwsets[s][k].name
  BY <1>1 DEF Tells
<1>3. said[s][name] = kwsets[s][k].val
  BY <1>1, <1>2 DEF Tells
<1>4. FindKeyword(kwsets[s], name) = {k - 1} /\ (k - 1) + 1 = k /\ k - 1 \in Fids(kwsets[s])
  <2>1. FindKeyword(kwsets[s], name) = {k - 1}
    BY <1>1, <1>2, Found
  <2>2. (k - 1) + 1 = k
    BY <1>1 DEF Listing
  <2> QED BY <2>1, <2>2 DEF Fids
<1>5. \A fid \in FindKeyword(kwsets[s], name) :
        ReadKeyword(kwsets[s], fid, kwsets[s][fid + 1].tag) = said[s][name]
  BY <1>3, <1>4 DEF ReadKeyword, MayRequire
<1>6. ToMap(kwsets[s])[name][2] = said[s][name]
  <2> DEFINE IsLast(x) == /\ kwsets[s][x].name = name
                        /\ \A j \in DOMAIN kwsets[s] : kwsets[s][j].name = name => j <= x
  <2>1. IsLast(k) /\ \A x \in DOMAIN kwsets[s] : IsLast(x) => x = k
    BY <1>1, <1>2 DEF Listing
  <2>2. (CHOOSE x \in DOMAIN kwsets[s] : IsLast(x)) = k
    BY <2>1
  <2>3. name \in {kwsets[s][j].name : j \in DOMAIN kwsets[s]}
    BY <1>2
  <2>4. ToMap(kwsets[s])[name] = <<kwsets[s][k].tag, kwsets[s][k].val>>
    BY <2>2, <2>3 DEF ToMap
  <2> QED BY <1>3, <2>4
<1> QED BY <1>5, <1>6

\* Before there is a column there is nothing.
LEMMA NothingYet == Meta!Init => MetaDomains /\ KeywordsInv
BY DEF Meta!Init, MetaDomains, KeywordsInv, Own, Live

\* Each keyword holds the last value of its type that was written to it, in
\* the column and in all of its clones.
THEOREM KeywordsHold == Meta!Spec => []KeywordsKept
<1> QED BY NothingYet, MetaDomainsStay, KeywordsStay, KeywordsFound, PTL DEF Meta!Spec
\* The reference that a code means, of those a MeasRef was created from.
Meant(indexed, src, code) ==
  IF indexed THEN src[1][CHOOSE k \in DOMAIN src[2] : src[2][k] = code] ELSE src[1][1]

\* The code is one of them, if there are codes.
Known(indexed, src, code) == indexed => code \in Range(src[2])

\* All MeasRefs of the column are of the same references; each row has the
\* code of one, and what was written to it is as far from its origin.
MeasuresInv ==
  /\ \A s, t \in Slots : Own(s) /\ Own(t) => source[s] = source[t]
  /\ \A s \in Slots : Own(s) =>
       /\ source[s][1] \in RefLists /\ source[s][2] = Meta!CodesOf(refcol, source[s][1])
       /\ \A r \in Rows :
            /\ Known(refcol, source[s], codes[r])
            /\ written[r] # Absent =>
                 /\ written[r][1] \in Int /\ Known(refcol, source[s], written[r][2])
                 /\ stored[r] = written[r][1] - OriginOf(Meant(refcol, source[s], written[r][2]))

\* A code that is known means one of the references.
LEMMA MeantIsOne ==
  ASSUME NEW src, src[1] \in RefLists, src[2] = Meta!CodesOf(refcol, src[1]), NEW code, Known(refcol, src, code)
  PROVE  OriginOf(Meant(refcol, src, code)) \in Int
<1>1. 1 \in DOMAIN src[1] /\ \A k \in DOMAIN src[1] : OriginOf(src[1][k]) \in Int
  BY QuantitiesAssumption
<1>2. CASE refcol
  <2>1. DOMAIN src[2] = DOMAIN src[1]
    BY <1>2 DEF Meta!CodesOf
  <2>2. \E k \in DOMAIN src[2] : src[2][k] = code
    BY <1>2 DEF Known, Range
  <2> QED BY <1>1, <1>2, <2>1, <2>2 DEF Meant
<1>3. CASE ~refcol
  BY <1>1, <1>3 DEF Meant
<1> QED BY <1>2, <1>3

\* The accessors take the reference that the row's code means.
LEMMA RefIsMeant ==
  ASSUME RefsMadeBack, NEW s \in Slots, Own(s), NEW r \in Rows,
         source[s][1] \in RefLists, source[s][2] = Meta!CodesOf(refcol, source[s][1]),
         Known(refcol, source[s], codes[r])
  PROVE  RefAt(mrs[s], r) = Meant(refcol, source[s], codes[r])
<1>1. RefsOf(mrs[s]) = source[s][1]
  BY DEF RefsMadeBack, Own
<1>2. CASE refcol
  <2>1. \A k \in DOMAIN source[s][2] : RowOfCode(mrs[s])[source[s][2][k]] = k - 1
    BY <1>2 DEF RefsMadeBack, Own
  <2> DEFINE k == CHOOSE k \in DOMAIN source[s][2] : source[s][2][k] = codes[r]
  <2>2. k \in DOMAIN source[s][2] /\ source[s][2][k] = codes[r]
    BY <1>2 DEF Known, Range
  <2>3. k \in Int
    <3> HIDE DEF k
    <3>1. DOMAIN source[s][2] = DOMAIN source[s][1]
      BY <1>2 DEF Meta!CodesOf
    <3>2. /\ Len(source[s][1]) \in Nat
          /\ DOMAIN source[s][1] = 1 .. Len(source[s][1])
      BY QuantitiesAssumption
    <3> QED BY <2>2, <3>1, <3>2
  <2> HIDE DEF k
  <2>4. RowOfCode(mrs[s])[codes[r]] + 1 = k
    BY <2>1, <2>2, <2>3
  <2>5. Meant(refcol, source[s], codes[r]) = source[s][1][k]
    BY <1>2 DEF Meant, k
  <2> QED BY <1>1, <1>2, <2>4, <2>5 DEF RefAt
<1>3. CASE ~refcol
  BY <1>1, <1>3 DEF RefAt, Meant
<1> QED BY <1>2, <1>3

\* So what was written is read.
LEMMA MeasuresFound == RefsMadeBack /\ MeasuresInv => MeasureReadBack
<1> SUFFICES ASSUME RefsMadeBack, MeasuresInv, NEW s \in Slots, NEW r \in Rows,
                    Own(s), written[r] # Absent, written[r][2] = codes[r]
             PROVE  Load(stored[r], RefAt(mrs[s], r)) = written[r][1]
  BY DEF MeasureReadBack
<1>1. /\ source[s][1] \in RefLists /\ source[s][2] = Meta!CodesOf(refcol, source[s][1])
      /\ Known(refcol, source[s], codes[r]) /\ written[r][1] \in Int
      /\ stored[r] = written[r][1] - OriginOf(Meant(refcol, source[s], codes[r]))
  BY DEF MeasuresInv
<1>2. RefAt(mrs[s], r) = Meant(refcol, source[s], codes[r])
  BY <1>1, RefIsMeant
<1>3. OriginOf(Meant(refcol, source[s], codes[r])) \in Int
  BY <1>1, MeantIsOne
<1> QED BY <1>1, <1>2, <1>3 DEF Load

\* What holds of the MeasRefs of a column holds of some of them.
LEMMA FewerOwn ==
  ASSUME MeasuresInv, UNCHANGED <<refcol, codes, stored, written>>,
         \A t \in Slots : Own(t)' => \E s \in Slots : Own(s) /\ source'[t] = source[s]
  PROVE  MeasuresInv'
<1>2. ASSUME NEW t \in Slots, Own(t)'
      PROVE  /\ source'[t][1] \in RefLists /\ source'[t][2] = Meta!CodesOf(refcol', source'[t][1])
             /\ \A r \in Rows :
                  /\ Known(refcol', source'[t], codes'[r])
                  /\ written'[r] # Absent =>
                       /\ written'[r][1] \in Int /\ Known(refcol', source'[t], written'[r][2])
                       /\ stored'[r] = written'[r][1] - OriginOf(Meant(refcol', source'[t], written'[r][2]))
  <2>1. PICK s \in Slots : Own(s) /\ source'[t] = source[s]
    BY <1>2
  <2>2. PICK src : src = source[s]
    OBVIOUS
  <2>3. /\ src[1] \in RefLists /\ src[2] = Meta!CodesOf(refcol, src[1])
        /\ \A r \in Rows :
             /\ Known(refcol, src, codes[r])
             /\ written[r] # Absent =>
                  /\ written[r][1] \in Int /\ Known(refcol, src, written[r][2])
                  /\ stored[r] = written[r][1] - OriginOf(Meant(refcol, src, written[r][2]))
    BY <2>1, <2>2 DEF MeasuresInv
  <2>4. source'[t] = src /\ refcol' = refcol /\ codes' = codes /\ stored' = stored /\ written' = written
    BY <2>1, <2>2
  <2> QED BY <2>3, <2>4
<1>3. ASSUME NEW s \in Slots, NEW t \in Slots, Own(s)', Own(t)' PROVE source'[s] = source'[t]
  BY <1>3 DEF MeasuresInv
<1> QED BY <1>2, <1>3 DEF MeasuresInv

\* Every step keeps the measures of a column.
LEMMA MeasuresStay == MetaDomains /\ RefsMadeBack /\ MeasuresInv /\ [Meta!Next]_(Meta!vars) => MeasuresInv'
<1> SUFFICES ASSUME MetaDomains, RefsMadeBack, MeasuresInv, [Meta!Next]_(Meta!vars) PROVE MeasuresInv'
  OBVIOUS
<1>1. ASSUME NEW s \in Slots, NEW refs \in RefLists, NEW desc, Meta!CreateColumn(s, refs, desc)
      PROVE  MeasuresInv'
  <2>1. /\ source'[s] = <<refs, Meta!CodesOf(refcol, refs), TRUE>> /\ refcol' = refcol
        /\ \A r \in Rows : codes'[r] = refs[1].rtype /\ written'[r] = Absent
    BY <1>1 DEF Meta!CreateColumn, MetaDomains
  <2>2. \A t \in Slots : Own(t)' => t = s
    <3>1. ASSUME NEW t \in Slots, t # s PROVE mrs'[t] = mrs[t] /\ source'[t] = source[t]
      BY <1>1, <3>1 DEF Meta!CreateColumn, MetaDomains
    <3>2. \A t \in Slots : ~ Own(t)
      BY <1>1 DEF Meta!CreateColumn, Own, Meta!Own, Live, Meta!Live
    <3> QED BY <3>1, <3>2 DEF Own, Live
  <2>3. \A r \in Rows : Known(refcol', source'[s], codes'[r])
    <3>1. 1 \in DOMAIN refs
      BY QuantitiesAssumption
    <3>2. ASSUME refcol PROVE refs[1].rtype \in Range(Meta!CodesOf(refcol, refs))
      BY <3>1, <3>2 DEF Meta!CodesOf, Range
    <3>3. source'[s][2] = Meta!CodesOf(refcol, refs)
      BY <2>1
    <3> QED BY <2>1, <3>2, <3>3 DEF Known
  <2>4. source'[s][1] \in RefLists /\ source'[s][2] = Meta!CodesOf(refcol', source'[s][1])
    BY <2>1
  <2> QED BY <2>1, <2>2, <2>3, <2>4 DEF MeasuresInv
<1>2. ASSUME NEW s \in Slots, NEW ref, Meta!CreateOther(s, ref) PROVE MeasuresInv'
  <2>1. source'[s] = <<<<ref>>, <<>>, FALSE>>
    BY <1>2 DEF Meta!CreateOther, MetaDomains
  <2>2. ~ Own(s)'
    BY <2>1 DEF Own
  <2>3. \A t \in Slots : t # s => mrs'[t] = mrs[t] /\ source'[t] = source[t]
    BY <1>2 DEF Meta!CreateOther, MetaDomains
  <2>4. \A t \in Slots : Own(t)' => Own(t) /\ source'[t] = source[t]
    BY <2>2, <2>3 DEF Own, Live
  <2> QED BY <1>2, <2>4, FewerOwn DEF Meta!CreateOther
<1>3. ASSUME NEW s \in Slots, NEW to \in Slots, Meta!CloneColumn(s, to) PROVE MeasuresInv'
  <2>1. Own(s) /\ source'[to] = source[s]
    BY <1>3 DEF Meta!CloneColumn, MetaDomains, Own, Meta!Own, Live, Meta!Live
  <2>2. \A t \in Slots : t # to => mrs'[t] = mrs[t] /\ source'[t] = source[t]
    BY <1>3 DEF Meta!CloneColumn, MetaDomains
  <2>3. \A t \in Slots : Own(t)' => \E u \in Slots : Own(u) /\ source'[t] = source[u]
    BY <2>1, <2>2 DEF Own, Live
  <2> QED BY <1>3, <2>3, FewerOwn DEF Meta!CloneColumn
<1>4. ASSUME NEW s \in Slots, Meta!Destroy(s) PROVE MeasuresInv'
  <2>1. mrs'[s] = Absent /\ \A t \in Slots : t # s => mrs'[t] = mrs[t] /\ source'[t] = source[t]
    BY <1>4 DEF Meta!Destroy, MetaDomains
  <2>2. \A t \in Slots : Own(t)' => Own(t) /\ source'[t] = source[t]
    BY <2>1 DEF Own, Live
  <2> QED BY <1>4, <2>2, FewerOwn DEF Meta!Destroy
<1>5. ASSUME NEW s \in Slots, NEW r \in Rows, NEW q \in Quantities, Meta!WriteMeasure(s, r, q)
      PROVE  MeasuresInv'
  <2>1. /\ Own(s) /\ stored'[r] = q - OriginOf(RefAt(mrs[s], r)) /\ written'[r] = <<q, codes[r]>>
        /\ \A p \in Rows : p # r => stored'[p] = stored[p] /\ written'[p] = written[p]
        /\ UNCHANGED <<mrs, source, refcol, codes>>
    BY <1>5 DEF Meta!WriteMeasure, Meta!Store, Meta!RefAt, RefAt, MetaDomains, Own, Meta!Own, Live, Meta!Live
  <2>2. /\ source[s][1] \in RefLists /\ source[s][2] = Meta!CodesOf(refcol, source[s][1])
        /\ Known(refcol, source[s], codes[r])
    BY <2>1 DEF MeasuresInv
  <2>3. stored'[r] = q - OriginOf(Meant(refcol, source[s], codes[r])) /\ q \in Int
    BY <2>1, <2>2, RefIsMeant, QuantitiesAssumption
  <2>4. \A t \in Slots : Own(t) => source[t] = source[s]
    BY <2>1 DEF MeasuresInv
  <2>5. \A t \in Slots : Own(t)' <=> Own(t)
    BY <2>1 DEF Own, Live
  <2>6. ASSUME NEW t \in Slots, Own(t), NEW p \in Rows, written'[p] # Absent
        PROVE  /\ written'[p][1] \in Int /\ Known(refcol, source[t], written'[p][2])
               /\ stored'[p] = written'[p][1] - OriginOf(Meant(refcol, source[t], written'[p][2]))
    <3>1. CASE p = r
      BY <2>1, <2>2, <2>3, <2>4, <2>6, <3>1
    <3>2. CASE p # r
      BY <2>1, <2>6, <3>2 DEF MeasuresInv
    <3> QED BY <3>1, <3>2
  <2> QED BY <2>1, <2>5, <2>6 DEF MeasuresInv
<1>6. ASSUME NEW s \in Slots, NEW r \in Rows, Meta!WriteCode(s, r) PROVE MeasuresInv'
  <2>1. PICK code \in DOMAIN RowOfCode(mrs[s]) : codes' = [codes EXCEPT ![r] = code]
    BY <1>6 DEF Meta!WriteCode
  <2>2. Own(s) /\ refcol /\ UNCHANGED <<mrs, source, refcol, stored, written>>
    BY <1>6 DEF Meta!WriteCode, Own, Meta!Own, Live, Meta!Live
  <2>3. code \in Range(source[s][2])
    BY <2>1, <2>2 DEF RefsMadeBack, Own
  <2>4. \A p \in Rows : codes'[p] = IF p = r THEN code ELSE codes[p]
    BY <2>1 DEF MetaDomains
  <2>5. \A t \in Slots : (Own(t)' <=> Own(t)) /\ (Own(t) => source[t] = source[s])
    BY <2>2 DEF MeasuresInv, Own, Live
  <2>6. \A t \in Slots, p \in Rows : Own(t) => Known(refcol, source[t], codes'[p])
    BY <2>3, <2>4, <2>5 DEF MeasuresInv, Known
  <2> QED BY <2>2, <2>5, <2>6 DEF MeasuresInv
<1>7. ASSUME NEW s \in Slots, NEW tag, NEW val, Meta!SetKeyword(s, tag, val) PROVE MeasuresInv'
  <2>1. UNCHANGED <<mrs, source, refcol, codes, stored, written>>
    BY <1>7 DEF Meta!SetKeyword
  <2>2. \A t \in Slots : Own(t)' => Own(t) /\ source'[t] = source[t]
    BY <2>1 DEF Own, Live
  <2> QED BY <2>1, <2>2, FewerOwn
<1>8. ASSUME UNCHANGED Meta!vars PROVE MeasuresInv'
  <2>1. \A t \in Slots : Own(t)' => Own(t) /\ source'[t] = source[t]
    BY <1>8 DEF Meta!vars, Own, Live
  <2> QED BY <1>8, <2>1, FewerOwn DEF Meta!vars
<1> QED BY <1>1, <1>2, <1>3, <1>4, <1>5, <1>6, <1>7, <1>8 DEF Meta!Next

\* Nothing has a MeasRef yet.
LEMMA NoMeasures == Meta!Init => MetaDomains /\ MeasuresInv
BY DEF Meta!Init, MetaDomains, MeasuresInv, Own, Live

\* Where references come back as they were created, through any chain of
\* clones, so do the measures: whichever MeasRef of the column a row was
\* written through, and whatever codes the rows had before and since.
THEOREM MeasuresHold == Meta!Spec /\ []RefsMadeBack => []MeasureReadBack
<1> QED BY NoMeasures, MetaDomainsStay, MeasuresStay, MeasuresFound, PTL DEF Meta!Spec
-----------------------------------------------------------------------------
(***************************************************************************)
(* The conversion of a MeasurementSet to a file.                           *)
(*                                                                         *)
(* The place of a table in names, and of its paths in what create_h5_task  *)
(* returns, is all that ties the tasks that read to the columns they       *)
(* attach (PathsInv).  The datasets of a column hold exactly the cells of  *)
(* its points whose block is not left to be read (DataInv), in any order   *)
(* of the tasks.                                                           *)
(***************************************************************************)
CONSTANTS MaxExports, KwValues, MayOpen(_), OpenedAs(_), WrittenAs(_, _)
VARIABLES opened, exports

Copy == INSTANCE MsToHdf5

Begun == stage \in {"create", "read", "done"}

NamesInv ==
  /\ DOMAIN tables = DOMAIN Source
  /\ Len(names) \in Nat /\ DOMAIN names = 1 .. Len(names)
  /\ \A i \in DOMAIN names : names[i] \in DOMAIN Source
  /\ \A i, j \in DOMAIN names : names[i] = names[j] => i = j
  /\ Begun => \A i \in DOMAIN names : tables[names[i]] # Nothing

\* A file that is written to is one that the program made.
FileInv ==
  /\ file = [by |-> file.by, groups |-> file.groups]
  /\ Begun => file.by = "ms2h5"

\* The groups written so far, in the order of the names.
PathsInv ==
  /\ Len(paths) \in Nat /\ DOMAIN paths = 1 .. Len(paths)
  /\ stage \in {"start", "scan"} => paths = <<>>
  /\ Begun =>
       /\ Len(paths) <= Len(names)
       /\ \A i \in DOMAIN paths :
            /\ names[i] \in DOMAIN file.groups /\ file.groups[names[i]] \in GroupsOf(tables[names[i]])
            /\ paths[i] = DOMAIN tables[names[i]].cols
  /\ stage \in {"read", "done"} => Len(paths) = Len(names)

\* The values of a column that are read when those of some blocks are left.
ReadSoFar(tbs, left, t, n) ==
  [p \in {q \in tbs[t].cols[n].cs.pts : <<t, BlockOf(q[1])>> \notin left} |->
     CellAt(Source[t], n, p, FirstRow(BlockOf(p[1])))]

DataInv ==
  /\ stage \in {"read", "done"} =>
       \A i \in DOMAIN names : \A n \in DOMAIN tables[names[i]].cols :
         /\ <<names[i], n>> \in DOMAIN data
         /\ data[<<names[i], n>>] = ReadSoFar(tables, toRead, names[i], n)
  /\ stage = "done" => toRead = {}

\* Nothing is converted yet.
LEMMA NothingConverted == Copy!Init => NamesInv /\ FileInv /\ PathsInv /\ DataInv
BY DEF Copy!Init, NamesInv, FileInv, PathsInv, DataInv, Begun, Copy!NoFile

\* The steps that leave the names, the file and what is read alone: clients
\* and scanning tasks.
Aside ==
  UNCHANGED <<stage, names, tables, file, paths, toRead, data>>

LEMMA AsideStays ==
  ASSUME Aside
  PROVE  /\ NamesInv => NamesInv'
         /\ FileInv => FileInv'
         /\ PathsInv => PathsInv'
         /\ DataInv => DataInv'
BY DEF Aside, NamesInv, FileInv, PathsInv, DataInv, Begun

\* The steps that are aside.
LEMMA StepsAside ==
  ASSUME [Copy!Next]_(Copy!vars)
  PROVE  \/ Aside
         \/ Copy!Start \/ Copy!Intrude \/ Copy!CreateFile \/ Copy!WriteNext \/ Copy!AttachColumns \/ Copy!Finish
         \/ \E t \in DOMAIN Source : Copy!MakeTable(t)
         \/ \E t \in DOMAIN Source : \E b \in Copy!RowBlocksOf(t) : Copy!ReadBlock(t, b)
<1>1. ASSUME NEW t, Copy!ScanRow(t) PROVE Aside
  BY <1>1 DEF Copy!ScanRow, Aside
<1>2. ASSUME NEW t, Copy!OpenFromFile(t) PROVE Aside
  BY <1>2 DEF Copy!OpenFromFile, Aside
<1>3. ASSUME NEW n, NEW v, Copy!SetKeyword(n, v) PROVE Aside
  BY <1>3 DEF Copy!SetKeyword, Aside
<1>4. ASSUME Copy!Export \/ Copy!OpenExport PROVE Aside
  BY <1>4 DEF Copy!Export, Copy!OpenExport, Aside
<1>5. ASSUME UNCHANGED Copy!vars PROVE Aside
  BY <1>5 DEF Copy!vars, Aside
<1> QED BY <1>1, <1>2, <1>3, <1>4, <1>5 DEF Copy!Next

\* Every step keeps the names and the tables.
LEMMA NamesStay == NamesInv /\ [Copy!Next]_(Copy!vars) => NamesInv'
<1> SUFFICES ASSUME NamesInv, [Copy!Next]_(Copy!vars) PROVE NamesInv'
  OBVIOUS
<1>1. CASE Aside
  BY <1>1, AsideStays
<1>2. CASE Copy!Start
  <2>1. tables' = tables
    BY <1>2 DEF Copy!Start
  <2>2. CASE stage' = "refused" /\ names' = names
    BY <2>1, <2>2 DEF NamesInv, Begun
  <2>3. CASE stage' = "scan" /\ names' \in Copy!Orders(Copy!Convertible(Copy!EffectiveArgs(selection)))
    <3> DEFINE S == Copy!Convertible(Copy!EffectiveArgs(selection))
    <3>1. S \subseteq DOMAIN Source
      BY DEF Copy!Convertible
    <3>2. Cardinality(S) \in Nat
      BY <3>1, SourceAssumption, FS_Subset, FS_CardinalityType
    <3>5. PICK f \in Copy!Orders(S) : f = names'
      BY <2>3
    <3> HIDE DEF S
    <3>3. f \in [1 .. Cardinality(S) -> S] /\ \A i, j \in DOMAIN f : f[i] = f[j] => i = j
      <4>1. Copy!Cardinality(S) = Cardinality(S)
        BY DEF Cardinality, Copy!Cardinality
      <4> QED BY <3>5, <4>1 DEF Copy!Orders
    <3>4. Len(f) = Cardinality(S)
      BY <3>2, <3>3, OfLength
    <3> QED BY <2>1, <2>3, <3>1, <3>2, <3>5, <3>3, <3>4 DEF NamesInv, Begun
  <2> QED BY <1>2, <2>2, <2>3 DEF Copy!Start
<1>3. CASE Copy!Intrude
  BY <1>3 DEF Copy!Intrude, NamesInv, Begun
<1>4. CASE Copy!CreateFile
  <2>1. /\ names' = names /\ tables' = tables
        /\ \A t \in Copy!Range(names) : tables[t] # Nothing
    BY <1>4 DEF Copy!CreateFile
  <2>2. \A i \in DOMAIN names : tables[names[i]] # Nothing
    BY <2>1 DEF Copy!Range
  <2> QED BY <2>1, <2>2 DEF NamesInv
<1>5. CASE Copy!WriteNext
  BY <1>5 DEF Copy!WriteNext, NamesInv, Begun
<1>6. CASE Copy!AttachColumns
  BY <1>6 DEF Copy!AttachColumns, NamesInv, Begun
<1>7. CASE Copy!Finish
  BY <1>7 DEF Copy!Finish, NamesInv, Begun
<1>8. ASSUME NEW t \in DOMAIN Source, Copy!MakeTable(t) PROVE NamesInv'
  BY <1>8 DEF Copy!MakeTable, NamesInv, Begun
<1>9. ASSUME NEW t, NEW b, Copy!ReadBlock(t, b) PROVE NamesInv'
  BY <1>9 DEF Copy!ReadBlock, NamesInv, Begun
<1> QED BY <1>1, <1>2, <1>3, <1>4, <1>5, <1>6, <1>7, <1>8, <1>9, StepsAside

\* Only CreateFile begins to write, and only where there is no file.
LEMMA FileStays ==
  FileInv /\ [Copy!Next]_(Copy!vars) => FileInv' /\ (file = Foreign => file' = Foreign)
<1> SUFFICES ASSUME FileInv, [Copy!Next]_(Copy!vars) PROVE FileInv' /\ (file = Foreign => file' = Foreign)
  OBVIOUS
<1> DEFINE Good == FileInv' /\ (file = Foreign => file' = Foreign)
<1>0. NoFile.by = "nobody" /\ Foreign.by = "somebody" /\ NewFile.by = "ms2h5"
  BY DEF NoFile, Foreign, NewFile
<1>1. Copy!NoFile = NoFile /\ Copy!Foreign = Foreign /\ Copy!NewFile = NewFile
  BY DEF NoFile, Foreign, NewFile, Copy!NoFile, Copy!Foreign, Copy!NewFile, NoGroups, Copy!NoGroups
<1>2. CASE Aside
  BY <1>2, AsideStays DEF Aside
<1>3. CASE Copy!Start
  BY <1>3 DEF Copy!Start, FileInv, Begun
<1>4. CASE Copy!Intrude
  <2>1. file = NoFile /\ file' = Foreign /\ stage' = stage
    BY <1>1, <1>4 DEF Copy!Intrude
  <2>2. ~ Begun
    BY <1>0, <2>1 DEF FileInv
  <2>3. ~ Begun'
    BY <2>1, <2>2 DEF Begun
  <2> QED BY <2>1, <2>3 DEF FileInv, Foreign
<1>5. CASE Copy!CreateFile
  <2>1. CASE file = NoFile /\ file' = NewFile
    BY <1>0, <2>1 DEF FileInv, NewFile
  <2>2. CASE stage' = "failed" /\ file' = file
    BY <2>2 DEF FileInv, Begun
  <2> QED BY <1>1, <1>5, <2>1, <2>2 DEF Copy!CreateFile
<1>6. CASE Copy!WriteNext
  <2>1. stage = "create" /\ stage' = stage
    BY <1>6 DEF Copy!WriteNext
  <2>2. file.by = "ms2h5" /\ file # Foreign
    BY <1>0, <2>1 DEF FileInv, Begun
  <2>3. \E gs : file' = [file EXCEPT !.groups = gs]
    BY <1>6 DEF Copy!WriteNext
  <2>4. PICK gs : file' = [by |-> file.by, groups |-> gs]
    BY <2>3 DEF FileInv
  <2> QED BY <2>2, <2>4 DEF FileInv
<1>7. CASE Copy!AttachColumns
  BY <1>7 DEF Copy!AttachColumns, FileInv, Begun
<1>8. CASE Copy!Finish
  BY <1>8 DEF Copy!Finish, FileInv, Begun
<1>9. ASSUME NEW t, Copy!MakeTable(t) PROVE Good
  BY <1>9 DEF Copy!MakeTable, FileInv, Begun
<1>10. ASSUME NEW t, NEW b, Copy!ReadBlock(t, b) PROVE Good
  BY <1>10 DEF Copy!ReadBlock, FileInv, Begun
<1> QED BY <1>2, <1>3, <1>4, <1>5, <1>6, <1>7, <1>8, <1>9, <1>10, StepsAside

\* A file that somebody else makes at the output path is never written to,
\* whenever it appears.
THEOREM ForeignStays == Copy!Spec => ForeignKept
<1>1. FileInv /\ [Copy!Next]_(Copy!vars) => FileInv'
  BY FileStays
<1>2. FileInv /\ [Copy!Next]_(Copy!vars) => [file = Foreign => file' = Foreign]_file
  BY FileStays
<1> QED BY NothingConverted, <1>1, <1>2, PTL DEF Copy!Spec, ForeignKept

\* Each Table is written once, as a group that has all of its columns.
LEMMA PathsStay ==
  NamesInv /\ FileInv /\ PathsInv /\ PointsAreCells /\ [Copy!Next]_(Copy!vars) => PathsInv'
<1> SUFFICES ASSUME NamesInv, FileInv, PathsInv, PointsAreCells, [Copy!Next]_(Copy!vars) PROVE PathsInv'
  OBVIOUS
<1>1. CASE Aside
  BY <1>1, AsideStays
<1>2. CASE Copy!Start
  BY <1>2 DEF Copy!Start, PathsInv, Begun
<1>3. CASE Copy!Intrude
  <2>1. ~ Begun
    <3>1. Copy!NoFile.by = "nobody"
      BY DEF Copy!NoFile
    <3> QED BY <1>3, <3>1 DEF Copy!Intrude, FileInv
  <2> QED BY <1>3, <2>1 DEF Copy!Intrude, PathsInv, Begun
<1>4. CASE Copy!CreateFile
  <2>1. paths = <<>> /\ paths' = paths /\ names' = names /\ stage' \in {"create", "failed"}
    BY <1>4 DEF Copy!CreateFile, PathsInv
  <2>2. Len(paths) = 0
    BY <2>1
  <2> QED BY <2>1, <2>2 DEF PathsInv, NamesInv, Begun
<1>5. CASE Copy!WriteNext
  <2> DEFINE i == Len(paths) + 1
             t == names[i]
  <2>1. /\ stage = "create" /\ stage' = stage /\ Len(paths) < Len(names)
        /\ names' = names /\ tables' = tables
    BY <1>5 DEF Copy!WriteNext
  <2>2. PICK grp \in GroupsOf(tables[t]) :
          /\ file' = [file EXCEPT !.groups = [u \in DOMAIN @ \union {t} |-> IF u = t THEN grp ELSE @[u]]]
          /\ paths' = Append(paths, PathsIn(grp, DOMAIN tables[t].cols))
    BY <1>5 DEF Copy!WriteNext
  <2>3. i \in DOMAIN names /\ t \in DOMAIN tables /\ tables[t] # Nothing
    BY <2>1 DEF NamesInv, PathsInv, Begun
  <2>4. PathsIn(grp, DOMAIN tables[t].cols) = DOMAIN tables[t].cols
    BY <2>2, <2>3 DEF PointsAreCells
  <2>5. /\ Len(paths') = i /\ DOMAIN paths' = 1 .. i
        /\ \A k \in DOMAIN paths' : paths'[k] = IF k = i THEN DOMAIN tables[t].cols ELSE paths[k]
    BY <2>2, <2>4 DEF PathsInv
  <2>6. \A u \in DOMAIN file.groups \union {t} :
          u \in DOMAIN file'.groups /\ file'.groups[u] = IF u = t THEN grp ELSE file.groups[u]
    BY <2>2 DEF FileInv
  <2>7. ASSUME NEW k \in DOMAIN paths'
        PROVE  /\ names[k] \in DOMAIN file'.groups
               /\ file'.groups[names[k]] \in GroupsOf(tables[names[k]])
               /\ paths'[k] = DOMAIN tables[names[k]].cols
    <3>1. CASE k = i
      BY <2>2, <2>5, <2>6, <3>1
    <3>2. CASE k # i
      <4>1. k \in DOMAIN paths /\ k \in DOMAIN names
        BY <2>1, <2>5, <3>2 DEF PathsInv, NamesInv
      <4>2. names[k] # t
        BY <2>3, <3>2, <4>1 DEF NamesInv
      <4>3. /\ names[k] \in DOMAIN file.groups
            /\ file.groups[names[k]] \in GroupsOf(tables[names[k]])
            /\ paths[k] = DOMAIN tables[names[k]].cols
        BY <2>1, <4>1 DEF PathsInv, Begun
      <4> QED BY <2>5, <2>6, <3>2, <4>2, <4>3
    <3> QED BY <3>1, <3>2
  <2>8. i <= Len(names) /\ i \in Nat
    BY <2>1 DEF PathsInv, NamesInv
  <2> QED BY <2>1, <2>5, <2>7, <2>8 DEF PathsInv, Begun
<1>6. CASE Copy!AttachColumns
  <2>1. /\ stage = "create" /\ stage' = "read" /\ Len(paths) = Len(names) /\ paths' = Copy!Travelled(paths)
        /\ names' = names /\ tables' = tables /\ file' = file
    BY <1>6 DEF Copy!AttachColumns
  <2>2. \A k \in DOMAIN paths : paths[k] # {}
    <3>1. ASSUME NEW k \in DOMAIN paths PROVE paths[k] # {}
      <4>1. k \in DOMAIN names /\ paths[k] = DOMAIN tables[names[k]].cols
        BY <2>1 DEF PathsInv, NamesInv, Begun
      <4>2. names[k] \in DOMAIN tables /\ tables[names[k]] # Nothing
        BY <2>1, <4>1 DEF NamesInv, Begun
      <4> QED BY <4>1, <4>2 DEF PointsAreCells
    <3> QED BY <3>1
  <2>3. paths' = paths
    BY <2>1, <2>2 DEF Copy!Travelled
  <2> QED BY <2>1, <2>3 DEF PathsInv, Begun
<1>7. CASE Copy!Finish
  BY <1>7 DEF Copy!Finish, PathsInv, Begun
<1>8. ASSUME NEW t \in DOMAIN Source, Copy!MakeTable(t) PROVE PathsInv'
  BY <1>8 DEF Copy!MakeTable, PathsInv, Begun
<1>9. ASSUME NEW t, NEW b, Copy!ReadBlock(t, b) PROVE PathsInv'
  BY <1>9 DEF Copy!ReadBlock, PathsInv, Begun
<1> QED BY <1>1, <1>2, <1>3, <1>4, <1>5, <1>6, <1>7, <1>8, <1>9, StepsAside

\* The rows of a block are those that a task reads.
LEMMA BlockRead ==
  ASSUME NEW t, NEW n, NEW b, NEW left, <<t, b>> \in left,
         \A p \in tables[t].cols[n].cs.pts : p[1] \in 0 .. Source[t].nrow - 1
  PROVE  Copy!WithValues(ReadSoFar(tables, left, t, n), Copy!PointsOf(t, n, b), t, n, Copy!FirstRow(b))
           = ReadSoFar(tables, left \ {<<t, b>>}, t, n)
<1> DEFINE pts == tables[t].cols[n].cs.pts
           old == {q \in pts : <<t, BlockOf(q[1])>> \notin left}
           new == {q \in pts : <<t, BlockOf(q[1])>> \notin left \ {<<t, b>>}}
           read == Copy!PointsOf(t, n, b)
           before == ReadSoFar(tables, left, t, n)
           after == ReadSoFar(tables, left \ {<<t, b>>}, t, n)
           value(p) == CellAt(Source[t], n, p, FirstRow(BlockOf(p[1])))
<1>1. read = {p \in pts : BlockOf(p[1]) = b}
  BY DEF Copy!PointsOf, Copy!BlockRows, BlockOf, Copy!BlockOf
<1>2. new = read \union old
  BY <1>1
<1>3. \A p \in read : CellAt(Source[t], n, p, Copy!FirstRow(b)) = value(p)
  BY <1>1 DEF FirstRow, Copy!FirstRow
<1>4. before = [p \in old |-> value(p)] /\ after = [p \in new |-> value(p)]
  BY DEF ReadSoFar
<1> HIDE DEF old, new, read, before, after, value
<1>5. Copy!WithValues(before, read, t, n, Copy!FirstRow(b))
        = [p \in read \union old |-> IF p \in read THEN CellAt(Source[t], n, p, Copy!FirstRow(b)) ELSE before[p]]
  BY <1>4 DEF Copy!WithValues
<1>6. Copy!WithValues(before, read, t, n, Copy!FirstRow(b)) = [p \in new |-> value(p)]
  BY <1>2, <1>3, <1>4, <1>5
<1> QED BY <1>4, <1>6 DEF before, after, read

\* Every task of a block adds the values of its points.
LEMMA DataStay ==
  NamesInv /\ FileInv /\ PathsInv /\ DataInv /\ PointsAreCells /\ [Copy!Next]_(Copy!vars) => DataInv'
<1> SUFFICES ASSUME NamesInv, FileInv, PathsInv, DataInv, PointsAreCells, [Copy!Next]_(Copy!vars) PROVE DataInv'
  OBVIOUS
<1>0. ASSUME stage' \notin {"read", "done"} PROVE DataInv'
  BY <1>0 DEF DataInv
<1>1. CASE Aside
  BY <1>1, AsideStays
<1>2. CASE Copy!Start
  BY <1>0, <1>2 DEF Copy!Start
<1>3. CASE Copy!Intrude
  <2>1. ~ Begun
    <3>1. Copy!NoFile.by = "nobody"
      BY DEF Copy!NoFile
    <3> QED BY <1>3, <3>1 DEF Copy!Intrude, FileInv
  <2> QED BY <1>0, <1>3, <2>1 DEF Copy!Intrude, Begun
<1>4. CASE Copy!CreateFile
  BY <1>0, <1>4 DEF Copy!CreateFile
<1>5. CASE Copy!WriteNext
  BY <1>0, <1>5 DEF Copy!WriteNext
<1>6. CASE Copy!AttachColumns
  <2>1. /\ stage = "create" /\ stage' = "read" /\ names' = names /\ tables' = tables
        /\ toRead' = UNION {{<<t, b>> : b \in Copy!RowBlocksOf(t)} : t \in Copy!Range(names)}
        /\ data' = [x \in UNION {{<<t, n>> : n \in DOMAIN tables[t].cols} : t \in Copy!Range(names)} |-> Copy!NoGroups]
    BY <1>6 DEF Copy!AttachColumns
  <2>2. ASSUME NEW i \in DOMAIN names, NEW n \in DOMAIN tables[names[i]].cols
        PROVE  /\ <<names[i], n>> \in DOMAIN data'
               /\ data'[<<names[i], n>>] = ReadSoFar(tables, toRead', names[i], n)
    <3>1. names[i] \in Copy!Range(names)
      BY DEF Copy!Range
    <3>2. <<names[i], n>> \in DOMAIN data' /\ data'[<<names[i], n>>] = Copy!NoGroups
      BY <2>1, <3>1
    <3>3. names[i] \in DOMAIN tables /\ tables[names[i]] # Nothing
      BY <2>1 DEF NamesInv, Begun
    <3>4. \A p \in tables[names[i]].cols[n].cs.pts : p[1] \in 0 .. Source[names[i]].nrow - 1
      BY <3>3 DEF PointsAreCells
    <3>5. \A p \in tables[names[i]].cols[n].cs.pts : <<names[i], BlockOf(p[1])>> \in toRead'
      BY <2>1, <3>1, <3>4 DEF Copy!RowBlocksOf, Copy!BlockOf, BlockOf
    <3>6. {q \in tables[names[i]].cols[n].cs.pts : <<names[i], BlockOf(q[1])>> \notin toRead'} = {}
      BY <3>5
    <3>7. ReadSoFar(tables, toRead', names[i], n) = Copy!NoGroups
      BY <3>6 DEF ReadSoFar, Copy!NoGroups
    <3> QED BY <3>2, <3>7
  <2> QED BY <2>1, <2>2 DEF DataInv
<1>7. CASE Copy!Finish
  BY <1>7 DEF Copy!Finish, DataInv
<1>8. ASSUME NEW t \in DOMAIN Source, Copy!MakeTable(t) PROVE DataInv'
  BY <1>0, <1>8 DEF Copy!MakeTable
<1>9. ASSUME NEW t \in DOMAIN Source, NEW b \in Copy!RowBlocksOf(t), Copy!ReadBlock(t, b) PROVE DataInv'
  <2> DEFINE k == CHOOSE j \in DOMAIN names : names[j] = t
             reached == {n \in DOMAIN tables[t].cols : k <= Len(paths) /\ n \in paths[k]}
  <2>1. /\ stage = "read" /\ stage' = stage /\ names' = names /\ tables' = tables
        /\ <<t, b>> \in toRead /\ toRead' = toRead \ {<<t, b>>}
    BY <1>9 DEF Copy!ReadBlock
  <2>2. data' = [x \in DOMAIN data |->
                   IF x[1] = t /\ x[2] \in reached
                   THEN Copy!WithValues(data[x], Copy!PointsOf(t, x[2], b), t, x[2], Copy!FirstRow(b))
                   ELSE data[x]]
    BY <1>9 DEF Copy!ReadBlock
  <2>3. ASSUME NEW i \in DOMAIN names, NEW n \in DOMAIN tables[names[i]].cols
        PROVE  /\ <<names[i], n>> \in DOMAIN data'
               /\ data'[<<names[i], n>>] = ReadSoFar(tables, toRead \ {<<t, b>>}, names[i], n)
    <3>1. /\ <<names[i], n>> \in DOMAIN data
          /\ data[<<names[i], n>>] = ReadSoFar(tables, toRead, names[i], n)
      BY <2>1 DEF DataInv
    <3>2. CASE names[i] = t
      <4>1. k = i
        BY <3>2 DEF NamesInv
      <4>2. n \in reached
        <5>1. i \in DOMAIN paths /\ i <= Len(paths)
          BY <2>1 DEF PathsInv, NamesInv
        <5>2. paths[i] = DOMAIN tables[t].cols
          BY <2>1, <3>2, <5>1 DEF PathsInv, Begun
        <5> QED BY <3>2, <4>1, <5>1, <5>2
      <4>3. data'[<<t, n>>] = Copy!WithValues(data[<<t, n>>], Copy!PointsOf(t, n, b), t, n, Copy!FirstRow(b))
        BY <2>2, <3>1, <3>2, <4>2
      <4>4. t \in DOMAIN tables /\ tables[t] # Nothing
        BY <2>1, <3>2 DEF NamesInv, Begun
      <4>5. \A p \in tables[t].cols[n].cs.pts : p[1] \in 0 .. Source[t].nrow - 1
        BY <3>2, <4>4 DEF PointsAreCells
      <4>6. Copy!WithValues(ReadSoFar(tables, toRead, t, n), Copy!PointsOf(t, n, b), t, n, Copy!FirstRow(b))
              = ReadSoFar(tables, toRead \ {<<t, b>>}, t, n)
        BY <2>1, <4>5, BlockRead
      <4> QED BY <2>2, <3>1, <3>2, <4>3, <4>6
    <3>3. CASE names[i] # t
      <4>1. data'[<<names[i], n>>] = data[<<names[i], n>>] /\ <<names[i], n>> \in DOMAIN data'
        BY <2>2, <3>1, <3>3
      <4>2. \A c : <<names[i], c>> \in toRead \ {<<t, b>>} <=> <<names[i], c>> \in toRead
        BY <3>3
      <4>3. ReadSoFar(tables, toRead \ {<<t, b>>}, names[i], n) = ReadSoFar(tables, toRead, names[i], n)
        BY <4>2 DEF ReadSoFar
      <4> QED BY <3>1, <4>1, <4>3
    <3> QED BY <3>2, <3>3
  <2> QED BY <2>1, <2>3 DEF DataInv
<1> QED BY <1>1, <1>2, <1>3, <1>4, <1>5, <1>6, <1>7, <1>8, <1>9, StepsAside

\* When nothing is left to be read, all the cells have been.
LEMMA AllRead == NamesInv /\ FileInv /\ PathsInv /\ DataInv /\ PointsAreCells => ValuesInPlace
<1> SUFFICES ASSUME NamesInv, FileInv, PathsInv, DataInv, PointsAreCells, stage = "done",
                    NEW t \in Range(names), NEW n \in DOMAIN tables[t].cols
             PROVE  LET d == data[<<t, n>>]  dims == file.groups[t].columns[n].col IN
                    /\ Range(d) = CellsIn(Source[t], n)
                    /\ \A p, q \in DOMAIN d : d[p] = d[q] => p = q
                    /\ \A p \in DOMAIN d : Len(p) = Len(dims) /\ \A k \in DOMAIN p : 0 <= p[k] /\ p[k] < dims[k]
  BY DEF ValuesInPlace
<1> DEFINE cell == [p \in tables[t].cols[n].cs.pts |-> CellAt(Source[t], n, p, FirstRow(BlockOf(p[1])))]
<1>1. PICK i \in DOMAIN names : names[i] = t
  BY DEF Range
<1>2. t \in DOMAIN tables /\ tables[t] # Nothing
  BY <1>1 DEF NamesInv, Begun
<1>3. data[<<t, n>>] = cell
  <2>1. data[<<t, n>>] = ReadSoFar(tables, toRead, t, n) /\ toRead = {}
    BY <1>1 DEF DataInv
  <2> QED BY <2>1 DEF ReadSoFar
<1>4. file.groups[t] \in GroupsOf(tables[t])
  <2>1. i \in DOMAIN paths
    BY <1>1 DEF PathsInv, NamesInv
  <2> QED BY <1>1, <2>1 DEF PathsInv, Begun
<1>5. Range(cell) = CellsIn(Source[t], n) /\ \A p, q \in DOMAIN cell : cell[p] = cell[q] => p = q
  BY <1>2 DEF PointsAreCells
<1>6. \A p \in DOMAIN cell : LET dims == file.groups[t].columns[n].col
                             IN  Len(p) = Len(dims) /\ \A k \in DOMAIN p : 0 <= p[k] /\ p[k] < dims[k]
  BY <1>2, <1>4 DEF PointsAreCells
<1> HIDE DEF cell
<1> QED BY <1>3, <1>5, <1>6

\* Where the points of each Table stand for its cells, the file ends with
\* every cell in its place, for any number of tables in any order, and their
\* blocks of rows read in any order.
THEOREM ValuesArrive == Copy!Spec /\ []PointsAreCells => []ValuesInPlace
<1> DEFINE Inv == NamesInv /\ FileInv /\ PathsInv /\ DataInv
<1>1. Copy!Init => Inv
  BY NothingConverted
<1>2. PointsAreCells /\ Inv /\ [Copy!Next]_(Copy!vars) => Inv'
  BY NamesStay, FileStays, PathsStay, DataStay
<1>3. PointsAreCells /\ Inv => ValuesInPlace
  BY AllRead
<1> HIDE DEF Inv
<1> QED BY <1>1, <1>2, <1>3, PTL DEF Copy!Spec
============================================================================

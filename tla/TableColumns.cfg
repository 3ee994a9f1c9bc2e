\* Three columns, two FieldIDs and three region identities: enough for a
\* ColumnSpace to be shared, emptied and replaced by another one.
SPECIFICATION Spec
CONSTANTS
  n1 = n1
  n2 = n2
  n3 = n3
  f1 = f1
  f2 = f2
  r1 = r1
  r2 = r2
  r3 = r3
  ti = ti
  sc = sc
  ar = ar
  sc2 = sc2
  un = un
  Name <- MCName
  Space <- MCSpace
  Region <- MCRegion
  Field <- MCField
  NoColumn = NoColumn
  NoSpace = NoSpace
  IndexAxes <- MCIndexAxes
  AxesOf <- MCAxesOf
  IndexSpaces <- MCIndexSpaces
  SameUid <- MCSameUid
  SameRows <- MCSameRows
  RowAxis = 0
  MaxNew = 2
SYMMETRY Symmetry
INVARIANTS
  ColumnsBacked
  StorageSeparate
  NothingOrphaned
\* A table that ran out of names, fields or regions may not be able to go on.
CHECK_DEADLOCK FALSE

\* Two file columns and two added ones, three FieldIDs, two ColumnSpaces:
\* file columns that share a region and ones that do not, attached alone or
\* together; added columns in their regions.
SPECIFICATION Spec
CONSTANTS
  a = a
  b = b
  x = x
  y = y
  f1 = f1
  f2 = f2
  f3 = f3
  r1 = r1
  r2 = r2
  sc = sc
  ar = ar
  plain = plain
  mapped = mapped
  Name <- MCName
  FileName <- MCFileName
  Space <- MCSpace
  Region <- MCRegion
  Field <- MCField
  Mode <- MCMode
  NoColumn = NoColumn
  NoSpace = NoSpace
  NoInstance = NoInstance
  IndexAxes <- MCIndexAxes
  AxesOf <- MCAxesOf
  IndexSpaces = {}
  SameUid <- MCSpace
  SameRows <- MCSpace
  MaxNew = 2
SYMMETRY Symmetry
INVARIANTS
  TableUnaffected
  PhysicalBacked
  AttachedIsHeld
  AttachmentsDisjoint
\* A session ends when its table is destroyed.
CHECK_DEADLOCK FALSE

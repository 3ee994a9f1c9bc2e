SPECIFICATION Spec
CONSTANTS
  Absent = Absent
  Undef = Undef
  Blank = Undef
  Unwritten = Unwritten
  Slots = {1, 2}
  RefLists <- MCRefLists
  Class = "epoch"
  Rows = {0, 1}
  Quantities = {20, 21}
  Descs <- MCDescs
  MaxOps = 4
  AcceptRefs <- MayCreate
  RegionsOf <- CreateRefs
  CopyOf <- CloneRefs
  RefsOf <- MakeRefs
  RowOfCode <- RowMap
  ClassOf <- MClassOf
  SameOutcomes <- EquivOutcomes
  OriginOf <- Origin
INVARIANTS
  RefsMadeBack
  MeasureReadBack
  EquivTellsApart
  KeywordsKept
CHECK_DEADLOCK FALSE

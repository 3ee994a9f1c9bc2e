SPECIFICATION Spec
CONSTANTS
  Undef = Undef
  Unwritten = Unwritten
  Nil = Nil
  Nothing = Nil
  Columns <- BuilderColumns
  NoTree <- Leaf
  Grown <- AddRow
  TablesOf <- TablesFrom
  GroupsOf <- PhysicalGroups
  PathsIn <- ColumnPaths
  CellsIn <- CellsOf
  CellAt <- ReadPoint
  MayOpen <- MayInitTable
  OpenedAs <- WithKeywords
  WrittenAs <- WriteTable
  NameOrder <- MCNameOrder
  LargeTree = 12
  RowAxis = 0
  FreeFid = 40
  Source <- MCSource
  Main = "MAIN"
  Selections <- MCSelections
  UpperCase <- MCUpperCase
  RowBlock = 2
  MaxExports = 2
  KwValues = {1}
INVARIANTS
  ValuesInPlace
  FileAsBuilt
  ExportReadBack
  TreesStandForCells
PROPERTY
  ForeignKept
CHECK_DEADLOCK FALSE

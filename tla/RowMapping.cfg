\* Three rows with two index columns, with and without a row axis, and two by
\* two rows with one index column and no row axis; cells of one or two elements.
SPECIFICATION Spec
CONSTANTS
  Shapes <- MCShapes
  Value <- MCValue
  Extents <- MCExtents
  NoRect = NoRect
  NoSpace = NoSpace
INVARIANTS
  RowMapExact
  ImageDisjointComplete
  ValuesMoved
PROPERTY RowsWrittenOnce
\* Every row is copied: the reindexing has ended.
CHECK_DEADLOCK FALSE

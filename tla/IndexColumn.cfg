\* Six rows in three blocks, folded in every order, for every column.
SPECIFICATION Spec
CONSTANTS
  NumRows = 6
  NumBlocks = 3
  Value <- MCValue
INVARIANTS
  IndexExact
  RowsConserved
PROPERTY FoldEnds
\* The index is complete and stays as it is.
CHECK_DEADLOCK FALSE

\* Three columns over one or two regions, each with or without keywords and
\* a measure reference, and every selection and choice of modes and partitions.
SPECIFICATION Spec
CONSTANTS
  A = A
  B = B
  ro = ro
  rw = rw
  NumColumns = 3
  Region <- MCRegion
  Index = Index
  Tables <- MCTables
  Request <- MCRequest
  Calls <- MCCalls
  Omitted = Omitted
  NoPart = NoPart
  TablePart = TablePart
  Default <- Read
INVARIANTS
  ColumnsGetTheirOwn
  AllTaken
  PartitionsHandedOver
PROPERTY Arrives
\* The table has arrived, or its request was refused.
CHECK_DEADLOCK FALSE

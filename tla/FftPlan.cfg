SPECIFICATION Spec
CONSTANTS
  Transform = {t1, t2}
  Shape = {"cf", "weight"}
  Requests <- MCRequests
INVARIANTS
  ExclusiveWhilePatient
  LimitHonoured
  ArrayAsAsked
  NothingLeft
PROPERTY
  AllFinish

\* the transforms really end: AllFinish says that nothing stops earlier
CHECK_DEADLOCK FALSE

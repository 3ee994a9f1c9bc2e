SPECIFICATION Spec
CONSTANTS
  Transform = {t1, t2}
  Shape = {"cf", "weight"}
  Requests <- MCRequests
INVARIANT
  MutualExclusion

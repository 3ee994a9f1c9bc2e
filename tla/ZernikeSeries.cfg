SPECIFICATION Spec
INVARIANT
    ExpandsZernikePolynomials

\* a series ends
CHECK_DEADLOCK FALSE

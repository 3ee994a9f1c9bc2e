\* A suite with two sub-tasks and a log of three entries.
SPECIFICATION Spec
CONSTANTS
    Length = 3
    Top = top
    Subs <- MCSubs
    Atoms = {"TRUE", "FALSE", "throws"}
    NoName = noName
    Careful = TRUE
    top = top
    s1 = s1
    s2 = s2
    noName = noName
INVARIANT AbortToldByEntries
PROPERTY KeepsPromise
PROPERTY Reported
CHECK_DEADLOCK FALSE

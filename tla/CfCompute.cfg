SPECIFICATION Spec
CONSTANTS
    Garbage = Garbage
    Tolerance = 100
    Window = 4
    Inputs <- MCInputs
    Strays <- MCStrays
INVARIANTS
    ProductOfTerms
    MuellerElements
    PartitionsTrue
    TermsShown

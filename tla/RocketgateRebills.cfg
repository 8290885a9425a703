SPECIFICATION Spec
CONSTANTS
    Sale = {s1, s2}
    Request = {r1, r2}
    None = None
    Known <- SomeKnown
    NsfFlow = TRUE
    Faults = {"lost", "save", "classify", "die"}
    Overlap = TRUE
SYMMETRY MCSymmetry
VIEW LiveState
INVARIANT TypeOK
INVARIANT ActsOnItsOwn
INVARIANT StoredIsTrue
INVARIANT ReportedIsStored
INVARIANT QuietRecordIsTruth
CHECK_DEADLOCK FALSE

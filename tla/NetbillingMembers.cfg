SPECIFICATION Spec
CONSTANTS
    Sale = {s1}
    Request = {r1, r2}
    None = None
    Plan = {"basic", "premium"}
    Joined = "basic"
    Known <- SomeKnown
    Faults = {"lost", "save", "classify", "die"}
    Overlap = TRUE
SYMMETRY RequestSymmetry
VIEW LiveState
INVARIANT TypeOK
INVARIANT ActsOnItsMember
INVARIANT StoredIsTrue
INVARIANT ChargeIsStored
INVARIANT ReportedIsStored
INVARIANT QuietPlanIsRecorded
CHECK_DEADLOCK FALSE

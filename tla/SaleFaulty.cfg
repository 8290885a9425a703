SPECIFICATION Spec
CONSTANTS
    Request = {r1, r2, r3}
    TxId = {t1}
    None = None
    BillerReplies <- AllReplies
    Faults = {"crash", "noAnswer", "firestore", "redis", "upgrade"}
    Overlap = FALSE
    NsfFlow = TRUE
SYMMETRY RequestSymmetry
VIEW LiveState
PROPERTY LifecycleSpec
PROPERTY VersionNeverRises
INVARIANT OneCapturePerRequest
CHECK_DEADLOCK FALSE

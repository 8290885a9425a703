SPECIFICATION Spec
CONSTANTS
    Request = {r1, r2, r3}
    TxId = {t1}
    None = None
    BillerReplies <- AllReplies
    Faults = {"crash", "noAnswer", "firestore", "upgrade", "approved2"}
    Overlap = TRUE
    NsfFlow = TRUE
SYMMETRY RequestSymmetry
VIEW LiveState
INVARIANT StatusIsRecorded
INVARIANT ApprovedIsPaid
INVARIANT Founded
INVARIANT UsedCvvIsGone
CHECK_DEADLOCK FALSE

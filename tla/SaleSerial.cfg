SPECIFICATION Spec
CONSTANTS
    Request = {r1, r2, r3, r4}
    TxId = {t1}
    None = None
    BillerReplies <- AllReplies
    Faults = {"redis"}
    Overlap = FALSE
    NsfFlow = TRUE
SYMMETRY RequestSymmetry
VIEW LiveState
INVARIANT TypeOK
INVARIANT PaidIsApproved
INVARIANT AtMostOneCapture
INVARIANT BiAgrees
CHECK_DEADLOCK FALSE

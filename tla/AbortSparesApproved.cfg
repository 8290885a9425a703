SPECIFICATION Spec
CONSTANTS
    Request = {r1, r2, r3}
    TxId = {t1}
    None = None
    BillerReplies <- FewReplies
    Faults = {}
    Overlap = TRUE
    NsfFlow = TRUE
SYMMETRY RequestSymmetry
VIEW LiveState
PROPERTY AbortSparesApproved
CHECK_DEADLOCK FALSE

SPECIFICATION FairSpec
CONSTANTS
    Request = {r1, r2}
    TxId = {t1}
    None = None
    BillerReplies <- AllReplies
    Faults = {"crash", "noAnswer", "firestore", "redis", "upgrade", "approved2"}
    Overlap = TRUE
    NsfFlow = TRUE
PROPERTY RequestEnds
CHECK_DEADLOCK FALSE

SPECIFICATION Spec
CONSTANTS
    Request = {r1, r2}
    TxId = {t1}
    None = None
    Billers = {"epoch"}
    Faults = {}
    Racing = {}
INVARIANT EpochPostbackIsProcessed
CHECK_DEADLOCK FALSE

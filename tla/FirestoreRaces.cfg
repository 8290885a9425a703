SPECIFICATION Spec
CONSTANTS
    sale = sale
    rebill = rebill
    Caller = {c1, c2}
    TxId = {sale, rebill}
    None = None
    Previous <- SaleOfRebill
    Attempts = 2
    Migrated = {"even"}
    Faults = {"lost", "late", "refused", "die"}
    Overlap = TRUE
SYMMETRY CallerSymmetry
VIEW LiveState
INVARIANT TypeOK
INVARIANT AckedSurvives
PROPERTY QuietFindIsExact
PROPERTY StoreSpec
CHECK_DEADLOCK FALSE

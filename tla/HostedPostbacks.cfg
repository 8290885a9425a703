SPECIFICATION Spec
CONSTANTS
    Request = {r1, r2, r3, r4}
    TxId = {t1, t2}
    None = None
    Billers = {"epoch", "qysso", "legacy", "crypto", "pumapay"}
    Faults = {"crash"}
    Racing = {"join", "sale", "rebill", "cancel"}
SYMMETRY HostedSymmetry
VIEW LiveState
INVARIANT AcceptedIsRecorded
INVARIANT RebillFollowsApproved
INVARIANT ReportedIsStored
PROPERTY OutcomeStands
CHECK_DEADLOCK FALSE

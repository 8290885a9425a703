SPECIFICATION Spec
CONSTANTS
    Request = {r1, r2, r3}
    TxId = {t1, t2}
    None = None
    Billers = {"pumapay"}
    Faults = {}
    Racing = {}
SYMMETRY HostedSymmetry
VIEW LiveState
INVARIANT RefusedCancelIsDeclined
CHECK_DEADLOCK FALSE

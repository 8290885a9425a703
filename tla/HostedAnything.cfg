SPECIFICATION Spec
CONSTANTS
    Request = {r1, r2, r3}
    TxId = {t1, t2}
    None = None
    Billers = {"epoch", "qysso", "crypto", "pumapay"}
    Faults = {"firestore", "noAnswer", "earlyReturn", "payAgain", "declinedCross"}
    Racing = {"sale", "qr", "join", "rebill", "cancel", "abort"}
SYMMETRY HostedSymmetry
VIEW WorkState
INVARIANT TypeOK
INVARIANT ApprovedIsTold
INVARIANT ToldInv
CHECK_DEADLOCK FALSE

SPECIFICATION Spec
CONSTANTS
    Absent = Absent
    Torn = Torn
    NoProc = NoProc
    NoGen = NoGen
    Login = {l1, l2}
    Confirmed = {l2}
    Logout = {o1}
    Client = {c1, c2}
    Topology = {t1, t2}
    MaxTokens = 2
    MaxEdits = 2
    MaxFaults = 2
SYMMETRY MCSymmetry
CHECK_DEADLOCK FALSE
INVARIANTS
    PresentedOnce
    TransactionInv
PROPERTIES
    NoUnconfirmedOverwrite
    ReadersSeePairs

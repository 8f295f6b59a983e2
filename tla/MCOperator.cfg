SPECIFICATION MCSpec
CONSTANTS
    Absent = Absent
    Torn = Torn
    NoProc = NoProc
    PlanDoc = PlanDoc
    Result <- MCResult
    Proc = {p1, p2, p3}
    MaxPowerLoss = 2
    Apply = {a1, a2}
    Reconcile = {r1}
    Kinds = {"issue.create", "issue.update", "comment.add", "comment.delete"}
    MaxFaults = 2
    MaxCancels = 1
    MaxChanges = 2
SYMMETRY MCOperatorSymmetry
CHECK_DEADLOCK FALSE
INVARIANTS
    LedgerInv
    GrantSurvives
    WriteInv
    TruthfulOutcome
PROPERTIES
    SettledForever
    FilesConsumeOnce
    DispatchAuthorized
    ImplementsConsumeOnce

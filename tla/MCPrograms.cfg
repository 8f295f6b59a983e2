SPECIFICATION MCSpec
CHECK_DEADLOCK FALSE
CONSTANTS
    None = None
    Absent = Absent
    Torn = Torn
    NoProc = NoProc
    PlanDoc = PlanDoc
    Result <- MCResult
    Apply = {a1, a2}
    Reconcile = {r1}
    Kinds = {"issue.create", "comment.delete"}
    MaxFaults = 0
    MaxCancels = 2
    MaxChanges = 0
    Logins = {only}
    Procs = {p, q}
PROPERTIES
    OutcomeRecorded
    LoginEnds
    CommandsEnd

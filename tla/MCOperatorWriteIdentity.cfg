SPECIFICATION Spec
CONSTANTS
    Absent = Absent
    Torn = Torn
    NoProc = NoProc
    PlanDoc = PlanDoc
    Result <- MCResult
    Apply = {a1}
    Reconcile = {r1}
    Kinds = {"issue.create"}
    MaxFaults = 0
    MaxCancels = 0
    MaxChanges = 0
PROPERTIES RemoteIdentityKept
CHECK_DEADLOCK FALSE

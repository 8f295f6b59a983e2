SPECIFICATION Spec
CONSTANTS
    Absent = Absent
    Torn = Torn
    NoProc = NoProc
    PlanDoc = PlanDoc
    Result <- MCResult
    Apply = {a1}
    Reconcile = {r1}
    Kinds = {"issue.update"}
    MaxFaults = 0
    MaxCancels = 0
    MaxChanges = 2
PROPERTIES ChangeInvalidates
CHECK_DEADLOCK FALSE

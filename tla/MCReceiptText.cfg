SPECIFICATION MCSpec
CHECK_DEADLOCK FALSE
CONSTANTS
    Parts = {"text"}
    MaxRecords = 3
    Window = 2
    MaxChanges = 2
    None = None
    Requests = {r1, r2}
    Plans = {p1, p2}
    Skew = 1
    Lifetime = 1
    MaximumReceiptTTL = 2
    Offsets <- MCOffsets
    MaxTime = 3
    MaxRevision = 2
    Base = 4
    Width = 3
    Order = 61
INVARIANTS
    OneVerdict

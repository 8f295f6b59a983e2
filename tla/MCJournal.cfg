SPECIFICATION MCSpec
CONSTANTS
    Absent = Absent
    Torn = Torn
    None = None
    Times <- MCTimes
    EarlyTimes <- MCEarlyTimes
    Callers = {p, q}
    Historical <- MCHistorical
    MaxTroubles = 2
INVARIANTS
    MigrationInv
    LifecycleSound
PROPERTIES
    SourceKept
    RefusalMeansUntouched
    MarkerKept

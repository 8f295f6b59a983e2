CONSTANTS
    Absent = Absent
    None = None
    Callers = {p, q}
    Files <- MCFiles
    Versions <- MCVersions
    Ships <- MCShips
    Rewrites <- MCRewrites
    MaxEdits = 2
SPECIFICATION Spec
INVARIANTS
    SkillInv
    NothingForgotten
PROPERTIES
    InstallDelivers
SYMMETRY Symmetry

SPECIFICATION MCSpec
CHECK_DEADLOCK FALSE
CONSTANTS
    Procs = {p, q}
    None = None
    Names <- MCNames
    Topologies <- MCTopologies
    Supports <- MCSupports
    Commands <- MCCommands
    Documents <- MCDocuments
    MaxEdits = 1
    MaxCommands = 4
    TimeOuts = TRUE
SYMMETRY Symmetry
INVARIANTS
    DefaultsInv
    FencedUse
PROPERTIES
    DefaultsKept

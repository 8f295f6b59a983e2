SPECIFICATION MCSpec
CHECK_DEADLOCK FALSE
CONSTANTS
    Logins = {first, second}
    None = None
    MaxRequests = 3
    ScopeNames = {1, 2, 3}
    MaxScopes = 2
    Configured <- MCConfigured
    Topologies = {1, 2}
SYMMETRY MCSymmetry
INVARIANTS
    LoginInv
    CredentialSound
    ItemSound
PROPERTIES
    CredentialSteps
    ItemSteps

CONSTANTS
    RequestTimeoutEnabled = TRUE
    MaxReconnectAttempts = 1
    PlayRequests = {"Action"}
    StateKnown = TRUE
    MaxHistory = 5
    MaxLosses = 1
    MaxStalls = 1
    MaxToggles = 0
SPECIFICATION Spec
CHECK_DEADLOCK FALSE
INVARIANTS
    MirrorConverges

CONSTANTS
    RequestTimeoutEnabled = TRUE
    MaxReconnectAttempts = 1
    PlayRequests = {"Action"}
    StateKnown = TRUE
    MaxHistory = 3
    MaxLosses = 1
    MaxStalls = 1
    MaxToggles = 1
SPECIFICATION Spec
CHECK_DEADLOCK FALSE
INVARIANTS
    SnapshotTells

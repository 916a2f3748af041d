CONSTANTS
    RequestTimeoutEnabled = TRUE
    MaxReconnectAttempts = 1
    PlayRequests = {"Action"}
    StateKnown = TRUE
    MaxHistory = 5
    MaxLosses = 1
    MaxStalls = 1
    MaxToggles = 1
SPECIFICATION FairSpec
CHECK_DEADLOCK FALSE
INVARIANTS
    TypeOK
    PacketsHaveOneTaker
    NeverStranded
    StatesAgree
    ManagedIsAnsweredFor
PROPERTIES
    CatchesUp
    DeadLinkIsLeft
    LossIsResolved

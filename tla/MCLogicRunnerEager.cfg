CONSTANTS
    Name <- ThreeNames
    PlayerNumPerRoom = 2
    RequestTimeoutEnabled = TRUE
    EagerWriteFailure = TRUE
    MaxZeroTimers = 1
    MaxPosted = 2
SPECIFICATION Spec
INVARIANTS
    OneAnswerPerRequest
    EveryWaitHasAnEnd

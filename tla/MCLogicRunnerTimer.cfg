CONSTANTS
    Name <- TwoNames
    PlayerNumPerRoom = 2
    RequestTimeoutEnabled = TRUE
    EagerWriteFailure = FALSE
    MaxZeroTimers = 1
    MaxPosted = 2
SPECIFICATION Spec
PROPERTY
    OnlyDebtorsTimeOut

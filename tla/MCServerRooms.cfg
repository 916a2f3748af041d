CONSTANTS
    Names = {n1, n2}
    Options <- TwoPlayers
    UseV1Presets = FALSE
    PerUserSettings <- UserSettings
    GlobalSettings <- SystemSettings
    MaxSockets = 4
    MaxAgents = 5
    MaxGreeted = 1
    MaxRepeats = 1
SPECIFICATION Spec
SYMMETRY NamesAlike
CHECK_DEADLOCK FALSE
INVARIANTS
    TypeOK
    RoomsBounded
    OneRecruiter
    OnlineIsConnected
    GamesHavePlayers
    StatusAddsUp
PROPERTIES
    SeatsAreKept

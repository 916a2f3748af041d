CONSTANTS
    MaxPlayers = 3
    Config <- TrioConfig
    Throws <- TwoThrows
    OrderReplies <- TrioOrderReplies
    ActionReplies <- TrioActionReplies
    UpgradeReplies <- SmallUpgradeReplies
    Grudges <- FadingGrudges
    PlayerCount = 3
SPECIFICATION Spec
INVARIANTS
    TypeOK
    WaitsForWhatItAsked
    PointsAreSpendable
PROPERTIES
    TurnsAsPromised
    WinnersChooseAnew
CONSTRAINT OneKnifeRound

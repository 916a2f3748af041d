CONSTANTS
    MaxPlayers = 2
    Config <- DuelConfig
    Throws <- AllThrows
    OrderReplies <- DuelOrderReplies
    ActionReplies <- AllActionReplies
    UpgradeReplies <- SmallUpgradeReplies
    Grudges <- FadingGrudges
    PlayerCount = 3
SPECIFICATION Spec
PROPERTY
    MirrorsFollow

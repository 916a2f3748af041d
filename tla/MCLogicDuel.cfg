CONSTANTS
    MaxPlayers = 2
    Config <- DuelConfig
    Throws <- TwoThrows
    OrderReplies <- DuelOrderReplies
    ActionReplies <- AllActionReplies
    UpgradeReplies <- SmallUpgradeReplies
    Grudges <- FadingGrudges
    PlayerCount = 3
SPECIFICATION Spec
INVARIANTS
    NoRoundAfterTheWin
    BotsPlayTheRules
    MenuIsTheRules
PROPERTIES
    EveryPointIsSpent
    PhasesAsPromised
    MirrorsFollowOnTheMap

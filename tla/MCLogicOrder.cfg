CONSTANTS
    MaxPlayers = 4
    Config <- DuelConfig
    Throws <- AllThrows
    OrderReplies <- ContestOrderReplies
    ActionReplies <- IdleReplies
    UpgradeReplies <- SmallUpgradeReplies
    Grudges <- FadingGrudges
    PlayerCount = 3
SPECIFICATION Spec
INVARIANTS
    SelectionsAddUp
    ContestsAreReal
    OrdersSettled
    OfferCoversSelections
PROPERTIES
    ContestsGrantOrders
CONSTRAINT FirstThrow

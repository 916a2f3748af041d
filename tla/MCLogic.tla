-------------------------------- MODULE MCLogic --------------------------------
(* Instances of Logic for TLC. *)
EXTENDS Human

\* Small stats, version 2 rules: zero HP is dead, slashing in a city costs half
\* of the slasher's max HP.
DuelConfig ==
    [initialKnifeDamage |-> 1, maximumKnifeDamage |-> 2,
     initialHorseDamage |-> 1, maximumHorseDamage |-> 1,
     initialMaxHp |-> 1, maximumMaxHp |-> 2,
     punishHpModifier |-> 2, punishHpRoundStrategy |-> "RoundToNearest45",
     zeroHpAsDead |-> TRUE, enableLetMove |-> TRUE,
     canBuyOnlyInInitialCity |-> FALSE]

AllThrows == RockPaperScissors
TwoThrows == {Rock, Scissors}

DuelOrderReplies == {<<>>, <<1>>}

Places == 0..MaxPlayers + 1

AllActionReplies ==
    [action: {"DoNothing", "BuyKnife", "BuyHorse"}, toPlayer: {Nobody}, toPlace: {0}]
    \cup [action: {"Slash", "Kick"}, toPlayer: Name \cup {Nobody}, toPlace: {0}]
    \cup [action: {"Move"}, toPlayer: {Nobody}, toPlace: Places]
    \cup [action: {"LetMove"}, toPlayer: Name, toPlace: Places]

SmallUpgradeReplies == [knife: 0..2, horse: 0..1, maxHp: 0..1]

IdleReplies == {[action |-> "DoNothing", toPlayer |-> Nobody, toPlace |-> 0]}

\* Three players with a knife to buy and a village to meet in.
TrioActionReplies ==
    [action: {"DoNothing", "BuyKnife"}, toPlayer: {Nobody}, toPlace: {0}]
    \cup [action: {"Slash"}, toPlayer: Name, toPlace: {0}]
    \cup [action: {"Move"}, toPlayer: {Nobody}, toPlace: {0}]

TrioConfig == [DuelConfig EXCEPT !.maximumKnifeDamage = 1]

TrioOrderReplies == {<<0>>, <<1>>}

\* One or two selections: yields, picks that clash and picks that do not, and a
\* list that repeats an order.
ContestOrderReplies ==
    {<<0>>, <<1>>, <<2>>, <<3>>,
     <<0, 1>>, <<1, 2>>, <<2, 3>>, <<4, 1>>, <<3, 3>>}

\* No hit, or one and a half: less and more than the threats of one weapon.
FadingGrudges == {0, 3}

\* The first throw of a round: the next one starts with nothing confirmed too.
FirstThrow ==
    logic.state = "RpsForAction" => DOMAIN logic.confirmedActionOrders = {}

\* The first round of a match, with one knife bought in it.
OneKnifeRound ==
    /\ Cardinality({p \in DOMAIN logic.room : logic.room[p].hasKnife}) <= 1
    /\ \A p \in DOMAIN logic.room :
          logic.room[p].maxHp = Config.initialMaxHp
=============================================================================

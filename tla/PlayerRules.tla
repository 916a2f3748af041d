------------------------------ MODULE PlayerRules ------------------------------
(***************************************************************************)
(* The rules of the match: what a player can do, what each action does to  *)
(* the players' stats, and who wins a Rock-Paper-Scissors.  No state: the  *)
(* operators map the players of a room to the players of the same room, as *)
(* the methods of Player, Room and Data do.                                *)
(*                                                                         *)
(* A player's name is its rank in the std::map order of Room::players, so  *)
(* "in name order" is the order of the numbers.  The room is a function    *)
(* from names to the fields of PlayerP.                                    *)
(***************************************************************************)
EXTENDS Integers, FiniteSets

CONSTANTS
    MaxPlayers,     \* how many names exist; a room holds some of them
    Config          \* the room's LogicConfiguration, as a record

Name == 1..MaxPlayers
Nobody == 0         \* the empty name: no target, or a name nobody has

Village == 0

RoundStrategies == {"RoundDown", "RoundToNearest45", "RoundUp", "PlusOne"}

\* What LogicConfiguration::deserialize lets through.
LogicConfiguration ==
    [initialKnifeDamage: Nat, maximumKnifeDamage: Nat,
     initialHorseDamage: Nat, maximumHorseDamage: Nat,
     initialMaxHp: Nat, maximumMaxHp: Nat,
     punishHpModifier: Nat, punishHpRoundStrategy: RoundStrategies,
     zeroHpAsDead: BOOLEAN, enableLetMove: BOOLEAN,
     canBuyOnlyInInitialCity: BOOLEAN]

ConfigAccepted ==
    /\ Config \in LogicConfiguration
    /\ Config.initialKnifeDamage <= Config.maximumKnifeDamage
    /\ Config.initialHorseDamage <= Config.maximumHorseDamage
    /\ Config.initialMaxHp <= Config.maximumMaxHp

ASSUME RulesAssumption == MaxPlayers \in Nat /\ ConfigAccepted

\* The fields of PlayerP.  The numbers are C++ ints: what keeps them in range
\* is a property of the match, not of the type.
PlayerFields ==
    [hasKnife: BOOLEAN, hasHorse: BOOLEAN, hp: Int, place: Int,
     initialPlace: Int, knifeDamage: Int, horseDamage: Int, maxHp: Int,
     upgradePoint: Int]

-----------------------------------------------------------------------------
\* Rock-Paper-Scissors, with the values of the wire.

Rock == 0
Scissors == 1
Paper == 2
RockPaperScissors == {Rock, Scissors, Paper}

RpsGreater(a, b) ==
    <<a, b>> \in {<<Rock, Scissors>>, <<Scissors, Paper>>, <<Paper, Rock>>}

\* The outcome of the throws of `who`: the winners, and how often the code's
\* list repeats each of them (once per loser).  Nobody wins unless exactly two
\* kinds were thrown.
RockPaperScissorsWinners(who, throw) ==
    LET kinds == {throw[p] : p \in who}
        win == {p \in who : \E k \in kinds : RpsGreater(throw[p], k)}
    IN  IF Cardinality(kinds) = 2
        THEN [winners |-> win, times |-> Cardinality(who \ win)]
        ELSE [winners |-> {}, times |-> 0]

-----------------------------------------------------------------------------
\* One player.

IsPlaceAdjacent(a, b) == (a = Village) # (b = Village)

DeadAtHp(hp) == IF Config.zeroHpAsDead THEN hp <= 0 ELSE hp < 0

Dead(p) == DeadAtHp(p.hp)
Alive(p) == ~Dead(p)

InShop(p) ==
    IF Config.canBuyOnlyInInitialCity THEN p.place = p.initialPlace
                                      ELSE p.place # Village

CanBuyKnife(p) == Alive(p) /\ ~p.hasKnife /\ InShop(p)
CanBuyHorse(p) == Alive(p) /\ ~p.hasHorse /\ InShop(p)

CanMove(p, toPlace) == Alive(p) /\ IsPlaceAdjacent(p.place, toPlace)

SlashPunishHp(p) ==
    LET m == Config.punishHpModifier
        strategy == Config.punishHpRoundStrategy
    IN  IF p.place = Village \/ m = 0 THEN 0
        ELSE CASE strategy = "RoundDown" -> p.maxHp \div m
               [] strategy = "RoundToNearest45" ->
                     (((p.maxHp * 2) \div m) + 1) \div 2
               [] strategy = "RoundUp" -> (p.maxHp + m - 1) \div m
               [] strategy = "PlusOne" -> (p.maxHp \div m) + 1

UpgradeKnifeRemainingTimes(p) == Config.maximumKnifeDamage - p.knifeDamage
UpgradeHorseRemainingTimes(p) == Config.maximumHorseDamage - p.horseDamage
UpgradeMaxHpRemainingTimes(p) == Config.maximumMaxHp - p.maxHp

RemainingTimes(p) ==
    UpgradeKnifeRemainingTimes(p) + UpgradeHorseRemainingTimes(p)
        + UpgradeMaxHpRemainingTimes(p)

FullyUpgraded(p) ==
    /\ UpgradeKnifeRemainingTimes(p) <= 0
    /\ UpgradeHorseRemainingTimes(p) <= 0
    /\ UpgradeMaxHpRemainingTimes(p) <= 0

\* Every stat between where it starts and its maximum.
StatsInBounds(p) ==
    /\ p.knifeDamage \in Config.initialKnifeDamage..Config.maximumKnifeDamage
    /\ p.horseDamage \in Config.initialHorseDamage..Config.maximumHorseDamage
    /\ p.maxHp \in Config.initialMaxHp..Config.maximumMaxHp

NewPlayer ==
    [hasKnife |-> FALSE, hasHorse |-> FALSE, hp |-> Config.initialMaxHp,
     place |-> Village, initialPlace |-> Village,
     knifeDamage |-> Config.initialKnifeDamage,
     horseDamage |-> Config.initialHorseDamage,
     maxHp |-> Config.initialMaxHp, upgradePoint |-> 0]

PreparedForRoundStart(p, seat) ==
    [p EXCEPT !.hasKnife = FALSE, !.hasHorse = FALSE, !.hp = p.maxHp,
              !.initialPlace = seat, !.place = seat, !.upgradePoint = 0]

UpgradesReset(p) ==
    [p EXCEPT !.maxHp = Config.initialMaxHp,
              !.knifeDamage = Config.initialKnifeDamage,
              !.horseDamage = Config.initialHorseDamage,
              !.upgradePoint = 0]

-----------------------------------------------------------------------------
\* Actions between players of a room `r`, by name.

CanSlash(r, from, to) ==
    /\ Alive(r[from]) /\ Alive(r[to])
    /\ r[from].hasKnife
    /\ from # to
    /\ r[from].place = r[to].place

CanKick(r, from, to) ==
    /\ Alive(r[from]) /\ Alive(r[to])
    /\ r[from].hasHorse
    /\ from # to
    /\ r[from].place = r[to].place /\ r[from].place # Village

CanLetMove(r, from, to, toPlace) ==
    LET pull == /\ IsPlaceAdjacent(r[from].place, r[to].place)
                /\ toPlace = r[from].place
        push == r[from].place = r[to].place
    IN  IF from = to
        THEN CanMove(r[from], toPlace)
        ELSE /\ Config.enableLetMove
             /\ Alive(r[from]) /\ Alive(r[to])
             /\ IsPlaceAdjacent(r[to].place, toPlace)
             /\ pull \/ push

\* Mutant: the earned point is not capped.
ApplyDamageUncapped(r, from, to, damagePoint) ==
    LET hit == [r EXCEPT ![to].hp = @ - damagePoint]
    IN  IF Alive(r[to]) /\ Dead(hit[to])
        THEN [hit EXCEPT ![from].upgradePoint = @ + 1] ELSE hit

\* A kill earns the killer a point, capped to what the killer can still spend.
ApplyDamage(r, from, to, damagePoint) ==
    LET hit == [r EXCEPT ![to].hp = @ - damagePoint]
        kills == Alive(r[to]) /\ Dead(hit[to])
        earned == IF hit[from].upgradePoint + 1 < RemainingTimes(hit[from])
                  THEN hit[from].upgradePoint + 1
                  ELSE RemainingTimes(hit[from])
    IN  IF kills THEN [hit EXCEPT ![from].upgradePoint = earned] ELSE hit

\* The slasher pays for a slash in a city: the victim is credited if it dies.
Slash(r, from, to) ==
    LET struck == ApplyDamage(r, from, to, r[from].knifeDamage)
        punishedHp == SlashPunishHp(struck[from])
    IN  IF punishedHp > 0 THEN ApplyDamage(struck, to, from, punishedHp)
                          ELSE struck

Kick(r, from, to) ==
    LET kicked == ApplyDamage(r, from, to, r[from].horseDamage)
    IN  IF Dead(kicked[to]) THEN kicked
                            ELSE [kicked EXCEPT ![to].place = Village]

\* A reply to an action request: what to do, to whom, and to which place.
ActionFeasible(r, from, a) ==
    \/ a.action = "DoNothing" /\ Alive(r[from])
    \/ a.action = "BuyKnife" /\ CanBuyKnife(r[from])
    \/ a.action = "BuyHorse" /\ CanBuyHorse(r[from])
    \/ a.action = "Move" /\ CanMove(r[from], a.toPlace)
    \/ /\ a.toPlayer \in DOMAIN r
       /\ \/ a.action = "Slash" /\ CanSlash(r, from, a.toPlayer)
          \/ a.action = "Kick" /\ CanKick(r, from, a.toPlayer)
          \/ a.action = "LetMove" /\ CanLetMove(r, from, a.toPlayer, a.toPlace)

\* The effect of a feasible action; DoNothing has none.
ApplyAction(r, from, a) ==
    CASE a.action = "BuyKnife" -> [r EXCEPT ![from].hasKnife = TRUE]
      [] a.action = "BuyHorse" -> [r EXCEPT ![from].hasHorse = TRUE]
      [] a.action = "Slash" -> Slash(r, from, a.toPlayer)
      [] a.action = "Kick" -> Kick(r, from, a.toPlayer)
      [] a.action = "Move" -> [r EXCEPT ![from].place = a.toPlace]
      [] a.action = "LetMove" -> [r EXCEPT ![a.toPlayer].place = a.toPlace]
      [] OTHER -> r

-----------------------------------------------------------------------------
\* Upgrades: a list of items is its number of items of each kind.

UpgradeItems == [knife: Int, horse: Int, maxHp: Int]

ItemCount(items) == items.knife + items.horse + items.maxHp

UpgradeFeasible(p, items) ==
    /\ items.knife <= UpgradeKnifeRemainingTimes(p)
    /\ items.horse <= UpgradeHorseRemainingTimes(p)
    /\ items.maxHp <= UpgradeMaxHpRemainingTimes(p)
    /\ ItemCount(items) = p.upgradePoint

Least(a, b) == IF a < b THEN a ELSE b

\* Mutant: the default buys knife damage only.
DefaultUpgradeKnifeOnly(p) ==
    [knife |-> Least(p.upgradePoint, UpgradeKnifeRemainingTimes(p)),
     horse |-> 0, maxHp |-> 0]

\* What an infeasible reply is replaced with: knife first, then horse, then HP.
DefaultUpgrade(p) ==
    LET knife == Least(p.upgradePoint, UpgradeKnifeRemainingTimes(p))
        horse == Least(p.upgradePoint - knife, UpgradeHorseRemainingTimes(p))
        maxHp == Least(p.upgradePoint - knife - horse,
                       UpgradeMaxHpRemainingTimes(p))
    IN  [knife |-> knife, horse |-> horse, maxHp |-> maxHp]

\* Each single upgrade is refused once its stat is at its maximum.
Upgraded(p, items) ==
    [p EXCEPT
        !.knifeDamage = @ + Least(items.knife, UpgradeKnifeRemainingTimes(p)),
        !.horseDamage = @ + Least(items.horse, UpgradeHorseRemainingTimes(p)),
        !.maxHp = @ + Least(items.maxHp, UpgradeMaxHpRemainingTimes(p))]

-----------------------------------------------------------------------------
\* The room.

AlivePlayers(r) == {p \in DOMAIN r : Alive(r[p])}
IsRoundOver(r) == Cardinality(AlivePlayers(r)) <= 1

\* Mutant: the match goes on until everybody is fully upgraded.
GameWinnersAll(r) ==
    {p \in DOMAIN r : \A q \in DOMAIN r : FullyUpgraded(r[q])}

GameWinners(r) == {p \in DOMAIN r : FullyUpgraded(r[p])}

\* Seats are dealt from 1 up, in name order.
PrepareForRoundStart(r) ==
    [p \in DOMAIN r |->
        PreparedForRoundStart(r[p], Cardinality({q \in DOMAIN r : q <= p}))]

ResetUpgrades(r) == [p \in DOMAIN r |-> UpgradesReset(r[p])]
=============================================================================

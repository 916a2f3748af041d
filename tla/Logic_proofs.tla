------------------------------ MODULE Logic_proofs ------------------------------
(***************************************************************************)
(* Theorems about Logic, for every number of players, configuration and    *)
(* set of replies.  A slot records a reply and then runs on through the    *)
(* private functions, so there is a lemma for each of those, from the last *)
(* one called to the first, saying that it keeps the types (RunsOn); then  *)
(* a lemma for each slot, and for the whole call the inductive invariant   *)
(* Sound: types, spendable points and, in the Upgrade state, feasible      *)
(* upgrades in hand.                                                       *)
(***************************************************************************)
EXTENDS Logic, Counting

-----------------------------------------------------------------------------
(* The rules: what the actions and the upgrades keep of a room. *)

IsRoom(r) == DOMAIN r \subseteq Name /\ r \in [DOMAIN r -> PlayerFields]

\* The fields of an accepted configuration are numbers and Booleans.
LEMMA ConfigType ==
    /\ Config.initialKnifeDamage \in Nat /\ Config.maximumKnifeDamage \in Nat
    /\ Config.initialHorseDamage \in Nat /\ Config.maximumHorseDamage \in Nat
    /\ Config.initialMaxHp \in Nat /\ Config.maximumMaxHp \in Nat
    /\ Config.punishHpModifier \in Nat
    /\ Config.punishHpRoundStrategy \in RoundStrategies
    /\ Config.initialKnifeDamage <= Config.maximumKnifeDamage
    /\ Config.initialHorseDamage <= Config.maximumHorseDamage
    /\ Config.initialMaxHp <= Config.maximumMaxHp
  BY RulesAssumption DEF ConfigAccepted, LogicConfiguration

\* The fields of a player are numbers and Booleans.
LEMMA PlayerType ==
    ASSUME NEW p \in PlayerFields
    PROVE  /\ p.hp \in Int /\ p.knifeDamage \in Int /\ p.horseDamage \in Int
           /\ p.maxHp \in Int /\ p.upgradePoint \in Int
           /\ RemainingTimes(p) \in Int
           /\ SlashPunishHp(p) \in Int
<1>1. /\ p.hp \in Int /\ p.knifeDamage \in Int /\ p.horseDamage \in Int
      /\ p.maxHp \in Int /\ p.upgradePoint \in Int
  BY DEF PlayerFields
<1>2. RemainingTimes(p) \in Int
  BY <1>1, ConfigType DEF RemainingTimes, UpgradeKnifeRemainingTimes,
         UpgradeHorseRemainingTimes, UpgradeMaxHpRemainingTimes
<1>3. SlashPunishHp(p) \in Int
  <2> DEFINE m == Config.punishHpModifier
             hp == p.maxHp
  <2>1. CASE m = 0
    BY <2>1 DEF SlashPunishHp
  <2>2. CASE m # 0
    <3>1. m \in Nat /\ m > 0 /\ hp \in Int
      BY <1>1, <2>2, ConfigType
    <3> HIDE DEF m, hp
    <3>2. hp \div m \in Int /\ (hp * 2) \div m \in Int /\ (hp + m - 1) \div m \in Int
      BY <3>1
    <3>3. (((hp * 2) \div m) + 1) \div 2 \in Int /\ (hp \div m) + 1 \in Int
      BY <3>2
    <3>4. QED BY <3>2, <3>3, ConfigType DEF SlashPunishHp, RoundStrategies, m, hp
  <2>3. QED BY <2>1, <2>2
<1>4. QED BY <1>1, <1>2, <1>3

\* What damage leaves of a player: the stats and the initial place as they were,
\* and points that stay within what the player can spend if they were.
Kept(p, q) ==
    /\ q \in PlayerFields
    /\ q.knifeDamage = p.knifeDamage /\ q.horseDamage = p.horseDamage
    /\ q.maxHp = p.maxHp /\ q.initialPlace = p.initialPlace
    /\ p.upgradePoint \in 0..RemainingTimes(p) =>
          q.upgradePoint \in 0..RemainingTimes(q)

RoomKept(r, s) ==
    /\ IsRoom(s) /\ DOMAIN s = DOMAIN r
    /\ \A p \in DOMAIN r : Kept(r[p], s[p])

\* Two steps that keep stats and points, one after the other, keep them.
LEMMA KeptTransitive ==
    ASSUME NEW r, NEW s, NEW t, RoomKept(r, s), RoomKept(s, t)
    PROVE  RoomKept(r, t)
<1>1. ASSUME NEW p \in DOMAIN r PROVE Kept(r[p], t[p])
  <2>1. Kept(r[p], s[p]) /\ Kept(s[p], t[p])
    BY DEF RoomKept
  <2>2. QED BY <2>1 DEF Kept
<1>2. QED BY <1>1 DEF RoomKept

\* A room keeps what it has.
LEMMA RoomKeptSelf ==
    ASSUME NEW r, IsRoom(r)
    PROVE  RoomKept(r, r)
  BY DEF RoomKept, Kept, IsRoom

\* Changing one player within its bounds keeps the room.
LEMMA OnePlayerKept ==
    ASSUME NEW r, IsRoom(r), NEW to \in DOMAIN r, NEW q, Kept(r[to], q)
    PROVE  RoomKept(r, [r EXCEPT ![to] = q])
  BY DEF RoomKept, Kept, IsRoom

\* What leaves the stats and the points alone keeps them.
LEMMA StatsUntouched ==
    ASSUME NEW p \in PlayerFields, NEW q \in PlayerFields,
           q.knifeDamage = p.knifeDamage, q.horseDamage = p.horseDamage,
           q.maxHp = p.maxHp, q.upgradePoint = p.upgradePoint,
           q.initialPlace = p.initialPlace
    PROVE  Kept(p, q)
  BY DEF Kept, RemainingTimes, UpgradeKnifeRemainingTimes,
         UpgradeHorseRemainingTimes, UpgradeMaxHpRemainingTimes

\* A new hp changes no stat and no point.
LEMMA HpKept ==
    ASSUME NEW r, IsRoom(r), NEW to \in DOMAIN r, NEW hp \in Int
    PROVE  RoomKept(r, [r EXCEPT ![to].hp = hp])
<1>1. r[to] \in PlayerFields
  BY DEF IsRoom
<1>2. Kept(r[to], [r[to] EXCEPT !.hp = hp])
  BY <1>1, StatsUntouched DEF PlayerFields
<1>3. QED BY <1>2, OnePlayerKept

\* A new place changes no stat and no point.
LEMMA PlaceKept ==
    ASSUME NEW r, IsRoom(r), NEW to \in DOMAIN r, NEW place \in Int
    PROVE  RoomKept(r, [r EXCEPT ![to].place = place])
<1>1. r[to] \in PlayerFields
  BY DEF IsRoom
<1>2. Kept(r[to], [r[to] EXCEPT !.place = place])
  BY <1>1, StatsUntouched DEF PlayerFields
<1>3. QED BY <1>2, OnePlayerKept

\* Buying the knife or the horse changes no stat and no point.
LEMMA BoughtKept ==
    ASSUME NEW r, IsRoom(r), NEW to \in DOMAIN r
    PROVE  /\ RoomKept(r, [r EXCEPT ![to].hasKnife = TRUE])
           /\ RoomKept(r, [r EXCEPT ![to].hasHorse = TRUE])
<1>1. r[to] \in PlayerFields
  BY DEF IsRoom
<1>2. Kept(r[to], [r[to] EXCEPT !.hasKnife = TRUE])
  <2> DEFINE q == [r[to] EXCEPT !.hasKnife = TRUE]
  <2>1. q \in PlayerFields
    BY <1>1, Zenon DEF PlayerFields
  <2>2. /\ q.knifeDamage = r[to].knifeDamage
        /\ q.horseDamage = r[to].horseDamage
        /\ q.maxHp = r[to].maxHp /\ q.upgradePoint = r[to].upgradePoint
        /\ q.initialPlace = r[to].initialPlace
    BY <1>1 DEF PlayerFields
  <2> HIDE DEF q
  <2>3. Kept(r[to], q)
    BY <1>1, <2>1, <2>2, StatsUntouched
  <2>4. QED BY <2>3 DEF q
<1>3. Kept(r[to], [r[to] EXCEPT !.hasHorse = TRUE])
  <2> DEFINE q == [r[to] EXCEPT !.hasHorse = TRUE]
  <2>1. q \in PlayerFields
    BY <1>1, Zenon DEF PlayerFields
  <2>2. /\ q.knifeDamage = r[to].knifeDamage
        /\ q.horseDamage = r[to].horseDamage
        /\ q.maxHp = r[to].maxHp /\ q.upgradePoint = r[to].upgradePoint
        /\ q.initialPlace = r[to].initialPlace
    BY <1>1 DEF PlayerFields
  <2> HIDE DEF q
  <2>3. Kept(r[to], q)
    BY <1>1, <2>1, <2>2, StatsUntouched
  <2>4. QED BY <2>3 DEF q
<1>4. QED BY <1>2, <1>3, OnePlayerKept

\* New points within the upgrades left keep the room.
LEMMA PointsKept ==
    ASSUME NEW r, IsRoom(r), NEW from \in DOMAIN r, NEW points \in Int,
           r[from].upgradePoint \in 0..RemainingTimes(r[from]) =>
               points \in 0..RemainingTimes(r[from])
    PROVE  RoomKept(r, [r EXCEPT ![from].upgradePoint = points])
<1> DEFINE p == r[from]
           q == [p EXCEPT !.upgradePoint = points]
<1>1. p \in PlayerFields
  BY DEF IsRoom
<1>2. /\ q \in PlayerFields
      /\ q.knifeDamage = p.knifeDamage /\ q.horseDamage = p.horseDamage
      /\ q.maxHp = p.maxHp /\ q.upgradePoint = points
      /\ q.initialPlace = p.initialPlace
  BY <1>1 DEF PlayerFields
<1>3. [r EXCEPT ![from].upgradePoint = points] = [r EXCEPT ![from] = q]
  OBVIOUS
<1> HIDE DEF q
<1>4. Kept(p, q)
  BY <1>2 DEF Kept, RemainingTimes, UpgradeKnifeRemainingTimes,
              UpgradeHorseRemainingTimes, UpgradeMaxHpRemainingTimes
<1>5. QED BY <1>3, <1>4, OnePlayerKept

\* Damage changes no stat, and the point for a kill is capped.
LEMMA ApplyDamageKeeps ==
    ASSUME NEW r, IsRoom(r), NEW from \in DOMAIN r, NEW to \in DOMAIN r,
           NEW damage \in Int
    PROVE  RoomKept(r, ApplyDamage(r, from, to, damage))
<1> DEFINE hit == [r EXCEPT ![to].hp = @ - damage]
           remaining == RemainingTimes(hit[from])
           earned == IF hit[from].upgradePoint + 1 < remaining
                     THEN hit[from].upgradePoint + 1 ELSE remaining
           credited == [hit EXCEPT ![from].upgradePoint = earned]
<1>1. r[to] \in PlayerFields
  BY DEF IsRoom
<1>2. RoomKept(r, hit)
  BY <1>1, HpKept, PlayerType
<1>3. ApplyDamage(r, from, to, damage) \in {hit, credited}
  BY DEF ApplyDamage
<1> HIDE DEF hit
<1>4. IsRoom(hit) /\ from \in DOMAIN hit /\ hit[from] \in PlayerFields
  BY <1>2 DEF RoomKept, IsRoom
<1>5. hit[from].upgradePoint \in Int /\ remaining \in Int
  BY <1>4, PlayerType
<1>6. RoomKept(hit, credited)
  BY <1>4, <1>5, PointsKept
<1>7. QED BY <1>2, <1>3, <1>6, KeptTransitive

\* A slash, its punishment included, keeps stats and points.
LEMMA SlashKeeps ==
    ASSUME NEW r, IsRoom(r), NEW from \in DOMAIN r, NEW to \in DOMAIN r
    PROVE  RoomKept(r, Slash(r, from, to))
<1> DEFINE struck == ApplyDamage(r, from, to, r[from].knifeDamage)
           punished == ApplyDamage(struck, to, from, SlashPunishHp(struck[from]))
<1>1. RoomKept(r, struck)
  BY ApplyDamageKeeps, PlayerType DEF IsRoom
<1>2. Slash(r, from, to) \in {struck, punished}
  BY DEF Slash
<1> HIDE DEF struck
<1>3. IsRoom(struck) /\ from \in DOMAIN struck /\ to \in DOMAIN struck
  BY <1>1 DEF RoomKept
<1>4. SlashPunishHp(struck[from]) \in Int
  BY <1>3, PlayerType DEF IsRoom
<1>5. RoomKept(struck, punished)
  BY <1>3, <1>4, ApplyDamageKeeps
<1>6. QED BY <1>1, <1>2, <1>5, KeptTransitive

\* A kick keeps stats and points.
LEMMA KickKeeps ==
    ASSUME NEW r, IsRoom(r), NEW from \in DOMAIN r, NEW to \in DOMAIN r
    PROVE  RoomKept(r, Kick(r, from, to))
<1> DEFINE kicked == ApplyDamage(r, from, to, r[from].horseDamage)
           home == [kicked EXCEPT ![to].place = Village]
<1>1. RoomKept(r, kicked)
  BY ApplyDamageKeeps, PlayerType DEF IsRoom
<1>2. Kick(r, from, to) \in {kicked, home}
  BY DEF Kick
<1> HIDE DEF kicked
<1>3. RoomKept(kicked, home)
  <2>1. IsRoom(kicked) /\ to \in DOMAIN kicked /\ Village \in Int
    BY <1>1 DEF RoomKept, Village
  <2>2. QED BY <2>1, PlaceKept
<1>4. QED BY <1>1, <1>2, <1>3, KeptTransitive

\* An action changes no stat, and earns no points that could not be spent.
THEOREM ActionsKeepStats ==
    ASSUME NEW r, IsRoom(r), NEW from \in DOMAIN r, NEW a,
           a.toPlace \in Int, ActionFeasible(r, from, a)
    PROVE  RoomKept(r, ApplyAction(r, from, a))
<1>1. CASE a.action = "BuyKnife"
  BY <1>1, BoughtKept DEF ApplyAction
<1>2. CASE a.action = "BuyHorse"
  BY <1>2, BoughtKept DEF ApplyAction
<1>3. CASE a.action = "Slash"
  BY <1>3, SlashKeeps DEF ApplyAction, ActionFeasible
<1>4. CASE a.action = "Kick"
  BY <1>4, KickKeeps DEF ApplyAction, ActionFeasible
<1>5. CASE a.action = "Move"
  BY <1>5, PlaceKept DEF ApplyAction
<1>6. CASE a.action = "LetMove"
  BY <1>6, PlaceKept DEF ApplyAction, ActionFeasible
<1>7. CASE a.action \notin
        {"BuyKnife", "BuyHorse", "Slash", "Kick", "Move", "LetMove"}
  BY <1>7, RoomKeptSelf DEF ApplyAction
<1>8. QED BY <1>1, <1>2, <1>3, <1>4, <1>5, <1>6, <1>7

\* Setting a field to a value of its type.
LEMMA FlagSetters ==
    ASSUME NEW p \in PlayerFields, NEW v \in BOOLEAN
    PROVE  /\ [p EXCEPT !.hasKnife = v] \in PlayerFields
           /\ [p EXCEPT !.hasHorse = v] \in PlayerFields
  BY Zenon DEF PlayerFields

Spendable(p) == p.upgradePoint \in 0..RemainingTimes(p)

\* A new player has stats within bounds.
LEMMA NewPlayerInBounds == NewPlayer \in PlayerFields /\ StatsInBounds(NewPlayer)
  BY ConfigType DEF NewPlayer, PlayerFields, StatsInBounds, Village

\* Resetting the upgrades of anybody puts the stats where they start.
LEMMA ResetInBounds ==
    ASSUME NEW p \in PlayerFields
    PROVE  UpgradesReset(p) \in PlayerFields /\ StatsInBounds(UpgradesReset(p))
<1> DEFINE q == UpgradesReset(p)
<1>1. q \in PlayerFields
  <2> DEFINE p1 == [p EXCEPT !.maxHp = Config.initialMaxHp]
             p2 == [p1 EXCEPT !.knifeDamage = Config.initialKnifeDamage]
             p3 == [p2 EXCEPT !.horseDamage = Config.initialHorseDamage]
  <2>1. p1 \in PlayerFields
    BY ConfigType DEF PlayerFields
  <2> HIDE DEF p1
  <2>2. p2 \in PlayerFields
    BY <2>1, ConfigType DEF PlayerFields
  <2> HIDE DEF p2
  <2>3. p3 \in PlayerFields
    BY <2>2, ConfigType DEF PlayerFields
  <2> HIDE DEF p3
  <2>4. [p3 EXCEPT !.upgradePoint = 0] \in PlayerFields
    BY <2>3 DEF PlayerFields
  <2>5. QED BY <2>4 DEF UpgradesReset, p1, p2, p3
<1>2. /\ q.knifeDamage = Config.initialKnifeDamage
      /\ q.horseDamage = Config.initialHorseDamage
      /\ q.maxHp = Config.initialMaxHp
  BY DEF UpgradesReset, PlayerFields
<1>3. QED BY <1>1, <1>2, ConfigType DEF StatsInBounds

\* Who is prepared for a round has no points and the stats bought so far.
LEMMA PreparedSpendable ==
    ASSUME NEW p \in PlayerFields, StatsInBounds(p), NEW seat \in Int
    PROVE  LET q == PreparedForRoundStart(p, seat)
           IN  q \in PlayerFields /\ StatsInBounds(q) /\ Spendable(q)
<1> DEFINE q == PreparedForRoundStart(p, seat)
<1>1. q \in PlayerFields
  <2> DEFINE p1 == [p EXCEPT !.hasKnife = FALSE]
             p2 == [p1 EXCEPT !.hasHorse = FALSE]
             p3 == [p2 EXCEPT !.hp = p.maxHp]
             p4 == [p3 EXCEPT !.initialPlace = seat]
             p5 == [p4 EXCEPT !.place = seat]
  <2>1. p1 \in PlayerFields
    BY FlagSetters
  <2> HIDE DEF p1
  <2>2. p2 \in PlayerFields
    BY <2>1, FlagSetters
  <2> HIDE DEF p2
  <2>3. p3 \in PlayerFields
    BY <2>2, PlayerType DEF PlayerFields
  <2> HIDE DEF p3
  <2>4. p4 \in PlayerFields
    BY <2>3 DEF PlayerFields
  <2> HIDE DEF p4
  <2>5. p5 \in PlayerFields
    BY <2>4 DEF PlayerFields
  <2> HIDE DEF p5
  <2>6. [p5 EXCEPT !.upgradePoint = 0] \in PlayerFields
    BY <2>5 DEF PlayerFields
  <2>7. QED BY <2>6 DEF PreparedForRoundStart, p1, p2, p3, p4, p5
<1>2. /\ q.knifeDamage = p.knifeDamage /\ q.horseDamage = p.horseDamage
      /\ q.maxHp = p.maxHp /\ q.upgradePoint = 0
  BY DEF PreparedForRoundStart, PlayerFields
<1> HIDE DEF q
<1>3. StatsInBounds(q)
  BY <1>2 DEF StatsInBounds
<1>4. Spendable(q)
  BY <1>1, <1>2, <1>3, ConfigType DEF Spendable, StatsInBounds,
     RemainingTimes, UpgradeKnifeRemainingTimes, UpgradeHorseRemainingTimes,
     UpgradeMaxHpRemainingTimes
<1>5. QED BY <1>1, <1>3, <1>4 DEF q

\* The upgrades left are numbers, and none of them is negative when the stats
\* are within bounds.
LEMMA RemainingType ==
    ASSUME NEW p \in PlayerFields
    PROVE  /\ UpgradeKnifeRemainingTimes(p) \in Int
           /\ UpgradeHorseRemainingTimes(p) \in Int
           /\ UpgradeMaxHpRemainingTimes(p) \in Int
           /\ StatsInBounds(p) => /\ UpgradeKnifeRemainingTimes(p) >= 0
                                  /\ UpgradeHorseRemainingTimes(p) >= 0
                                  /\ UpgradeMaxHpRemainingTimes(p) >= 0
  BY PlayerType, ConfigType DEF StatsInBounds, UpgradeKnifeRemainingTimes,
     UpgradeHorseRemainingTimes, UpgradeMaxHpRemainingTimes

ItemCounts == [knife: Nat, horse: Nat, maxHp: Nat]

\* The default upgrades are upgrades.
LEMMA DefaultUpgradeType ==
    ASSUME NEW p \in PlayerFields
    PROVE  DefaultUpgrade(p) \in UpgradeItems
  BY PlayerType, RemainingType DEF DefaultUpgrade, UpgradeItems, Least

\* The upgrades an infeasible reply is replaced with are feasible.
THEOREM DefaultUpgradeFeasible ==
    ASSUME NEW p \in PlayerFields, StatsInBounds(p), Spendable(p)
    PROVE  /\ DefaultUpgrade(p) \in ItemCounts
           /\ UpgradeFeasible(p, DefaultUpgrade(p))
<1> DEFINE k == UpgradeKnifeRemainingTimes(p)
           h == UpgradeHorseRemainingTimes(p)
           m == UpgradeMaxHpRemainingTimes(p)
           n == p.upgradePoint
           knife == Least(n, k)
           horse == Least(n - knife, h)
           maxHp == Least(n - knife - horse, m)
<1>1. k \in Nat /\ h \in Nat /\ m \in Nat
  BY RemainingType
<1>2. n \in 0..(k + h + m)
  BY DEF Spendable, RemainingTimes
<1>3. DefaultUpgrade(p) = [knife |-> knife, horse |-> horse, maxHp |-> maxHp]
  BY DEF DefaultUpgrade
<1> HIDE DEF k, h, m, n
<1>4. /\ knife \in Nat /\ knife <= k
      /\ horse \in Nat /\ horse <= h
      /\ maxHp \in Nat /\ maxHp <= m
      /\ knife + horse + maxHp = n
  BY <1>1, <1>2 DEF Least
<1> HIDE DEF knife, horse, maxHp
<1>5. QED BY <1>3, <1>4 DEF ItemCounts, UpgradeFeasible, ItemCount, k, h, m, n

\* A player with upgrades applied is a player.
LEMMA UpgradedType ==
    ASSUME NEW p \in PlayerFields, NEW items \in UpgradeItems
    PROVE  /\ Upgraded(p, items) \in PlayerFields
           /\ (items \in ItemCounts /\ StatsInBounds(p)) =>
                 StatsInBounds(Upgraded(p, items))
<1> DEFINE k == Least(items.knife, UpgradeKnifeRemainingTimes(p))
           h == Least(items.horse, UpgradeHorseRemainingTimes(p))
           m == Least(items.maxHp, UpgradeMaxHpRemainingTimes(p))
           q == [p EXCEPT !.knifeDamage = @ + k, !.horseDamage = @ + h,
                          !.maxHp = @ + m]
<1>1. k \in Int /\ h \in Int /\ m \in Int
  BY RemainingType DEF UpgradeItems, Least
<1>2. (items \in ItemCounts /\ StatsInBounds(p)) =>
         /\ k \in 0..UpgradeKnifeRemainingTimes(p)
         /\ h \in 0..UpgradeHorseRemainingTimes(p)
         /\ m \in 0..UpgradeMaxHpRemainingTimes(p)
  BY RemainingType DEF ItemCounts, Least
<1>3. Upgraded(p, items) = q
  BY DEF Upgraded
<1> HIDE DEF k, h, m
<1>4. q \in PlayerFields
  <2> DEFINE p1 == [p EXCEPT !.knifeDamage = @ + k]
             p2 == [p1 EXCEPT !.horseDamage = p.horseDamage + h]
             p3 == [p2 EXCEPT !.maxHp = p.maxHp + m]
  <2>1. p1 \in PlayerFields
    BY <1>1, PlayerType DEF PlayerFields
  <2> HIDE DEF p1
  <2>2. p2 \in PlayerFields
    BY <1>1, <2>1, PlayerType DEF PlayerFields
  <2> HIDE DEF p2
  <2>3. p3 \in PlayerFields
    BY <1>1, <2>2, PlayerType DEF PlayerFields
  <2>4. q = p3
    BY DEF p1, p2, PlayerFields
  <2>5. QED BY <2>3, <2>4
<1>5. /\ q.knifeDamage = p.knifeDamage + k
      /\ q.horseDamage = p.horseDamage + h
      /\ q.maxHp = p.maxHp + m
  BY DEF PlayerFields
<1> HIDE DEF q
<1>6. (items \in ItemCounts /\ StatsInBounds(p)) => StatsInBounds(q)
  BY <1>1, <1>2, <1>5, PlayerType, ConfigType DEF StatsInBounds,
     UpgradeKnifeRemainingTimes, UpgradeHorseRemainingTimes,
     UpgradeMaxHpRemainingTimes
<1>7. QED BY <1>3, <1>4, <1>6

-----------------------------------------------------------------------------
\* Deaths.

\* A player who has upgrades left to buy, and points it can spend on them.
CanEarn(p) == StatsInBounds(p) /\ Spendable(p) /\ ~FullyUpgraded(p)

AllCanEarn(r) == \A p \in DOMAIN r : CanEarn(r[p])

\* Only `who` is wounded between r and s, nobody is healed, nobody loses points,
\* and whoever dies leaves somebody with a point.
Wounds(r, s, who) ==
    /\ DOMAIN s = DOMAIN r
    /\ \A p \in DOMAIN r : /\ s[p].hp <= r[p].hp
                           /\ p \notin who => s[p].hp = r[p].hp
                           /\ s[p].upgradePoint >= r[p].upgradePoint
    /\ (\E p \in DOMAIN r : Alive(r[p]) /\ Dead(s[p])) =>
          \E q \in DOMAIN s : s[q].upgradePoint > 0

\* Who is not fully upgraded has an upgrade left to buy.
LEMMA UpgradesLeft ==
    ASSUME NEW p \in PlayerFields, StatsInBounds(p)
    PROVE  /\ RemainingTimes(p) \in Nat
           /\ ~FullyUpgraded(p) <=> RemainingTimes(p) >= 1
  BY RemainingType DEF RemainingTimes, FullyUpgraded

\* What is kept of a player keeps it able to earn.
LEMMA KeptCanEarn ==
    ASSUME NEW r, IsRoom(r), AllCanEarn(r), NEW s, RoomKept(r, s)
    PROVE  AllCanEarn(s)
<1> SUFFICES ASSUME NEW p \in DOMAIN r PROVE CanEarn(s[p])
  BY DEF AllCanEarn, RoomKept
<1>1. CanEarn(r[p]) /\ Kept(r[p], s[p])
  BY DEF AllCanEarn, RoomKept
<1>2. /\ FullyUpgraded(s[p]) <=> FullyUpgraded(r[p])
      /\ StatsInBounds(s[p])
  BY <1>1 DEF Kept, CanEarn, StatsInBounds, FullyUpgraded,
     UpgradeKnifeRemainingTimes, UpgradeHorseRemainingTimes,
     UpgradeMaxHpRemainingTimes
<1>3. QED BY <1>1, <1>2 DEF Kept, CanEarn, Spendable

\* A change of neither hit points nor points wounds nobody.
LEMMA NobodyWounded ==
    ASSUME NEW r, IsRoom(r), NEW s, DOMAIN s = DOMAIN r,
           \A p \in DOMAIN r : s[p].hp = r[p].hp
                                 /\ s[p].upgradePoint = r[p].upgradePoint
    PROVE  Wounds(r, s, {})
<1>1. \A p \in DOMAIN r : r[p].hp \in Int /\ r[p].upgradePoint \in Int
  BY PlayerType DEF IsRoom
<1>2. QED BY <1>1 DEF Wounds, Alive, Dead

\* The wounds of two steps, one after the other.
LEMMA WoundsTransitive ==
    ASSUME NEW r, IsRoom(r), NEW s, IsRoom(s), NEW t, IsRoom(t), NEW A, NEW B,
           Wounds(r, s, A), Wounds(s, t, B)
    PROVE  Wounds(r, t, A \cup B)
<1>1. \A p \in DOMAIN r : /\ r[p].hp \in Int /\ r[p].upgradePoint \in Int
                          /\ s[p].hp \in Int /\ s[p].upgradePoint \in Int
                          /\ t[p].hp \in Int /\ t[p].upgradePoint \in Int
  BY PlayerType DEF IsRoom, Wounds
<1>2. \A p \in DOMAIN r : /\ t[p].hp <= r[p].hp
                          /\ p \notin A \cup B => t[p].hp = r[p].hp
                          /\ t[p].upgradePoint >= r[p].upgradePoint
  BY <1>1 DEF Wounds
<1>3. ASSUME NEW p \in DOMAIN r, Alive(r[p]), Dead(t[p])
      PROVE  \E q \in DOMAIN t : t[q].upgradePoint > 0
  <2>1. CASE Dead(s[p])
    <3>1. PICK q \in DOMAIN s : s[q].upgradePoint > 0
      BY <1>3, <2>1 DEF Wounds
    <3>2. q \in DOMAIN r /\ q \in DOMAIN t /\ t[q].upgradePoint >= s[q].upgradePoint
      BY <3>1 DEF Wounds
    <3>3. QED BY <1>1, <3>1, <3>2
  <2>2. CASE Alive(s[p])
    BY <1>3, <2>2 DEF Wounds
  <2>3. QED BY <2>1, <2>2 DEF Alive
<1>4. DOMAIN t = DOMAIN r
  BY DEF Wounds
<1>5. QED BY <1>2, <1>3, <1>4 DEF Wounds

\* Damage wounds the one it is dealt to, and a kill earns a point.
LEMMA DamageWounds ==
    ASSUME NEW r, IsRoom(r), AllCanEarn(r), NEW from \in DOMAIN r,
           NEW to \in DOMAIN r, NEW damage \in Nat
    PROVE  Wounds(r, ApplyDamage(r, from, to, damage), {to})
<1> DEFINE struck == [r[to] EXCEPT !.hp = @ - damage]
           hit == [r EXCEPT ![to] = struck]
           kills == Alive(r[to]) /\ Dead(hit[to])
           remaining == RemainingTimes(hit[from])
           point == hit[from].upgradePoint
           earned == IF point + 1 < remaining THEN point + 1 ELSE remaining
           credited == [hit[from] EXCEPT !.upgradePoint = earned]
           paid == [hit EXCEPT ![from] = credited]
<1>1. ApplyDamage(r, from, to, damage) = IF kills THEN paid ELSE hit
  BY DEF ApplyDamage
<1>2. /\ r[to] \in PlayerFields /\ r[to].hp \in Int
      /\ \A p \in DOMAIN r : r[p].hp \in Int /\ r[p].upgradePoint \in Int
  BY PlayerType DEF IsRoom
<1>3. /\ struck.hp = r[to].hp - damage
      /\ struck.upgradePoint = r[to].upgradePoint
  BY <1>2 DEF PlayerFields
<1>4. RoomKept(r, hit)
  <2>1. hit = [r EXCEPT ![to].hp = r[to].hp - damage]
    OBVIOUS
  <2>2. r[to].hp - damage \in Int
    BY <1>2
  <2> HIDE DEF hit
  <2>3. QED BY <2>1, <2>2, HpKept
<1>5. /\ DOMAIN hit = DOMAIN r /\ hit[to] = struck
      /\ \A p \in DOMAIN r : p # to => hit[p] = r[p]
  BY DEF IsRoom
<1> HIDE DEF hit, struck
<1>6. \A p \in DOMAIN r : /\ hit[p].hp <= r[p].hp
                          /\ p # to => hit[p].hp = r[p].hp
                          /\ hit[p].upgradePoint = r[p].upgradePoint
  BY <1>2, <1>3, <1>5
<1>7. /\ IsRoom(hit) /\ hit[from] \in PlayerFields /\ CanEarn(hit[from])
  BY <1>4, <1>5, KeptCanEarn DEF RoomKept, IsRoom, AllCanEarn
<1>8. point \in Nat /\ remaining \in Nat /\ point <= remaining /\ remaining >= 1
  BY <1>7, UpgradesLeft DEF CanEarn, Spendable
<1>9. earned >= point /\ earned > 0 /\ earned \in Nat
  BY <1>8
<1>10. credited.hp = hit[from].hp /\ credited.upgradePoint = earned
  BY <1>7 DEF PlayerFields
<1> HIDE DEF credited, earned
<1>11. /\ DOMAIN paid = DOMAIN r /\ paid[from] = credited
       /\ \A p \in DOMAIN r : p # from => paid[p] = hit[p]
  BY <1>5, <1>7 DEF IsRoom
<1> HIDE DEF paid
<1>12. CASE kills
  <2>1. \A p \in DOMAIN r : /\ paid[p].hp = hit[p].hp
                            /\ paid[p].upgradePoint >= hit[p].upgradePoint
    BY <1>2, <1>6, <1>8, <1>9, <1>10, <1>11
  <2>2. paid[from].upgradePoint > 0
    BY <1>9, <1>10, <1>11
  <2>3. ApplyDamage(r, from, to, damage) = paid
    BY <1>1, <1>12
  <2>4. \A p \in DOMAIN r : /\ paid[p].hp <= r[p].hp
                            /\ p # to => paid[p].hp = r[p].hp
                            /\ paid[p].upgradePoint >= r[p].upgradePoint
    BY <1>6, <2>1
  <2>5. QED BY <1>11, <2>2, <2>3, <2>4 DEF Wounds
<1>13. CASE ~kills
  <2>1. ApplyDamage(r, from, to, damage) = hit
    BY <1>1, <1>13
  <2>2. ASSUME NEW p \in DOMAIN r, Alive(r[p]), Dead(hit[p]) PROVE FALSE
    BY <1>6, <1>13, <2>2 DEF Alive, Dead
  <2>3. \A p \in DOMAIN r : hit[p].upgradePoint >= r[p].upgradePoint
    BY <1>2, <1>6
  <2>4. QED BY <1>5, <1>6, <2>1, <2>2, <2>3 DEF Wounds
<1>14. QED BY <1>12, <1>13

\* A slash wounds the slashed, and the slasher by its punishment.
LEMMA SlashWounds ==
    ASSUME NEW r, IsRoom(r), AllCanEarn(r), NEW from \in DOMAIN r,
           NEW to \in DOMAIN r
    PROVE  Wounds(r, Slash(r, from, to), {from, to})
<1> DEFINE struck == ApplyDamage(r, from, to, r[from].knifeDamage)
           hp == SlashPunishHp(struck[from])
           punished == ApplyDamage(struck, to, from, hp)
<1>1. r[from].knifeDamage \in Nat
  BY ConfigType DEF AllCanEarn, CanEarn, StatsInBounds
<1>2. Wounds(r, struck, {to}) /\ RoomKept(r, struck)
  BY <1>1, DamageWounds, ApplyDamageKeeps
<1>3. Slash(r, from, to) = IF hp > 0 THEN punished ELSE struck
  BY DEF Slash
<1> HIDE DEF struck
<1>4. /\ IsRoom(struck) /\ from \in DOMAIN struck /\ to \in DOMAIN struck
      /\ AllCanEarn(struck) /\ hp \in Int
  BY <1>2, KeptCanEarn, PlayerType DEF RoomKept, IsRoom
<1> HIDE DEF hp
<1>5. CASE hp > 0
  <2>1. Wounds(struck, punished, {from}) /\ RoomKept(struck, punished)
    BY <1>4, <1>5, DamageWounds, ApplyDamageKeeps
  <2>2. IsRoom(punished)
    BY <2>1 DEF RoomKept
  <2> HIDE DEF punished
  <2>3. Wounds(r, punished, {to} \cup {from})
    BY <1>2, <1>4, <2>1, <2>2, WoundsTransitive
  <2>4. {to} \cup {from} = {from, to}
    OBVIOUS
  <2>5. QED BY <1>3, <1>5, <2>3, <2>4
<1>6. CASE ~(hp > 0)
  BY <1>2, <1>3, <1>6 DEF Wounds
<1>7. QED BY <1>5, <1>6

\* A kick wounds the kicked; where it lands wounds nobody.
LEMMA KickWounds ==
    ASSUME NEW r, IsRoom(r), AllCanEarn(r), NEW from \in DOMAIN r,
           NEW to \in DOMAIN r
    PROVE  Wounds(r, Kick(r, from, to), {to})
<1> DEFINE kicked == ApplyDamage(r, from, to, r[from].horseDamage)
           home == [kicked EXCEPT ![to].place = Village]
<1>1. r[from].horseDamage \in Nat
  BY ConfigType DEF AllCanEarn, CanEarn, StatsInBounds
<1>2. Wounds(r, kicked, {to}) /\ RoomKept(r, kicked)
  BY <1>1, DamageWounds, ApplyDamageKeeps
<1>3. Kick(r, from, to) \in {kicked, home}
  BY DEF Kick
<1> HIDE DEF kicked
<1>4. \A p \in DOMAIN kicked : /\ home[p].hp = kicked[p].hp
                               /\ home[p].upgradePoint = kicked[p].upgradePoint
  BY <1>2 DEF RoomKept, IsRoom, PlayerFields
<1>5. DOMAIN home = DOMAIN kicked
  OBVIOUS
<1> HIDE DEF home
<1>6. Wounds(r, home, {to})
  BY <1>2, <1>4, <1>5 DEF Wounds, Dead
<1>7. QED BY <1>2, <1>3, <1>6

\* A feasible action wounds its player and at most one other, who was alive, and
\* whoever dies of it leaves somebody with a point: no death goes unpaid while
\* there are upgrades to buy.
THEOREM ActionsWound ==
    ASSUME NEW r, IsRoom(r), AllCanEarn(r), NEW from \in AlivePlayers(r), NEW a,
           ActionFeasible(r, from, a)
    PROVE  \E victim \in AlivePlayers(r) :
              Wounds(r, ApplyAction(r, from, a), {from, victim})
<1>1. from \in DOMAIN r
  BY DEF AlivePlayers
<1>2. ASSUME NEW s, DOMAIN s = DOMAIN r,
             \A p \in DOMAIN r : s[p].hp = r[p].hp
                                   /\ s[p].upgradePoint = r[p].upgradePoint
      PROVE  Wounds(r, s, {from, from})
  <2>1. Wounds(r, s, {})
    BY <1>2, NobodyWounded
  <2>2. QED BY <2>1 DEF Wounds
<1>3. CASE a.action = "Slash"
  <2>1. a.toPlayer \in DOMAIN r /\ a.toPlayer \in AlivePlayers(r)
    BY <1>3 DEF ActionFeasible, CanSlash, AlivePlayers
  <2>2. ApplyAction(r, from, a) = Slash(r, from, a.toPlayer)
    BY <1>3 DEF ApplyAction
  <2>3. QED BY <1>1, <2>1, <2>2, SlashWounds
<1>4. CASE a.action = "Kick"
  <2>1. a.toPlayer \in DOMAIN r /\ a.toPlayer \in AlivePlayers(r)
    BY <1>4 DEF ActionFeasible, CanKick, AlivePlayers
  <2>2. ApplyAction(r, from, a) = Kick(r, from, a.toPlayer)
    BY <1>4 DEF ApplyAction
  <2>3. Wounds(r, ApplyAction(r, from, a), {a.toPlayer})
    BY <1>1, <2>1, <2>2, KickWounds
  <2>4. Wounds(r, ApplyAction(r, from, a), {from, a.toPlayer})
    BY <2>3 DEF Wounds
  <2>5. QED BY <2>1, <2>4
<1>5. CASE a.action \notin {"Slash", "Kick"}
  <2> DEFINE s == ApplyAction(r, from, a)
  <2>1. ASSUME NEW q \in DOMAIN r, NEW v
        PROVE  /\ \A p \in DOMAIN r : [r EXCEPT ![q].place = v][p].hp = r[p].hp
               /\ \A p \in DOMAIN r :
                     [r EXCEPT ![q].place = v][p].upgradePoint = r[p].upgradePoint
    BY DEF IsRoom, PlayerFields
  <2>2. ASSUME NEW q \in DOMAIN r
        PROVE  /\ \A p \in DOMAIN r :
                     /\ [r EXCEPT ![q].hasKnife = TRUE][p].hp = r[p].hp
                     /\ [r EXCEPT ![q].hasHorse = TRUE][p].hp = r[p].hp
               /\ \A p \in DOMAIN r :
                     /\ [r EXCEPT ![q].hasKnife = TRUE][p].upgradePoint
                           = r[p].upgradePoint
                     /\ [r EXCEPT ![q].hasHorse = TRUE][p].upgradePoint
                           = r[p].upgradePoint
    BY DEF IsRoom, PlayerFields
  <2>3. CASE a.action \in {"BuyKnife", "BuyHorse"}
    <3>1. /\ DOMAIN s = DOMAIN r
          /\ \A p \in DOMAIN r : s[p].hp = r[p].hp
                                   /\ s[p].upgradePoint = r[p].upgradePoint
      BY <1>1, <2>2, <2>3 DEF ApplyAction
    <3>2. QED BY <1>2, <3>1
  <2>4. CASE a.action \in {"Move", "LetMove"}
    <3>1. a.action = "LetMove" => a.toPlayer \in DOMAIN r
      BY DEF ActionFeasible
    <3>2. /\ DOMAIN s = DOMAIN r
          /\ \A p \in DOMAIN r : s[p].hp = r[p].hp
                                   /\ s[p].upgradePoint = r[p].upgradePoint
      BY <1>1, <2>1, <2>4, <3>1 DEF ApplyAction
    <3>3. QED BY <1>2, <3>2
  <2>5. CASE a.action \notin {"BuyKnife", "BuyHorse", "Move", "LetMove"}
    <3>1. s = r
      BY <1>5, <2>5 DEF ApplyAction
    <3>2. QED BY <1>2, <3>1
  <2>6. QED BY <2>3, <2>4, <2>5
<1>6. QED BY <1>3, <1>4, <1>5

-----------------------------------------------------------------------------
(* The private functions of LogicP, and the slots. *)

\* The next order to act, if there is one, exists and is held by a player.
LEMMA LeastToCome ==
    ASSUME NEW l, IsHash(l.confirmedActionOrders, Order, Name), OrdersToCome(l) # {}
    PROVE  LET next == CHOOSE o \in OrdersToCome(l) :
                          \A x \in OrdersToCome(l) : o <= x
           IN  next \in OrdersToCome(l) /\ next \in Nat /\ l.confirmedActionOrders[next] \in Name
<1>1. OrdersToCome(l) \in SUBSET Nat
  BY DEF OrdersToCome, IsHash, Order
<1>2. \E o \in OrdersToCome(l) : \A x \in OrdersToCome(l) : o <= x
  BY <1>1, LeastNat
<1>3. QED BY <1>1, <1>2 DEF OrdersToCome, IsHash

\* The leftover orders are dealt to players of the room, one each.
LEMMA HandedOutType ==
    ASSUME NEW l, IsHash(l.confirmedActionOrders, Order, Name)
    PROVE  IsHash(HandedOut(l), Order, Name)
  BY DEF HandedOut, IsHash

\* A value LogicP's fields may have.
IsLogicP(l) == HasFields(l) /\ Typed(l)

\* The states a round is played in, before its upgrades.
InRound(l) == l.state \in {"RpsForAction", "ActionOrder", "RpsForActionOrder", "Action"}

\* What a phase makes of l when it runs on: the same room, waiting for a reply.
RunsOn(l, m) ==
    /\ IsLogicP(m)
    /\ m.room = l.room
    /\ m.state # "BeforeRoundStart"
    /\ m.state = "Upgrade" => m.upgrades = EmptyHash

\* Names and orders are finitely many, so counting them is meaningful.
LEMMA Finiteness ==
    /\ IsFiniteSet(Name) /\ MaxOrders \in Nat /\ IsFiniteSet(Order)
<1>1. MaxPlayers \in Nat
  BY RulesAssumption
<1>2. MaxOrders \in Nat
  BY <1>1 DEF MaxOrders
<1>3. QED BY <1>1, <1>2, FS_Interval DEF Name, Order

\* The count of selections a player still strives for is a number.
LEMMA StrivingIsInt ==
    ASSUME NEW l, Typed(l), NEW p \in Name
    PROVE  StrivingActionCount(l, p) \in Int
<1> DEFINE held == {o \in DOMAIN l.confirmedActionOrders : l.confirmedActionOrders[o] = p}
<1>1. held \subseteq Order
  BY DEF Typed, IsHash
<1>2. Cardinality(held) \in Nat
  BY <1>1, Finiteness, FS_Subset, FS_CardinalityType
<1>3. l.rpsForActionWinners.times \in Nat /\ l.actionOrderYields[p] \in Int
  BY DEF Typed
<1> HIDE DEF held
<1>4. (IF p \in l.rpsForActionWinners.winners THEN l.rpsForActionWinners.times ELSE 0) \in Int
  BY <1>3
<1>5. RemainingActionCount(l, p) \in Int
  BY <1>2, <1>4 DEF RemainingActionCount, held
<1>6. QED BY <1>3, <1>5 DEF StrivingActionCount

\* The hashes that a phase clears are hashes again.
LEMMA EmptyTyped ==
    /\ \A K, V : IsHash(EmptyHash, K, V)
    /\ NoWinners \in [winners: SUBSET Name, times: Nat]
  BY DEF IsHash, EmptyHash, NoWinners

\* Emitting a result signal changes nothing but the record of signals.
LEMMA EmittedRuns ==
    ASSUME NEW l, IsLogicP(l), NEW s \in ResultSignals
    PROVE  /\ IsLogicP(Emitted(l, s))
           /\ \A f \in Fields \ {"signals"} : Emitted(l, s)[f] = l[f]
<1> DEFINE m == Emitted(l, s)
<1>1. HasFields(m)
  BY DEF IsLogicP, HasFields, Emitted
<1>2. \A f \in Fields \ {"signals"} : m[f] = l[f]
  BY DEF IsLogicP, HasFields, Emitted, Fields
<1>3. m.signals = l.signals \cup {s}
  BY DEF IsLogicP, HasFields, Emitted, Fields
<1> HIDE DEF m
<1>4. Typed(m)
  BY <1>2, <1>3 DEF IsLogicP, Typed, Fields
<1>5. QED BY <1>1, <1>2, <1>4 DEF IsLogicP, m

\* Starting a throw leaves the fields of LogicP typed.
LEMMA StartRpsForActionRuns ==
    ASSUME NEW l, IsLogicP(l)
    PROVE  RunsOn(l, StartRpsForAction(l))
<1> DEFINE m == StartRpsForAction(l)
<1>1. HasFields(m)
  BY DEF IsLogicP, HasFields, StartRpsForAction
<1>2.
      /\ \A f \in Fields \ {"state", "rpsForActionReplies", "rpsForActionWinners", "asked"} :
            m[f] = l[f]
      /\ m.state = "RpsForAction"
      /\ m.rpsForActionReplies = EmptyHash
      /\ m.rpsForActionWinners = NoWinners
      /\ m.asked = l.asked \cup AlivePlayers(l.room)
  BY DEF IsLogicP, HasFields, Fields, StartRpsForAction
<1> HIDE DEF m
<1>3. Typed(m)
  <2>1. l.asked \cup AlivePlayers(l.room) \subseteq Name
    BY DEF IsLogicP, Typed, IsHash, AlivePlayers
  <2>2. QED BY <1>2, <2>1, EmptyTyped DEF IsLogicP, Typed, Fields, States
<1>4. QED BY <1>1, <1>2, <1>3 DEF RunsOn, IsLogicP, Fields, m

\* Starting the upgrades leaves the fields of LogicP typed.
LEMMA StartUpgradeRuns ==
    ASSUME NEW l, IsLogicP(l), InRound(l)
    PROVE  RunsOn(l, StartUpgrade(l))
<1> DEFINE m == StartUpgrade(l)
           earners == {p \in DOMAIN l.room : l.room[p].upgradePoint > 0}
<1>1. HasFields(m)
  BY DEF IsLogicP, HasFields, StartUpgrade
<1>2.
      /\ \A f \in Fields \ {"state", "upgrades", "asked"} :
            m[f] = l[f]
      /\ m.state = IF earners = {} THEN l.state ELSE "Upgrade"
      /\ m.upgrades = EmptyHash
      /\ m.asked = l.asked \cup earners
  BY DEF IsLogicP, HasFields, Fields, StartUpgrade
<1> HIDE DEF m
<1>3. Typed(m)
  <2>1. l.asked \cup earners \subseteq Name
    BY DEF IsLogicP, Typed, IsHash
  <2> HIDE DEF earners
  <2>2. QED BY <1>2, <2>1, EmptyTyped DEF IsLogicP, Typed, Fields, States
<1>4. QED BY <1>1, <1>2, <1>3 DEF RunsOn, IsLogicP, InRound, Fields, m

\* There is a number of orders, and each is within the bound on orders.
LEMMA OrderCountIsNat ==
    ASSUME NEW l, Typed(l)
    PROVE  OrderCount(l.rpsForActionWinners) \in Nat
<1> DEFINE w == l.rpsForActionWinners
<1>1. w.winners \subseteq Name /\ w.times \in Nat
  BY DEF Typed
<1>2. Cardinality(w.winners) \in Nat
  BY <1>1, Finiteness, FS_Subset, FS_CardinalityType
<1>3. QED BY <1>1, <1>2 DEF OrderCount

\* Letting the next player act, or ending the round or the turns, keeps types.
LEMMA StartActionRuns ==
    ASSUME NEW l, IsLogicP(l), InRound(l)
    PROVE  RunsOn(l, StartAction(l))
<1> DEFINE next == CHOOSE o \in OrdersToCome(l) :
                      \A x \in OrdersToCome(l) : o <= x
<1>1. CASE IsRoundOver(l.room)
  <2> DEFINE e == Emitted(l, "roundOver")
  <2>1. IsLogicP(e) /\ e.room = l.room /\ e.state = l.state
    BY EmittedRuns DEF ResultSignals, Fields
  <2>2. InRound(e)
    BY <2>1 DEF InRound
  <2>3. RunsOn(e, StartUpgrade(e))
    BY <2>1, <2>2, StartUpgradeRuns
  <2>4. StartAction(l) = StartUpgrade(e)
    BY <1>1 DEF StartAction
  <2>5. QED BY <2>1, <2>3, <2>4 DEF RunsOn
<1>2. CASE ~IsRoundOver(l.room) /\ OrdersToCome(l) = {}
  <2> DEFINE past == OrderCount(l.rpsForActionWinners) + 1
             e == [l EXCEPT !.currentActionOrder = past]
  <2>1. past \in Nat
    BY OrderCountIsNat DEF IsLogicP
  <2>2. IsLogicP(e) /\ e.room = l.room
    <3> HIDE DEF past
    <3>1. HasFields(e)
      BY DEF IsLogicP, HasFields
    <3>2.
          /\ \A f \in Fields \ {"currentActionOrder"} :
                e[f] = l[f]
          /\ e.currentActionOrder = past
      BY DEF IsLogicP, HasFields, Fields
    <3> HIDE DEF e
    <3>3. Typed(e)
      BY <2>1, <3>2 DEF IsLogicP, Typed, Fields
    <3>4. QED BY <3>1, <3>2, <3>3 DEF IsLogicP, Fields
  <2>3. RunsOn(e, StartRpsForAction(e))
    BY <2>2, StartRpsForActionRuns
  <2>4. StartAction(l) = StartRpsForAction(e)
    BY <1>2 DEF StartAction
  <2>5. QED BY <2>2, <2>3, <2>4 DEF RunsOn
<1>3. CASE ~IsRoundOver(l.room) /\ OrdersToCome(l) # {}
  <2> DEFINE m == [l EXCEPT !.currentActionOrder = next,
                            !.state = "Action",
                            !.asked = @ \cup {l.confirmedActionOrders[next]}]
  <2>1. next \in Nat /\ l.confirmedActionOrders[next] \in Name
    BY <1>3, LeastToCome DEF IsLogicP, Typed, Fields
  <2>2. StartAction(l) = m
    BY <1>3 DEF StartAction
  <2> HIDE DEF next
  <2>3. HasFields(m)
    BY DEF IsLogicP, HasFields
  <2>4.
        /\ \A f \in Fields \ {"state", "currentActionOrder", "asked"} :
              m[f] = l[f]
        /\ m.state = "Action"
        /\ m.currentActionOrder = next
        /\ m.asked = l.asked \cup {l.confirmedActionOrders[next]}
    BY DEF IsLogicP, HasFields, Fields
  <2> HIDE DEF m
  <2>5. Typed(m)
    BY <2>1, <2>4 DEF IsLogicP, Typed, Fields, States
  <2>6. QED BY <2>2, <2>3, <2>4, <2>5 DEF RunsOn, IsLogicP, Fields
<1>4. QED BY <1>1, <1>2, <1>3

\* Asking for selections, or dealing the leftover orders, keeps types.
LEMMA StartActionOrderRuns ==
    ASSUME NEW l, IsLogicP(l), InRound(l)
    PROVE  RunsOn(l, StartActionOrder(l))
<1> DEFINE striving == {p \in Name : StrivingActionCount(l, p) > 0}
           settled == [l EXCEPT !.confirmedActionOrders = HandedOut(l)]
           granted == Emitted(settled, "actionOrderResult")
           e == [granted EXCEPT !.currentActionOrder = 0]
           counts == [p \in striving |-> StrivingActionCount(l, p)]
           m == [l EXCEPT !.desiredActionOrders = {},
                          !.actionOrderRemainingSelections = counts,
                          !.state = "ActionOrder",
                          !.asked = @ \cup striving]
<1>1. CASE Cardinality(l.rpsForActionWinners.winners) = 1 \/ striving = {}
  <2>1. IsHash(HandedOut(l), Order, Name)
    BY HandedOutType DEF IsLogicP, Typed, Fields
  <2>2. HasFields(settled)
    BY DEF IsLogicP, HasFields
  <2>3.
        /\ \A f \in Fields \ {"confirmedActionOrders"} :
              settled[f] = l[f]
        /\ settled.confirmedActionOrders = HandedOut(l)
    BY DEF IsLogicP, HasFields, Fields
  <2> HIDE DEF settled
  <2>4. IsLogicP(settled)
    BY <2>1, <2>2, <2>3 DEF IsLogicP, Typed, Fields
  <2>5. /\ IsLogicP(granted)
        /\ granted.room = l.room /\ granted.state = l.state
    BY <2>3, <2>4, EmittedRuns DEF ResultSignals, Fields
  <2> HIDE DEF granted
  <2>6. HasFields(e)
    BY <2>5 DEF IsLogicP, HasFields
  <2>7.
        /\ \A f \in Fields \ {"currentActionOrder"} :
              e[f] = granted[f]
        /\ e.currentActionOrder = 0
    BY <2>5 DEF IsLogicP, HasFields, Fields
  <2>8. StartActionOrder(l) = StartAction(e)
    BY <1>1 DEF StartActionOrder, settled, granted
  <2> HIDE DEF e
  <2>9. IsLogicP(e) /\ InRound(e) /\ e.room = l.room
    BY <2>5, <2>6, <2>7 DEF IsLogicP, Typed, Fields, InRound
  <2>10. RunsOn(e, StartAction(e))
    BY <2>9, StartActionRuns
  <2>11. QED BY <2>8, <2>9, <2>10 DEF RunsOn
<1>2. CASE ~(Cardinality(l.rpsForActionWinners.winners) = 1 \/ striving = {})
  <2>1. StartActionOrder(l) = m
    BY <1>2 DEF StartActionOrder
  <2>2. IsHash(counts, Name, Int) /\ striving \subseteq Name
    BY StrivingIsInt DEF IsLogicP, IsHash
  <2> HIDE DEF counts, striving
  <2>3. HasFields(m)
    BY DEF IsLogicP, HasFields
  <2>4.
        /\ \A f \in Fields \ {"state", "desiredActionOrders", "actionOrderRemainingSelections", "asked"} :
              m[f] = l[f]
        /\ m.state = "ActionOrder"
        /\ m.desiredActionOrders = {}
        /\ m.actionOrderRemainingSelections = counts
        /\ m.asked = l.asked \cup striving
    BY DEF IsLogicP, HasFields, Fields
  <2> HIDE DEF m
  <2>5. Typed(m)
    BY <2>2, <2>4 DEF IsLogicP, Typed, Fields, States
  <2>6. QED BY <2>1, <2>3, <2>4, <2>5 DEF RunsOn, IsLogicP, Fields
<1>3. QED BY <1>1, <1>2

\* An order desired alone is desired by a player.
LEMMA AloneDesires ==
    ASSUME NEW desired, NEW o \in Order, Cardinality(Desirers(desired, o)) = 1
    PROVE  (CHOOSE p \in Name : p \in Desirers(desired, o)) \in Name
<1>1. Desirers(desired, o) # {}
  BY FS_EmptySet
<1>2. QED BY <1>1 DEF Desirers

\* The lowest contested order exists and is an order.
LEMMA LowestContested ==
    ASSUME NEW desired, desired \subseteq Order \X Name,
           {d[1] : d \in desired} # {}
    PROVE  LET contested == {d[1] : d \in desired}
           IN  (CHOOSE o \in contested : \A x \in contested : o <= x) \in Nat
<1> DEFINE contested == {d[1] : d \in desired}
<1>1. contested \in SUBSET Nat
  BY DEF Order
<1>2. contested # {}
  OBVIOUS
<1> HIDE DEF contested
<1>3. \E o \in contested : \A x \in contested : o <= x
  BY <1>1, <1>2, LeastNat
<1>4. (CHOOSE o \in contested : \A x \in contested : o <= x) \in Nat
  BY <1>1, <1>3
<1>5. QED BY <1>4 DEF contested

\* Granting uncontested orders and opening a contest keeps types.
LEMMA StartRpsForActionOrderRuns ==
    ASSUME NEW l, IsLogicP(l), InRound(l)
    PROVE  RunsOn(l, StartRpsForActionOrder(l))
<1> DEFINE desired == l.desiredActionOrders
           alone == {o \in Order : Cardinality(Desirers(desired, o)) = 1}
           conf == [o \in DOMAIN l.confirmedActionOrders \cup alone |->
                       IF o \in alone
                       THEN CHOOSE p \in Name : p \in Desirers(desired, o)
                       ELSE l.confirmedActionOrders[o]]
           left == {d \in desired : d[1] \notin alone}
           granted == [l EXCEPT !.confirmedActionOrders = conf,
                                !.desiredActionOrders = left]
           contested == {d[1] : d \in left}
           lowest == CHOOSE o \in contested : \A x \in contested : o <= x
           m == [granted EXCEPT
                   !.currentStrivingActionOrder = lowest,
                   !.rpsForActionOrderReplies = EmptyHash,
                   !.state = "RpsForActionOrder",
                   !.asked = @ \cup Desirers(left, lowest)]
<1>1. IsHash(conf, Order, Name)
  <2>1. \A o \in alone : (CHOOSE p \in Name : p \in Desirers(desired, o)) \in Name
    BY AloneDesires
  <2>2. IsHash(l.confirmedActionOrders, Order, Name)
    BY DEF IsLogicP, Typed
  <2>3. alone \subseteq Order
    OBVIOUS
  <2> HIDE DEF alone
  <2>4. QED BY <2>1, <2>2, <2>3 DEF IsHash
<1>2. left \subseteq Order \X Name
  BY DEF IsLogicP, Typed
<1>3. IF contested = {} THEN StartRpsForActionOrder(l) = StartActionOrder(granted)
                        ELSE StartRpsForActionOrder(l) = m
  <2>1. granted.desiredActionOrders = left
    <3> HIDE DEF conf, left
    <3>1. QED BY DEF IsLogicP, HasFields, Fields
  <2>2. QED BY <2>1 DEF StartRpsForActionOrder
<1> HIDE DEF conf, alone, left
<1>4. HasFields(granted)
  BY DEF IsLogicP, HasFields
<1>5.
      /\ \A f \in Fields \ {"desiredActionOrders", "confirmedActionOrders"} :
            granted[f] = l[f]
      /\ granted.desiredActionOrders = left
      /\ granted.confirmedActionOrders = conf
  BY DEF IsLogicP, HasFields, Fields
<1> HIDE DEF granted
<1>6. IsLogicP(granted) /\ InRound(granted) /\ granted.room = l.room
  BY <1>1, <1>2, <1>4, <1>5 DEF IsLogicP, Typed, Fields, InRound
<1>7. CASE contested = {}
  BY <1>3, <1>6, <1>7, StartActionOrderRuns DEF RunsOn
<1>8. CASE contested # {}
  <2>1. lowest \in Nat
    BY <1>2, <1>8, LowestContested
  <2> HIDE DEF lowest
  <2>2. HasFields(m)
    BY <1>6 DEF IsLogicP, HasFields
  <2>3.
        /\ \A f \in Fields \ {"state", "currentStrivingActionOrder", "rpsForActionOrderReplies", "asked"} :
              m[f] = granted[f]
        /\ m.state = "RpsForActionOrder"
        /\ m.currentStrivingActionOrder = lowest
        /\ m.rpsForActionOrderReplies = EmptyHash
        /\ m.asked = granted.asked \cup Desirers(left, lowest)
    BY <1>6 DEF IsLogicP, HasFields, Fields
  <2>4. Desirers(left, lowest) \subseteq Name
    BY DEF Desirers
  <2> HIDE DEF m
  <2>5. Typed(m)
    BY <1>6, <2>1, <2>3, <2>4, EmptyTyped DEF IsLogicP, Typed, Fields, States
  <2>6. QED BY <1>3, <1>6, <1>8, <2>2, <2>3, <2>5 DEF RunsOn, IsLogicP, Fields
<1>9. QED BY <1>7, <1>8

\* The winners of a throw are among those who threw.
LEMMA WinnersType ==
    ASSUME NEW h, IsHash(h, Name, RockPaperScissors)
    PROVE  RockPaperScissorsWinners(DOMAIN h, h)
              \in [winners: SUBSET Name, times: Nat]
<1> DEFINE kinds == {h[p] : p \in DOMAIN h}
           win == {p \in DOMAIN h : \E k \in kinds : RpsGreater(h[p], k)}
<1>1. Cardinality(DOMAIN h \ win) \in Nat
  BY Finiteness, FS_Subset, FS_CardinalityType DEF IsHash
<1>2. win \in SUBSET Name
  BY DEF IsHash
<1>3. QED BY <1>1, <1>2 DEF RockPaperScissorsWinners

\* Evaluating the throw for actions keeps types.
LEMMA RpsForActionRuns ==
    ASSUME NEW l, IsLogicP(l), InRound(l)
    PROVE  RpsForAction(l) = l \/ RunsOn(l, RpsForAction(l))
<1> DEFINE replies == l.rpsForActionReplies
           outcome == RockPaperScissorsWinners(DOMAIN replies, replies)
           e == Emitted(l, "rpsResult")
           told == [e EXCEPT !.rpsForActionWinners = outcome]
           none == [p \in Name |-> 0]
           m == [told EXCEPT !.confirmedActionOrders = EmptyHash,
                             !.actionOrderYields = none]
<1>1. outcome \in [winners: SUBSET Name, times: Nat]
  BY WinnersType DEF IsLogicP, Typed
<1>2. RpsForAction(l) \in {l, StartRpsForAction(told), StartActionOrder(m)}
  BY DEF RpsForAction
<1>3. IsLogicP(e) /\ e.room = l.room /\ e.state = l.state
  BY EmittedRuns DEF ResultSignals, Fields
<1> HIDE DEF outcome, e
<1>4. HasFields(told)
  BY <1>3 DEF IsLogicP, HasFields
<1>5.
      /\ \A f \in Fields \ {"rpsForActionWinners"} :
            told[f] = e[f]
      /\ told.rpsForActionWinners = outcome
  BY <1>3 DEF IsLogicP, HasFields, Fields
<1> HIDE DEF told
<1>6. IsLogicP(told) /\ InRound(told) /\ told.room = l.room
  BY <1>1, <1>3, <1>4, <1>5 DEF IsLogicP, Typed, Fields, InRound
<1>7. none \in [Name -> Int]
  OBVIOUS
<1> HIDE DEF none
<1>8. HasFields(m)
  BY <1>6 DEF IsLogicP, HasFields
<1>9.
      /\ \A f \in Fields \ {"confirmedActionOrders", "actionOrderYields"} :
            m[f] = told[f]
      /\ m.confirmedActionOrders = EmptyHash
      /\ m.actionOrderYields = none
  BY <1>6 DEF IsLogicP, HasFields, Fields
<1> HIDE DEF m
<1>10. IsLogicP(m) /\ InRound(m) /\ m.room = l.room
  BY <1>6, <1>7, <1>8, <1>9, EmptyTyped DEF IsLogicP, Typed, Fields, InRound
<1>11. QED BY <1>2, <1>6, <1>10, StartRpsForActionRuns, StartActionOrderRuns DEF RunsOn

\* Evaluating the throw for an order keeps types.
LEMMA RpsForActionOrderRuns ==
    ASSUME NEW l, IsLogicP(l), InRound(l)
    PROVE  RpsForActionOrder(l) = l \/ RunsOn(l, RpsForActionOrder(l))
<1> DEFINE replies == l.rpsForActionOrderReplies
           order == l.currentStrivingActionOrder
           striving == Desirers(l.desiredActionOrders, order)
           winners == RockPaperScissorsWinners(DOMAIN replies, replies).winners
           losers == IF winners = {} THEN {} ELSE striving \ winners
           e == Emitted(l, "rpsResult")
           lost == {order} \X losers
           m == [e EXCEPT !.desiredActionOrders = @ \ lost]
<1>1. RpsForActionOrder(l) \in {l, StartRpsForActionOrder(m)}
  BY DEF RpsForActionOrder
<1>2. IsLogicP(e) /\ e.room = l.room /\ e.state = l.state
  BY EmittedRuns DEF ResultSignals, Fields
<1> HIDE DEF lost, e
<1>3. HasFields(m)
  BY <1>2 DEF IsLogicP, HasFields
<1>4.
      /\ \A f \in Fields \ {"desiredActionOrders"} :
            m[f] = e[f]
      /\ m.desiredActionOrders = e.desiredActionOrders \ lost
  BY <1>2 DEF IsLogicP, HasFields, Fields
<1> HIDE DEF m
<1>5. IsLogicP(m) /\ InRound(m) /\ m.room = l.room
  BY <1>2, <1>3, <1>4 DEF IsLogicP, Typed, Fields, InRound
<1>6. QED BY <1>1, <1>5, StartRpsForActionOrderRuns DEF RunsOn

-----------------------------------------------------------------------------
\* What every slot call keeps.

SpendableRoom(r) == \A p \in DOMAIN r : StatsInBounds(r[p]) /\ Spendable(r[p])

UpgradesInHand(l) ==
    \A p \in DOMAIN l.upgrades :
        /\ p \in DOMAIN l.room
        /\ l.upgrades[p] \in ItemCounts
        /\ UpgradeFeasible(l.room[p], l.upgrades[p])

\* The inductive invariant: PointsAreSpendable with the types it needs, and
\* item counts that are not negative.
Sound(l) ==
    /\ IsLogicP(l)
    /\ \A p \in DOMAIN l.room : StatsInBounds(l.room[p])
    /\ l.state # "BeforeRoundStart" => SpendableRoom(l.room)
    /\ l.state = "Upgrade" => UpgradesInHand(l)

\* The room of a typed LogicP is a room in the sense of the rules.
LEMMA RoomIsRoom ==
    ASSUME NEW l, IsLogicP(l)
    PROVE  IsRoom(l.room)
  BY DEF IsLogicP, Typed, IsHash, IsRoom

\* A phase that runs on from a room with spendable points is sound.
LEMMA RunsOnSound ==
    ASSUME NEW l, NEW m, RunsOn(l, m), SpendableRoom(l.room)
    PROVE  Sound(m)
  BY DEF RunsOn, Sound, SpendableRoom, UpgradesInHand, EmptyHash

\* Applying the upgrades leaves every stat within its bounds: each recorded
\* list was feasible for the player it is applied to.
LEMMA UpgradeSound ==
    ASSUME NEW l, IsLogicP(l), l.state = "Upgrade", SpendableRoom(l.room),
           UpgradesInHand(l)
    PROVE  Sound(Upgrade(l))
<1> DEFINE room == [p \in DOMAIN l.room |->
                      IF p \in DOMAIN l.upgrades
                      THEN Upgraded(l.room[p], l.upgrades[p]) ELSE l.room[p]]
           done == [l EXCEPT !.room = room, !.state = "BeforeRoundStart"]
           over == [done EXCEPT !.room = ResetUpgrades(room)]
<1>1. Upgrade(l) \in {l, Emitted(done, "upgradeResult"), Emitted(over, "gameOver")}
  BY DEF Upgrade
<1>2. \A p \in DOMAIN l.room : room[p] \in PlayerFields /\ StatsInBounds(room[p])
  <2> SUFFICES ASSUME NEW p \in DOMAIN l.room
               PROVE  room[p] \in PlayerFields /\ StatsInBounds(room[p])
    OBVIOUS
  <2>1. l.room[p] \in PlayerFields /\ StatsInBounds(l.room[p])
    BY RoomIsRoom DEF IsRoom, SpendableRoom
  <2>2. CASE p \in DOMAIN l.upgrades
    <3>1. l.upgrades[p] \in UpgradeItems /\ l.upgrades[p] \in ItemCounts
      BY <2>2 DEF UpgradesInHand, IsLogicP, Typed, IsHash
    <3>2. QED BY <2>1, <2>2, <3>1, UpgradedType
  <2>3. CASE p \notin DOMAIN l.upgrades
    BY <2>1, <2>3
  <2>4. QED BY <2>2, <2>3
<1>3. DOMAIN room = DOMAIN l.room /\ IsHash(room, Name, PlayerFields)
  BY <1>2, RoomIsRoom DEF IsHash, IsRoom
<1>4. /\ IsHash(ResetUpgrades(room), Name, PlayerFields)
      /\ \A p \in DOMAIN ResetUpgrades(room) :
            StatsInBounds(ResetUpgrades(room)[p])
  BY <1>2, <1>3, ResetInBounds DEF ResetUpgrades, IsHash
<1> HIDE DEF room
<1>5. HasFields(done)
  BY DEF IsLogicP, HasFields
<1>6.
      /\ \A f \in Fields \ {"room", "state"} :
            done[f] = l[f]
      /\ done.room = room
      /\ done.state = "BeforeRoundStart"
  BY DEF IsLogicP, HasFields, Fields
<1> HIDE DEF done
<1>7. IsLogicP(done)
  BY <1>3, <1>5, <1>6 DEF IsLogicP, Typed, Fields, States
<1> DEFINE fresh == ResetUpgrades(room)
<1> HIDE DEF fresh
<1>8. HasFields(over)
  BY <1>7 DEF IsLogicP, HasFields, fresh
<1>9. over = [done EXCEPT !.room = fresh]
  BY DEF fresh
<1>10.
      /\ \A f \in Fields \ {"room"} :
            over[f] = done[f]
      /\ over.room = fresh
  BY <1>7, <1>9 DEF IsLogicP, HasFields, Fields
<1> HIDE DEF over
<1>11. IsLogicP(over)
  BY <1>4, <1>7, <1>8, <1>10 DEF IsLogicP, Typed, Fields, fresh
<1>12. Sound(l)
  BY DEF Sound, SpendableRoom
<1>13. Sound(Emitted(done, "upgradeResult"))
  <2>1. /\ IsLogicP(Emitted(done, "upgradeResult"))
        /\ Emitted(done, "upgradeResult").room = room
        /\ Emitted(done, "upgradeResult").state = "BeforeRoundStart"
    BY <1>6, <1>7, EmittedRuns DEF Fields, ResultSignals
  <2>2. QED BY <1>2, <1>3, <2>1 DEF Sound
<1>14. Sound(Emitted(over, "gameOver"))
  <2>1. /\ IsLogicP(Emitted(over, "gameOver"))
        /\ Emitted(over, "gameOver").room = fresh
        /\ Emitted(over, "gameOver").state = "BeforeRoundStart"
    BY <1>6, <1>10, <1>11, EmittedRuns DEF Fields, ResultSignals
  <2>2. QED BY <1>4, <2>1 DEF Sound, fresh
<1>15. QED BY <1>1, <1>12, <1>13, <1>14

\* Inserting a value of the right type into a hash keeps its type.
LEMMA InsertType ==
    ASSUME NEW h, NEW K, NEW V, IsHash(h, K, V), NEW k \in K, NEW v \in V
    PROVE  IsHash(Insert(h, k, v), K, V)
  BY DEF IsHash, Insert

\* Taking a reply into account changes only what was asked and emitted.
LEMMA AnsweredType ==
    ASSUME IsLogicP(logic), NEW p
    PROVE  /\ IsLogicP(NewCall) /\ IsLogicP(Answered(p))
           /\ \A f \in Fields \ {"signals"} : NewCall[f] = logic[f]
           /\ \A f \in Fields \ {"signals", "asked"} :
                  Answered(p)[f] = logic[f]
<1> DEFINE n == NewCall
           a == Answered(p)
<1>1. HasFields(n) /\ n.signals = {}
         /\ \A f \in Fields \ {"signals"} : n[f] = logic[f]
  BY DEF IsLogicP, HasFields, Fields, NewCall
<1>2. a = [n EXCEPT !.asked = @ \ {p}]
  BY DEF Answered
<1> HIDE DEF n, a
<1>3. Typed(n)
  BY <1>1 DEF IsLogicP, Typed, Fields
<1>4. HasFields(a) /\ a.asked = n.asked \ {p}
         /\ \A f \in Fields \ {"asked"} : a[f] = n[f]
  BY <1>1, <1>2 DEF HasFields, Fields
<1>5. Typed(a)
  BY <1>3, <1>4 DEF Typed, Fields
<1>6. QED BY <1>1, <1>3, <1>4, <1>5 DEF IsLogicP, Fields, n, a

\* A new Logic is sound.
LEMMA InitSound == Init => Sound(logic)
<1> SUFFICES ASSUME Init PROVE Sound(logic)
  OBVIOUS
<1>1. HasFields(logic)
  BY DEF Init, HasFields, Fields
<1>2. /\ logic.room = EmptyHash /\ logic.state = "BeforeRoundStart"
      /\ logic.rpsForActionReplies = EmptyHash
      /\ logic.rpsForActionWinners = NoWinners
      /\ logic.desiredActionOrders = {}
      /\ logic.confirmedActionOrders = EmptyHash
      /\ logic.actionOrderRemainingSelections = EmptyHash
      /\ logic.actionOrderYields = [p \in Name |-> 0]
      /\ logic.currentStrivingActionOrder = 0
      /\ logic.rpsForActionOrderReplies = EmptyHash
      /\ logic.currentActionOrder = 0
      /\ logic.upgrades = EmptyHash
      /\ logic.asked = {} /\ logic.signals = {}
  BY DEF Init
<1>3. [p \in Name |-> 0] \in [Name -> Int]
  OBVIOUS
<1>4. Typed(logic)
  BY <1>2, <1>3, EmptyTyped DEF Typed, States
<1>5. \A p \in DOMAIN logic.room : StatsInBounds(logic.room[p])
  BY <1>2 DEF EmptyHash
<1>6. QED BY <1>1, <1>2, <1>4, <1>5 DEF Sound, IsLogicP

\* Between rounds: the room is replaced by one whose stats are in bounds.
LEMMA RoomReplaced ==
    ASSUME IsLogicP(logic), NEW room, IsRoom(room)
    PROVE  LET m == [NewCall EXCEPT !.room = room]
           IN  /\ IsLogicP(m) /\ m.room = room
               /\ m.state = logic.state
<1> DEFINE m == [NewCall EXCEPT !.room = room]
<1>1. /\ IsLogicP(NewCall)
      /\ \A f \in Fields \ {"signals"} : NewCall[f] = logic[f]
  BY AnsweredType
<1>2. HasFields(m)
  BY <1>1 DEF IsLogicP, HasFields
<1>3. m.room = room /\ \A f \in Fields \ {"room"} : m[f] = NewCall[f]
  BY <1>1 DEF IsLogicP, HasFields, Fields
<1> HIDE DEF m
<1>4. IsHash(room, Name, PlayerFields)
  BY DEF IsRoom, IsHash
<1>5. Typed(m)
  BY <1>1, <1>3, <1>4 DEF IsLogicP, Typed, Fields
<1>6. QED BY <1>1, <1>2, <1>3, <1>5 DEF IsLogicP, Fields, m

\* A player who joins has the initial stats, and so has everybody else.
LEMMA AddPlayerSound ==
    ASSUME Sound(logic), NEW p \in Name, AddPlayer(p)
    PROVE  Sound(logic')
<1> DEFINE room == ResetUpgrades(Insert(logic.room, p, NewPlayer))
<1>1. IsHash(logic.room, Name, PlayerFields)
  BY DEF Sound, IsLogicP, Typed
<1>2. IsHash(Insert(logic.room, p, NewPlayer), Name, PlayerFields)
  BY <1>1, NewPlayerInBounds, InsertType
<1>3. IsRoom(room) /\ \A q \in DOMAIN room : StatsInBounds(room[q])
  BY <1>2, ResetInBounds DEF ResetUpgrades, IsHash, IsRoom
<1>4. logic' = [NewCall EXCEPT !.room = room]
  <2>1. NewCall.room = logic.room
    BY AnsweredType DEF Sound, Fields
  <2>2. QED BY <2>1 DEF AddPlayer
<1> HIDE DEF room
<1>5. IsLogicP(logic') /\ logic'.room = room /\ logic'.state = "BeforeRoundStart"
  BY <1>3, <1>4, RoomReplaced DEF Sound, AddPlayer
<1>6. QED BY <1>3, <1>5 DEF Sound

\* When a player leaves, everybody starts from the initial stats again.
LEMMA RemovePlayerSound ==
    ASSUME Sound(logic), NEW p \in Name, RemovePlayer(p)
    PROVE  Sound(logic')
<1> DEFINE rest == [q \in DOMAIN logic.room \ {p} |-> logic.room[q]]
           room == ResetUpgrades(rest)
<1>1. IsHash(logic.room, Name, PlayerFields)
  BY DEF Sound, IsLogicP, Typed
<1>2. IsHash(rest, Name, PlayerFields)
  BY <1>1 DEF IsHash
<1>3. IsRoom(room) /\ \A q \in DOMAIN room : StatsInBounds(room[q])
  BY <1>2, ResetInBounds DEF ResetUpgrades, IsHash, IsRoom
<1>4. logic' = [NewCall EXCEPT !.room = room]
  <2>1. NewCall.room = logic.room
    BY AnsweredType DEF Sound, Fields
  <2>2. QED BY <2>1 DEF RemovePlayer
<1> HIDE DEF room
<1>5. IsLogicP(logic') /\ logic'.room = room /\ logic'.state = "BeforeRoundStart"
  BY <1>3, <1>4, RoomReplaced DEF Sound, RemovePlayer
<1>6. QED BY <1>3, <1>5 DEF Sound

\* A round starts with no points and with the stats bought so far.
LEMMA RoundStartSound ==
    ASSUME Sound(logic), RoundStart
    PROVE  Sound(logic')
<1> DEFINE room == PrepareForRoundStart(logic.room)
           m == [NewCall EXCEPT !.room = room]
<1>1. IsRoom(logic.room) /\ \A q \in DOMAIN logic.room : StatsInBounds(logic.room[q])
  BY RoomIsRoom DEF Sound
<1>2. \A p \in DOMAIN logic.room :
         /\ room[p] \in PlayerFields /\ StatsInBounds(room[p])
         /\ Spendable(room[p])
  <2> SUFFICES ASSUME NEW p \in DOMAIN logic.room
               PROVE  /\ room[p] \in PlayerFields /\ StatsInBounds(room[p])
                      /\ Spendable(room[p])
    OBVIOUS
  <2> DEFINE seat == Cardinality({q \in DOMAIN logic.room : q <= p})
  <2>1. seat \in Int
    BY <1>1, Finiteness, FS_Subset, FS_CardinalityType DEF IsRoom
  <2>2. room[p] = PreparedForRoundStart(logic.room[p], seat)
    BY DEF PrepareForRoundStart
  <2>3. logic.room[p] \in PlayerFields
    BY <1>1 DEF IsRoom
  <2>4. QED BY <1>1, <2>1, <2>2, <2>3, PreparedSpendable
<1>3. DOMAIN room = DOMAIN logic.room /\ IsRoom(room) /\ SpendableRoom(room)
  <2>1. DOMAIN room = DOMAIN logic.room
    BY DEF PrepareForRoundStart
  <2>2. room = [p \in DOMAIN room |-> room[p]]
    BY DEF PrepareForRoundStart
  <2> HIDE DEF room
  <2>3. QED BY <1>1, <1>2, <2>1, <2>2 DEF IsRoom, SpendableRoom
<1>4. logic' = StartRpsForAction(m)
  <2>1. NewCall.room = logic.room
    BY AnsweredType DEF Sound, Fields
  <2>2. QED BY <2>1 DEF RoundStart
<1> HIDE DEF room
<1>5. IsLogicP(m) /\ m.room = room
  BY <1>3, RoomReplaced DEF Sound
<1> HIDE DEF m
<1>6. RunsOn(m, logic')
  BY <1>4, <1>5, StartRpsForActionRuns
<1>7. QED BY <1>3, <1>5, <1>6, RunsOnSound

\* A throw keeps LogicP sound, in both phases that ask for one.
LEMMA RpsReplySound ==
    ASSUME Sound(logic), NEW p \in Name, NEW rps \in Throws, RpsReply(p, rps)
    PROVE  Sound(logic')
<1> DEFINE a == Answered(p)
           first == Insert(a.rpsForActionReplies, p, rps)
           second == Insert(a.rpsForActionOrderReplies, p, rps)
           m == [a EXCEPT !.rpsForActionReplies = first]
           n == [a EXCEPT !.rpsForActionOrderReplies = second]
<1>1. /\ IsLogicP(a) /\ a.state = logic.state
      /\ a.room = logic.room
  BY AnsweredType DEF Sound, Fields
<1>2. rps \in RockPaperScissors
  BY RepliesAssumption
<1>3. /\ IsHash(first, Name, RockPaperScissors)
      /\ IsHash(second, Name, RockPaperScissors)
  BY <1>1, <1>2, InsertType DEF IsLogicP, Typed
<1>4. CASE RpsReplyForAction(p, rps)
  <2>1. logic' = RpsForAction(m) /\ logic.state = "RpsForAction"
    BY <1>4 DEF RpsReplyForAction
  <2> HIDE DEF a, first
  <2>2. HasFields(m)
    BY <1>1 DEF IsLogicP, HasFields
  <2>3.
        /\ \A f \in Fields \ {"rpsForActionReplies"} :
              m[f] = a[f]
        /\ m.rpsForActionReplies = first
    BY <1>1 DEF IsLogicP, HasFields, Fields
  <2> HIDE DEF m
  <2>4. IsLogicP(m) /\ m.state = "RpsForAction" /\ m.room = logic.room
    BY <1>1, <1>3, <2>1, <2>2, <2>3 DEF IsLogicP, Typed, Fields
  <2>5. logic' = m \/ RunsOn(m, logic')
    BY <2>1, <2>4, RpsForActionRuns DEF InRound
  <2>6. SpendableRoom(m.room)
    BY <2>1, <2>4 DEF Sound
  <2>7. Sound(m)
    BY <2>4, <2>6 DEF Sound, SpendableRoom
  <2>8. QED BY <2>5, <2>6, <2>7, RunsOnSound
<1>5. CASE RpsReplyForActionOrder(p, rps)
  <2>1. logic' = RpsForActionOrder(n) /\ logic.state = "RpsForActionOrder"
    BY <1>5 DEF RpsReplyForActionOrder
  <2> HIDE DEF a, second
  <2>2. HasFields(n)
    BY <1>1 DEF IsLogicP, HasFields
  <2>3.
        /\ \A f \in Fields \ {"rpsForActionOrderReplies"} :
              n[f] = a[f]
        /\ n.rpsForActionOrderReplies = second
    BY <1>1 DEF IsLogicP, HasFields, Fields
  <2> HIDE DEF n
  <2>4. IsLogicP(n) /\ n.state = "RpsForActionOrder" /\ n.room = logic.room
    BY <1>1, <1>3, <2>1, <2>2, <2>3 DEF IsLogicP, Typed, Fields
  <2>5. logic' = n \/ RunsOn(n, logic')
    BY <2>1, <2>4, RpsForActionOrderRuns DEF InRound
  <2>6. SpendableRoom(n.room)
    BY <2>1, <2>4 DEF Sound
  <2>7. Sound(n)
    BY <2>4, <2>6 DEF Sound, SpendableRoom
  <2>8. QED BY <2>5, <2>6, <2>7, RunsOnSound
<1>6. QED BY <1>4, <1>5 DEF RpsReply

\* A list of orders keeps LogicP sound, taken or replaced by yields.
LEMMA ActionOrderReplySound ==
    ASSUME Sound(logic), NEW p \in Name, NEW list, ActionOrderReply(p, list)
    PROVE  Sound(logic')
<1> DEFINE a == Answered(p)
           selections == logic.actionOrderRemainingSelections[p]
           chosen == IF OrderListAccepted(p, list)
                     THEN {o \in Order : \E i \in DOMAIN list : list[i] = o}
                     ELSE {}
           yields == selections - Cardinality(chosen)
           desired == a.desiredActionOrders \cup (chosen \X {p})
           yielded == [a.actionOrderYields EXCEPT ![p] = @ + yields]
           rest == [q \in DOMAIN a.actionOrderRemainingSelections \ {p} |->
                       a.actionOrderRemainingSelections[q]]
           m == [a EXCEPT !.desiredActionOrders = desired,
                          !.actionOrderYields = yielded,
                          !.actionOrderRemainingSelections = rest]
<1>1. /\ IsLogicP(a) /\ a.state = logic.state /\ a.room = logic.room
      /\ a.actionOrderRemainingSelections = logic.actionOrderRemainingSelections
      /\ a.actionOrderYields = logic.actionOrderYields
      /\ a.desiredActionOrders = logic.desiredActionOrders
  BY AnsweredType DEF Sound, Fields
<1>2. /\ logic.state = "ActionOrder"
      /\ p \in DOMAIN logic.actionOrderRemainingSelections
  BY DEF ActionOrderReply
<1>3. chosen \subseteq Order /\ yields \in Int
  <2>1. chosen \subseteq Order
    OBVIOUS
  <2>2. selections \in Int
    BY <1>2 DEF Sound, IsLogicP, Typed, IsHash
  <2> HIDE DEF chosen, selections
  <2>3. Cardinality(chosen) \in Nat
    BY <2>1, Finiteness, FS_Subset, FS_CardinalityType
  <2>4. QED BY <2>1, <2>2, <2>3
<1>4. logic' = ActionOrder(m)
  <2>1. logic' = ActionOrder([a EXCEPT
           !.desiredActionOrders = @ \cup (chosen \X {p}),
           !.actionOrderYields[p] = @ + yields,
           !.actionOrderRemainingSelections = [q \in DOMAIN @ \ {p} |-> @[q]]])
    BY DEF ActionOrderReply
  <2> HIDE DEF a, chosen, yields
  <2>2. m = [a EXCEPT
           !.desiredActionOrders = @ \cup (chosen \X {p}),
           !.actionOrderYields[p] = @ + yields,
           !.actionOrderRemainingSelections = [q \in DOMAIN @ \ {p} |-> @[q]]]
    BY <1>1 DEF IsLogicP, HasFields, Fields
  <2>3. QED BY <2>1, <2>2
<1> HIDE DEF chosen, yields
<1>5. desired \subseteq Order \X Name
  BY <1>1, <1>3 DEF IsLogicP, Typed
<1>6. yielded \in [Name -> Int]
  <2>1. a.actionOrderYields \in [Name -> Int]
    BY <1>1 DEF IsLogicP, Typed
  <2>2. QED BY <1>3, <2>1
<1>7. IsHash(rest, Name, Int)
  BY <1>1 DEF IsLogicP, Typed, IsHash
<1> HIDE DEF a, desired, yielded, rest
<1>8. HasFields(m)
  BY <1>1 DEF IsLogicP, HasFields
<1>9.
      /\ \A f \in Fields \ {"desiredActionOrders", "actionOrderRemainingSelections", "actionOrderYields"} :
            m[f] = a[f]
      /\ m.desiredActionOrders = desired
      /\ m.actionOrderRemainingSelections = rest
      /\ m.actionOrderYields = yielded
  BY <1>1 DEF IsLogicP, HasFields, Fields
<1> HIDE DEF m
<1>10. IsLogicP(m) /\ m.state = "ActionOrder" /\ m.room = logic.room
  BY <1>1, <1>2, <1>5, <1>6, <1>7, <1>8, <1>9 DEF IsLogicP, Typed, Fields
<1>11. logic' = m \/ RunsOn(m, logic')
  BY <1>4, <1>10, StartRpsForActionOrderRuns DEF ActionOrder, InRound
<1>12. SpendableRoom(m.room)
  BY <1>2, <1>10 DEF Sound
<1>13. Sound(m)
  BY <1>10, <1>12 DEF Sound, SpendableRoom
<1>14. QED BY <1>11, <1>12, <1>13, RunsOnSound

\* An action keeps LogicP sound, feasible or not.
LEMMA ActionReplySound ==
    ASSUME Sound(logic), NEW p \in Name, NEW reply \in ActionReplies,
           ActionReply(p, reply)
    PROVE  Sound(logic')
<1> DEFINE a == Answered(p)
           e == Emitted(a, "actionResult")
           room == IF ActionFeasible(logic.room, p, reply)
                   THEN ApplyAction(logic.room, p, reply) ELSE logic.room
           m == [e EXCEPT !.room = room]
<1>1. IsLogicP(a) /\ a.state = logic.state /\ a.room = logic.room
  BY AnsweredType DEF Sound, Fields
<1>2. logic.state = "Action" /\ p \in DOMAIN logic.room
  BY DEF ActionReply
<1>3. IsLogicP(e) /\ e.state = "Action" /\ e.room = logic.room
  BY <1>1, <1>2, EmittedRuns DEF ResultSignals, Fields
<1>4. IsRoom(logic.room) /\ SpendableRoom(logic.room)
  BY <1>2, RoomIsRoom DEF Sound
<1>5. RoomKept(logic.room, room)
  <2>1. reply.toPlace \in Int
    BY RepliesAssumption
  <2>2. CASE ActionFeasible(logic.room, p, reply)
    BY <1>2, <1>4, <2>1, <2>2, ActionsKeepStats
  <2>3. CASE ~ActionFeasible(logic.room, p, reply)
    BY <1>4, <2>3, RoomKeptSelf
  <2>4. QED BY <2>2, <2>3
<1>6. logic' = StartAction(m)
  BY <1>3 DEF ActionReply
<1> HIDE DEF room, e
<1>7. SpendableRoom(room) /\ IsHash(room, Name, PlayerFields)
  <2>1. ASSUME NEW q \in DOMAIN room
        PROVE  StatsInBounds(room[q]) /\ Spendable(room[q])
    <3>1. /\ q \in DOMAIN logic.room
          /\ Kept(logic.room[q], room[q])
      BY <1>5 DEF RoomKept
    <3>2. StatsInBounds(logic.room[q]) /\ Spendable(logic.room[q])
      BY <1>4, <3>1 DEF SpendableRoom
    <3>3. QED BY <3>1, <3>2 DEF Kept, Spendable, StatsInBounds
  <2>2. QED BY <1>5, <2>1 DEF SpendableRoom, RoomKept, IsRoom, IsHash
<1>8. HasFields(m)
  BY <1>3 DEF IsLogicP, HasFields
<1>9.
      /\ \A f \in Fields \ {"room"} :
            m[f] = e[f]
      /\ m.room = room
  BY <1>3 DEF IsLogicP, HasFields, Fields
<1> HIDE DEF m
<1>10. IsLogicP(m) /\ InRound(m) /\ m.room = room
  BY <1>3, <1>7, <1>8, <1>9 DEF IsLogicP, Typed, Fields, InRound
<1>11. QED BY <1>6, <1>7, <1>10, StartActionRuns, RunsOnSound

\* A list of upgrades keeps LogicP sound, taken or replaced by the default.
LEMMA UpgradeReplySound ==
    ASSUME Sound(logic), NEW p \in Name, NEW items \in UpgradeReplies,
           UpgradeReply(p, items)
    PROVE  Sound(logic')
<1> DEFINE a == Answered(p)
           player == logic.room[p]
           chosen == IF UpgradeFeasible(player, items)
                     THEN items ELSE DefaultUpgrade(player)
           upgrades == Insert(logic.upgrades, p, chosen)
           m == [a EXCEPT !.upgrades = upgrades]
<1>1. /\ IsLogicP(a) /\ a.state = logic.state /\ a.room = logic.room
      /\ a.upgrades = logic.upgrades
  BY AnsweredType DEF Sound, Fields
<1>2. logic.state = "Upgrade" /\ p \in DOMAIN logic.room
  BY DEF UpgradeReply
<1>3. logic' = Upgrade(m)
  BY <1>1 DEF UpgradeReply
<1>4. /\ player \in PlayerFields /\ StatsInBounds(player) /\ Spendable(player)
  BY <1>2, RoomIsRoom DEF Sound, IsRoom, SpendableRoom
<1>5. chosen \in ItemCounts /\ UpgradeFeasible(player, chosen)
  <2>1. items \in ItemCounts
    BY RepliesAssumption DEF ItemCounts
  <2>2. QED BY <1>4, <2>1, DefaultUpgradeFeasible
<1>6. chosen \in UpgradeItems
  BY <1>5 DEF ItemCounts, UpgradeItems
<1> HIDE DEF chosen
<1>7. IsHash(upgrades, Name, UpgradeItems)
  BY <1>6, InsertType DEF Sound, IsLogicP, Typed
<1>8. \A q \in DOMAIN upgrades :
         /\ q \in DOMAIN logic.room
         /\ upgrades[q] \in ItemCounts
         /\ UpgradeFeasible(logic.room[q], upgrades[q])
  BY <1>2, <1>5 DEF Insert, Sound, UpgradesInHand
<1> HIDE DEF a, upgrades
<1>9. HasFields(m)
  BY <1>1 DEF IsLogicP, HasFields
<1>10.
      /\ \A f \in Fields \ {"upgrades"} :
            m[f] = a[f]
      /\ m.upgrades = upgrades
  BY <1>1 DEF IsLogicP, HasFields, Fields
<1> HIDE DEF m
<1>11. IsLogicP(m) /\ m.state = "Upgrade" /\ m.room = logic.room
  BY <1>1, <1>2, <1>7, <1>9, <1>10 DEF IsLogicP, Typed, Fields
<1>12. SpendableRoom(m.room) /\ UpgradesInHand(m)
  BY <1>2, <1>8, <1>10, <1>11 DEF Sound, UpgradesInHand
<1>13. QED BY <1>3, <1>11, <1>12, UpgradeSound

\* Every call of a slot keeps LogicP sound.
LEMMA NextSound ==
    ASSUME Sound(logic), [Next]_logic
    PROVE  Sound(logic')
<1>1. ASSUME NEW p \in Name, AddPlayer(p) PROVE Sound(logic')
  BY <1>1, AddPlayerSound
<1>2. ASSUME NEW p \in Name, RemovePlayer(p) PROVE Sound(logic')
  BY <1>2, RemovePlayerSound
<1>3. ASSUME RoundStart PROVE Sound(logic')
  BY <1>3, RoundStartSound
<1>4. ASSUME NEW p \in logic.asked, Reply(p) PROVE Sound(logic')
  <2>1. p \in Name
    BY DEF Sound, IsLogicP, Typed
  <2>2. ASSUME NEW rps \in Throws, RpsReply(p, rps) PROVE Sound(logic')
    BY <2>1, <2>2, RpsReplySound
  <2>3. ASSUME NEW list \in OrderReplies, ActionOrderReply(p, list)
        PROVE  Sound(logic')
    BY <2>1, <2>3, ActionOrderReplySound
  <2>4. ASSUME NEW a \in ActionReplies, ActionReply(p, a) PROVE Sound(logic')
    BY <2>1, <2>4, ActionReplySound
  <2>5. ASSUME NEW items \in UpgradeReplies, UpgradeReply(p, items)
        PROVE  Sound(logic')
    BY <2>1, <2>5, UpgradeReplySound
  <2>6. QED BY <1>4, <2>2, <2>3, <2>4, <2>5 DEF Reply
<1>5. CASE UNCHANGED logic
  BY <1>5
<1>6. QED BY <1>1, <1>2, <1>3, <1>4, <1>5 DEF Next

\* LogicP is always sound: the inductive invariant of this module.
LEMMA AlwaysSound == Spec => []Sound(logic)
<1>1. Init => Sound(logic)
  BY InitSound
<1>2. Sound(logic) /\ [Next]_logic => Sound(logic)'
  BY NextSound
<1>3. QED BY <1>1, <1>2, PTL DEF Spec

\* The fields of LogicP keep their types, whatever replies arrive.
THEOREM LogicTypeOK == Spec => []TypeOK
<1>1. Sound(logic) => TypeOK
  BY DEF Sound, IsLogicP, TypeOK
<1>2. QED BY <1>1, AlwaysSound, PTL

\* However long a match goes on, points can be spent in full, stats stay
\* between their initial value and their maximum, and the upgrades in hand can
\* be applied without one of them being refused.
THEOREM LogicPointsAreSpendable == Spec => []PointsAreSpendable
<1>1. Sound(logic) => PointsAreSpendable
  BY DEF Sound, PointsAreSpendable, SpendableRoom, Spendable, UpgradesInHand
<1>2. QED BY <1>1, AlwaysSound, PTL
=============================================================================

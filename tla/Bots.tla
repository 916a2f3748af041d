--------------------------------- MODULE Bots ---------------------------------
(***************************************************************************)
(* What the two strategies of QMdmmBot answer the logic's requests with, as *)
(* functions of the bot's mirror of the room (see Mirror) and of its        *)
(* memory of who hit it.  The bots have no state of their own but that      *)
(* memory, which here is any function to Grudges: its values are hits that  *)
(* fade from round to round, and only how they compare with threats counts. *)
(* Scores are doubled, so that the weight of an adjacent peer is a number.  *)
(***************************************************************************)
EXTENDS Mirror

CONSTANT Grudges    \* what a bot may hold against a peer, doubled

ASSUME GrudgesAssumption == Grudges \subseteq Nat

\* The member of S that comes first in name order, if there is one.
First(S) ==
    IF S = {} THEN Nobody ELSE CHOOSE p \in S : \A q \in S : p <= q

Opponents(room, self) == AlivePlayers(room) \ {self}

-----------------------------------------------------------------------------
\* Whom to aim at.

ThreatScore(room, self, peer) ==
    LET here == room[self].place
        reach == IF room[peer].place = here THEN 2
                 ELSE IF IsPlaceAdjacent(room[peer].place, here) THEN 1 ELSE 0
        knife == IF room[peer].hasKnife THEN room[peer].knifeDamage ELSE 0
        horse == IF room[peer].hasHorse /\ here # Village
                 THEN room[peer].horseDamage ELSE 0
    IN  IF Dead(room[self]) \/ Dead(room[peer]) THEN 0
        ELSE reach * (knife + horse)

TargetScore(room, self, grudge, peer) ==
    grudge[peer] + ThreatScore(room, self, peer)

\* The first of the peers among S that no other outscores; none at zero.
BestScored(room, self, grudge, S) ==
    LET score(p) == TargetScore(room, self, grudge, p)
    IN  First({p \in S : score(p) > 0 /\ \A q \in S : score(q) <= score(p)})

SelectTarget(room, self, grudge) ==
    BestScored(room, self, grudge, Opponents(room, self))

\* Among those in the same place, or else the first of them.
AttackTarget(room, self, grudge) ==
    LET here == {p \in Opponents(room, self) :
                    room[p].place = room[self].place}
        best == BestScored(room, self, grudge, here)
    IN  IF best # Nobody THEN best ELSE First(here)

CanSlashSafely(room, self, to) ==
    /\ CanSlash(room, self, to)
    /\ ~DeadAtHp(room[self].hp - SlashPunishHp(room[self]))

-----------------------------------------------------------------------------
\* Which orders to ask for.

\* Mutant: the kick is left out.
BlowWouldFinishBySlash(room, attacker, victim) ==
    /\ CanSlash(room, attacker, victim)
    /\ DeadAtHp(room[victim].hp - room[attacker].knifeDamage)

BlowWouldFinish(room, attacker, victim) ==
    \/ /\ CanSlash(room, attacker, victim)
       /\ DeadAtHp(room[victim].hp - room[attacker].knifeDamage)
    \/ /\ CanKick(room, attacker, victim)
       /\ DeadAtHp(room[victim].hp - room[attacker].horseDamage)

FinishingBlowsOnTheTable(room) ==
    {blow \in AlivePlayers(room) \X AlivePlayers(room) :
        blow[1] # blow[2] /\ BlowWouldFinish(room, blow[1], blow[2])}

APeerCouldFinishSelf(room, self) ==
    \E peer \in Opponents(room, self) : BlowWouldFinish(room, peer, self)

SelfCouldFinishAPeer(room, self) ==
    \E peer \in Opponents(room, self) : BlowWouldFinish(room, self, peer)

RoundCouldEndEarly(room) ==
    LET alive == Cardinality(AlivePlayers(room))
    IN  /\ alive > 1
        /\ Cardinality(FinishingBlowsOnTheTable(room)) >= alive - 1

\* Late orders are as good as early ones while no blow can be fatal.
HoldBack(room, self) ==
    /\ ~APeerCouldFinishSelf(room, self)
    /\ ~SelfCouldFinishAPeer(room, self)
    /\ ~RoundCouldEndEarly(room)
    /\ FinishingBlowsOnTheTable(room) = {}

\* Mutant: the latest offers are counted from one too far down.
DesiredActionOrdersOneTooMany(offers, selectionNum, holdBack) ==
    LET below(o) == Cardinality({x \in offers : x < o})
        above(o) == Cardinality({x \in offers : x > o})
    IN  Ascending({o \in offers :
            IF holdBack THEN above(o) <= selectionNum
                        ELSE below(o) < selectionNum})

\* As many of the offered orders as there are selections, from either end,
\* ascending.
DesiredActionOrders(offers, selectionNum, holdBack) ==
    LET below(o) == Cardinality({x \in offers : x < o})
        above(o) == Cardinality({x \in offers : x > o})
    IN  Ascending({o \in offers :
            IF holdBack THEN above(o) < selectionNum
                        ELSE below(o) < selectionNum})

-----------------------------------------------------------------------------
\* What to do with a turn: the first line that applies.

Does(action) == [DoNothing EXCEPT !.action = action]
DoesTo(action, peer) == [Does(action) EXCEPT !.toPlayer = peer]
MovesTo(place) == [Does("Move") EXCEPT !.toPlace = place]

TwoSlashesFinishEveryone(room, self) ==
    \A peer \in Opponents(room, self) :
        room[peer].maxHp <= 2 * room[self].knifeDamage

\* Mutant: the blow need not finish the peer off.
SlashIsWorthItsPunishAlways(room, self, to) ==
    CanSlash(room, self, to) /\ TwoSlashesFinishEveryone(room, self)

\* The knife style's last trade: its own life for a peer's, in a duel it would
\* not lose to one blow.
SlashIsWorthItsPunish(room, self, to) ==
    LET knife == IF room[to].hasKnife THEN {room[to].knifeDamage} ELSE {}
        horse == IF room[to].hasHorse /\ room[to].place # Village
                 THEN {room[to].horseDamage} ELSE {}
    IN  /\ CanSlash(room, self, to)
        /\ TwoSlashesFinishEveryone(room, self)
        /\ room[to].hp <= room[self].knifeDamage
        /\ \A peerBlow \in {0} \cup knife \cup horse :
              peerBlow < room[self].maxHp
        /\ Cardinality(AlivePlayers(room)) <= 2

KnifePreferredAction(room, self, grudge) ==
    LET me == room[self]
        shops == {place \in 1..Cardinality(DOMAIN room) : CanMove(me, place)}
        to == AttackTarget(room, self, grudge)
        target == SelectTarget(room, self, grudge)
        marchOn == IF target # Nobody THEN target
                   ELSE First(Opponents(room, self))
        dest == IF me.place = Village THEN room[marchOn].place ELSE Village
    IN  IF ~me.hasKnife /\ CanBuyKnife(me) THEN Does("BuyKnife")
        ELSE IF ~me.hasKnife /\ shops # {} THEN MovesTo(First(shops))
        ELSE IF to # Nobody /\ (\/ CanSlashSafely(room, self, to)
                                \/ SlashIsWorthItsPunish(room, self, to))
        THEN DoesTo("Slash", to)
        ELSE IF to # Nobody /\ CanKick(room, self, to) THEN DoesTo("Kick", to)
        ELSE IF ~TwoSlashesFinishEveryone(room, self) /\ CanBuyHorse(me)
        THEN Does("BuyHorse")
        ELSE IF marchOn # Nobody /\ CanMove(me, dest) THEN MovesTo(dest)
        ELSE DoNothing

\* The rated peer, if the horse style can drag it into its own city.
PullTarget(room, self, grudge) ==
    LET target == SelectTarget(room, self, grudge)
    IN  IF /\ room[self].place # Village
           /\ target # Nobody
           /\ CanLetMove(room, self, target, room[self].place)
        THEN target ELSE Nobody

NoPlace == -1

WantedPlace(room, self, grudge) ==
    LET me == room[self]
        rated == SelectTarget(room, self, grudge)
        shopping == \/ ~me.hasHorse /\ ~CanBuyHorse(me)
                    \/ ~me.hasKnife /\ ~CanBuyKnife(me)
        others == Opponents(room, self)
    IN  IF rated # Nobody /\ CanMove(me, room[rated].place)
        THEN room[rated].place
        ELSE IF shopping THEN me.initialPlace
        ELSE IF rated # Nobody THEN room[rated].place
        ELSE IF others # {} THEN room[First(others)].place
        ELSE NoPlace

HorsePreferredAction(room, self, grudge) ==
    LET me == room[self]
        to == AttackTarget(room, self, grudge)
        victim == PullTarget(room, self, grudge)
        wanted == WantedPlace(room, self, grudge)
        dest == IF CanMove(me, wanted) THEN wanted ELSE Village
    IN  IF to # Nobody /\ CanKick(room, self, to) THEN DoesTo("Kick", to)
        ELSE IF to # Nobody /\ CanSlashSafely(room, self, to)
        THEN DoesTo("Slash", to)
        ELSE IF ~me.hasHorse /\ CanBuyHorse(me) THEN Does("BuyHorse")
        ELSE IF victim # Nobody
        THEN [DoesTo("LetMove", victim) EXCEPT !.toPlace = me.place]
        ELSE IF ~me.hasKnife /\ CanBuyKnife(me) THEN Does("BuyKnife")
        ELSE IF wanted # NoPlace /\ CanMove(me, dest) THEN MovesTo(dest)
        ELSE DoNothing

-----------------------------------------------------------------------------
\* What to spend the points on; a list without items stands for giving up.

KnifePreferredUpgrade(p, points) ==
    LET knife == Least(points, UpgradeKnifeRemainingTimes(p))
        maxHp == Least(points - knife, UpgradeMaxHpRemainingTimes(p))
        horse == Least(points - knife - maxHp, UpgradeHorseRemainingTimes(p))
    IN  IF RemainingTimes(p) < points THEN [knife |-> 0, horse |-> 0, maxHp |-> 0]
        ELSE [knife |-> knife, horse |-> horse, maxHp |-> maxHp]

HorsePreferredUpgrade(p, points) ==
    LET horse == Least(points, UpgradeHorseRemainingTimes(p))
        knife == Least(points - horse, UpgradeKnifeRemainingTimes(p))
        maxHp == Least(points - horse - knife, UpgradeMaxHpRemainingTimes(p))
    IN  IF RemainingTimes(p) < points THEN [knife |-> 0, horse |-> 0, maxHp |-> 0]
        ELSE [knife |-> knife, horse |-> horse, maxHp |-> maxHp]

-----------------------------------------------------------------------------
Killed(room, p, a) ==
    LET after == ApplyAction(room, p, a)
    IN  {q \in DOMAIN room : Alive(room[q]) /\ Dead(after[q])}

\* The action reaches the logic as sent and is taken there and by every mirror;
\* a turn is not passed up; and a bot dies of its own slash only if its peer
\* does too.
TurnWellSpent(p, a) ==
    LET room == logic.room IN
    /\ DecodeActionReply(a) = Passed(a)
    /\ NotifyAction(room, p, ActionNotified(a)).success
    /\ a.action # "DoNothing"
    /\ p \in Killed(room, p, a) => a.toPlayer \in Killed(room, p, a)

\* While a bot may hold back, no single action of anybody kills anybody else.
WaitingIsSafe(p) ==
    HoldBack(logic.room, p) =>
        \A q \in AlivePlayers(logic.room), a \in ActionReplies :
            ActionFeasible(logic.room, q, a) =>
                Killed(logic.room, q, a) \subseteq {q}

\* Whatever the other players do and whatever a bot remembers of it, both
\* strategies use every turn and every point, legally - "QMdmmBot's whole-match
\* case fails the run on an illegal reply" (Logic::actionReply) - and lead
\* nobody to wait for a turn while a blow could be fatal.
BotsPlayTheRules ==
    (\A p \in DOMAIN logic.room : OnTheMap([toPlace |-> logic.room[p].place])) =>
        /\ logic.state = "Action" =>
              \A p \in Awaited :
                  /\ \A grudge \in [Name -> Grudges] :
                        LET knife == KnifePreferredAction(logic.room, p, grudge)
                            horse == HorsePreferredAction(logic.room, p, grudge)
                        IN  TurnWellSpent(p, knife) /\ TurnWellSpent(p, horse)
                  /\ WaitingIsSafe(p)
        /\ logic.state = "Upgrade" =>
              \A p \in Awaited :
                  LET points == RequestUpgrade(p)
                      me == logic.room[p]
                  IN  \A items \in {KnifePreferredUpgrade(me, points),
                                   HorsePreferredUpgrade(me, points)} :
                         /\ DecodeUpgradeReply(points, items) = Passed(items)
                         /\ UpgradeFeasible(me, items)
=============================================================================

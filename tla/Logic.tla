--------------------------------- MODULE Logic ---------------------------------
(***************************************************************************)
(* The match logic of one room: Logic and LogicP.  A synchronous,          *)
(* reply-driven state machine: a slot call records one reply and, once the *)
(* phase has every reply it waits for, runs on in the same call until the  *)
(* next request goes out.  `logic` holds the fields of LogicP and two      *)
(* fields for what the object has emitted:                                 *)
(*   asked     the players with a request signal not answered yet          *)
(*   signals   the result signals of the last slot call                    *)
(* A QHash is a function on its keys; rpsForActionWinners, used as a bag,  *)
(* is its distinct names and how often each is listed.                     *)
(***************************************************************************)
EXTENDS PlayerRules, Sequences

CONSTANTS
    Throws,         \* the throws an rpsReply may carry
    OrderReplies,   \* lists an actionOrderReply may carry
    ActionReplies,  \* actions an actionReply may carry
    UpgradeReplies  \* items an upgradeReply may carry

VARIABLE logic

Actions ==
    {"DoNothing", "BuyKnife", "BuyHorse", "Slash", "Kick", "Move", "LetMove"}

ASSUME RepliesAssumption ==
    /\ Throws \subseteq RockPaperScissors
    /\ OrderReplies \subseteq Seq(Nat)
    /\ ActionReplies \subseteq
         [action: Actions, toPlayer: Name \cup {Nobody}, toPlace: Int]
    /\ UpgradeReplies \subseteq [knife: Nat, horse: Nat, maxHp: Nat]

States == {"BeforeRoundStart", "RpsForAction", "ActionOrder",
           "RpsForActionOrder", "Action", "Upgrade"}

ResultSignals == {"rpsResult", "actionOrderResult", "actionResult",
                  "roundOver", "upgradeResult", "gameOver"}

\* w winners times l losers never exceeds a quarter of the square of the room.
MaxOrders == (MaxPlayers * MaxPlayers) \div 4
Order == 1..MaxOrders

EmptyHash == [k \in {} |-> Nobody]

Insert(hash, key, value) ==
    [k \in DOMAIN hash \cup {key} |-> IF k = key THEN value ELSE hash[k]]

NoWinners == [winners |-> {}, times |-> 0]

OrderCount(w) == Cardinality(w.winners) * w.times

Emitted(l, signal) ==
    [l EXCEPT !.signals = @ \cup {signal}]

-----------------------------------------------------------------------------
\* The private functions of LogicP, from the last one called to the first.

\* Mutant: the dead are asked for a throw too.
StartRpsForActionWholeRoom(l) ==
    [l EXCEPT !.rpsForActionReplies = EmptyHash,
              !.rpsForActionWinners = NoWinners,
              !.state = "RpsForAction",
              !.asked = @ \cup DOMAIN l.room]

StartRpsForAction(l) ==
    [l EXCEPT !.rpsForActionReplies = EmptyHash,
              !.rpsForActionWinners = NoWinners,
              !.state = "RpsForAction",
              !.asked = @ \cup AlivePlayers(l.room)]

StartUpgrade(l) ==
    LET earners == {p \in DOMAIN l.room : l.room[p].upgradePoint > 0}
    IN  [l EXCEPT !.upgrades = EmptyHash,
                  !.state = IF earners = {} THEN @ ELSE "Upgrade",
                  !.asked = @ \cup earners]

\* Mutant: the order after the current one is stepped over as well.
OrdersSkippingOne(l) ==
    {o \in DOMAIN l.confirmedActionOrders :
        /\ l.currentActionOrder + 1 < o
        /\ o <= OrderCount(l.rpsForActionWinners)
        /\ l.confirmedActionOrders[o] \in AlivePlayers(l.room)}

\* The orders after the current one whose holders are still alive.
OrdersToCome(l) ==
    {o \in DOMAIN l.confirmedActionOrders :
        /\ l.currentActionOrder < o /\ o <= OrderCount(l.rpsForActionWinners)
        /\ l.confirmedActionOrders[o] \in AlivePlayers(l.room)}

\* Mutant: actions go on though at most one player is alive.
StartActionGoesOn(l) ==
    LET next == CHOOSE o \in OrdersToCome(l) : \A x \in OrdersToCome(l) : o <= x
    IN  IF OrdersToCome(l) = {}
        THEN StartRpsForAction(
                [l EXCEPT !.currentActionOrder =
                              OrderCount(l.rpsForActionWinners) + 1])
        ELSE [l EXCEPT !.currentActionOrder = next,
                       !.state = "Action",
                       !.asked = @ \cup {l.confirmedActionOrders[next]}]

StartAction(l) ==
    LET next == CHOOSE o \in OrdersToCome(l) : \A x \in OrdersToCome(l) : o <= x
    IN  IF IsRoundOver(l.room) THEN StartUpgrade(Emitted(l, "roundOver"))
        ELSE IF OrdersToCome(l) = {}
        THEN StartRpsForAction(
                [l EXCEPT !.currentActionOrder =
                              OrderCount(l.rpsForActionWinners) + 1])
        ELSE [l EXCEPT !.currentActionOrder = next,
                       !.state = "Action",
                       !.asked = @ \cup {l.confirmedActionOrders[next]}]

\* The selections of p that no confirmed order has used up.
RemainingActionCount(l, p) ==
    (IF p \in l.rpsForActionWinners.winners
     THEN l.rpsForActionWinners.times ELSE 0)
    - Cardinality({o \in DOMAIN l.confirmedActionOrders :
                     l.confirmedActionOrders[o] = p})

RemainingActionOrders(l) ==
    (1..OrderCount(l.rpsForActionWinners)) \ DOMAIN l.confirmedActionOrders

\* Mutant: the shares of the leftover orders are off by one.
HandedOutOffByOne(l) ==
    LET left == RemainingActionOrders(l)
        rank(o) == Cardinality({x \in left : x <= o})
        upTo(p) == Cardinality({qk \in Name \X Order :
                       qk[1] <= p /\ qk[2] <= RemainingActionCount(l, qk[1])})
        taker(o) == {p \in Name : upTo(p - 1) <= rank(o) /\ rank(o) < upTo(p)}
        handed == {o \in left \cap Order : taker(o) # {}}
    IN  [o \in DOMAIN l.confirmedActionOrders \cup handed |->
            IF o \in DOMAIN l.confirmedActionOrders
            THEN l.confirmedActionOrders[o]
            ELSE CHOOSE p \in Name : p \in taker(o)]

\* The leftover orders, ascending, to the players with selections left, in
\* name order: the o-th leftover goes to the player whose share it falls in.
HandedOut(l) ==
    LET left == RemainingActionOrders(l)
        rank(o) == Cardinality({x \in left : x <= o})
        upTo(p) == Cardinality({qk \in Name \X Order :
                       qk[1] <= p /\ qk[2] <= RemainingActionCount(l, qk[1])})
        taker(o) == {p \in Name : upTo(p - 1) < rank(o) /\ rank(o) <= upTo(p)}
        handed == {o \in left \cap Order : taker(o) # {}}
    IN  [o \in DOMAIN l.confirmedActionOrders \cup handed |->
            IF o \in DOMAIN l.confirmedActionOrders
            THEN l.confirmedActionOrders[o]
            ELSE CHOOSE p \in Name : p \in taker(o)]

\* Mutant: yielded selections are asked for again.
StrivingActionCountNoYield(l, p) == RemainingActionCount(l, p)

\* What is still striven for: selections neither confirmed nor yielded.
StrivingActionCount(l, p) ==
    RemainingActionCount(l, p) - l.actionOrderYields[p]

StartActionOrder(l) ==
    LET striving == {p \in Name : StrivingActionCount(l, p) > 0}
        settled == [l EXCEPT !.confirmedActionOrders = HandedOut(l)]
    IN  IF Cardinality(l.rpsForActionWinners.winners) = 1 \/ striving = {}
        THEN StartAction([Emitted(settled, "actionOrderResult")
                            EXCEPT !.currentActionOrder = 0])
        ELSE [l EXCEPT !.desiredActionOrders = {},
                       !.actionOrderRemainingSelections =
                           [p \in striving |-> StrivingActionCount(l, p)],
                       !.state = "ActionOrder",
                       !.asked = @ \cup striving]

Desirers(desired, order) == {p \in Name : <<order, p>> \in desired}

\* Mutant: a granted order stays desired.
StartRpsForActionOrderKeepGranted(l) ==
    LET desired == l.desiredActionOrders
        alone == {o \in Order : Cardinality(Desirers(desired, o)) = 1}
        granted == [l EXCEPT
            !.confirmedActionOrders =
                [o \in DOMAIN @ \cup alone |->
                    IF o \in alone
                    THEN CHOOSE p \in Name : p \in Desirers(desired, o)
                    ELSE @[o]]]
        contested == {d[1] : d \in desired}
        lowest == CHOOSE o \in contested : \A x \in contested : o <= x
    IN  IF contested = {} THEN StartActionOrder(granted)
        ELSE [granted EXCEPT
                !.currentStrivingActionOrder = lowest,
                !.rpsForActionOrderReplies = EmptyHash,
                !.state = "RpsForActionOrder",
                !.asked = @ \cup Desirers(desired, lowest)]

\* An order one player desires is that player's; the lowest of the others is
\* striven for with Rock-Paper-Scissors.
StartRpsForActionOrder(l) ==
    LET desired == l.desiredActionOrders
        alone == {o \in Order : Cardinality(Desirers(desired, o)) = 1}
        granted == [l EXCEPT
            !.confirmedActionOrders =
                [o \in DOMAIN @ \cup alone |->
                    IF o \in alone
                    THEN CHOOSE p \in Name : p \in Desirers(desired, o)
                    ELSE @[o]],
            !.desiredActionOrders = {d \in @ : d[1] \notin alone}]
        contested == {d[1] : d \in granted.desiredActionOrders}
        lowest == CHOOSE o \in contested : \A x \in contested : o <= x
    IN  IF contested = {} THEN StartActionOrder(granted)
        ELSE [granted EXCEPT
                !.currentStrivingActionOrder = lowest,
                !.rpsForActionOrderReplies = EmptyHash,
                !.state = "RpsForActionOrder",
                !.asked = @ \cup Desirers(granted.desiredActionOrders, lowest)]

\* Mutant: what was yielded after the throw before counts again.
RpsForActionKeepsYields(l) ==
    LET replies == l.rpsForActionReplies
        outcome == RockPaperScissorsWinners(DOMAIN replies, replies)
        told == [Emitted(l, "rpsResult")
                    EXCEPT !.rpsForActionWinners = outcome]
    IN  IF Cardinality(DOMAIN replies) # Cardinality(AlivePlayers(l.room))
        THEN l
        ELSE IF outcome.winners = {} THEN StartRpsForAction(told)
        ELSE StartActionOrder([told EXCEPT !.confirmedActionOrders = EmptyHash])

\* Mutant: the orders of the throw before are still confirmed.
RpsForActionKeepsConfirmed(l) ==
    LET replies == l.rpsForActionReplies
        outcome == RockPaperScissorsWinners(DOMAIN replies, replies)
        told == [Emitted(l, "rpsResult")
                    EXCEPT !.rpsForActionWinners = outcome]
    IN  IF Cardinality(DOMAIN replies) # Cardinality(AlivePlayers(l.room))
        THEN l
        ELSE IF outcome.winners = {} THEN StartRpsForAction(told)
        ELSE StartActionOrder([told EXCEPT
                !.actionOrderYields = [p \in Name |-> 0]])

RpsForAction(l) ==
    LET replies == l.rpsForActionReplies
        outcome == RockPaperScissorsWinners(DOMAIN replies, replies)
        told == [Emitted(l, "rpsResult")
                    EXCEPT !.rpsForActionWinners = outcome]
    IN  IF Cardinality(DOMAIN replies) # Cardinality(AlivePlayers(l.room))
        THEN l
        ELSE IF outcome.winners = {} THEN StartRpsForAction(told)
        ELSE StartActionOrder([told EXCEPT
                !.confirmedActionOrders = EmptyHash,
                !.actionOrderYields = [p \in Name |-> 0]])

\* Mutant: a tie makes everybody who strives a loser.
RpsForActionOrderTieLosesAll(l) ==
    LET replies == l.rpsForActionOrderReplies
        order == l.currentStrivingActionOrder
        striving == Desirers(l.desiredActionOrders, order)
        winners == RockPaperScissorsWinners(DOMAIN replies, replies).winners
    IN  IF Cardinality(DOMAIN replies) # Cardinality(striving) THEN l
        ELSE StartRpsForActionOrder(
                [Emitted(l, "rpsResult") EXCEPT
                    !.desiredActionOrders =
                        @ \ ({order} \X (striving \ winners))])

RpsForActionOrder(l) ==
    LET replies == l.rpsForActionOrderReplies
        order == l.currentStrivingActionOrder
        striving == Desirers(l.desiredActionOrders, order)
        winners == RockPaperScissorsWinners(DOMAIN replies, replies).winners
        losers == IF winners = {} THEN {} ELSE striving \ winners
    IN  IF Cardinality(DOMAIN replies) # Cardinality(striving) THEN l
        ELSE StartRpsForActionOrder(
                [Emitted(l, "rpsResult") EXCEPT
                    !.desiredActionOrders = @ \ ({order} \X losers)])

ActionOrder(l) ==
    IF DOMAIN l.actionOrderRemainingSelections = {}
    THEN StartRpsForActionOrder(l) ELSE l

\* Apply the upgrades once everyone who has points has replied.
Upgrade(l) ==
    LET earners == {p \in DOMAIN l.room : l.room[p].upgradePoint > 0}
        room == [p \in DOMAIN l.room |->
                    IF p \in DOMAIN l.upgrades
                    THEN Upgraded(l.room[p], l.upgrades[p]) ELSE l.room[p]]
        done == [l EXCEPT !.room = room, !.state = "BeforeRoundStart"]
    IN  IF ~IsRoundOver(l.room)
             \/ Cardinality(DOMAIN l.upgrades) # Cardinality(earners)
        THEN l
        ELSE IF GameWinners(room) = {} THEN Emitted(done, "upgradeResult")
        ELSE Emitted([done EXCEPT !.room = ResetUpgrades(room)], "gameOver")

-----------------------------------------------------------------------------
\* The slots.  A call the guards refuse returns false and changes nothing.

NewCall == [logic EXCEPT !.signals = {}]

\* The call answers the request of p, if p has one.
Answered(p) == [NewCall EXCEPT !.asked = @ \ {p}]

Init ==
    logic = [room |-> EmptyHash, state |-> "BeforeRoundStart",
             rpsForActionReplies |-> EmptyHash,
             rpsForActionWinners |-> NoWinners,
             desiredActionOrders |-> {},
             confirmedActionOrders |-> EmptyHash,
             actionOrderRemainingSelections |-> EmptyHash,
             actionOrderYields |-> [p \in Name |-> 0],
             currentStrivingActionOrder |-> 0,
             rpsForActionOrderReplies |-> EmptyHash,
             currentActionOrder |-> 0,
             upgrades |-> EmptyHash,
             asked |-> {}, signals |-> {}]

AddPlayer(p) ==
    /\ logic.state = "BeforeRoundStart"
    /\ p \notin DOMAIN logic.room
    /\ logic' = [NewCall EXCEPT
                   !.room = ResetUpgrades(Insert(@, p, NewPlayer))]

RemovePlayer(p) ==
    /\ logic.state = "BeforeRoundStart"
    /\ p \in DOMAIN logic.room
    /\ logic' = [NewCall EXCEPT
                   !.room = ResetUpgrades([q \in DOMAIN @ \ {p} |-> @[q]])]

RoundStart ==
    /\ logic.state = "BeforeRoundStart"
    /\ Cardinality(DOMAIN logic.room) >= 2
    /\ logic' = StartRpsForAction(
                    [NewCall EXCEPT !.room = PrepareForRoundStart(@)])

RpsReplyForAction(p, rps) ==
    /\ p \in DOMAIN logic.room
    /\ logic.state = "RpsForAction"
    /\ p \notin DOMAIN logic.rpsForActionReplies
    /\ logic' = RpsForAction(
                    [Answered(p) EXCEPT !.rpsForActionReplies =
                        Insert(@, p, rps)])

RpsReplyForActionOrder(p, rps) ==
    /\ p \in DOMAIN logic.room
    /\ logic.state = "RpsForActionOrder"
    /\ p \notin DOMAIN logic.rpsForActionOrderReplies
    /\ logic' = RpsForActionOrder(
                    [Answered(p) EXCEPT !.rpsForActionOrderReplies =
                        Insert(@, p, rps)])

RpsReply(p, rps) == RpsReplyForAction(p, rps) \/ RpsReplyForActionOrder(p, rps)

\* A list is taken as sent, or replaced by yielding every selection.
OrderListAccepted(p, list) ==
    /\ Len(list) = logic.actionOrderRemainingSelections[p]
    /\ \A i \in DOMAIN list :
          \/ list[i] = 0
          \/ /\ list[i] \in 1..OrderCount(logic.rpsForActionWinners)
             /\ list[i] \notin DOMAIN logic.confirmedActionOrders
             /\ \A j \in DOMAIN list : list[j] = list[i] => j = i

\* Mutant: 0 is an order like any other.
ActionOrderReplyYieldDesired(p, list) ==
    LET selections == logic.actionOrderRemainingSelections[p]
        chosenOrders == IF OrderListAccepted(p, list)
                        THEN {list[i] : i \in DOMAIN list}
                        ELSE {}
        yields == selections - Cardinality(chosenOrders)
    IN  /\ p \in DOMAIN logic.room
        /\ logic.state = "ActionOrder"
        /\ p \in DOMAIN logic.actionOrderRemainingSelections
        /\ logic' = ActionOrder([Answered(p) EXCEPT
              !.desiredActionOrders = @ \cup (chosenOrders \X {p}),
              !.actionOrderYields[p] = @ + yields,
              !.actionOrderRemainingSelections =
                  [q \in DOMAIN @ \ {p} |-> @[q]]])

ActionOrderReply(p, list) ==
    LET selections == logic.actionOrderRemainingSelections[p]
        chosenOrders == IF OrderListAccepted(p, list)
                        THEN {o \in Order : \E i \in DOMAIN list : list[i] = o}
                        ELSE {}
        yields == selections - Cardinality(chosenOrders)
    IN  /\ p \in DOMAIN logic.room
        /\ logic.state = "ActionOrder"
        /\ p \in DOMAIN logic.actionOrderRemainingSelections
        /\ logic' = ActionOrder([Answered(p) EXCEPT
              !.desiredActionOrders = @ \cup (chosenOrders \X {p}),
              !.actionOrderYields[p] = @ + yields,
              !.actionOrderRemainingSelections =
                  [q \in DOMAIN @ \ {p} |-> @[q]]])

ActionReply(p, a) ==
    LET feasible == ActionFeasible(logic.room, p, a)
    IN  /\ p \in DOMAIN logic.room
        /\ logic.state = "Action"
        /\ logic' = StartAction([Emitted(Answered(p), "actionResult") EXCEPT
              !.room = IF feasible THEN ApplyAction(@, p, a) ELSE @])

UpgradeReply(p, items) ==
    /\ p \in DOMAIN logic.room
    /\ logic.state = "Upgrade"
    /\ p \notin DOMAIN logic.upgrades
    /\ logic' = Upgrade([Answered(p) EXCEPT !.upgrades =
                    Insert(@, p, IF UpgradeFeasible(logic.room[p], items)
                                 THEN items
                                 ELSE DefaultUpgrade(logic.room[p]))])

\* Whoever drives a Logic forwards one reply per request, in the phase that
\* made the request.
Reply(p) ==
    \/ \E rps \in Throws : RpsReply(p, rps)
    \/ \E list \in OrderReplies : ActionOrderReply(p, list)
    \/ \E a \in ActionReplies : ActionReply(p, a)
    \/ \E items \in UpgradeReplies : UpgradeReply(p, items)

Next ==
    \/ \E p \in Name : AddPlayer(p) \/ RemovePlayer(p)
    \/ RoundStart
    \/ \E p \in logic.asked : Reply(p)

Spec == Init /\ [][Next]_logic
-----------------------------------------------------------------------------
\* A QHash with keys in K and values in V.
IsHash(h, K, V) == DOMAIN h \subseteq K /\ h \in [DOMAIN h -> V]

Fields ==
    {"room", "state", "rpsForActionReplies", "rpsForActionWinners",
     "desiredActionOrders", "confirmedActionOrders",
     "actionOrderRemainingSelections", "actionOrderYields",
     "currentStrivingActionOrder", "rpsForActionOrderReplies",
     "currentActionOrder", "upgrades", "asked", "signals"}

\* l is a record with these fields and no others.
HasFields(l) == DOMAIN l = Fields /\ l = [f \in DOMAIN l |-> l[f]]

Typed(l) ==
    /\ IsHash(l.room, Name, PlayerFields)
    /\ l.state \in States
    /\ IsHash(l.rpsForActionReplies, Name, RockPaperScissors)
    /\ l.rpsForActionWinners \in [winners: SUBSET Name, times: Nat]
    /\ l.desiredActionOrders \subseteq Order \X Name
    /\ IsHash(l.confirmedActionOrders, Order, Name)
    /\ IsHash(l.actionOrderRemainingSelections, Name, Int)
    /\ l.actionOrderYields \in [Name -> Int]
    /\ l.currentStrivingActionOrder \in Nat
    /\ IsHash(l.rpsForActionOrderReplies, Name, RockPaperScissors)
    /\ l.currentActionOrder \in Nat
    /\ IsHash(l.upgrades, Name, UpgradeItems)
    /\ l.asked \subseteq Name
    /\ l.signals \subseteq ResultSignals

\* The types of LogicP's fields, and of what the object has emitted: a winner
\* whose yields were never entered, or an order beyond the last one, would
\* be read as garbage by the next phase.
TypeOK == HasFields(logic) /\ Typed(logic)

Holding(p) == Cardinality({o \in DOMAIN logic.confirmedActionOrders :
                             logic.confirmedActionOrders[o] = p})
Desiring(p) == Cardinality({o \in Order :
                             <<o, p>> \in logic.desiredActionOrders})
Selecting(p) == IF p \in DOMAIN logic.actionOrderRemainingSelections
                THEN logic.actionOrderRemainingSelections[p] ELSE 0

Awaited ==
    CASE logic.state = "BeforeRoundStart" -> {}
      [] logic.state = "RpsForAction" ->
            AlivePlayers(logic.room) \ DOMAIN logic.rpsForActionReplies
      [] logic.state = "ActionOrder" ->
            DOMAIN logic.actionOrderRemainingSelections
      [] logic.state = "RpsForActionOrder" ->
            Desirers(logic.desiredActionOrders,
                     logic.currentStrivingActionOrder)
              \ DOMAIN logic.rpsForActionOrderReplies
      [] logic.state = "Action" ->
            {logic.confirmedActionOrders[logic.currentActionOrder]}
      [] logic.state = "Upgrade" ->
            {p \in DOMAIN logic.room : logic.room[p].upgradePoint > 0}
              \ DOMAIN logic.upgrades

\* Every phase of a running round waits for at least one reply, and the replies
\* it waits for are exactly the requests that are out: a reply counted twice or
\* for someone not asked, or a request nobody waits for, stalls the room.
WaitsForWhatItAsked ==
    /\ logic.asked = Awaited
    /\ logic.state # "BeforeRoundStart" => logic.asked # {}
    /\ logic.state # "Upgrade" => \A p \in logic.asked : Alive(logic.room[p])

\* The selections of a winner are confirmed, yielded, desired or still to be
\* made, and never more than it has losers to its name; what loses a contest
\* for an order goes back to be selected again, so in the ActionOrder state
\* they add up.
SelectionsAddUp ==
    logic.state \in {"ActionOrder", "RpsForActionOrder"} =>
        \A p \in logic.rpsForActionWinners.winners :
            LET used == Holding(p) + logic.actionOrderYields[p]
                            + Desiring(p) + Selecting(p)
            IN  /\ used <= logic.rpsForActionWinners.times
                /\ logic.state = "ActionOrder"
                      => used = logic.rpsForActionWinners.times

\* Winners of a throw are asked for all the orders it won them, and only a lone
\* winner is not asked: what the players held or yielded after an earlier throw of
\* the round is forgotten (LogicP::rpsForAction).
WinnersChooseAnew ==
    [][logic.state = "RpsForAction" =>
          LET won == logic'.rpsForActionWinners
              asked == logic'.actionOrderRemainingSelections
          IN  /\ logic'.state = "ActionOrder" =>
                    asked = [p \in won.winners |-> won.times]
              /\ logic'.state = "Action" => Cardinality(won.winners) = 1]_logic

\* A contest is between at least two winners for an order nobody holds.
ContestsAreReal ==
    logic.state = "RpsForActionOrder" =>
        LET order == logic.currentStrivingActionOrder IN
        /\ order \in Order
        /\ order \notin DOMAIN logic.confirmedActionOrders
        /\ Cardinality(Desirers(logic.desiredActionOrders, order)) >= 2

\* When actions start every order has a holder, and every winner holds one
\* order per loser.
OrdersSettled ==
    logic.state = "Action" =>
        /\ DOMAIN logic.confirmedActionOrders
             = 1..OrderCount(logic.rpsForActionWinners)
        /\ \A p \in Name :
              Holding(p) = IF p \in logic.rpsForActionWinners.winners
                           THEN logic.rpsForActionWinners.times ELSE 0

\* No player ever has more points than upgrades left to buy, stats never pass
\* their maximum, and a recorded upgrade list can be applied in full.
PointsAreSpendable ==
    /\ \A p \in DOMAIN logic.room :
          /\ StatsInBounds(logic.room[p])
          /\ logic.state # "BeforeRoundStart" =>
                logic.room[p].upgradePoint \in 0..RemainingTimes(logic.room[p])
    /\ logic.state = "Upgrade" =>
          \A p \in DOMAIN logic.upgrades :
              UpgradeFeasible(logic.room[p], logic.upgrades[p])

\* Nobody starts or plays a round once a player has bought every upgrade: the
\* match ended with the round in which that happened.
NoRoundAfterTheWin ==
    logic.state # "BeforeRoundStart" =>
        \A p \in DOMAIN logic.room : ~FullyUpgraded(logic.room[p])

\* Stats are bought with points and with nothing else: a round's upgrades spend
\* every point of every player, and otherwise stats only change when they are
\* all reset, at the end of the match or when a player comes or goes.
EveryPointIsSpent ==
    [][LET room == logic.room
           spent == logic.state = "Upgrade"
                      /\ logic'.state = "BeforeRoundStart"
           reset == \/ DOMAIN logic'.room # DOMAIN room
                    \/ "gameOver" \in logic'.signals
       IN  \A p \in DOMAIN room \cap DOMAIN logic'.room :
              RemainingTimes(logic'.room[p]) =
                  IF reset THEN RemainingTimes(NewPlayer)
                  ELSE IF spent
                  THEN RemainingTimes(room[p]) - room[p].upgradePoint
                  ELSE RemainingTimes(room[p])]_logic

\* The negotiation of orders makes progress: whenever it leaves a contest to
\* ask for selections again, or to start the actions, one more order has a
\* holder.
ContestsGrantOrders ==
    [][(logic.state = "RpsForActionOrder"
          /\ logic'.state \in {"ActionOrder", "Action"}) =>
            Cardinality(DOMAIN logic.confirmedActionOrders)
                < Cardinality(DOMAIN logic'.confirmedActionOrders)]_logic

-----------------------------------------------------------------------------
(* Logic implements Match. *)

\* The turns a player is owed: one per selection until the orders are settled,
\* then one per order it holds from the current one on.
TurnsOwed(p) ==
    CASE logic.state \in {"ActionOrder", "RpsForActionOrder"} ->
            IF p \in logic.rpsForActionWinners.winners
            THEN logic.rpsForActionWinners.times ELSE 0
      [] logic.state = "Action" ->
            IF Alive(logic.room[p])
            THEN Cardinality({o \in DOMAIN logic.confirmedActionOrders :
                                /\ logic.confirmedActionOrders[o] = p
                                /\ logic.currentActionOrder <= o})
            ELSE 0
      [] OTHER -> 0

Promise == INSTANCE Match WITH
    phase <- CASE logic.state = "BeforeRoundStart" -> "gathering"
               [] logic.state = "Upgrade" -> "upgrading"
               [] OTHER -> "playing",
    alive <- IF logic.state = "BeforeRoundStart" THEN {}
             ELSE AlivePlayers(logic.room),
    turns <- [p \in Name |-> IF p \in DOMAIN logic.room
                             THEN TurnsOwed(p) ELSE 0]

\* However the orders are negotiated, Logic gives the turns Match promises.
TurnsAsPromised == Promise!Spec

-----------------------------------------------------------------------------
(* Logic implements Phases. *)

Driven == INSTANCE Phases WITH
    players <- DOMAIN logic.room,
    phase <- logic.state,
    asked <- logic.asked

\* A driver that answers the requests it gets meets only the phases, and the
\* numbers of requests, that Phases allows.
PhasesAsPromised == Driven!Spec
=============================================================================

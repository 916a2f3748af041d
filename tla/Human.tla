--------------------------------- MODULE Human ---------------------------------
(***************************************************************************)
(* What QMdmmGameClient lets its player answer the logic's requests with:   *)
(* the menus it makes of its mirror of the room, and the replies it makes   *)
(* of what is picked from them.  Labels are left out.                       *)
(***************************************************************************)
EXTENDS Bots

CONSTANT PlayerCount    \* the size asked for a local game, 3 if none was

ASSUME HumanAssumption == PlayerCount \in Nat

-----------------------------------------------------------------------------
\* The menus.

Options(actions, targets, places) ==
    [action: actions, toPlayer: targets, toPlace: places]

NoPlaces == {-1}

\* Mutant: a peer can be moved by those in the same place only.
LetMoveOfferedToPush(room, from, to, toPlace) ==
    /\ toPlace # room[to].place
    /\ room[to].place = room[from].place
    /\ CanLetMove(room, from, to, toPlace)

LetMoveOffered(room, from, to, toPlace) ==
    /\ toPlace # room[to].place
    /\ IsPlaceAdjacent(room[to].place, toPlace)
    /\ CanLetMove(room, from, to, toPlace)

\* The places the menu knows: it never learns the size of the room.
InSight(a) == a.toPlace \in 0..PlayerCount

ActionListFor(room, from) ==
    LET me == room[from]
        others == Opponents(room, from)
        places == 0..PlayerCount
        offered(a) ==
            \/ a.action = "DoNothing" /\ Alive(me)
            \/ a.action = "BuyKnife" /\ CanBuyKnife(me)
            \/ a.action = "BuyHorse" /\ CanBuyHorse(me)
            \/ /\ a.action = "Move"
               /\ a.toPlace # me.place
               /\ IsPlaceAdjacent(me.place, a.toPlace) /\ CanMove(me, a.toPlace)
            \/ a.action = "Slash" /\ CanSlash(room, from, a.toPlayer)
            \/ a.action = "Kick" /\ CanKick(room, from, a.toPlayer)
            \/ /\ a.action = "LetMove"
               /\ LetMoveOffered(room, from, a.toPlayer, a.toPlace)
    IN  {a \in Options({"DoNothing", "BuyKnife", "BuyHorse"}, {Nobody}, NoPlaces)
               \cup Options({"Move"}, {Nobody}, places)
               \cup Options({"Slash", "Kick"}, others, NoPlaces)
               \cup Options({"LetMove"}, others, places) : offered(a)}

ActionOptions(p) == ActionListFor(logic.room, p)

UpgradeOptions(p) ==
    {item \in {"knife", "horse", "maxHp"} :
        \/ item = "knife" /\ UpgradeKnifeRemainingTimes(logic.room[p]) > 0
        \/ item = "horse" /\ UpgradeHorseRemainingTimes(logic.room[p]) > 0
        \/ item = "maxHp" /\ UpgradeMaxHpRemainingTimes(logic.room[p]) > 0}

\* Every selection is yielded.
YieldActionOrder(selectionNum) == [i \in 1..selectionNum |-> 0]

-----------------------------------------------------------------------------
Effects(p, actions) == {ApplyAction(logic.room, p, a) : a \in actions}

\* Of the places it knows, which need not be those of the room's map, the menu of
\* actions brings within reach what the rules allow, all of it and nothing else;
\* and the menu of upgrades has what points can be spent on, all of it and nothing
\* else, so that a player is never asked to spend more than it can pick.  The rules
\* are written twice: the logic judges an action it is sent, and the menu looks for
\* the actions there are.
MenuIsTheRules ==
    \A p \in Awaited :
        /\ logic.state = "Action" =>
              LET menu == {DecodeActionReply(a).reply : a \in ActionOptions(p)}
                  allowed == {a \in ActionReplies :
                                InSight(a) /\ ActionFeasible(logic.room, p, a)}
              IN  Effects(p, menu) = Effects(p, allowed)
        /\ logic.state = "Upgrade" =>
              LET lists == {items \in UpgradeReplies :
                              UpgradeFeasible(logic.room[p], items)}
              IN  /\ lists # {}
                  /\ UpgradeOptions(p) =
                        {item \in {"knife", "horse", "maxHp"} :
                            \E items \in lists : items[item] > 0}

\* Whoever picks orders - a bot, from either end of the offer, a player who
\* yields, or the server in a player's place - the list gets past the server and
\* the logic takes it as it is: however the negotiation went, the offer never
\* runs out before the selections do.  A list the logic does not take would
\* yield every selection.
OfferCoversSelections ==
    logic.state = "ActionOrder" =>
        \A p \in Awaited :
            LET request == RequestActionOrder(p)
                offers == {request.remainedOrders[i] :
                              i \in DOMAIN request.remainedOrders}
                picks == {DesiredActionOrders(offers, request.selectionNum, h) :
                             h \in BOOLEAN}
                         \cup {YieldActionOrder(request.selectionNum)}
            IN  /\ OrderListAccepted(p, DefaultReplyActionOrder(request))
                /\ \A list \in picks :
                      /\ ~DecodeActionOrderReply(request, list).error
                      /\ OrderListAccepted(p, list)
=============================================================================

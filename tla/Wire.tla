--------------------------------- MODULE Wire ---------------------------------
(***************************************************************************)
(* A request and its reply between Logic and a player: what the packets of  *)
(* ServerConnectionP and ClientP make of them.  JSON of a wrong type is a   *)
(* protocol error on either side.  A reply that fails the server's checks   *)
(* drops the connection and is replaced by the request's default; one that  *)
(* passes them is for Logic to accept or to replace.                        *)
(***************************************************************************)
EXTENDS Logic

\* A finite set of numbers as an ascending list.
Ascending(S) ==
    [i \in 1..Cardinality(S) |->
        CHOOSE o \in S : Cardinality({x \in S : x <= o}) = i]

-----------------------------------------------------------------------------
\* What a player is asked.

RequestActionOrder(p) ==
    [remainedOrders |-> Ascending(RemainingActionOrders(logic)),
     maximumOrder |-> OrderCount(logic.rpsForActionWinners),
     selectionNum |-> logic.actionOrderRemainingSelections[p]]

RequestUpgrade(p) == logic.room[p].upgradePoint

-----------------------------------------------------------------------------
\* What the server answers for a player who does not.

DoNothing == [action |-> "DoNothing", toPlayer |-> Nobody, toPlace |-> 0]

DefaultReplyAction == DoNothing

\* Mutant: the orders are numbered, not taken from the offer.
DefaultReplyActionOrderCounted(request) ==
    [i \in 1..request.selectionNum |-> i]

\* The first orders of the offer; past its end a missing value reads as 0.
DefaultReplyActionOrder(request) ==
    LET offer == request.remainedOrders
    IN  [i \in 1..request.selectionNum |-> IF i <= Len(offer) THEN offer[i] ELSE 0]

\* An empty list, for Logic to replace.
DefaultReplyUpgrade == [knife |-> 0, horse |-> 0, maxHp |-> 0]

-----------------------------------------------------------------------------
\* What the server makes of a reply.

Passed(reply) == [error |-> FALSE, reply |-> reply]
ProtocolError(default) == [error |-> TRUE, reply |-> default]

DecodeActionOrderReply(request, list) ==
    IF Len(list) > request.selectionNum
    THEN ProtocolError(DefaultReplyActionOrder(request))
    ELSE Passed(list)

Aimed == {"Slash", "Kick", "LetMove"}
Moving == {"Move", "LetMove"}

\* A target and a place only for the actions that have one; any int is a place.
DecodeActionReply(a) ==
    IF a.action \notin Actions THEN ProtocolError(DefaultReplyAction)
    ELSE Passed([action |-> a.action,
                 toPlayer |-> IF a.action \in Aimed THEN a.toPlayer ELSE Nobody,
                 toPlace |-> IF a.action \in Moving THEN a.toPlace ELSE 0])

DecodeUpgradeReply(remainingTimes, items) ==
    IF ItemCount(items) > remainingTimes
    THEN ProtocolError(DefaultReplyUpgrade)
    ELSE Passed(items)
=============================================================================

------------------------------ MODULE Human_proofs ------------------------------
(***************************************************************************)
(* The players of Logic, for every number of them, every configuration and *)
(* every set of replies: the mirrors of the room follow what they are told *)
(* (Mirror), the orders on offer cover the selections and the menus offer  *)
(* what the rules allow (Human), and the bots play legally and to the end  *)
(* (Bots).                                                                 *)
(***************************************************************************)
EXTENDS Human, Match_proofs

-----------------------------------------------------------------------------
(* The mirrors of the room. *)

\* What the packet of an action says of it is what the rules look at.
LEMMA NotifiedActs ==
    ASSUME NEW r, NEW p, NEW a, a.action \in Actions
    PROVE  LET n == ActionNotified(a)
           IN  /\ n.action = a.action
               /\ a.action \in Aimed => n.toPlayer = a.toPlayer
               /\ a.action \in Moving => n.toPlace = a.toPlace
               /\ ActionFeasible(r, p, n) <=> ActionFeasible(r, p, a)
               /\ ApplyAction(r, p, n) = ApplyAction(r, p, a)
  <1> DEFINE n == ActionNotified(a)
  <1>1. /\ n.action = a.action
        /\ a.action \in Aimed => n.toPlayer = a.toPlayer
        /\ a.action \in Moving => n.toPlace = a.toPlace
    BY DEF ActionNotified
  <1> HIDE DEF n
  <1>2. ActionFeasible(r, p, n) <=> ActionFeasible(r, p, a)
    BY <1>1 DEF ActionFeasible, Aimed, Moving
  <1>3. ApplyAction(r, p, n) = ApplyAction(r, p, a)
    BY <1>1 DEF ApplyAction, Aimed, Moving, Actions
  <1> QED
    BY <1>1, <1>2, <1>3 DEF n

\* A mirror of the room takes what it is told of an action of a living player, if
\* its place is on the map, and does with it what the logic did.
LEMMA MirrorActs ==
    ASSUME NEW r, NEW p \in DOMAIN r, Alive(r[p]), NEW a \in ActionReplies,
           a.toPlace \in 0..Cardinality(DOMAIN r)
    PROVE  LET outcome == NotifyAction(r, p, ActionNotified(Told(r, p, a)))
           IN  outcome.success /\ outcome.room = PlayerDoes(r, p, a).room
  <1> DEFINE n == ActionNotified(Told(r, p, a))
             outcome == NotifyAction(r, p, n)
  <1>1. CASE ActionFeasible(r, p, a)
    <2>1. n = ActionNotified(a)
      BY <1>1 DEF Told
    <2>2. /\ n.action = a.action
          /\ a.action \in Aimed => n.toPlayer = a.toPlayer
          /\ a.action \in Moving => n.toPlace = a.toPlace
          /\ ActionFeasible(r, p, n)
          /\ ApplyAction(r, p, n) = ApplyAction(r, p, a)
      BY <1>1, <2>1, NotifiedActs, RepliesAssumption
    <2> HIDE DEF n
    <2>3. a.action \in Aimed => a.toPlayer \in DOMAIN r
      BY <1>1 DEF ActionFeasible, Aimed
    <2>4. outcome = PlayerDoes(r, p, n)
      BY <2>2, <2>3 DEF NotifyAction
    <2> QED
      BY <1>1, <2>2, <2>4 DEF PlayerDoes, n
  <1>2. CASE ~ActionFeasible(r, p, a)
    <2>1. n.action = "DoNothing"
      <3>1. Told(r, p, a).action = "DoNothing"
        BY <1>2, RepliesAssumption DEF Told
      <3> QED
        BY <3>1 DEF ActionNotified
    <2> HIDE DEF n
    <2>2. ActionFeasible(r, p, n)
      BY <2>1 DEF ActionFeasible
    <2>3. ApplyAction(r, p, n) = r
      BY <2>1 DEF ApplyAction
    <2>4. outcome = PlayerDoes(r, p, n)
      BY <2>1 DEF NotifyAction, Aimed, Moving
    <2> QED
      BY <1>2, <2>2, <2>3, <2>4 DEF PlayerDoes, n
  <1> QED
    BY <1>1, <1>2

\* Settled orders reach the mirrors as the list of their holders.
LEMMA MirrorOrders ==
    ASSUME NEW l, IsLogicP(l), Thrown(l), Settled(l)
    PROVE  LET outcome == NotifyActionOrder(l.room,
                              ActionOrderNotified(l.confirmedActionOrders))
           IN  outcome.success /\ outcome.room = l.room
  <1> DEFINE C == l.confirmedActionOrders
             n == OrderCount(l.rpsForActionWinners)
             list == ActionOrderNotified(C)
  <1>1. n \in Nat /\ DOMAIN C = 1..n
    BY OrderCountIsNat DEF IsLogicP, Settled, Orders
  <1>2. Cardinality(DOMAIN C) = n
    BY <1>1, FS_Interval
  <1>3. \A i \in DOMAIN C : C[i] \in DOMAIN l.room
    BY SettledHolders DEF Thrown, AlivePlayers
  <1> HIDE DEF n
  <1>4. DOMAIN list = DOMAIN C /\ \A i \in DOMAIN list : list[i] = C[i]
    BY <1>1, <1>2 DEF ActionOrderNotified
  <1> QED
    BY <1>3, <1>4 DEF NotifyActionOrder

\* The upgrades in hand are applied by a mirror one and all.
LEMMA MirrorUpgrades ==
    ASSUME NEW m, IsLogicP(m), UpgradesInHand(m)
    PROVE  LET outcome == NotifyUpgrade(m.room, m.upgrades)
           IN  outcome.success /\ outcome.room = UpgradedRoom(m)
  <1>1. /\ DOMAIN m.upgrades \subseteq DOMAIN m.room
        /\ \A p \in DOMAIN m.upgrades : UpgradeFeasible(m.room[p], m.upgrades[p])
    BY DEF UpgradesInHand
  <1> QED
    BY <1>1 DEF NotifyUpgrade, ApplyUpgrade, UpgradedRoom, UpgradeFeasible

\* Resetting players who are new changes nothing.
LEMMA NewStayNew ==
    ASSUME NEW r, \A p \in DOMAIN r : r[p] = NewPlayer, r = [p \in DOMAIN r |-> r[p]]
    PROVE  ResetUpgrades(r) = r
  <1> DEFINE p == NewPlayer
  <1>1. /\ p = [f \in DOMAIN p |-> p[f]]
        /\ p.maxHp = Config.initialMaxHp
        /\ p.knifeDamage = Config.initialKnifeDamage
        /\ p.horseDamage = Config.initialHorseDamage
        /\ p.upgradePoint = 0
    BY DEF NewPlayer
  <1>2. UpgradesReset(p) = p
    <2> HIDE DEF p
    <2>1. /\ [p EXCEPT !.maxHp = Config.initialMaxHp] = p
          /\ [p EXCEPT !.knifeDamage = Config.initialKnifeDamage] = p
          /\ [p EXCEPT !.horseDamage = Config.initialHorseDamage] = p
          /\ [p EXCEPT !.upgradePoint = 0] = p
      BY <1>1
    <2> QED
      BY <2>1, Zenon DEF UpgradesReset
  <1> QED
    BY <1>2 DEF ResetUpgrades

\* What a call that emits a result has done.
LEMMA Results ==
    ASSUME Sound(logic), InStep(logic), Next
    PROVE  /\ "actionOrderResult" \in logic'.signals =>
                 logic'.room = logic.room /\ Thrown(logic') /\ Settled(logic')
           /\ "actionResult" \in logic'.signals =>
                 \E p \in logic.asked, a \in ActionReplies : ActionReply(p, a)
           /\ "upgradeResult" \in logic'.signals =>
                 \E m : /\ IsLogicP(m) /\ UpgradesInHand(m)
                        /\ m.room = logic.room /\ logic'.upgrades = m.upgrades
                        /\ logic'.room = UpgradedRoom(m)
  <1> DEFINE Agreed ==
                 "actionOrderResult" \in logic'.signals =>
                     logic'.room = logic.room /\ Thrown(logic') /\ Settled(logic')
             NoAction == "actionResult" \notin logic'.signals
             NoUpgrade == "upgradeResult" \notin logic'.signals
  <1>1. InStep(logic')
    BY NextInStep
  <1>2. ASSUME NEW e, GoesOn(e, logic'), e.room = logic.room, Thrown(e),
               e.signals \in {{}, {"rpsResult"}}
        PROVE  Agreed /\ NoAction /\ NoUpgrade
    <2>1. NoAction /\ NoUpgrade
      BY <1>2 DEF GoesOn
    <2>2. CASE logic'.state # "Action"
      BY <1>2, <2>1, <2>2 DEF GoesOn
    <2>3. CASE logic'.state = "Action"
      <3>1. Settled(logic')
        BY <1>1, <2>3 DEF InStep, Acting
      <3>2. Thrown(logic') /\ logic'.room = logic.room
        BY <1>2 DEF GoesOn, Thrown
      <3> QED
        BY <2>1, <3>1, <3>2
    <2> QED
      BY <2>2, <2>3
  <1>3. logic.state \in {"ActionOrder", "RpsForActionOrder"} => Thrown(logic)
    BY DEF InStep, Choosing, Contesting, Bidding, Granted
  <1>4. ASSUME NEW p, Records(logic, logic', p) PROVE Agreed /\ NoAction /\ NoUpgrade
    BY <1>4 DEF Records
  <1>5. CASE \E p \in Name : AddPlayer(p) \/ RemovePlayer(p)
    BY <1>5, RoomCall
  <1>6. CASE RoundStart
    BY <1>6, RoundCall
  <1>7. ASSUME NEW p \in logic.asked, NEW rps \in Throws, RpsReply(p, rps)
        PROVE  Agreed /\ NoAction /\ NoUpgrade
    <2>1. CASE RpsReplyForAction(p, rps)
      BY <1>2, <1>4, <2>1, ThrowCall
    <2>2. CASE RpsReplyForActionOrder(p, rps)
      <3>1. Thrown(logic)
        BY <1>3, <2>2 DEF RpsReplyForActionOrder
      <3>2. ASSUME NEW e, e.room = logic.room,
                   e.rpsForActionWinners = logic.rpsForActionWinners
            PROVE  Thrown(e)
        BY <3>1, <3>2 DEF Thrown
      <3> QED
        BY <1>2, <1>4, <2>2, <3>2, ContestCall
    <2> QED
      BY <1>7, <2>1, <2>2 DEF RpsReply
  <1>8. ASSUME NEW p \in logic.asked, NEW list \in OrderReplies,
               ActionOrderReply(p, list)
        PROVE  Agreed /\ NoAction /\ NoUpgrade
    <2>1. Thrown(logic)
      BY <1>3, <1>8 DEF ActionOrderReply
    <2>2. ASSUME NEW e, e.room = logic.room,
                 e.rpsForActionWinners = logic.rpsForActionWinners
          PROVE  Thrown(e)
      BY <2>1, <2>2 DEF Thrown
    <2> QED
      BY <1>2, <1>4, <1>8, <2>2, ListCall
  <1>9. ASSUME NEW p \in logic.asked, NEW a \in ActionReplies, ActionReply(p, a)
        PROVE  Agreed /\ NoUpgrade
    BY <1>9, TurnCall
  <1>10. ASSUME NEW p \in logic.asked, NEW items \in UpgradeReplies,
                UpgradeReply(p, items)
         PROVE  /\ Agreed /\ NoAction
                /\ NoUpgrade \/ \E m : /\ IsLogicP(m) /\ UpgradesInHand(m)
                                  /\ m.room = logic.room
                                  /\ logic'.upgrades = m.upgrades
                                  /\ logic'.room = UpgradedRoom(m)
    <2>1. CASE Records(logic, logic', p)
      BY <1>4, <2>1
    <2>2. CASE ~Records(logic, logic', p)
      <3>1. PICK m : /\ IsLogicP(m) /\ UpgradesInHand(m)
                     /\ m.room = logic.room /\ logic'.upgrades = m.upgrades
                     /\ \/ /\ logic'.room = UpgradedRoom(m)
                           /\ logic'.signals = {"upgradeResult"}
                        \/ logic'.signals = {"gameOver"}
        BY <1>10, <2>2, UpgradeCall
      <3> QED
        BY <3>1
    <2> QED
      BY <2>1, <2>2
  <1> QED
    BY <1>5, <1>6, <1>7, <1>8, <1>9, <1>10 DEF Next, Reply

\* Whoever joins or leaves before the first round, every step a mirror is told
\* of leaves it equal to the room, as long as no action aims at a place off the map:
\* a mirror refuses what names one, and the logic does not.
THEOREM LogicMirrorsFollow == Spec => MirrorsFollowOnTheMap
  <1> DEFINE OnMap == {a \in ActionReplies : OnTheMap(a)}
  <1>1. ASSUME Sound(logic), InStep(logic), Next
        PROVE  MirrorStep(OnMap)
    <2>1. IsHash(logic.room, Name, PlayerFields) /\ IsLogicP(logic')
      BY <1>1, NextSound DEF Sound, IsLogicP, Typed
    <2>2. ASSUME NEW p \in Name, NoRoundYet, AddPlayer(p)
          PROVE  NotifyPlayerAdded(logic.room, p) = logic'.room
      <3> DEFINE r == Insert(logic.room, p, NewPlayer)
      <3>1. \A q \in DOMAIN r : r[q] = NewPlayer
        BY <2>2 DEF NoRoundYet, Insert
      <3>2. r = [q \in DOMAIN r |-> r[q]]
        BY DEF Insert
      <3>3. logic'.room = ResetUpgrades(r)
        BY <1>1, <2>2, RoomCall
      <3> QED
        BY <3>1, <3>2, <3>3, NewStayNew DEF NotifyPlayerAdded
    <2>3. ASSUME NEW p \in Name, NoRoundYet, RemovePlayer(p)
          PROVE  NotifyPlayerRemoved(logic.room, p) = logic'.room
      <3> DEFINE r == [q \in DOMAIN logic.room \ {p} |-> logic.room[q]]
      <3>1. \A q \in DOMAIN r : r[q] = NewPlayer
        BY <2>3 DEF NoRoundYet
      <3>2. r = [q \in DOMAIN r |-> r[q]]
        OBVIOUS
      <3>3. logic'.room = ResetUpgrades(r)
        BY <1>1, <2>3, RoomCall
      <3> QED
        BY <3>1, <3>2, <3>3, NewStayNew DEF NotifyPlayerRemoved
    <2>4. RoundStart => NotifyRoundStart(logic.room) = logic'.room
      BY <1>1, RoundCall DEF NotifyRoundStart
    <2>5. ASSUME NEW p \in Name, NEW a \in OnMap, ActionTaken(p, a)
          PROVE  Follows(NotifyAction(logic.room, p,
                            ActionNotified(Told(logic.room, p, a))))
      <3>1. PICK q \in logic.asked, b \in ActionReplies : ActionReply(q, b)
        BY <1>1, <2>5, Results DEF ActionTaken
      <3>2. logic.asked = {q} /\ q \in AlivePlayers(logic.room)
        BY <1>1, <3>1, TurnCall
      <3>3. p \in DOMAIN logic.room /\ Alive(logic.room[p])
        BY <2>5, <3>2 DEF ActionTaken, AlivePlayers
      <3>4. a \in ActionReplies /\ a.toPlace \in 0..Cardinality(DOMAIN logic.room)
        BY <2>5 DEF OnTheMap
      <3> QED
        BY <2>5, <3>3, <3>4, MirrorActs DEF ActionTaken, Follows
    <2>6. ASSUME "actionOrderResult" \in logic'.signals
          PROVE  Follows(NotifyActionOrder(logic.room,
                            ActionOrderNotified(logic'.confirmedActionOrders)))
      <3>1. logic'.room = logic.room /\ Thrown(logic') /\ Settled(logic')
        BY <1>1, <2>6, Results
      <3> QED
        BY <2>1, <3>1, MirrorOrders DEF Follows
    <2>7. ASSUME "upgradeResult" \in logic'.signals
          PROVE  Follows(NotifyUpgrade(logic.room, logic'.upgrades))
      BY <1>1, <2>7, Results, MirrorUpgrades DEF Follows
    <2> QED
      BY <2>2, <2>3, <2>4, <2>5, <2>6, <2>7 DEF MirrorStep
  <1>2. Sound(logic) /\ InStep(logic) /\ [Next]_logic => [MirrorStep(OnMap)]_logic
    BY <1>1
  <1> QED
    BY <1>2, AlwaysInStep, PTL DEF Spec, MirrorsFollowOnTheMap

-----------------------------------------------------------------------------
(* The orders on offer cover the selections. *)

\* A list of n orders: distinct members of S.
PicksFrom(list, S, n) ==
    /\ DOMAIN list = 1..n /\ Len(list) = n
    /\ \A i \in 1..n : list[i] \in S
    /\ \A i, j \in 1..n : list[i] = list[j] => i = j

\* A function on the first numbers is as long as there are of them.
LEMMA ListLength ==
    ASSUME NEW n \in Nat, NEW S, NEW list \in [1..n -> S]
    PROVE  Len(list) = n /\ DOMAIN list = 1..n
  OBVIOUS

\* The ascending list of a finite set of numbers has each of them once.
LEMMA AscendingLists ==
    ASSUME NEW S \in SUBSET Int, IsFiniteSet(S)
    PROVE  /\ PicksFrom(Ascending(S), S, Cardinality(S))
           /\ \A o \in S : \E i \in 1..Cardinality(S) : Ascending(S)[i] = o
  <1> DEFINE n == Cardinality(S)
             at(i) == CHOOSE o \in S : RankIn(S, o) = i
             list == Ascending(S)
  <1>0. n \in Nat
    BY FS_CardinalityType
  <1>1. \A i \in 1..n : at(i) \in S /\ RankIn(S, at(i)) = i
    BY RankBijection
  <1>2. list = [i \in 1..n |-> at(i)]
    BY DEF Ascending, RankIn
  <1> HIDE DEF at, list
  <1>3. \A i \in 1..n : list[i] \in S /\ RankIn(S, list[i]) = i
    BY <1>1, <1>2
  <1>4. list \in [1..n -> S]
    BY <1>1, <1>2
  <1> HIDE DEF n
  <1>5. Len(list) = n
    BY <1>0, <1>4, ListLength
  <1>6. ASSUME NEW o \in S PROVE \E i \in 1..n : list[i] = o
    <2>1. RankIn(S, o) \in 1..n
      BY RankBijection DEF n
    <2>2. list[RankIn(S, o)] \in S
            /\ RankIn(S, list[RankIn(S, o)]) = RankIn(S, o)
      BY <1>3, <2>1
    <2>3. ASSUME NEW q \in S, RankIn(S, q) = RankIn(S, o) PROVE q = o
      <3>1. RankIn(S, o) \in Int /\ RankIn(S, q) \in Int /\ o \in Int /\ q \in Int
        BY <1>0, RankBijection DEF n
      <3>2. ~(o < q) /\ ~(q < o)
        BY <2>3, <3>1, RankBijection
      <3> QED
        BY <3>1, <3>2
    <2> QED
      BY <2>1, <2>2, <2>3
  <1> QED
    BY <1>0, <1>3, <1>4, <1>5, <1>6 DEF PicksFrom, n, list

\* How many members of a set lie below and above one of them.
LEMMA BelowAndAbove ==
    ASSUME NEW S \in SUBSET Int, IsFiniteSet(S), NEW o \in S
    PROVE  /\ Cardinality({x \in S : x < o}) = RankIn(S, o) - 1
           /\ Cardinality({x \in S : x > o}) = Cardinality(S) - RankIn(S, o)
           /\ RankIn(S, o) \in 1..Cardinality(S) /\ Cardinality(S) \in Nat
  <1> DEFINE upTo == {x \in S : x <= o}
             below == {x \in S : x < o}
             above == {x \in S : x > o}
  <1>1. /\ Cardinality(S) \in Nat /\ RankIn(S, o) \in 1..Cardinality(S)
        /\ RankIn(S, o) = Cardinality(upTo)
    BY RankBijection, FS_CardinalityType DEF RankIn
  <1>2. o \in Int /\ \A x \in S : x \in Int
    OBVIOUS
  <1>3. below = upTo \ {o} /\ o \in upTo /\ above = S \ upTo /\ upTo \subseteq S
    <2>1. \A x \in S : /\ x < o <=> x <= o /\ x # o
                       /\ x > o <=> ~(x <= o)
      BY <1>2
    <2>2. o <= o
      BY <1>2
    <2> QED
      BY <2>1, <2>2
  <1> HIDE DEF upTo, below, above
  <1>4. IsFiniteSet(upTo) /\ Cardinality(upTo) \in Nat
    BY <1>3, FS_Subset, FS_CardinalityType
  <1>5. Cardinality(below) = Cardinality(upTo) - 1
    BY <1>3, <1>4, FS_RemoveElement
  <1>6. Cardinality(above) = Cardinality(S) - Cardinality(upTo)
    <2>1. S \cap upTo = upTo
      BY <1>3
    <2> QED
      BY <1>3, <2>1, FS_Difference
  <1> QED
    BY <1>1, <1>5, <1>6 DEF below, above

\* A bot picks as many of the offers as it has selections, from either end.
LEMMA BotPicks ==
    ASSUME NEW S \in SUBSET Int, IsFiniteSet(S), NEW n \in Nat, n <= Cardinality(S),
           NEW holdBack \in BOOLEAN
    PROVE  PicksFrom(DesiredActionOrders(S, n, holdBack), S, n)
  <1> DEFINE c == Cardinality(S)
             first == {o \in S : 0 < RankIn(S, o) /\ RankIn(S, o) <= n}
             last == {o \in S : c - n < RankIn(S, o) /\ RankIn(S, o) <= c}
             picked == IF holdBack THEN last ELSE first
  <1>0. c \in Nat /\ c - n \in Nat /\ c - n <= c
    BY FS_CardinalityType
  <1>1. DesiredActionOrders(S, n, holdBack) = Ascending(picked)
    <2> DEFINE chosen == {o \in S :
                   IF holdBack THEN Cardinality({x \in S : x > o}) < n
                               ELSE Cardinality({x \in S : x < o}) < n}
    <2>1. \A o \in S :
             /\ Cardinality({x \in S : x > o}) < n <=>
                   c - n < RankIn(S, o) /\ RankIn(S, o) <= c
             /\ Cardinality({x \in S : x < o}) < n <=>
                   0 < RankIn(S, o) /\ RankIn(S, o) <= n
      BY <1>0, BelowAndAbove
    <2>2. chosen = picked
      BY <2>1
    <2> QED
      BY <2>2 DEF DesiredActionOrders
  <1>2. Cardinality(first) = n /\ Cardinality(last) = n
    <2>1. Cardinality(first) = n - 0
      BY <1>0, RankInterval
    <2>2. Cardinality(last) = c - (c - n)
      BY <1>0, RankInterval
    <2> QED
      BY <1>0, <2>1, <2>2
  <1>3. picked \subseteq S /\ Cardinality(picked) = n
    BY <1>2
  <1> HIDE DEF picked
  <1>4. IsFiniteSet(picked) /\ picked \in SUBSET Int
    BY <1>3, FS_Subset
  <1> QED
    BY <1>1, <1>3, <1>4, AscendingLists DEF PicksFrom

\* However the negotiation went, there is an order left for each selection that a
\* winner is asked for: the others have no more than the rest.
LEMMA EnoughLeft ==
    ASSUME NEW l, IsLogicP(l), Choosing(l),
           NEW p \in DOMAIN l.actionOrderRemainingSelections
    PROVE  /\ l.actionOrderRemainingSelections[p] \in Nat
           /\ l.actionOrderRemainingSelections[p]
                 <= Cardinality(RemainingActionOrders(l))
           /\ RemainingActionOrders(l) \in SUBSET Int
           /\ IsFiniteSet(RemainingActionOrders(l))
  <1> DEFINE n == l.actionOrderRemainingSelections[p]
             T == l.rpsForActionWinners.times
             R == RemainingActionOrders(l)
  <1>1. /\ T \in Nat /\ l.rpsForActionWinners.winners \subseteq Name
        /\ OrderCount(l.rpsForActionWinners) \in 0..MaxOrders
        /\ IsHash(l.confirmedActionOrders, Order, Name) /\ MaxOrders \in Nat
    BY ThrownOrders, Finiteness DEF Choosing, Bidding, Granted, IsLogicP, Typed
  <1>2. \A q \in Name : /\ Cardinality(Held(l, q)) \in Nat
                        /\ l.actionOrderYields[q] \in Nat
                        /\ Cardinality(Wanted(l, q)) \in Nat
    <2>1. \A q \in Name : Wanted(l, q) \in SUBSET Order
      BY DEF Wanted
    <2> QED
      BY <1>1, <2>1, HeldType, Finiteness, FS_Subset, FS_CardinalityType
        DEF Choosing, Bidding, Granted
  <1>3. \A q \in l.rpsForActionWinners.winners : Cardinality(Held(l, q)) <= T
    BY <1>1, <1>2 DEF Choosing, Bidding, Spent
  <1>4. Dealable(l)
    BY <1>1, <1>3 DEF Dealable, Choosing, Bidding, Granted
  <1>5. p \in l.rpsForActionWinners.winners /\ p \in Name /\ n \in Nat
    BY <1>1 DEF Choosing
  <1>6. n <= RemainingActionCount(l, p)
    <2>1. Spent(l, p) + n = T
      BY <1>5 DEF Choosing, Selected
    <2>2. RemainingActionCount(l, p) = T - Cardinality(Held(l, p))
      BY <1>4, <1>5, RemainingRange DEF Won
    <2> QED
      BY <1>1, <1>2, <1>5, <2>1, <2>2 DEF Spent
  <1>7. RemainingActionCount(l, p) <= Cardinality(R)
    <2> DEFINE s(q) == Cardinality(SharesUpTo(l, q))
    <2>0. MaxPlayers \in Int /\ p \in Int /\ p - 1 \in Int /\ p <= MaxPlayers
      BY <1>5, RulesAssumption DEF Name
    <2>1. /\ s(p) = s(p - 1) + RemainingActionCount(l, p)
          /\ s(p) <= s(MaxPlayers) /\ s(p) \in Nat /\ s(p - 1) \in Nat
          /\ s(MaxPlayers) \in Nat
      BY <1>4, <1>5, <2>0, SharesGrow
    <2>2. s(MaxPlayers) = Cardinality(R)
      BY <1>4, SharesTotal
    <2>3. RemainingActionCount(l, p) \in Int
      BY <1>4, <1>5, RemainingRange, Finiteness
    <2> HIDE DEF s, R
    <2> QED
      BY <2>1, <2>2, <2>3
  <1>8. R \in SUBSET Int /\ IsFiniteSet(R)
    <2>1. IsFiniteSet(Orders(l)) /\ Orders(l) \subseteq Order
      BY <1>4, OrdersType
    <2>2. R \subseteq Orders(l)
      BY DEF RemainingActionOrders, Orders
    <2> QED
      BY <1>1, <2>1, <2>2, FS_Subset DEF Order
  <1>9. RemainingActionCount(l, p) \in Int /\ Cardinality(R) \in Nat
    BY <1>4, <1>5, <1>8, RemainingRange, Finiteness, FS_CardinalityType
  <1> HIDE DEF n, R
  <1> QED
    BY <1>5, <1>6, <1>7, <1>8, <1>9 DEF n, R

\* Distinct orders that nobody holds, one per selection, are taken as sent.
LEMMA PicksAccepted ==
    ASSUME NEW p, NEW list, logic.actionOrderRemainingSelections[p] \in Nat,
           PicksFrom(list, RemainingActionOrders(logic),
                     logic.actionOrderRemainingSelections[p])
    PROVE  OrderListAccepted(p, list)
  BY DEF PicksFrom, RemainingActionOrders, OrderListAccepted

\* Whatever the orders are picked with, the offer has one for every selection and
\* the logic takes the list.
THEOREM LogicOfferCoversSelections == Spec => []OfferCoversSelections
  <1>1. ASSUME Sound(logic), InStep(logic), logic.state = "ActionOrder",
               NEW p \in Awaited
        PROVE  LET request == RequestActionOrder(p)
                   offers == {request.remainedOrders[i] :
                                 i \in DOMAIN request.remainedOrders}
                   picks == {DesiredActionOrders(offers, request.selectionNum, h) :
                                h \in BOOLEAN}
                            \cup {YieldActionOrder(request.selectionNum)}
               IN  /\ OrderListAccepted(p, DefaultReplyActionOrder(request))
                   /\ \A list \in picks :
                         /\ ~DecodeActionOrderReply(request, list).error
                         /\ OrderListAccepted(p, list)
    <2> DEFINE request == RequestActionOrder(p)
               offers == {request.remainedOrders[i] :
                             i \in DOMAIN request.remainedOrders}
               n == logic.actionOrderRemainingSelections[p]
               R == RemainingActionOrders(logic)
    <2>1. Choosing(logic) /\ p \in DOMAIN logic.actionOrderRemainingSelections
      BY <1>1 DEF InStep, Awaited
    <2>2. n \in Nat /\ n <= Cardinality(R) /\ R \in SUBSET Int /\ IsFiniteSet(R)
      BY <1>1, <2>1, EnoughLeft DEF Sound
    <2>3. request.remainedOrders = Ascending(R) /\ request.selectionNum = n
      BY DEF RequestActionOrder
    <2>4. /\ PicksFrom(Ascending(R), R, Cardinality(R))
          /\ \A o \in R : \E i \in 1..Cardinality(R) : Ascending(R)[i] = o
      BY <2>2, AscendingLists
    <2>5. offers = R
      BY <2>3, <2>4 DEF PicksFrom
    <2> HIDE DEF request, offers
    <2>6. OrderListAccepted(p, DefaultReplyActionOrder(request))
      <3> DEFINE list == DefaultReplyActionOrder(request)
                 offer == Ascending(R)
      <3>1. Cardinality(R) \in Nat
        BY <2>2, FS_CardinalityType
      <3>2. list = [i \in 1..n |-> IF i <= Len(offer) THEN offer[i] ELSE 0]
        BY <2>3 DEF DefaultReplyActionOrder
      <3>3. \A i \in 1..n : i <= Len(offer) /\ i \in 1..Cardinality(R)
        BY <2>2, <2>4, <3>1 DEF PicksFrom
      <3> HIDE DEF list, offer
      <3>4. /\ DOMAIN list = 1..n /\ \A i \in 1..n : list[i] = offer[i]
            /\ list = [i \in 1..n |-> list[i]]
        BY <3>2, <3>3
      <3>5. \A i \in 1..n : list[i] \in R
        BY <2>4, <3>3, <3>4 DEF PicksFrom, offer
      <3>6. Len(list) = n
        BY <2>2, <3>4, <3>5, ListLength
      <3>7. PicksFrom(list, R, n)
        BY <2>4, <3>3, <3>4, <3>5, <3>6 DEF PicksFrom, offer
      <3> QED
        BY <2>2, <3>7, PicksAccepted DEF list
    <2>7. ASSUME NEW h \in BOOLEAN
          PROVE  LET list == DesiredActionOrders(offers, request.selectionNum, h)
                 IN  /\ ~DecodeActionOrderReply(request, list).error
                     /\ OrderListAccepted(p, list)
      <3> DEFINE list == DesiredActionOrders(R, n, h)
      <3>1. PicksFrom(list, R, n)
        BY <2>2, BotPicks
      <3> HIDE DEF list
      <3>2. OrderListAccepted(p, list) /\ Len(list) = n
        BY <2>2, <3>1, PicksAccepted DEF PicksFrom
      <3>3. ~DecodeActionOrderReply(request, list).error
        BY <2>2, <2>3, <3>2 DEF DecodeActionOrderReply, Passed
      <3> QED
        BY <2>3, <2>5, <3>2, <3>3 DEF list
    <2>8. LET list == YieldActionOrder(request.selectionNum)
          IN  /\ ~DecodeActionOrderReply(request, list).error
              /\ OrderListAccepted(p, list)
      <3> DEFINE list == YieldActionOrder(n)
      <3>1. list \in [1..n -> {0}]
        BY DEF YieldActionOrder
      <3> HIDE DEF list
      <3>2. Len(list) = n /\ DOMAIN list = 1..n /\ \A i \in 1..n : list[i] = 0
        BY <2>2, <3>1, ListLength
      <3>3. OrderListAccepted(p, list)
        BY <3>2 DEF OrderListAccepted
      <3>4. ~DecodeActionOrderReply(request, list).error
        BY <2>2, <2>3, <3>2 DEF DecodeActionOrderReply, Passed
      <3> QED
        BY <2>3, <3>3, <3>4 DEF list
    <2> QED
      BY <2>6, <2>7, <2>8 DEF request, offers
  <1>2. Sound(logic) /\ InStep(logic) => OfferCoversSelections
    BY <1>1 DEF OfferCoversSelections
  <1> QED
    BY <1>2, AlwaysInStep, PTL

-----------------------------------------------------------------------------
(* The menus are the rules. *)

\* Every reply that the packets can carry and the menus can make may arrive.
FullReplies ==
    /\ [action: {"DoNothing", "BuyKnife", "BuyHorse"},
            toPlayer: {Nobody}, toPlace: {0}]
         \cup [action: {"Slash", "Kick"}, toPlayer: Name, toPlace: {0}]
         \cup [action: {"Move"}, toPlayer: {Nobody}, toPlace: 0..PlayerCount]
         \cup [action: {"LetMove"}, toPlayer: Name, toPlace: 0..PlayerCount]
         \subseteq ActionReplies
    /\ [knife: 0..(Config.maximumKnifeDamage - Config.initialKnifeDamage),
        horse: 0..(Config.maximumHorseDamage - Config.initialHorseDamage),
        maxHp: 0..(Config.maximumMaxHp - Config.initialMaxHp)]
         \subseteq UpgradeReplies

\* What is picked from the menu is feasible, in sight, and sent as picked.
LEMMA MenuIsAllowed ==
    ASSUME FullReplies, IsRoom(logic.room), NEW p, NEW a \in ActionOptions(p)
    PROVE  LET sent == DecodeActionReply(a).reply
           IN  /\ sent \in ActionReplies /\ InSight(sent)
               /\ ActionFeasible(logic.room, p, sent)
  <1> DEFINE room == logic.room
             b == DecodeActionReply(a).reply
  <1>1. 0 \in 0..PlayerCount
    BY HumanAssumption
  <1>2. Opponents(room, p) \subseteq DOMAIN room /\ DOMAIN room \subseteq Name
    BY DEF Opponents, AlivePlayers, IsRoom
  <1>3. /\ a.action \in Actions
        /\ b = [action |-> a.action,
                toPlayer |-> IF a.action \in Aimed THEN a.toPlayer ELSE Nobody,
                toPlace |-> IF a.action \in Moving THEN a.toPlace ELSE 0]
    BY DEF ActionOptions, ActionListFor, Options, Actions, DecodeActionReply, Passed
  <1>4. CASE a.action \in {"DoNothing", "BuyKnife", "BuyHorse"}
    <2>1. b = [action |-> a.action, toPlayer |-> Nobody, toPlace |-> 0]
      BY <1>3, <1>4 DEF Aimed, Moving
    <2>2. ActionFeasible(room, p, a)
      BY <1>4 DEF ActionOptions, ActionListFor, ActionFeasible
    <2>3. b \in ActionReplies
      BY <1>4, <2>1 DEF FullReplies
    <2> QED
      BY <1>1, <1>4, <2>1, <2>2, <2>3 DEF ActionFeasible, InSight
  <1>5. CASE a.action = "Move"
    <2>1. b = [action |-> a.action, toPlayer |-> Nobody, toPlace |-> a.toPlace]
      BY <1>3, <1>5 DEF Aimed, Moving
    <2>2. a.toPlace \in 0..PlayerCount /\ CanMove(room[p], a.toPlace)
      BY <1>5 DEF ActionOptions, ActionListFor, Options
    <2>3. b \in ActionReplies
      BY <1>1, <1>5, <2>1, <2>2 DEF FullReplies
    <2> QED
      BY <1>5, <2>1, <2>2, <2>3 DEF ActionFeasible, InSight
  <1>6. CASE a.action \in {"Slash", "Kick"}
    <2>1. b = [action |-> a.action, toPlayer |-> a.toPlayer, toPlace |-> 0]
      BY <1>3, <1>6 DEF Aimed, Moving
    <2>2. /\ a.toPlayer \in DOMAIN room
          /\ a.action = "Slash" => CanSlash(room, p, a.toPlayer)
          /\ a.action = "Kick" => CanKick(room, p, a.toPlayer)
      BY <1>2, <1>6 DEF ActionOptions, ActionListFor, Options
    <2>3. b \in ActionReplies
      BY <1>2, <1>6, <2>1, <2>2 DEF FullReplies
    <2> QED
      BY <1>1, <1>6, <2>1, <2>2, <2>3 DEF ActionFeasible, InSight
  <1>7. CASE a.action = "LetMove"
    <2>1. b = [action |-> a.action, toPlayer |-> a.toPlayer, toPlace |-> a.toPlace]
      BY <1>3, <1>7 DEF Aimed, Moving
    <2>2. /\ a.toPlayer \in DOMAIN room /\ a.toPlace \in 0..PlayerCount
          /\ CanLetMove(room, p, a.toPlayer, a.toPlace)
      BY <1>2, <1>7 DEF ActionOptions, ActionListFor, Options, LetMoveOffered
    <2>3. b \in ActionReplies
      BY <1>1, <1>2, <1>7, <2>1, <2>2 DEF FullReplies
    <2> QED
      BY <1>7, <2>1, <2>2, <2>3 DEF ActionFeasible, InSight
  <1> QED
    BY <1>3, <1>4, <1>5, <1>6, <1>7 DEF Actions

\* Whatever is feasible and in sight can be had from the menu; moving oneself
\* with LetMove is had as Move.
LEMMA AllowedIsOnMenu ==
    ASSUME IsRoom(logic.room), NEW p,
           NEW a \in ActionReplies, InSight(a), ActionFeasible(logic.room, p, a)
    PROVE  \E option \in ActionOptions(p) :
              ApplyAction(logic.room, p, DecodeActionReply(option).reply)
                  = ApplyAction(logic.room, p, a)
  <1> DEFINE room == logic.room
             others == Opponents(room, p)
             sent(o) == DecodeActionReply(o).reply
             opt(action, player, place) ==
                 [action |-> action, toPlayer |-> player, toPlace |-> place]
  <1>1. a.action \in Actions /\ a.toPlace \in 0..PlayerCount
    BY RepliesAssumption DEF InSight
  <1>2. \A q : q \in DOMAIN room /\ Alive(room[q]) /\ q # p => q \in others
    BY DEF Opponents, AlivePlayers
  <1>3. CASE a.action \in {"DoNothing", "BuyKnife", "BuyHorse"}
    <2> DEFINE o == opt(a.action, Nobody, -1)
    <2>1. o \in ActionOptions(p)
      BY <1>3 DEF ActionFeasible, ActionOptions, ActionListFor, Options, NoPlaces
    <2>2. sent(o).action = a.action
      BY <1>1 DEF DecodeActionReply, Passed
    <2> QED
      BY <1>3, <2>1, <2>2 DEF ApplyAction
  <1>4. CASE a.action = "Move" \/ (a.action = "LetMove" /\ a.toPlayer = p)
    <2> DEFINE o == opt("Move", Nobody, a.toPlace)
    <2>1. CanMove(room[p], a.toPlace)
      BY <1>4 DEF ActionFeasible, CanLetMove
    <2>2. a.toPlace # room[p].place /\ IsPlaceAdjacent(room[p].place, a.toPlace)
      BY <2>1 DEF CanMove, IsPlaceAdjacent
    <2>3. o \in ActionOptions(p)
      BY <1>1, <2>1, <2>2 DEF ActionOptions, ActionListFor, Options
    <2>4. sent(o).action = "Move" /\ sent(o).toPlace = a.toPlace
      BY DEF DecodeActionReply, Passed, Actions, Moving
    <2> QED
      BY <1>4, <2>3, <2>4 DEF ApplyAction
  <1>5. CASE a.action \in {"Slash", "Kick"}
    <2> DEFINE o == opt(a.action, a.toPlayer, -1)
    <2>1. /\ a.toPlayer \in DOMAIN room
          /\ a.action = "Slash" => CanSlash(room, p, a.toPlayer)
          /\ a.action = "Kick" => CanKick(room, p, a.toPlayer)
      BY <1>5 DEF ActionFeasible
    <2>2. a.toPlayer \in others
      BY <1>2, <1>5, <2>1 DEF CanSlash, CanKick
    <2>3. o \in ActionOptions(p)
      BY <1>5, <2>1, <2>2 DEF ActionOptions, ActionListFor, Options, NoPlaces
    <2>4. sent(o).action = a.action /\ sent(o).toPlayer = a.toPlayer
      BY <1>1, <1>5 DEF DecodeActionReply, Passed, Aimed
    <2> QED
      BY <1>5, <2>3, <2>4 DEF ApplyAction
  <1>6. CASE a.action = "LetMove" /\ a.toPlayer # p
    <2> DEFINE o == opt("LetMove", a.toPlayer, a.toPlace)
    <2>1. a.toPlayer \in DOMAIN room /\ CanLetMove(room, p, a.toPlayer, a.toPlace)
      BY <1>6 DEF ActionFeasible
    <2>2. /\ a.toPlayer \in others
          /\ IsPlaceAdjacent(room[a.toPlayer].place, a.toPlace)
      BY <1>2, <1>6, <2>1 DEF CanLetMove
    <2>3. a.toPlace # room[a.toPlayer].place
      BY <2>2 DEF IsPlaceAdjacent
    <2>4. o \in ActionOptions(p)
      BY <1>1, <2>1, <2>2, <2>3
        DEF ActionOptions, ActionListFor, Options, LetMoveOffered
    <2>5. /\ sent(o).action = "LetMove" /\ sent(o).toPlayer = a.toPlayer
          /\ sent(o).toPlace = a.toPlace
      BY DEF DecodeActionReply, Passed, Actions, Aimed, Moving
    <2> QED
      BY <1>6, <2>4, <2>5 DEF ApplyAction
  <1>7. \/ a.action \in {"DoNothing", "BuyKnife", "BuyHorse"}
        \/ a.action = "Move" \/ (a.action = "LetMove" /\ a.toPlayer = p)
        \/ a.action \in {"Slash", "Kick"}
        \/ a.action = "LetMove" /\ a.toPlayer # p
    BY <1>1 DEF Actions
  <1> QED
    BY <1>3, <1>4, <1>5, <1>6, <1>7, Zenon

\* Points spent on one kind of upgrade after the other, as far as each goes, are
\* all spent if there are upgrades enough; the kind that comes first gets some.
LEMMA SpentInTurn ==
    ASSUME NEW n \in Nat, NEW x \in Nat, NEW y \in Nat, NEW z \in Nat, n <= x + y + z
    PROVE  LET a == Least(n, x)
               b == Least(n - a, y)
               c == Least(n - a - b, z)
           IN  /\ a \in 0..x /\ b \in 0..y /\ c \in 0..z
               /\ a + b + c = n
               /\ n > 0 /\ x > 0 => a > 0
  BY DEF Least

\* There is a list of upgrades for whoever has points, and one with any item that
\* is not at its maximum.
LEMMA ListsThereAre ==
    ASSUME FullReplies, NEW me \in PlayerFields, StatsInBounds(me), Spendable(me)
    PROVE  LET lists == {items \in UpgradeReplies : UpgradeFeasible(me, items)}
           IN  /\ lists # {}
               /\ me.upgradePoint > 0 =>
                     /\ UpgradeKnifeRemainingTimes(me) > 0 =>
                           \E items \in lists : items.knife > 0
                     /\ UpgradeHorseRemainingTimes(me) > 0 =>
                           \E items \in lists : items.horse > 0
                     /\ UpgradeMaxHpRemainingTimes(me) > 0 =>
                           \E items \in lists : items.maxHp > 0
  <1> DEFINE k == UpgradeKnifeRemainingTimes(me)
             h == UpgradeHorseRemainingTimes(me)
             m == UpgradeMaxHpRemainingTimes(me)
             n == me.upgradePoint
             lists == {items \in UpgradeReplies : UpgradeFeasible(me, items)}
  <1>1. k \in Nat /\ h \in Nat /\ m \in Nat
    BY RemainingType
  <1>2. n \in Nat /\ n <= k + h + m
    BY <1>1 DEF Spendable, RemainingTimes
  <1>3. /\ k <= Config.maximumKnifeDamage - Config.initialKnifeDamage
        /\ h <= Config.maximumHorseDamage - Config.initialHorseDamage
        /\ m <= Config.maximumMaxHp - Config.initialMaxHp
    BY ConfigType DEF StatsInBounds, UpgradeKnifeRemainingTimes,
       UpgradeHorseRemainingTimes, UpgradeMaxHpRemainingTimes
  <1> HIDE DEF k, h, m, n
  <1>4. ASSUME NEW a \in 0..k, NEW b \in 0..h, NEW c \in 0..m, a + b + c = n
        PROVE  [knife |-> a, horse |-> b, maxHp |-> c] \in lists
    <2> DEFINE items == [knife |-> a, horse |-> b, maxHp |-> c]
    <2>1. items \in UpgradeReplies
      <3>1. /\ a \in 0..(Config.maximumKnifeDamage - Config.initialKnifeDamage)
            /\ b \in 0..(Config.maximumHorseDamage - Config.initialHorseDamage)
            /\ c \in 0..(Config.maximumMaxHp - Config.initialMaxHp)
        BY <1>1, <1>3, ConfigType
      <3> QED
        BY <3>1 DEF FullReplies
    <2>2. UpgradeFeasible(me, items)
      BY <1>1, <1>4 DEF UpgradeFeasible, ItemCount, k, h, m, n
    <2> QED
      BY <2>1, <2>2
  <1> HIDE DEF lists
  <1>5. \E items \in lists : n > 0 /\ k > 0 => items.knife > 0
    <2> DEFINE a == Least(n, k)  b == Least(n - a, h)  c == Least(n - a - b, m)
    <2>1. a \in 0..k /\ b \in 0..h /\ c \in 0..m /\ a + b + c = n
          /\ (n > 0 /\ k > 0 => a > 0)
      BY <1>1, <1>2, SpentInTurn
    <2> HIDE DEF a, b, c
    <2>2. [knife |-> a, horse |-> b, maxHp |-> c] \in lists
      BY <1>4, <2>1
    <2> QED
      BY <2>1, <2>2
  <1>6. \E items \in lists : n > 0 /\ h > 0 => items.horse > 0
    <2> DEFINE a == Least(n, h)  b == Least(n - a, k)  c == Least(n - a - b, m)
    <2>1. a \in 0..h /\ b \in 0..k /\ c \in 0..m /\ a + b + c = n
          /\ (n > 0 /\ h > 0 => a > 0)
      <3>1. n <= h + k + m
        BY <1>1, <1>2
      <3> QED
        BY <1>1, <1>2, <3>1, SpentInTurn
    <2> HIDE DEF a, b, c
    <2>2. [knife |-> b, horse |-> a, maxHp |-> c] \in lists
      <3>1. b + a + c = n
        BY <1>1, <2>1
      <3> QED
        BY <1>4, <2>1, <3>1
    <2> QED
      BY <2>1, <2>2
  <1>7. \E items \in lists : n > 0 /\ m > 0 => items.maxHp > 0
    <2> DEFINE a == Least(n, m)  b == Least(n - a, k)  c == Least(n - a - b, h)
    <2>1. a \in 0..m /\ b \in 0..k /\ c \in 0..h /\ a + b + c = n
          /\ (n > 0 /\ m > 0 => a > 0)
      <3>1. n <= m + k + h
        BY <1>1, <1>2
      <3> QED
        BY <1>1, <1>2, <3>1, SpentInTurn
    <2> HIDE DEF a, b, c
    <2>2. [knife |-> b, horse |-> c, maxHp |-> a] \in lists
      <3>1. b + c + a = n
        BY <1>1, <2>1
      <3> QED
        BY <1>4, <2>1, <3>1
    <2> QED
      BY <2>1, <2>2
  <1> QED
    BY <1>5, <1>6, <1>7 DEF lists, k, h, m, n

\* Whatever size of room the menus count their places by: of those places they offer
\* what the rules allow, all of it and nothing else.
THEOREM LogicMenuIsTheRules ==
    ASSUME FullReplies
    PROVE  Spec => []MenuIsTheRules
  <1>1. ASSUME Sound(logic), logic.state = "Action", NEW p
        PROVE  LET menu == {DecodeActionReply(a).reply : a \in ActionOptions(p)}
                   allowed == {a \in ActionReplies :
                                 InSight(a) /\ ActionFeasible(logic.room, p, a)}
               IN  Effects(p, menu) = Effects(p, allowed)
    <2>1. IsRoom(logic.room)
      BY <1>1, RoomIsRoom DEF Sound
    <2> QED
      BY <2>1, MenuIsAllowed, AllowedIsOnMenu DEF Effects
  <1>2. ASSUME Sound(logic), logic.state = "Upgrade", NEW p \in Awaited
        PROVE  LET lists == {items \in UpgradeReplies :
                               UpgradeFeasible(logic.room[p], items)}
               IN  /\ lists # {}
                   /\ UpgradeOptions(p) =
                         {item \in {"knife", "horse", "maxHp"} :
                             \E items \in lists : items[item] > 0}
    <2> DEFINE me == logic.room[p]
               lists == {items \in UpgradeReplies : UpgradeFeasible(me, items)}
    <2>1. /\ me \in PlayerFields /\ StatsInBounds(me) /\ Spendable(me)
          /\ me.upgradePoint > 0
      <3>1. p \in DOMAIN logic.room /\ me.upgradePoint > 0
        BY <1>2 DEF Awaited
      <3> QED
        BY <1>2, <3>1 DEF Sound, SpendableRoom, IsLogicP, Typed, IsHash
    <2>2. ASSUME NEW items \in lists
          PROVE  /\ items.knife > 0 => UpgradeKnifeRemainingTimes(me) > 0
                 /\ items.horse > 0 => UpgradeHorseRemainingTimes(me) > 0
                 /\ items.maxHp > 0 => UpgradeMaxHpRemainingTimes(me) > 0
      <3>1. items.knife \in Nat /\ items.horse \in Nat /\ items.maxHp \in Nat
        BY RepliesAssumption
      <3> QED
        BY <2>1, <3>1, RemainingType DEF UpgradeFeasible
    <2> HIDE DEF me
    <2>3. /\ lists # {}
          /\ UpgradeKnifeRemainingTimes(me) > 0 <=>
                \E items \in lists : items["knife"] > 0
          /\ UpgradeHorseRemainingTimes(me) > 0 <=>
                \E items \in lists : items["horse"] > 0
          /\ UpgradeMaxHpRemainingTimes(me) > 0 <=>
                \E items \in lists : items["maxHp"] > 0
      BY <2>1, <2>2, ListsThereAre
    <2> HIDE DEF lists
    <2>4. UpgradeOptions(p) = {item \in {"knife", "horse", "maxHp"} :
                                  \E items \in lists : items[item] > 0}
      BY <2>3 DEF UpgradeOptions, me
    <2> QED
      BY <2>3, <2>4 DEF lists, me
  <1>3. Sound(logic) => MenuIsTheRules
    BY <1>1, <1>2 DEF MenuIsTheRules
  <1> QED
    BY <1>3, AlwaysSound, PTL

-----------------------------------------------------------------------------
(* What an action does to hit points. *)

\* Damage is taken by whom it is dealt to, and nobody moves.
LEMMA DamageDealt ==
    ASSUME NEW r, IsRoom(r), NEW from \in DOMAIN r, NEW to \in DOMAIN r,
           NEW damage \in Int
    PROVE  LET s == ApplyDamage(r, from, to, damage)
           IN  /\ DOMAIN s = DOMAIN r /\ s[to].hp = r[to].hp - damage
               /\ \A q \in DOMAIN r : /\ q # to => s[q].hp = r[q].hp
                                      /\ s[q].place = r[q].place
  <1> DEFINE struck == [r[to] EXCEPT !.hp = @ - damage]
             hit == [r EXCEPT ![to] = struck]
             remaining == RemainingTimes(hit[from])
             point == hit[from].upgradePoint
             earned == IF point + 1 < remaining THEN point + 1 ELSE remaining
             credited == [hit[from] EXCEPT !.upgradePoint = earned]
             paid == [hit EXCEPT ![from] = credited]
  <1>1. ApplyDamage(r, from, to, damage) \in {hit, paid}
    BY DEF ApplyDamage
  <1>2. r[to] \in PlayerFields /\ \A q \in DOMAIN r : r[q] \in PlayerFields
    BY DEF IsRoom
  <1>3. struck.hp = r[to].hp - damage /\ struck.place = r[to].place
        /\ struck \in PlayerFields
    BY <1>2 DEF PlayerFields
  <1> HIDE DEF struck
  <1>4. /\ DOMAIN hit = DOMAIN r /\ hit[to] = struck
        /\ \A q \in DOMAIN r : q # to => hit[q] = r[q]
    BY DEF IsRoom
  <1> HIDE DEF hit
  <1>5. credited.hp = hit[from].hp /\ credited.place = hit[from].place
    <2>1. hit[from] \in PlayerFields
      BY <1>2, <1>3, <1>4
    <2> QED
      BY <2>1 DEF PlayerFields
  <1> HIDE DEF credited
  <1>6. /\ DOMAIN paid = DOMAIN r /\ paid[from] = credited
        /\ \A q \in DOMAIN r : q # from => paid[q] = hit[q]
    BY <1>4
  <1> HIDE DEF paid
  <1> QED
    BY <1>1, <1>3, <1>4, <1>5, <1>6

\* The punishment of a slash in r.
Paid(r, from) == IF SlashPunishHp(r[from]) > 0 THEN SlashPunishHp(r[from]) ELSE 0

\* Only a slash and a kick cost hit points: the slashed and the kicked the damage,
\* and the slasher its punishment.
LEMMA ActionHits ==
    ASSUME NEW r, IsRoom(r), NEW from \in DOMAIN r, NEW a,
           ActionFeasible(r, from, a)
    PROVE  LET s == ApplyAction(r, from, a)
           IN  /\ DOMAIN s = DOMAIN r
               /\ a.action \notin {"Slash", "Kick"} =>
                     \A q \in DOMAIN r : s[q].hp = r[q].hp
               /\ a.action = "Slash" =>
                     \A q \in DOMAIN r :
                        s[q].hp = IF q = a.toPlayer
                                  THEN r[q].hp - r[from].knifeDamage
                                  ELSE IF q = from THEN r[q].hp - Paid(r, from)
                                  ELSE r[q].hp
               /\ a.action = "Kick" =>
                     \A q \in DOMAIN r :
                        s[q].hp = IF q = a.toPlayer
                                  THEN r[q].hp - r[from].horseDamage
                                  ELSE r[q].hp
  <1> DEFINE s == ApplyAction(r, from, a)
             to == a.toPlayer
  <1>1. \A q \in DOMAIN r : r[q] \in PlayerFields /\ r[q].hp \in Int
    BY PlayerType DEF IsRoom
  <1>2. CASE a.action = "Slash"
    <2> DEFINE struck == ApplyDamage(r, from, to, r[from].knifeDamage)
               punish == SlashPunishHp(struck[from])
    <2>1. to \in DOMAIN r /\ from # to
      BY <1>2 DEF ActionFeasible, CanSlash
    <2>2. r[from].knifeDamage \in Int
      BY <1>1, PlayerType
    <2>3. /\ RoomKept(r, struck) /\ DOMAIN struck = DOMAIN r
          /\ struck[to].hp = r[to].hp - r[from].knifeDamage
          /\ \A q \in DOMAIN r : /\ q # to => struck[q].hp = r[q].hp
                                 /\ struck[q].place = r[q].place
      BY <2>1, <2>2, ApplyDamageKeeps, DamageDealt
    <2>4. s = IF punish > 0 THEN ApplyDamage(struck, to, from, punish) ELSE struck
      BY <1>2 DEF ApplyAction, Slash
    <2> HIDE DEF struck
    <2>5. punish = SlashPunishHp(r[from]) /\ punish \in Int /\ IsRoom(struck)
      <3>1. struck[from].maxHp = r[from].maxHp /\ struck[from].place = r[from].place
        BY <2>3 DEF RoomKept, Kept
      <3>2. punish = SlashPunishHp(r[from])
        BY <3>1 DEF SlashPunishHp
      <3> QED
        BY <1>1, <2>3, <3>2, PlayerType DEF RoomKept
    <2> HIDE DEF punish
    <2>6. CASE punish > 0
      <3>1. /\ DOMAIN s = DOMAIN r /\ s[from].hp = struck[from].hp - punish
            /\ \A q \in DOMAIN r : q # from => s[q].hp = struck[q].hp
        BY <2>1, <2>3, <2>4, <2>5, <2>6, DamageDealt
      <3> HIDE DEF s
      <3> QED
        BY <1>2, <2>1, <2>3, <2>5, <2>6, <3>1 DEF Paid, s
    <2>7. CASE ~(punish > 0)
      <3>1. s = struck /\ Paid(r, from) = 0
        BY <2>4, <2>5, <2>7 DEF Paid
      <3>2. r[from].hp - 0 = r[from].hp
        BY <1>1
      <3> HIDE DEF s
      <3> QED
        BY <1>2, <2>1, <2>3, <3>1, <3>2 DEF s
    <2> QED
      BY <2>6, <2>7
  <1>3. CASE a.action = "Kick"
    <2> DEFINE kicked == ApplyDamage(r, from, to, r[from].horseDamage)
               home == [kicked EXCEPT ![to].place = Village]
    <2>1. to \in DOMAIN r /\ from # to
      BY <1>3 DEF ActionFeasible, CanKick
    <2>2. r[from].horseDamage \in Int
      BY <1>1, PlayerType
    <2>3. /\ RoomKept(r, kicked) /\ DOMAIN kicked = DOMAIN r
          /\ kicked[to].hp = r[to].hp - r[from].horseDamage
          /\ \A q \in DOMAIN r : q # to => kicked[q].hp = r[q].hp
      BY <2>1, <2>2, ApplyDamageKeeps, DamageDealt
    <2>4. s \in {kicked, home}
      BY <1>3 DEF ApplyAction, Kick
    <2> HIDE DEF kicked
    <2>5. DOMAIN home = DOMAIN r /\ \A q \in DOMAIN r : home[q].hp = kicked[q].hp
      BY <2>3 DEF RoomKept, IsRoom, PlayerFields
    <2> HIDE DEF home, s
    <2> QED
      BY <1>3, <2>3, <2>4, <2>5 DEF s
  <1>4. CASE a.action \notin {"Slash", "Kick"}
    <2>1. /\ DOMAIN s = DOMAIN r /\ \A q \in DOMAIN r : s[q].hp = r[q].hp
      BY <1>1, <1>4 DEF ApplyAction, PlayerFields
    <2> HIDE DEF s
    <2> QED
      BY <1>4, <2>1 DEF s
  <1> QED
    BY <1>2, <1>3, <1>4

\* Whoever dies of an action has lost hit points to it.
LEMMA HitDies ==
    ASSUME NEW r, IsRoom(r), NEW from \in DOMAIN r, NEW a,
           ActionFeasible(r, from, a), NEW q \in Killed(r, from, a)
    PROVE  /\ q \in DOMAIN r /\ Alive(r[q])
           /\ \/ /\ a.action = "Slash" /\ q = a.toPlayer
                 /\ DeadAtHp(r[q].hp - r[from].knifeDamage)
              \/ /\ a.action = "Kick" /\ q = a.toPlayer
                 /\ DeadAtHp(r[q].hp - r[from].horseDamage)
              \/ /\ a.action = "Slash" /\ q = from /\ q # a.toPlayer
                 /\ SlashPunishHp(r[from]) > 0
                 /\ DeadAtHp(r[q].hp - SlashPunishHp(r[from]))
  <1> DEFINE s == ApplyAction(r, from, a)
  <1>1. q \in DOMAIN r /\ Alive(r[q]) /\ DeadAtHp(s[q].hp) /\ ~DeadAtHp(r[q].hp)
    BY DEF Killed, Alive, Dead
  <1>2. r[q].hp \in Int
    BY <1>1, PlayerType DEF IsRoom
  <1> HIDE DEF s
  <1>3. s[q].hp # r[q].hp
    BY <1>1
  <1>4. r[q].hp - 0 = r[q].hp
    BY <1>2
  <1> QED
    BY <1>1, <1>3, <1>4, ActionHits DEF s, Paid

-----------------------------------------------------------------------------
(* Everybody has a city to go home to. *)

\* The third inductive invariant: in a round, where a player started is a seat of
\* the room.
AtHome(r) == \A p \in DOMAIN r : r[p].initialPlace \in 1..Cardinality(DOMAIN r)

Homes(l) == l.state # "BeforeRoundStart" => AtHome(l.room)

\* The seats are dealt as far as there are players.
LEMMA SeatsAreHomes ==
    ASSUME NEW r, IsRoom(r)
    PROVE  AtHome(PrepareForRoundStart(r))
  <1> DEFINE s == PrepareForRoundStart(r)
             seat(p) == RankIn(DOMAIN r, p)
  <1>1. DOMAIN r \in SUBSET Int /\ IsFiniteSet(DOMAIN r)
    BY RoomIsFinite, RulesAssumption DEF IsRoom, Name
  <1>2. DOMAIN s = DOMAIN r
          /\ \A p \in DOMAIN r : s[p] = PreparedForRoundStart(r[p], seat(p))
    BY DEF PrepareForRoundStart, RankIn
  <1>3. \A p \in DOMAIN r : seat(p) \in 1..Cardinality(DOMAIN r)
    BY <1>1, RankBijection
  <1> HIDE DEF s, seat
  <1>4. \A p \in DOMAIN r : s[p].initialPlace = seat(p)
    BY <1>2 DEF IsRoom, PlayerFields, PreparedForRoundStart
  <1> QED
    BY <1>2, <1>3, <1>4 DEF AtHome, s

\* Every call of a slot leaves the players their homes.
LEMMA NextHomes ==
    ASSUME Sound(logic), InStep(logic), Homes(logic), [Next]_logic
    PROVE  Homes(logic')
  <1>1. ASSUME logic'.room = logic.room, logic.state # "BeforeRoundStart"
        PROVE  Homes(logic')
    BY <1>1 DEF Homes
  <1>2. CASE \E p \in Name : AddPlayer(p) \/ RemovePlayer(p)
    BY <1>2, RoomChangeInStep DEF Homes
  <1>3. CASE RoundStart
    <2>1. AtHome(PrepareForRoundStart(logic.room))
      BY RoomIsRoom, SeatsAreHomes DEF Sound
    <2> QED
      BY <1>3, <2>1, RoundCall DEF Homes
  <1>4. ASSUME NEW p \in logic.asked, NEW rps \in Throws, RpsReply(p, rps)
        PROVE  Homes(logic')
    <2>1. CASE RpsReplyForAction(p, rps)
      <3>1. logic'.room = logic.room
        BY <2>1, ThrowCall DEF Records, GoesOn
      <3> QED
        BY <1>1, <2>1, <3>1 DEF RpsReplyForAction
    <2>2. CASE RpsReplyForActionOrder(p, rps)
      <3>1. logic'.room = logic.room
        BY <2>2, ContestCall DEF Records, GoesOn
      <3> QED
        BY <1>1, <2>2, <3>1 DEF RpsReplyForActionOrder
    <2> QED
      BY <1>4, <2>1, <2>2 DEF RpsReply
  <1>5. ASSUME NEW p \in logic.asked, NEW list \in OrderReplies,
               ActionOrderReply(p, list)
        PROVE  Homes(logic')
    <2>1. logic'.room = logic.room
      BY <1>5, ListCall DEF Records, GoesOn
    <2> QED
      BY <1>1, <1>5, <2>1 DEF ActionOrderReply
  <1>6. ASSUME NEW p \in logic.asked, NEW a \in ActionReplies, ActionReply(p, a)
        PROVE  Homes(logic')
    <2>1. RoomKept(logic.room, logic'.room) /\ logic.state = "Action"
      BY <1>6, TurnCall
    <2> QED
      BY <2>1 DEF Homes, AtHome, RoomKept, Kept
  <1>7. ASSUME NEW p \in logic.asked, NEW items \in UpgradeReplies,
               UpgradeReply(p, items)
        PROVE  Homes(logic')
    <2>1. /\ logic.state = "Upgrade"
          /\ Records(logic, logic', p) \/ logic'.state = "BeforeRoundStart"
      BY <1>7, UpgradeCall
    <2> QED
      BY <1>1, <2>1 DEF Records, Homes
  <1>8. CASE UNCHANGED logic
    BY <1>8
  <1> QED
    BY <1>2, <1>3, <1>4, <1>5, <1>6, <1>7, <1>8 DEF Next, Reply

\* In every round the players have their homes.
LEMMA AlwaysHomes == Spec => [](Sound(logic) /\ InStep(logic) /\ Homes(logic))
  <1>1. Init => Homes(logic)
    BY DEF Init, Homes
  <1>2. Sound(logic) /\ InStep(logic) /\ Homes(logic) /\ [Next]_logic
           => Homes(logic)'
    BY NextHomes
  <1> QED
    BY <1>1, <1>2, AlwaysInStep, PTL DEF Spec

-----------------------------------------------------------------------------
(* The bots use their turns. *)

\* What a bot finds when it is its turn: it is alive and not alone, and everybody
\* is on the map and has a home on it.
BotsTurn(p) ==
    /\ IsRoom(logic.room) /\ AtHome(logic.room)
    /\ p \in AlivePlayers(logic.room)
    /\ Opponents(logic.room, p) # {}
    /\ Cardinality(DOMAIN logic.room) >= 2 /\ Cardinality(DOMAIN logic.room) \in Nat
    /\ \A q \in DOMAIN logic.room :
          logic.room[q].place \in 0..Cardinality(DOMAIN logic.room)

\* A turn is well spent on a feasible action that is sent as it is taken, if it
\* does not kill its own player alone.
LEMMA WellSpent ==
    ASSUME NEW p \in DOMAIN logic.room,
           NEW a \in [action: Actions, toPlayer: Name \cup {Nobody}, toPlace: Int],
           a.action # "DoNothing",
           a.action \in Aimed => a.toPlayer \in DOMAIN logic.room,
           a.action \notin Aimed => a.toPlayer = Nobody,
           a.action \in Moving => a.toPlace \in 0..Cardinality(DOMAIN logic.room),
           a.action \notin Moving => a.toPlace = 0,
           ActionFeasible(logic.room, p, a),
           p \in Killed(logic.room, p, a) => a.toPlayer \in Killed(logic.room, p, a)
    PROVE  TurnWellSpent(p, a)
  <1> DEFINE n == ActionNotified(a)
             b == [action |-> a.action,
                   toPlayer |-> IF a.action \in Aimed THEN a.toPlayer ELSE Nobody,
                   toPlace |-> IF a.action \in Moving THEN a.toPlace ELSE 0]
  <1>1. DecodeActionReply(a) = Passed(a)
    <2>1. DecodeActionReply(a) = Passed(b)
      BY DEF DecodeActionReply
    <2>2. b = [action |-> a.action, toPlayer |-> a.toPlayer, toPlace |-> a.toPlace]
      OBVIOUS
    <2>3. a = [action |-> a.action, toPlayer |-> a.toPlayer, toPlace |-> a.toPlace]
      OBVIOUS
    <2> QED
      BY <2>1, <2>2, <2>3
  <1>2. NotifyAction(logic.room, p, n).success
    <2>1. /\ n.action = a.action
          /\ a.action \in Aimed => n.toPlayer = a.toPlayer
          /\ a.action \in Moving => n.toPlace = a.toPlace
          /\ ActionFeasible(logic.room, p, n)
      BY NotifiedActs
    <2> HIDE DEF n
    <2> QED
      BY <2>1 DEF NotifyAction, PlayerDoes
  <1> QED
    BY <1>1, <1>2 DEF TurnWellSpent

\* The bots' answers, in full.
LEMMA Answers ==
    /\ \A action : Does(action) =
          [action |-> action, toPlayer |-> Nobody, toPlace |-> 0]
    /\ \A action, peer : DoesTo(action, peer) =
          [action |-> action, toPlayer |-> peer, toPlace |-> 0]
    /\ \A place : MovesTo(place) =
          [action |-> "Move", toPlayer |-> Nobody, toPlace |-> place]
    /\ \A peer, place : [DoesTo("LetMove", peer) EXCEPT !.toPlace = place] =
          [action |-> "LetMove", toPlayer |-> peer, toPlace |-> place]
  <1>1. \A action : Does(action) =
           [action |-> action, toPlayer |-> Nobody, toPlace |-> 0]
    BY DEF Does, DoNothing
  <1>2. \A action, peer : DoesTo(action, peer) =
           [action |-> action, toPlayer |-> peer, toPlace |-> 0]
    <2> SUFFICES ASSUME NEW action, NEW peer
                 PROVE  DoesTo(action, peer) =
                           [action |-> action, toPlayer |-> peer, toPlace |-> 0]
      OBVIOUS
    <2> DEFINE d == [action |-> action, toPlayer |-> Nobody, toPlace |-> 0]
    <2>1. DoesTo(action, peer) = [d EXCEPT !.toPlayer = peer]
      BY <1>1, Zenon DEF DoesTo
    <2> QED
      BY <2>1
  <1>3. \A place : MovesTo(place) =
           [action |-> "Move", toPlayer |-> Nobody, toPlace |-> place]
    <2> SUFFICES ASSUME NEW place
                 PROVE  MovesTo(place) =
                           [action |-> "Move", toPlayer |-> Nobody, toPlace |-> place]
      OBVIOUS
    <2> DEFINE d == [action |-> "Move", toPlayer |-> Nobody, toPlace |-> 0]
    <2>1. MovesTo(place) = [d EXCEPT !.toPlace = place]
      BY <1>1, Zenon DEF MovesTo
    <2> QED
      BY <2>1
  <1>4. \A peer, place : [DoesTo("LetMove", peer) EXCEPT !.toPlace = place] =
           [action |-> "LetMove", toPlayer |-> peer, toPlace |-> place]
    <2> SUFFICES ASSUME NEW peer, NEW place
                 PROVE  [DoesTo("LetMove", peer) EXCEPT !.toPlace = place] =
                           [action |-> "LetMove", toPlayer |-> peer,
                            toPlace |-> place]
      OBVIOUS
    <2> DEFINE d == [action |-> "LetMove", toPlayer |-> peer, toPlace |-> 0]
    <2>1. [DoesTo("LetMove", peer) EXCEPT !.toPlace = place]
             = [d EXCEPT !.toPlace = place]
      BY <1>2, Zenon
    <2> QED
      BY <2>1
  <1> QED
    BY <1>1, <1>2, <1>3, <1>4

\* Buying what can be bought.
LEMMA BuyingIsWellSpent ==
    ASSUME NEW p, BotsTurn(p)
    PROVE  /\ CanBuyKnife(logic.room[p]) => TurnWellSpent(p, Does("BuyKnife"))
           /\ CanBuyHorse(logic.room[p]) => TurnWellSpent(p, Does("BuyHorse"))
  <1>0. p \in DOMAIN logic.room /\ IsRoom(logic.room)
    BY DEF BotsTurn, AlivePlayers
  <1>1. ASSUME NEW action \in {"BuyKnife", "BuyHorse"},
               action = "BuyKnife" => CanBuyKnife(logic.room[p]),
               action = "BuyHorse" => CanBuyHorse(logic.room[p])
        PROVE  TurnWellSpent(p, Does(action))
    <2> DEFINE a == Does(action)
    <2>1. a = [action |-> action, toPlayer |-> Nobody, toPlace |-> 0]
      BY Answers
    <2>2. /\ a \in [action: Actions, toPlayer: Name \cup {Nobody}, toPlace: Int]
          /\ a.action = action /\ a.toPlayer = Nobody /\ a.toPlace = 0
      BY <2>1 DEF Actions
    <2> HIDE DEF a
    <2>3. ActionFeasible(logic.room, p, a)
      BY <1>1, <2>2 DEF ActionFeasible
    <2>4. p \notin Killed(logic.room, p, a)
      BY <1>0, <2>2, <2>3, HitDies
    <2>5. TurnWellSpent(p, a)
      BY <1>0, <2>2, <2>3, <2>4, WellSpent DEF Aimed, Moving
    <2> QED
      BY <2>5 DEF a
  <1> QED
    BY <1>1

\* Moving to a place there is.
LEMMA MovingIsWellSpent ==
    ASSUME NEW p, BotsTurn(p), NEW place \in 0..Cardinality(DOMAIN logic.room),
           CanMove(logic.room[p], place)
    PROVE  TurnWellSpent(p, MovesTo(place))
  <1> DEFINE a == MovesTo(place)
  <1>0. p \in DOMAIN logic.room /\ IsRoom(logic.room) /\ place \in Int
    BY DEF BotsTurn, AlivePlayers
  <1>1. a = [action |-> "Move", toPlayer |-> Nobody, toPlace |-> place]
    BY Answers
  <1>2. /\ a \in [action: Actions, toPlayer: Name \cup {Nobody}, toPlace: Int]
        /\ a.action = "Move" /\ a.toPlayer = Nobody /\ a.toPlace = place
    BY <1>0, <1>1 DEF Actions
  <1> HIDE DEF a
  <1>3. ActionFeasible(logic.room, p, a)
    BY <1>2 DEF ActionFeasible
  <1>4. p \notin Killed(logic.room, p, a)
    BY <1>0, <1>2, <1>3, HitDies
  <1>5. TurnWellSpent(p, a)
    BY <1>0, <1>2, <1>3, <1>4, WellSpent DEF Aimed, Moving
  <1> QED
    BY <1>5 DEF a

\* Dragging a peer into the city one is in.
LEMMA PullingIsWellSpent ==
    ASSUME NEW p, BotsTurn(p), NEW to \in Opponents(logic.room, p),
           CanLetMove(logic.room, p, to, logic.room[p].place)
    PROVE  TurnWellSpent(p, [DoesTo("LetMove", to)
                                EXCEPT !.toPlace = logic.room[p].place])
  <1> DEFINE place == logic.room[p].place
             a == [DoesTo("LetMove", to) EXCEPT !.toPlace = place]
  <1>0. /\ p \in DOMAIN logic.room /\ IsRoom(logic.room) /\ place \in Int
        /\ place \in 0..Cardinality(DOMAIN logic.room)
        /\ to \in DOMAIN logic.room /\ to \in Name
    BY DEF BotsTurn, AlivePlayers, Opponents, IsRoom
  <1> HIDE DEF place
  <1>1. a = [action |-> "LetMove", toPlayer |-> to, toPlace |-> place]
    BY Answers
  <1>2. /\ a \in [action: Actions, toPlayer: Name \cup {Nobody}, toPlace: Int]
        /\ a.action = "LetMove" /\ a.toPlayer = to /\ a.toPlace = place
    BY <1>0, <1>1 DEF Actions
  <1> HIDE DEF a
  <1>3. ActionFeasible(logic.room, p, a)
    BY <1>0, <1>2 DEF ActionFeasible, place
  <1>4. p \notin Killed(logic.room, p, a)
    BY <1>0, <1>2, <1>3, HitDies
  <1>5. TurnWellSpent(p, a)
    BY <1>0, <1>2, <1>3, <1>4, WellSpent DEF Aimed, Moving
  <1> QED
    BY <1>5 DEF a, place

\* Kicking, slashing when one lives on, and slashing when the peer dies too.
LEMMA HittingIsWellSpent ==
    ASSUME NEW p, BotsTurn(p), NEW to \in Opponents(logic.room, p)
    PROVE  /\ CanKick(logic.room, p, to) => TurnWellSpent(p, DoesTo("Kick", to))
           /\ CanSlashSafely(logic.room, p, to) =>
                 TurnWellSpent(p, DoesTo("Slash", to))
           /\ Config.zeroHpAsDead /\ SlashIsWorthItsPunish(logic.room, p, to) =>
                 TurnWellSpent(p, DoesTo("Slash", to))
  <1> DEFINE room == logic.room
  <1>0. /\ p \in DOMAIN room /\ IsRoom(room) /\ p # to
        /\ to \in DOMAIN room /\ to \in Name /\ Alive(room[to])
    BY DEF BotsTurn, AlivePlayers, Opponents, IsRoom
  <1>1. ASSUME NEW action \in {"Slash", "Kick"},
               action = "Slash" => CanSlash(room, p, to),
               action = "Kick" => CanKick(room, p, to),
               action = "Slash" =>
                  \/ ~DeadAtHp(room[p].hp - SlashPunishHp(room[p]))
                  \/ DeadAtHp(room[to].hp - room[p].knifeDamage)
        PROVE  TurnWellSpent(p, DoesTo(action, to))
    <2> DEFINE a == DoesTo(action, to)
    <2>1. a = [action |-> action, toPlayer |-> to, toPlace |-> 0]
      BY Answers
    <2>2. /\ a \in [action: Actions, toPlayer: Name \cup {Nobody}, toPlace: Int]
          /\ a.action = action /\ a.toPlayer = to /\ a.toPlace = 0
      BY <1>0, <2>1 DEF Actions
    <2> HIDE DEF a
    <2>3. ActionFeasible(room, p, a)
      BY <1>0, <1>1, <2>2 DEF ActionFeasible
    <2>4. ASSUME p \in Killed(room, p, a) PROVE to \in Killed(room, p, a)
      <3>1. /\ action = "Slash"
            /\ DeadAtHp(room[p].hp - SlashPunishHp(room[p]))
        BY <1>0, <2>2, <2>3, <2>4, HitDies
      <3>2. DeadAtHp(room[to].hp - room[p].knifeDamage)
        BY <1>1, <3>1
      <3>3. ApplyAction(room, p, a)[to].hp = room[to].hp - room[p].knifeDamage
        BY <1>0, <2>2, <2>3, <3>1, ActionHits
      <3> QED
        BY <1>0, <3>2, <3>3 DEF Killed, Dead
    <2>5. TurnWellSpent(p, a)
      BY <1>0, <2>2, <2>3, <2>4, WellSpent DEF Aimed, Moving
    <2> QED
      BY <2>5 DEF a
  <1>2. CanSlashSafely(room, p, to) =>
           /\ CanSlash(room, p, to)
           /\ ~DeadAtHp(room[p].hp - SlashPunishHp(room[p]))
    BY DEF CanSlashSafely
  <1>3. Config.zeroHpAsDead /\ SlashIsWorthItsPunish(room, p, to) =>
           /\ CanSlash(room, p, to)
           /\ DeadAtHp(room[to].hp - room[p].knifeDamage)
    <2>1. room[to].hp \in Int /\ room[p].knifeDamage \in Int
      BY <1>0, PlayerType DEF IsRoom
    <2> QED
      BY <2>1 DEF SlashIsWorthItsPunish, DeadAtHp
  <1> QED
    BY <1>1, <1>2, <1>3

\* The first of a set of numbers is one of them.
LEMMA FirstMember ==
    ASSUME NEW S \in SUBSET Nat, S # {}
    PROVE  First(S) \in S
  <1>1. \E p \in S : \A q \in S : p <= q
    BY LeastNat
  <1> QED
    BY <1>1 DEF First

\* Whoever is aimed at is an opponent, and one in the same place if there is any.
LEMMA Targets ==
    ASSUME NEW r, IsRoom(r), NEW self, NEW grudge
    PROVE  /\ Opponents(r, self) \subseteq Name
           /\ SelectTarget(r, self, grudge) # Nobody =>
                 SelectTarget(r, self, grudge) \in Opponents(r, self)
           /\ AttackTarget(r, self, grudge) # Nobody =>
                 AttackTarget(r, self, grudge) \in Opponents(r, self)
           /\ \A q \in Opponents(r, self) : r[q].place = r[self].place =>
                 /\ AttackTarget(r, self, grudge) # Nobody
                 /\ r[AttackTarget(r, self, grudge)].place = r[self].place
           /\ Opponents(r, self) # {} =>
                 First(Opponents(r, self)) \in Opponents(r, self)
  <1> DEFINE others == Opponents(r, self)
             here == {q \in others : r[q].place = r[self].place}
             best == BestScored(r, self, grudge, here)
  <1>1. others \subseteq Name /\ Name \subseteq Nat /\ Nobody \notin Name
    BY RulesAssumption DEF Opponents, AlivePlayers, IsRoom, Name, Nobody
  <1>2. ASSUME NEW S \in SUBSET others, S # {}
        PROVE  First(S) \in S /\ First(S) # Nobody
    BY <1>1, <1>2, FirstMember
  <1>3. First({}) = Nobody
    BY DEF First
  <1>4. ASSUME NEW S \in SUBSET others
        PROVE  BestScored(r, self, grudge, S) \in S \cup {Nobody}
    <2> DEFINE T == {q \in S : /\ TargetScore(r, self, grudge, q) > 0
                               /\ \A x \in S : TargetScore(r, self, grudge, x)
                                                  <= TargetScore(r, self, grudge, q)}
    <2>1. BestScored(r, self, grudge, S) = First(T)
      BY DEF BestScored
    <2>2. T \in SUBSET others /\ T \subseteq S
      OBVIOUS
    <2> HIDE DEF T
    <2> QED
      BY <1>2, <1>3, <2>1, <2>2
  <1>5. SelectTarget(r, self, grudge) \in others \cup {Nobody}
    BY <1>4 DEF SelectTarget
  <1>6. best \in here \cup {Nobody}
    BY <1>4
  <1>7. AttackTarget(r, self, grudge) = IF best # Nobody THEN best ELSE First(here)
    BY DEF AttackTarget
  <1>8. here \subseteq others
    OBVIOUS
  <1> HIDE DEF best, others
  <1>9. /\ AttackTarget(r, self, grudge) \in here \cup {Nobody}
        /\ here # {} => AttackTarget(r, self, grudge) # Nobody
    BY <1>2, <1>3, <1>6, <1>7, <1>8
  <1> QED
    BY <1>1, <1>2, <1>5, <1>9 DEF others

\* In the Village a slash costs nothing.
LEMMA VillageSlash ==
    ASSUME NEW r, NEW self, NEW to, Alive(r[self]), Alive(r[to]), self # to,
           r[self].hasKnife, r[self].place = Village, r[to].place = Village,
           r[self].hp \in Int
    PROVE  CanSlashSafely(r, self, to)
  <1>1. SlashPunishHp(r[self]) = 0
    BY DEF SlashPunishHp
  <1>2. r[self].hp - 0 = r[self].hp
    OBVIOUS
  <1>3. ~DeadAtHp(r[self].hp - SlashPunishHp(r[self]))
    BY <1>1, <1>2 DEF Alive, Dead
  <1> QED
    BY <1>3 DEF CanSlashSafely, CanSlash

\* The knife style always finds something to do, and does nothing illegal.
LEMMA KnifeTurn ==
    ASSUME Config.zeroHpAsDead, NEW p, BotsTurn(p), NEW grudge
    PROVE  TurnWellSpent(p, KnifePreferredAction(logic.room, p, grudge))
  <1> DEFINE room == logic.room
             me == room[p]
             n == Cardinality(DOMAIN room)
             others == Opponents(room, p)
             shops == {place \in 1..n : CanMove(me, place)}
             to == AttackTarget(room, p, grudge)
             target == SelectTarget(room, p, grudge)
             marchOn == IF target # Nobody THEN target ELSE First(others)
             dest == IF me.place = Village THEN room[marchOn].place ELSE Village
             slashing == CanSlashSafely(room, p, to) \/ SlashIsWorthItsPunish(room, p, to)
             act == KnifePreferredAction(room, p, grudge)
  <1>1. act =
           IF ~me.hasKnife /\ CanBuyKnife(me) THEN Does("BuyKnife")
           ELSE IF ~me.hasKnife /\ shops # {} THEN MovesTo(First(shops))
           ELSE IF to # Nobody /\ slashing THEN DoesTo("Slash", to)
           ELSE IF to # Nobody /\ CanKick(room, p, to) THEN DoesTo("Kick", to)
           ELSE IF ~TwoSlashesFinishEveryone(room, p) /\ CanBuyHorse(me)
           THEN Does("BuyHorse")
           ELSE IF marchOn # Nobody /\ CanMove(me, dest) THEN MovesTo(dest)
           ELSE DoNothing
    BY DEF KnifePreferredAction
  <1>2. /\ IsRoom(room) /\ p \in DOMAIN room /\ Alive(me) /\ others # {}
        /\ n \in Nat /\ n >= 2 /\ me.hp \in Int
        /\ \A q \in DOMAIN room : room[q].place \in 0..n
    BY PlayerType DEF BotsTurn, AlivePlayers, IsRoom
  <1>3. /\ to # Nobody => to \in others
        /\ marchOn \in others /\ marchOn # Nobody
        /\ room[marchOn].place = me.place =>
              to # Nobody /\ room[to].place = me.place
    <2>1. others \subseteq Name /\ Nobody \notin Name
      BY <1>2, Targets, RulesAssumption DEF Name, Nobody
    <2>2. marchOn \in others
      BY <1>2, Targets
    <2> HIDE DEF marchOn
    <2> QED
      BY <1>2, <2>1, <2>2, Targets
  <1>4. \A q \in others : q \in DOMAIN room /\ Alive(room[q]) /\ q # p
    BY DEF Opponents, AlivePlayers
  <1>5. shops # {} => First(shops) \in 0..n /\ CanMove(me, First(shops))
    <2>1. shops \in SUBSET Nat /\ \A place \in shops : place \in 0..n
      BY <1>2
    <2>2. shops # {} => First(shops) \in shops
      BY <2>1, FirstMember
    <2> QED
      BY <2>1, <2>2
  <1>6. me.place = Village => shops # {}
    <2>1. me.place = Village => 1 \in shops
      BY <1>2 DEF CanMove, IsPlaceAdjacent, Village
    <2> QED
      BY <2>1
  <1>7. dest \in 0..n
    BY <1>2, <1>3, <1>4 DEF Village
  <1> HIDE DEF shops, to, target, marchOn, slashing
  <1>8. CanMove(me, dest) \/ (me.place = Village /\ room[marchOn].place = Village)
    BY <1>2 DEF CanMove, IsPlaceAdjacent
  <1> HIDE DEF dest
  <1>9. CASE ~me.hasKnife /\ CanBuyKnife(me)
    BY <1>1, <1>9, BuyingIsWellSpent
  <1>10. CASE ~(~me.hasKnife /\ CanBuyKnife(me)) /\ ~me.hasKnife /\ shops # {}
    <2>1. act = MovesTo(First(shops))
      BY <1>1, <1>10
    <2>2. TurnWellSpent(p, MovesTo(First(shops)))
      BY <1>5, <1>10, MovingIsWellSpent
    <2> QED
      BY <2>1, <2>2
  <1>11. CASE ~(~me.hasKnife /\ (CanBuyKnife(me) \/ shops # {}))
    <2>1. CASE to # Nobody /\ slashing
      <3>1. act = DoesTo("Slash", to)
        BY <1>1, <1>11, <2>1
      <3>2. TurnWellSpent(p, DoesTo("Slash", to))
        BY <1>3, <2>1, HittingIsWellSpent DEF slashing
      <3> QED
        BY <3>1, <3>2
    <2>2. CASE ~(to # Nobody /\ slashing) /\ to # Nobody /\ CanKick(room, p, to)
      <3>1. act = DoesTo("Kick", to)
        BY <1>1, <1>11, <2>2
      <3>2. TurnWellSpent(p, DoesTo("Kick", to))
        BY <1>3, <2>2, HittingIsWellSpent
      <3> QED
        BY <3>1, <3>2
    <2>3. CASE /\ ~(to # Nobody /\ (slashing \/ CanKick(room, p, to)))
               /\ ~TwoSlashesFinishEveryone(room, p) /\ CanBuyHorse(me)
      <3>1. act = Does("BuyHorse")
        BY <1>1, <1>11, <2>3
      <3>2. TurnWellSpent(p, Does("BuyHorse"))
        BY <2>3, BuyingIsWellSpent
      <3> QED
        BY <3>1, <3>2
    <2>4. CASE /\ ~(to # Nobody /\ (slashing \/ CanKick(room, p, to)))
               /\ ~(~TwoSlashesFinishEveryone(room, p) /\ CanBuyHorse(me))
      <3>1. CanMove(me, dest)
        <4> SUFFICES ASSUME me.place = Village, room[marchOn].place = Village
                     PROVE  FALSE
          BY <1>8
        <4>1. me.hasKnife
          BY <1>6, <1>11
        <4>2. to # Nobody /\ room[to].place = Village
          BY <1>3
        <4>3. CanSlashSafely(room, p, to)
          BY <1>2, <1>3, <1>4, <4>1, <4>2, VillageSlash
        <4> QED
          BY <2>4, <4>2, <4>3 DEF slashing
      <3>2. act = MovesTo(dest)
        BY <1>1, <1>3, <1>11, <2>4, <3>1
      <3>3. TurnWellSpent(p, MovesTo(dest))
        BY <1>7, <3>1, MovingIsWellSpent
      <3> QED
        BY <3>2, <3>3
    <2> QED
      BY <2>1, <2>2, <2>3, <2>4
  <1> QED
    BY <1>9, <1>10, <1>11

\* The place the horse style makes for is on the map; from the Village it is out of
\* it, unless there is a peer to slash where it stands.
LEMMA MakesFor ==
    ASSUME NEW p, BotsTurn(p), NEW grudge
    PROVE  /\ WantedPlace(logic.room, p, grudge) \in 0..Cardinality(DOMAIN logic.room)
           /\ /\ WantedPlace(logic.room, p, grudge) = Village
              /\ logic.room[p].place = Village
              => /\ logic.room[p].hasKnife
                 /\ \E q \in Opponents(logic.room, p) : logic.room[q].place = Village
  <1> DEFINE room == logic.room
             me == room[p]
             n == Cardinality(DOMAIN room)
             others == Opponents(room, p)
             rated == SelectTarget(room, p, grudge)
             shopping == \/ ~me.hasHorse /\ ~CanBuyHorse(me)
                         \/ ~me.hasKnife /\ ~CanBuyKnife(me)
             wanted == WantedPlace(room, p, grudge)
  <1>1. /\ IsRoom(room) /\ p \in DOMAIN room /\ others # {} /\ n \in Nat
        /\ \A q \in DOMAIN room : room[q].place \in 0..n
        /\ me.initialPlace \in 1..n
    BY DEF BotsTurn, AlivePlayers, AtHome
  <1>2. /\ rated # Nobody => rated \in others
        /\ First(others) \in others
        /\ \A q \in others : q \in DOMAIN room
    BY <1>1, Targets DEF Opponents, AlivePlayers
  <1>3. wanted = IF rated # Nobody /\ CanMove(me, room[rated].place)
                 THEN room[rated].place
                 ELSE IF shopping THEN me.initialPlace
                 ELSE IF rated # Nobody THEN room[rated].place
                 ELSE IF others # {} THEN room[First(others)].place
                 ELSE NoPlace
    BY DEF WantedPlace
  <1>4. me.place = Village => ~CanMove(me, Village) /\ (shopping \/ me.hasKnife)
    <2>1. me.place = Village => ~InShop(me)
      BY <1>1 DEF InShop, Village
    <2> QED
      BY <2>1 DEF CanMove, IsPlaceAdjacent, CanBuyKnife
  <1> HIDE DEF rated, shopping, others, wanted
  <1>5. wanted \in 0..n
    BY <1>1, <1>2, <1>3
  <1>6. ASSUME wanted = Village, me.place = Village
        PROVE  me.hasKnife /\ \E q \in others : room[q].place = Village
    <2>1. me.initialPlace # Village
      BY <1>1 DEF Village
    <2>2. ~(rated # Nobody /\ CanMove(me, room[rated].place)) /\ ~shopping
      BY <1>3, <1>4, <1>6, <2>1
    <2> QED
      BY <1>1, <1>2, <1>3, <1>4, <1>6, <2>2
  <1> QED
    BY <1>5, <1>6 DEF wanted, others

\* The horse style always finds something to do, and does nothing illegal.
LEMMA HorseTurn ==
    ASSUME NEW p, BotsTurn(p), NEW grudge
    PROVE  TurnWellSpent(p, HorsePreferredAction(logic.room, p, grudge))
  <1> DEFINE room == logic.room
             me == room[p]
             n == Cardinality(DOMAIN room)
             others == Opponents(room, p)
             to == AttackTarget(room, p, grudge)
             victim == PullTarget(room, p, grudge)
             wanted == WantedPlace(room, p, grudge)
             dest == IF CanMove(me, wanted) THEN wanted ELSE Village
             act == HorsePreferredAction(room, p, grudge)
  <1>1. act =
           IF to # Nobody /\ CanKick(room, p, to) THEN DoesTo("Kick", to)
           ELSE IF to # Nobody /\ CanSlashSafely(room, p, to)
           THEN DoesTo("Slash", to)
           ELSE IF ~me.hasHorse /\ CanBuyHorse(me) THEN Does("BuyHorse")
           ELSE IF victim # Nobody
           THEN [DoesTo("LetMove", victim) EXCEPT !.toPlace = me.place]
           ELSE IF ~me.hasKnife /\ CanBuyKnife(me) THEN Does("BuyKnife")
           ELSE IF wanted # NoPlace /\ CanMove(me, dest) THEN MovesTo(dest)
           ELSE DoNothing
    BY DEF HorsePreferredAction
  <1>2. /\ IsRoom(room) /\ p \in DOMAIN room /\ Alive(me)
        /\ n \in Nat /\ n >= 2 /\ me.hp \in Int
    BY PlayerType DEF BotsTurn, AlivePlayers, IsRoom
  <1>3. /\ to # Nobody => to \in others
        /\ \A q \in others : q \in DOMAIN room /\ Alive(room[q]) /\ q # p
        /\ \A q \in others : room[q].place = me.place =>
              to # Nobody /\ room[to].place = me.place
    BY <1>2, Targets DEF Opponents, AlivePlayers
  <1>4. victim # Nobody => /\ victim \in others
                           /\ CanLetMove(room, p, victim, me.place)
    BY <1>2, Targets DEF PullTarget
  <1>5. /\ wanted \in 0..n
        /\ wanted = Village /\ me.place = Village =>
              me.hasKnife /\ \E q \in others : room[q].place = Village
    BY MakesFor
  <1>6. /\ wanted # NoPlace /\ dest \in 0..n
        /\ CanMove(me, dest) \/ (me.place = Village /\ wanted = Village)
    BY <1>2, <1>5 DEF CanMove, IsPlaceAdjacent, NoPlace, Village
  <1> HIDE DEF to, victim, wanted, dest, others
  <1>7. CASE to # Nobody /\ CanKick(room, p, to)
    BY <1>1, <1>3, <1>7, HittingIsWellSpent DEF others
  <1>8. CASE ~(to # Nobody /\ CanKick(room, p, to)) /\ to # Nobody
             /\ CanSlashSafely(room, p, to)
    <2>1. act = DoesTo("Slash", to)
      BY <1>1, <1>8
    <2>2. TurnWellSpent(p, DoesTo("Slash", to))
      BY <1>3, <1>8, HittingIsWellSpent DEF others
    <2> QED
      BY <2>1, <2>2
  <1>9. CASE /\ ~(to # Nobody /\ (CanKick(room, p, to) \/ CanSlashSafely(room, p, to)))
             /\ ~me.hasHorse /\ CanBuyHorse(me)
    <2>1. act = Does("BuyHorse")
      BY <1>1, <1>9
    <2>2. TurnWellSpent(p, Does("BuyHorse"))
      BY <1>9, BuyingIsWellSpent
    <2> QED
      BY <2>1, <2>2
  <1>10. CASE /\ ~(to # Nobody /\ (CanKick(room, p, to) \/ CanSlashSafely(room, p, to)))
              /\ ~(~me.hasHorse /\ CanBuyHorse(me))
              /\ victim # Nobody
    <2>1. act = [DoesTo("LetMove", victim) EXCEPT !.toPlace = me.place]
      BY <1>1, <1>10
    <2>2. TurnWellSpent(p, [DoesTo("LetMove", victim) EXCEPT !.toPlace = me.place])
      BY <1>4, <1>10, PullingIsWellSpent DEF others
    <2> QED
      BY <2>1, <2>2
  <1>11. CASE /\ ~(to # Nobody /\ (CanKick(room, p, to) \/ CanSlashSafely(room, p, to)))
              /\ ~(~me.hasHorse /\ CanBuyHorse(me))
              /\ victim = Nobody
              /\ ~me.hasKnife /\ CanBuyKnife(me)
    <2>1. act = Does("BuyKnife")
      BY <1>1, <1>11
    <2>2. TurnWellSpent(p, Does("BuyKnife"))
      BY <1>11, BuyingIsWellSpent
    <2> QED
      BY <2>1, <2>2
  <1>12. CASE /\ ~(to # Nobody /\ (CanKick(room, p, to) \/ CanSlashSafely(room, p, to)))
              /\ ~(~me.hasHorse /\ CanBuyHorse(me))
              /\ victim = Nobody
              /\ ~(~me.hasKnife /\ CanBuyKnife(me))
    <2>1. CanMove(me, dest)
      <3> SUFFICES ASSUME me.place = Village, wanted = Village
                   PROVE  FALSE
        BY <1>6
      <3>1. me.hasKnife /\ to # Nobody /\ room[to].place = Village
        BY <1>3, <1>5
      <3>2. CanSlashSafely(room, p, to)
        BY <1>2, <1>3, <3>1, VillageSlash
      <3> QED
        BY <1>12, <3>1, <3>2
    <2>2. act = MovesTo(dest)
      BY <1>1, <1>6, <1>12, <2>1
    <2>3. TurnWellSpent(p, MovesTo(dest))
      BY <1>6, <2>1, MovingIsWellSpent
    <2> QED
      BY <2>2, <2>3
  <1> QED
    BY <1>7, <1>8, <1>9, <1>10, <1>11, <1>12

\* While no blow on the table is fatal, only their own slash can kill anybody.
LEMMA WaitingSafe ==
    ASSUME NEW p, IsRoom(logic.room)
    PROVE  WaitingIsSafe(p)
  <1> DEFINE room == logic.room
  <1> SUFFICES ASSUME HoldBack(room, p), NEW q \in AlivePlayers(room),
                      NEW a \in ActionReplies, ActionFeasible(room, q, a),
                      NEW z \in Killed(room, q, a), z # q
               PROVE  FALSE
    BY DEF WaitingIsSafe
  <1>1. FinishingBlowsOnTheTable(room) = {}
    BY DEF HoldBack
  <1>2. q \in DOMAIN room
    BY DEF AlivePlayers
  <1>3. /\ z \in AlivePlayers(room)
        /\ \/ /\ a.action = "Slash" /\ z = a.toPlayer
              /\ DeadAtHp(room[z].hp - room[q].knifeDamage)
           \/ /\ a.action = "Kick" /\ z = a.toPlayer
              /\ DeadAtHp(room[z].hp - room[q].horseDamage)
    BY <1>2, HitDies DEF AlivePlayers
  <1>4. BlowWouldFinish(room, q, z)
    BY <1>3 DEF BlowWouldFinish, ActionFeasible
  <1>5. <<q, z>> \in FinishingBlowsOnTheTable(room)
    BY <1>3, <1>4 DEF FinishingBlowsOnTheTable
  <1> QED
    BY <1>1, <1>5

\* Both styles spend every point they have, where it can be spent.
LEMMA PointsWellSpent ==
    ASSUME NEW me \in PlayerFields, StatsInBounds(me), Spendable(me),
           NEW items \in {KnifePreferredUpgrade(me, me.upgradePoint),
                          HorsePreferredUpgrade(me, me.upgradePoint)}
    PROVE  /\ DecodeUpgradeReply(me.upgradePoint, items) = Passed(items)
           /\ UpgradeFeasible(me, items)
  <1> DEFINE k == UpgradeKnifeRemainingTimes(me)
             h == UpgradeHorseRemainingTimes(me)
             m == UpgradeMaxHpRemainingTimes(me)
             n == me.upgradePoint
  <1> SUFFICES ItemCount(items) = n /\ UpgradeFeasible(me, items)
    <2>1. n \in Int
      BY PlayerType
    <2> QED
      BY <2>1 DEF DecodeUpgradeReply
  <1>1. k \in Nat /\ h \in Nat /\ m \in Nat
    BY RemainingType
  <1>2. n \in Nat /\ n <= k + h + m /\ ~(RemainingTimes(me) < n)
    BY <1>1 DEF Spendable, RemainingTimes
  <1>3. ASSUME NEW a \in 0..k, NEW b \in 0..h, NEW c \in 0..m, a + b + c = n,
               items = [knife |-> a, horse |-> b, maxHp |-> c]
        PROVE  ItemCount(items) = n /\ UpgradeFeasible(me, items)
    BY <1>1, <1>2, <1>3 DEF UpgradeFeasible, ItemCount
  <1> HIDE DEF k, h, m, n
  <1>4. CASE items = KnifePreferredUpgrade(me, n)
    <2> DEFINE a == Least(n, k)  c == Least(n - a, m)  b == Least(n - a - c, h)
    <2>1. a \in 0..k /\ c \in 0..m /\ b \in 0..h /\ a + c + b = n
      BY <1>1, <1>2 DEF Least
    <2>2. items = [knife |-> a, horse |-> b, maxHp |-> c]
      BY <1>2, <1>4 DEF KnifePreferredUpgrade, k, h, m
    <2> HIDE DEF a, b, c
    <2>3. a + b + c = n
      BY <1>1, <2>1
    <2> QED
      BY <1>3, <2>1, <2>2, <2>3
  <1>5. CASE items = HorsePreferredUpgrade(me, n)
    <2> DEFINE b == Least(n, h)  a == Least(n - b, k)  c == Least(n - b - a, m)
    <2>1. b \in 0..h /\ a \in 0..k /\ c \in 0..m /\ b + a + c = n
      BY <1>1, <1>2 DEF Least
    <2>2. items = [knife |-> a, horse |-> b, maxHp |-> c]
      BY <1>2, <1>5 DEF HorsePreferredUpgrade, k, h, m
    <2> HIDE DEF a, b, c
    <2>3. a + b + c = n
      BY <1>1, <2>1
    <2> QED
      BY <1>3, <2>1, <2>2, <2>3
  <1> QED
    BY <1>4, <1>5 DEF n

\* It is the bot's turn.
LEMMA TurnOfABot ==
    ASSUME Sound(logic), InStep(logic), Lively(logic), Homes(logic),
           logic.state = "Action",
           \A q \in DOMAIN logic.room : OnTheMap([toPlace |-> logic.room[q].place]),
           NEW p \in Awaited
    PROVE  BotsTurn(p)
  <1> DEFINE room == logic.room
             alive == AlivePlayers(room)
  <1>1. IsRoom(room) /\ AtHome(room)
    BY RoomIsRoom DEF Sound, Homes
  <1>2. p \in alive
    BY DEF InStep, Lively, Acting, Awaited
  <1>3. /\ Cardinality(DOMAIN room) >= 2 /\ Cardinality(DOMAIN room) \in Nat
        /\ Cardinality(alive) \in Nat /\ ~(Cardinality(alive) <= 1)
    BY <1>1, RoomIsFinite DEF Lively, InRound, IsRoundOver
  <1>4. Opponents(room, p) # {}
    <2>1. Opponents(room, p) = {} => alive = {p}
      BY <1>2 DEF Opponents
    <2>2. Cardinality({p}) = 1
      BY FS_Singleton
    <2> QED
      BY <1>3, <2>1, <2>2
  <1>5. \A q \in DOMAIN room : room[q].place \in 0..Cardinality(DOMAIN room)
    BY DEF OnTheMap
  <1> QED
    BY <1>1, <1>2, <1>3, <1>4, <1>5 DEF BotsTurn

\* Both bots use every turn and every point, legally, and wait only while no blow
\* is fatal: in every match that can be played, unless a player lives on without
\* hit points (the knife style's last trade takes a peer at zero for dead).
THEOREM LogicBotsPlayTheRules ==
    ASSUME Playable, Config.zeroHpAsDead
    PROVE  Spec => []BotsPlayTheRules
  <1>1. ASSUME Sound(logic), InStep(logic), Lively(logic), Homes(logic)
        PROVE  BotsPlayTheRules
    <2> SUFFICES ASSUME \A q \in DOMAIN logic.room :
                           OnTheMap([toPlace |-> logic.room[q].place])
                 PROVE  /\ logic.state = "Action" =>
                              \A p \in Awaited :
                                 /\ \A grudge \in [Name -> Grudges] :
                                       /\ TurnWellSpent(p, KnifePreferredAction(
                                             logic.room, p, grudge))
                                       /\ TurnWellSpent(p, HorsePreferredAction(
                                             logic.room, p, grudge))
                                 /\ WaitingIsSafe(p)
                        /\ logic.state = "Upgrade" =>
                              \A p \in Awaited :
                                 LET points == RequestUpgrade(p)
                                     me == logic.room[p]
                                 IN  \A items \in {KnifePreferredUpgrade(me, points),
                                                   HorsePreferredUpgrade(me, points)} :
                                        /\ DecodeUpgradeReply(points, items)
                                              = Passed(items)
                                        /\ UpgradeFeasible(me, items)
      BY DEF BotsPlayTheRules
    <2>1. ASSUME logic.state = "Action", NEW p \in Awaited
          PROVE  /\ \A grudge : /\ TurnWellSpent(p, KnifePreferredAction(
                                       logic.room, p, grudge))
                                /\ TurnWellSpent(p, HorsePreferredAction(
                                       logic.room, p, grudge))
                 /\ WaitingIsSafe(p)
      <3>1. BotsTurn(p)
        BY <1>1, <2>1, TurnOfABot
      <3>2. IsRoom(logic.room)
        BY <3>1 DEF BotsTurn
      <3> QED
        BY <3>1, <3>2, KnifeTurn, HorseTurn, WaitingSafe
    <2>2. ASSUME logic.state = "Upgrade", NEW p \in Awaited
          PROVE  /\ logic.room[p] \in PlayerFields
                 /\ StatsInBounds(logic.room[p]) /\ Spendable(logic.room[p])
      <3>1. p \in DOMAIN logic.room
        BY <2>2 DEF Awaited
      <3> QED
        BY <1>1, <2>2, <3>1 DEF Sound, SpendableRoom, IsLogicP, Typed, IsHash
    <2> QED
      BY <2>1, <2>2, PointsWellSpent DEF RequestUpgrade
  <1> QED
    BY <1>1, AlwaysLively, AlwaysHomes, PTL
=============================================================================

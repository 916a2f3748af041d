------------------------------ MODULE Match_proofs ------------------------------
(***************************************************************************)
(* The course of a match, for every number of players and every            *)
(* configuration: a contest that ends has given an order away, points are  *)
(* spent and stats change with nothing else, no round outlives the win,    *)
(* and Logic implements Match and Phases.                                  *)
(***************************************************************************)
EXTENDS Negotiation_proofs

-----------------------------------------------------------------------------
(* Contests give orders away. *)

\* When the selections go on or turns begin, no confirmed order is lost.
LEMMA SelectionsKeepOrders ==
    ASSUME NEW l, IsLogicP(l), InRound(l)
    PROVE  DOMAIN l.confirmedActionOrders
              \subseteq DOMAIN StartActionOrder(l).confirmedActionOrders
  <1> DEFINE m == StartActionOrder(l)
  <1>1. CASE ~NothingToChoose(l)
    <2>1. Alike(l, m, {"desiredActionOrders", "state", "asked",
                       "actionOrderRemainingSelections"})
      BY <1>1, NewSelections
    <2> HIDE DEF m
    <2>2. m.confirmedActionOrders = l.confirmedActionOrders
      BY <2>1 DEF Alike, Fields
    <2> QED
      BY <2>2 DEF m
  <1>2. CASE NothingToChoose(l)
    <2>1. PICK e : /\ IsLogicP(e)
                   /\ Alike(l, e, {"confirmedActionOrders", "signals",
                                   "currentActionOrder"})
                   /\ e.confirmedActionOrders = HandedOut(l)
                   /\ m = StartAction(e)
      BY <1>2, NewSelections
    <2>2. InRound(e)
      BY <2>1 DEF Alike, Fields, InRound
    <2>3. m.confirmedActionOrders = e.confirmedActionOrders
      BY <2>1, <2>2, NextTurn DEF Alike, Fields
    <2>4. DOMAIN l.confirmedActionOrders \subseteq DOMAIN HandedOut(l)
      BY DEF HandedOut
    <2> QED
      BY <2>1, <2>3, <2>4
  <1> QED
    BY <1>1, <1>2

\* When nothing is contested any more, what was desired has been granted.
LEMMA ContestsGrant ==
    ASSUME NEW l, IsLogicP(l), InRound(l), Bidding(l), l.desiredActionOrders # {},
           StartRpsForActionOrder(l).state # "RpsForActionOrder"
    PROVE  \E o \in DOMAIN StartRpsForActionOrder(l).confirmedActionOrders :
              /\ o \notin DOMAIN l.confirmedActionOrders
              /\ DOMAIN l.confirmedActionOrders \subseteq
                    DOMAIN StartRpsForActionOrder(l).confirmedActionOrders
  <1> DEFINE m == StartRpsForActionOrder(l)
  <1>1. PICK g :
          /\ IsLogicP(g)
          /\ Alike(l, g, {"confirmedActionOrders", "desiredActionOrders"})
          /\ g.confirmedActionOrders = AloneGranted(l)
          /\ g.desiredActionOrders =
                {d \in l.desiredActionOrders : d[1] \notin Alone(l)}
          /\ g.desiredActionOrders = {} => m = StartActionOrder(g)
          /\ g.desiredActionOrders # {} => m.state = "RpsForActionOrder"
    BY NewContest
  <1> HIDE DEF m
  <1>2. g.desiredActionOrders = {} /\ m = StartActionOrder(g)
    BY <1>1 DEF m
  <1>3. PICK d \in l.desiredActionOrders : TRUE
    OBVIOUS
  <1>4. d[1] \in Alone(l)
    BY <1>1, <1>2, <1>3
  <1>5. d[1] \notin DOMAIN l.confirmedActionOrders
    BY <1>3 DEF Bidding
  <1>6. DOMAIN g.confirmedActionOrders = DOMAIN l.confirmedActionOrders \cup Alone(l)
    BY <1>1 DEF AloneGranted
  <1>7. InRound(g)
    BY <1>1 DEF Alike, Fields, InRound
  <1>8. DOMAIN g.confirmedActionOrders \subseteq DOMAIN m.confirmedActionOrders
    BY <1>1, <1>2, <1>7, SelectionsKeepOrders
  <1> QED
    BY <1>4, <1>5, <1>6, <1>8 DEF m

\* The call that decides a contest gives an order away unless it starts another.
LEMMA ContestDecided ==
    ASSUME Sound(logic), InStep(logic), Sound(logic'), NEW p \in logic.asked,
           NEW rps \in Throws, RpsReplyForActionOrder(p, rps),
           logic'.state # "RpsForActionOrder"
    PROVE  Cardinality(DOMAIN logic.confirmedActionOrders)
              < Cardinality(DOMAIN logic'.confirmedActionOrders)
  <1>1. PICK m :
          /\ IsLogicP(m) /\ Contesting(m)
          /\ Alike(logic, m, {"rpsForActionOrderReplies", "asked", "signals"})
          /\ m.state = "RpsForActionOrder"
          /\ logic' = RpsForActionOrder(m)
    BY ContestThrowTaken
  <1>2. PICK e : /\ IsLogicP(e)
                 /\ Alike(m, e, {"desiredActionOrders", "signals"})
                 /\ e.desiredActionOrders \subseteq m.desiredActionOrders
                 /\ e.desiredActionOrders # {}
                 /\ logic' = StartRpsForActionOrder(e)
    BY <1>1, ContestEvaluated
  <1>3. Bidding(e)
    BY <1>1, <1>2, FewerDesired DEF Contesting
  <1>4. /\ e.confirmedActionOrders = logic.confirmedActionOrders
        /\ e.state = "RpsForActionOrder"
    BY <1>1, <1>2 DEF Alike, Fields
  <1> DEFINE C == DOMAIN logic.confirmedActionOrders
             D == DOMAIN logic'.confirmedActionOrders
  <1>5. PICK o \in D : o \notin C /\ C \subseteq D
    BY <1>2, <1>3, <1>4, ContestsGrant DEF InRound
  <1>6. D \in SUBSET Order /\ C \in SUBSET D
    BY <1>5 DEF Sound, IsLogicP, Typed, IsHash
  <1> HIDE DEF C, D
  <1>7. IsFiniteSet(D) /\ IsFiniteSet(C)
    BY <1>6, Finiteness, FS_Subset
  <1>8. Cardinality(C) <= Cardinality(D) /\ Cardinality(C) # Cardinality(D)
    BY <1>5, <1>6, <1>7, FS_Subset
  <1>9. Cardinality(C) \in Nat /\ Cardinality(D) \in Nat
    BY <1>7, FS_CardinalityType
  <1> QED
    BY <1>8, <1>9 DEF C, D

\* Only a throw for an order is taken while one is contested.
LEMMA ContestCalls ==
    ASSUME Sound(logic), InStep(logic), Next, logic.state = "RpsForActionOrder"
    PROVE  \E p \in logic.asked : \E rps \in Throws : RpsReplyForActionOrder(p, rps)
  BY DEF Next, AddPlayer, RemovePlayer, RoundStart, Reply, RpsReply,
         RpsReplyForAction, ActionOrderReply, ActionReply, UpgradeReply

\* Whenever the negotiation leaves a contest, for selections or for turns, one
\* more order has a holder.  A tie leaves nothing: its contest is held again.
THEOREM LogicContestsGrantOrders == Spec => ContestsGrantOrders
  <1> DEFINE granting ==
               (logic.state = "RpsForActionOrder"
                  /\ logic'.state \in {"ActionOrder", "Action"}) =>
                    Cardinality(DOMAIN logic.confirmedActionOrders)
                        < Cardinality(DOMAIN logic'.confirmedActionOrders)
  <1>1. Sound(logic) /\ InStep(logic) /\ [Next]_logic => granting
    <2> SUFFICES ASSUME Sound(logic), InStep(logic), [Next]_logic,
                        logic.state = "RpsForActionOrder",
                        logic'.state \in {"ActionOrder", "Action"}
                 PROVE  Cardinality(DOMAIN logic.confirmedActionOrders)
                           < Cardinality(DOMAIN logic'.confirmedActionOrders)
      OBVIOUS
    <2>1. Next
      OBVIOUS
    <2>2. Sound(logic')
      BY <2>1, NextSound
    <2> QED
      BY <2>1, <2>2, ContestCalls, ContestDecided
  <1> QED
    BY <1>1, AlwaysInStep, PTL DEF Spec, ContestsGrantOrders

-----------------------------------------------------------------------------
(* What each phase runs on to. *)

\* The negotiation goes on from l to m with the throw and the room as they were: to
\* selections, to a contest of at least two, or to the first turn.
GoesOn(l, m) ==
    /\ m.room = l.room
    /\ m.rpsForActionWinners = l.rpsForActionWinners
    /\ m.signals \subseteq l.signals \cup {"actionOrderResult"}
    /\ m.state # "Action" => m.signals = l.signals
    /\ InStep(m)
    /\ \/ m.state = "ActionOrder"
       \/ m.state = "RpsForActionOrder" /\ Cardinality(m.asked) >= 2
       \/ /\ m.state = "Action" /\ m.currentActionOrder = 1
          /\ m.asked # {}

\* In settled orders every holder is a winner, and there is a first order.
LEMMA SettledHolders ==
    ASSUME NEW l, IsLogicP(l), Thrown(l), Settled(l)
    PROVE  /\ \A o \in DOMAIN l.confirmedActionOrders :
                 l.confirmedActionOrders[o] \in l.rpsForActionWinners.winners
           /\ 1 \in DOMAIN l.confirmedActionOrders
  <1> DEFINE C == l.confirmedActionOrders
             W == l.rpsForActionWinners.winners
             T == l.rpsForActionWinners.times
  <1>1. /\ IsHash(C, Order, Name) /\ W \subseteq Name /\ T \in Nat \ {0} /\ W # {}
    BY ThrownOrders DEF IsLogicP, Typed, Thrown
  <1>2. \A p \in Name : /\ IsFiniteSet(Held(l, p))
                        /\ Cardinality(Held(l, p)) = Won(l, p)
    <2>1. \A p \in Name : Held(l, p) \in SUBSET Order
      BY <1>1 DEF Held, IsHash
    <2> QED
      BY <2>1, Finiteness, FS_Subset DEF Settled
  <1>3. ASSUME NEW o \in DOMAIN C PROVE C[o] \in W
    <2>1. C[o] \in Name /\ o \in Held(l, C[o])
      BY <1>1 DEF IsHash, Held
    <2>2. Won(l, C[o]) # 0
      BY <1>2, <2>1, FS_EmptySet
    <2> QED
      BY <2>2 DEF Won
  <1>4. 1 \in DOMAIN C
    <2>1. PICK p \in W : TRUE
      BY <1>1
    <2>2. p \in Name /\ Won(l, p) # 0
      BY <1>1, <2>1 DEF Won
    <2>3. Held(l, p) # {}
      BY <1>2, <2>2, FS_EmptySet
    <2>4. PICK o \in DOMAIN C : TRUE
      BY <2>3 DEF Held
    <2>5. OrderCount(l.rpsForActionWinners) \in Nat
      BY OrderCountIsNat DEF IsLogicP
    <2>6. DOMAIN C = 1..OrderCount(l.rpsForActionWinners)
      BY DEF Settled, Orders
    <2> QED
      BY <2>4, <2>5, <2>6
  <1> QED
    BY <1>3, <1>4

\* From settled orders of which none is begun, the first turn begins.
LEMMA FirstTurn ==
    ASSUME NEW l, IsLogicP(l), InRound(l), Thrown(l), Settled(l), l.asked = {},
           l.currentActionOrder = 0
    PROVE  LET m == StartAction(l)
           IN  /\ m.room = l.room /\ m.rpsForActionWinners = l.rpsForActionWinners
               /\ m.signals = l.signals
               /\ m.state = "Action" /\ m.currentActionOrder = 1 /\ m.asked # {}
  <1> DEFINE m == StartAction(l)
             C == l.confirmedActionOrders
             T == OrdersToCome(l)
  <1>1. ~IsRoundOver(l.room)
    BY ThrownOrders
  <1>2. 1 \in T
    <2>1. 1 \in DOMAIN C /\ C[1] \in AlivePlayers(l.room)
      BY SettledHolders DEF Thrown
    <2>2. OrderCount(l.rpsForActionWinners) \in Nat
      BY OrderCountIsNat DEF IsLogicP
    <2>3. DOMAIN C = 1..OrderCount(l.rpsForActionWinners)
      BY DEF Settled, Orders
    <2> QED
      BY <2>1, <2>2, <2>3 DEF OrdersToCome
  <1>3. /\ m.room = l.room /\ m.state = "Action" /\ m.currentActionOrder \in T
        /\ \A o \in T : m.currentActionOrder <= o
        /\ m.asked = l.asked \cup {C[m.currentActionOrder]}
        /\ m.rpsForActionWinners = l.rpsForActionWinners
    <2>1. m.room = l.room
      BY NextTurn DEF Alike, Fields
    <2> QED
      BY <1>1, <1>2, <2>1, NextTurn
  <1>4. m.signals = l.signals
    <2> DEFINE next == CHOOSE o \in T : \A x \in T : o <= x
               asked == l.asked \cup {C[next]}
    <2>1. m = [l EXCEPT !.currentActionOrder = next, !.state = "Action",
                        !.asked = asked]
      BY <1>1, <1>2 DEF StartAction
    <2> HIDE DEF m, next, asked, T
    <2> QED
      BY <2>1 DEF IsLogicP, HasFields, Fields
  <1>5. m.currentActionOrder = 1
    <2>1. \A o \in T : o \in Nat /\ o > 0
      BY DEF OrdersToCome, IsLogicP, Typed, IsHash, Order
    <2> HIDE DEF m, T
    <2> QED
      BY <1>2, <1>3, <2>1
  <1> QED
    BY <1>3, <1>4, <1>5

\* Selections are asked for while there are any to make; then the first turn
\* begins.
LEMMA SelectionsGoOn ==
    ASSUME NEW l, IsLogicP(l), InRound(l), Granted(l), l.asked = {},
           \A p \in l.rpsForActionWinners.winners :
              Cardinality(Held(l, p)) + l.actionOrderYields[p]
                 <= l.rpsForActionWinners.times
    PROVE  /\ GoesOn(l, StartActionOrder(l))
           /\ StartActionOrder(l).state =
                 IF NothingToChoose(l) THEN "Action" ELSE "ActionOrder"
  <1> DEFINE m == StartActionOrder(l)
             T == l.rpsForActionWinners.times
  <1>1. InStep(m)
    BY NewSelectionsInStep
  <1>2. CASE ~NothingToChoose(l)
    <2>1. /\ Alike(l, m, {"desiredActionOrders", "state", "asked",
                          "actionOrderRemainingSelections"})
          /\ m.state = "ActionOrder"
      BY <1>2, NewSelections
    <2> HIDE DEF m
    <2> QED
      BY <1>1, <1>2, <2>1 DEF Alike, Fields, GoesOn, m
  <1>3. CASE NothingToChoose(l)
    <2>1. /\ OrderCount(l.rpsForActionWinners) \in 0..MaxOrders
          /\ T \in Nat \ {0} /\ l.rpsForActionWinners.winners \subseteq Name
          /\ MaxOrders \in Nat /\ IsHash(l.confirmedActionOrders, Order, Name)
      BY ThrownOrders, Finiteness DEF Granted, IsLogicP, Typed
    <2>2. \A p \in l.rpsForActionWinners.winners : Cardinality(Held(l, p)) <= T
      <3>1. \A p \in Name : /\ Cardinality(Held(l, p)) \in Nat
                            /\ l.actionOrderYields[p] \in Nat
        BY <2>1, HeldType DEF Granted
      <3> QED
        BY <2>1, <3>1
    <2>3. Dealable(l)
      BY <2>1, <2>2 DEF Dealable, Granted
    <2>4. PICK e : /\ IsLogicP(e)
                   /\ Alike(l, e, {"confirmedActionOrders", "signals",
                                   "currentActionOrder"})
                   /\ e.confirmedActionOrders = HandedOut(l)
                   /\ e.currentActionOrder = 0
                   /\ e.signals = l.signals \cup {"actionOrderResult"}
                   /\ m = StartAction(e)
      BY <1>3, NewSelections
    <2>5. /\ e.room = l.room /\ e.state = l.state /\ e.asked = {}
          /\ e.rpsForActionWinners = l.rpsForActionWinners
      BY <2>4 DEF Alike, Fields
    <2>6. Settled(e) /\ Thrown(e)
      BY <2>3, <2>4, <2>5, HandedOutSettles
        DEF Settled, Orders, Held, Won, Thrown, Granted
    <2>7. /\ m.room = e.room /\ m.rpsForActionWinners = e.rpsForActionWinners
          /\ m.signals = e.signals
          /\ m.state = "Action" /\ m.currentActionOrder = 1 /\ m.asked # {}
      BY <2>4, <2>5, <2>6, FirstTurn DEF InRound
    <2> HIDE DEF m
    <2> QED
      BY <1>1, <1>3, <2>4, <2>5, <2>7 DEF GoesOn, m
  <1> QED
    BY <1>2, <1>3

\* The grants, and then a contest, selections or the first turn; when every
\* winner has made all its selections none is asked for.
LEMMA ContestsGoOn ==
    ASSUME NEW l, IsLogicP(l), InRound(l), Bidding(l), l.asked = {},
           DOMAIN l.actionOrderRemainingSelections = {}
    PROVE  /\ GoesOn(l, StartRpsForActionOrder(l))
           /\ (\A p \in l.rpsForActionWinners.winners :
                  Spent(l, p) = l.rpsForActionWinners.times)
                 => StartRpsForActionOrder(l).state # "ActionOrder"
  <1> DEFINE m == StartRpsForActionOrder(l)
             W == l.rpsForActionWinners.winners
             T == l.rpsForActionWinners.times
  <1>1. PICK g :
          /\ IsLogicP(g)
          /\ Alike(l, g, {"confirmedActionOrders", "desiredActionOrders"})
          /\ g.confirmedActionOrders = AloneGranted(l)
          /\ g.desiredActionOrders =
                {d \in l.desiredActionOrders : d[1] \notin Alone(l)}
          /\ g.desiredActionOrders = {} => m = StartActionOrder(g)
          /\ g.desiredActionOrders # {} =>
                /\ Alike(g, m, {"currentStrivingActionOrder", "state",
                                "rpsForActionOrderReplies", "asked"})
                /\ m.state = "RpsForActionOrder"
                /\ m.rpsForActionOrderReplies = EmptyHash
                /\ m.asked = g.asked \cup
                      Desirers(g.desiredActionOrders,
                               m.currentStrivingActionOrder)
    BY NewContest
  <1>2. Bidding(g) /\ \A p \in Name : Spent(g, p) = Spent(l, p)
    BY <1>1, GrantKeepsSpent
  <1>3. /\ g.room = l.room /\ g.state = l.state /\ g.asked = {}
        /\ g.signals = l.signals /\ g.rpsForActionWinners = l.rpsForActionWinners
    BY <1>1 DEF Alike, Fields
  <1>4. InStep(m)
    BY NewContestInStep
  <1>5. CASE g.desiredActionOrders # {}
    <2>1. Contesting(m) /\ m.rpsForActionOrderReplies = EmptyHash
      BY <1>1, <1>4, <1>5 DEF InStep
    <2>2. Cardinality(m.asked) >= 2
      BY <2>1 DEF Contesting, EmptyHash
    <2>3. /\ m.room = g.room /\ m.rpsForActionWinners = g.rpsForActionWinners
          /\ m.signals = g.signals
      <3> HIDE DEF m
      <3> QED
        BY <1>1, <1>5 DEF Alike, Fields
    <2>4. m.state = "RpsForActionOrder"
      BY <1>1, <1>5
    <2> HIDE DEF m
    <2> QED
      BY <1>3, <1>4, <2>2, <2>3, <2>4 DEF GoesOn, m
  <1>6. CASE g.desiredActionOrders = {}
    <2>1. \A p : Wanted(g, p) = {} /\ Cardinality(Wanted(g, p)) = 0
      BY <1>6, FS_EmptySet DEF Wanted
    <2>2. \A p \in Name : /\ Cardinality(Held(g, p)) \in Nat
                          /\ g.actionOrderYields[p] \in Nat
                          /\ Spent(g, p) = Cardinality(Held(g, p))
                                             + g.actionOrderYields[p]
      <3>1. \A p \in Name : /\ Cardinality(Held(g, p)) \in Nat
                            /\ g.actionOrderYields[p] \in Nat
        BY <1>1, <1>2, HeldType DEF IsLogicP, Typed, Bidding, Granted
      <3> QED
        BY <2>1, <3>1 DEF Spent
    <2>3. W \subseteq Name /\ T \in Nat /\ \A p \in W : Spent(g, p) <= T
      BY <1>2, <1>3 DEF IsLogicP, Typed, Bidding
    <2>4. \A p \in W : Cardinality(Held(g, p)) + g.actionOrderYields[p] <= T
      BY <2>2, <2>3
    <2>5. /\ GoesOn(g, m)
          /\ m.state = IF NothingToChoose(g) THEN "Action" ELSE "ActionOrder"
      <3>1. Granted(g) /\ InRound(g)
        BY <1>2, <1>3 DEF Bidding, InRound
      <3> QED
        BY <1>1, <1>3, <1>6, <2>4, <3>1, SelectionsGoOn
    <2>6. ASSUME \A p \in W : Spent(l, p) = T
          PROVE  NothingToChoose(g)
      <3> SUFFICES ASSUME NEW p \in Name PROVE ~(StrivingActionCount(g, p) > 0)
        BY DEF NothingToChoose, Striving
      <3>1. StrivingActionCount(g, p)
               = Won(g, p) - Cardinality(Held(g, p)) - g.actionOrderYields[p]
        BY DEF StrivingActionCount, RemainingActionCount, Held, Won
      <3>2. Won(g, p) <= Cardinality(Held(g, p)) + g.actionOrderYields[p]
              /\ Won(g, p) \in Nat
        BY <1>2, <1>3, <2>2, <2>3, <2>6 DEF Won
      <3> QED
        BY <2>2, <3>1, <3>2
    <2> HIDE DEF m
    <2> QED
      BY <1>3, <2>5, <2>6 DEF GoesOn, m
  <1> QED
    BY <1>5, <1>6

-----------------------------------------------------------------------------
(* What each slot's call comes to. *)

\* The reply of p is recorded, and others are still waited for.
Records(l, m, p) ==
    /\ m.room = l.room
    /\ m.rpsForActionWinners = l.rpsForActionWinners
    /\ m.state = l.state
    /\ m.asked = l.asked \ {p}
    /\ m.asked # {}
    /\ m.signals = {}

\* A throw is recorded; or it is the last one, and everybody throws again or the
\* negotiation of the winners' orders begins.
LEMMA ThrowCall ==
    ASSUME Sound(logic), InStep(logic), NEW p \in logic.asked, NEW rps \in Throws,
           RpsReplyForAction(p, rps)
    PROVE  \/ Records(logic, logic', p)
           \/ /\ logic.asked = {p}
              /\ logic'.room = logic.room
              /\ logic'.signals = {"rpsResult"}
              /\ logic'.state = "RpsForAction"
              /\ logic'.asked = AlivePlayers(logic.room)
           \/ /\ logic.asked = {p}
              /\ logic'.state # "RpsForActionOrder"
              /\ \E e : /\ e.room = logic.room /\ Thrown(e)
                        /\ e.signals = {"rpsResult"}
                        /\ GoesOn(e, logic')
  <1>1. PICK m :
          /\ IsLogicP(m) /\ Throwing(m)
          /\ Alike(logic, m, {"rpsForActionReplies", "asked", "signals"})
          /\ m.state = "RpsForAction" /\ m.signals = {}
          /\ m.asked = logic.asked \ {p}
          /\ logic' = RpsForAction(m)
    BY ThrowTaken
  <1>2. m.room = logic.room
    BY <1>1 DEF Alike, Fields
  <1>3. CASE RpsForAction(m) = m /\ m.asked # {}
    BY <1>1, <1>3 DEF Alike, Fields, Records
  <1>4. CASE /\ m.asked = {}
             /\ \E e : /\ IsLogicP(e)
                       /\ Alike(m, e, {"rpsForActionWinners", "signals"})
                       /\ e.signals = m.signals \cup {"rpsResult"}
                       /\ RpsForAction(m) = StartRpsForAction(e)
    <2>1. PICK e : /\ IsLogicP(e)
                   /\ Alike(m, e, {"rpsForActionWinners", "signals"})
                   /\ e.signals = m.signals \cup {"rpsResult"}
                   /\ logic' = StartRpsForAction(e)
      BY <1>1, <1>4
    <2>2. e.room = m.room /\ e.asked = {}
      BY <1>4, <2>1 DEF Alike, Fields
    <2>3. /\ Alike(e, logic', {"rpsForActionReplies", "rpsForActionWinners",
                               "state", "asked"})
          /\ logic'.state = "RpsForAction"
          /\ logic'.asked = e.asked \cup AlivePlayers(e.room)
      BY <2>1, NewThrow
    <2>4. logic'.room = e.room /\ logic'.signals = e.signals
      BY <2>3 DEF Alike, Fields
    <2> QED
      BY <1>1, <1>2, <1>4, <2>1, <2>2, <2>3, <2>4
  <1>5. CASE /\ m.asked = {}
             /\ \E e : /\ IsLogicP(e)
                       /\ Alike(m, e, {"rpsForActionWinners", "signals",
                                       "confirmedActionOrders", "actionOrderYields"})
                       /\ Granted(e)
                       /\ e.confirmedActionOrders = EmptyHash
                       /\ e.actionOrderYields = [q \in Name |-> 0]
                       /\ e.signals = m.signals \cup {"rpsResult"}
                       /\ RpsForAction(m) = StartActionOrder(e)
    <2>1. PICK e : /\ IsLogicP(e)
                   /\ Alike(m, e, {"rpsForActionWinners", "signals",
                                   "confirmedActionOrders", "actionOrderYields"})
                   /\ Granted(e)
                   /\ e.confirmedActionOrders = EmptyHash
                   /\ e.actionOrderYields = [q \in Name |-> 0]
                   /\ e.signals = m.signals \cup {"rpsResult"}
                   /\ logic' = StartActionOrder(e)
      BY <1>1, <1>5
    <2>2. e.room = m.room /\ e.asked = {} /\ e.state = "RpsForAction"
      BY <1>1, <1>5, <2>1 DEF Alike, Fields
    <2>3. \A q : Held(e, q) = {} /\ Cardinality(Held(e, q)) = 0
      BY <2>1, FS_EmptySet DEF Held, EmptyHash
    <2>4. /\ e.rpsForActionWinners.winners \subseteq Name
          /\ e.rpsForActionWinners.times \in Nat
      BY <2>1 DEF IsLogicP, Typed
    <2>5. \A q \in e.rpsForActionWinners.winners :
             Cardinality(Held(e, q)) + e.actionOrderYields[q]
                <= e.rpsForActionWinners.times
      BY <2>1, <2>3, <2>4
    <2>6. /\ GoesOn(e, logic')
          /\ logic'.state = IF NothingToChoose(e) THEN "Action" ELSE "ActionOrder"
      BY <2>1, <2>2, <2>5, SelectionsGoOn DEF InRound
    <2>7. e.signals = {"rpsResult"} /\ Thrown(e)
      BY <1>1, <2>1 DEF Granted
    <2> QED
      BY <1>1, <1>2, <1>5, <2>2, <2>6, <2>7
  <1> QED
    BY <1>1, <1>3, <1>4, <1>5, ThrowEvaluated

\* The winners of a throw strive for all it won them.
LEMMA FreshSelections ==
    ASSUME NEW e, IsLogicP(e), Granted(e),
           e.confirmedActionOrders = EmptyHash,
           e.actionOrderYields = [q \in Name |-> 0]
    PROVE  /\ Striving(e) = e.rpsForActionWinners.winners
           /\ \A q \in Striving(e) :
                 StrivingActionCount(e, q) = e.rpsForActionWinners.times
           /\ Striving(e) # {}
  <1> DEFINE W == e.rpsForActionWinners.winners
             T == e.rpsForActionWinners.times
  <1>1. T \in Nat \ {0} /\ W \subseteq Name /\ W # {}
    BY ThrownOrders DEF Granted, Thrown
  <1>2. \A q \in Name : /\ {o \in DOMAIN e.confirmedActionOrders :
                               e.confirmedActionOrders[o] = q} = {}
                        /\ e.actionOrderYields[q] = 0
    BY DEF EmptyHash
  <1>3. \A q \in Name : StrivingActionCount(e, q) = IF q \in W THEN T ELSE 0
    <2> SUFFICES ASSUME NEW q \in Name
                 PROVE  StrivingActionCount(e, q) = IF q \in W THEN T ELSE 0
      OBVIOUS
    <2>1. RemainingActionCount(e, q) = (IF q \in W THEN T ELSE 0) - 0
      BY <1>2, FS_EmptySet DEF RemainingActionCount
    <2> QED
      BY <1>1, <1>2, <2>1 DEF StrivingActionCount
  <1> QED
    BY <1>1, <1>3 DEF Striving

\* So the last reply to a throw asks them for all of it, or goes on to the turns
\* with one winner.
LEMMA ThrowChooses ==
    ASSUME Sound(logic), InStep(logic), NEW p \in logic.asked, NEW rps \in Throws,
           RpsReplyForAction(p, rps)
    PROVE  LET won == logic'.rpsForActionWinners
           IN  /\ logic'.state = "ActionOrder" =>
                     logic'.actionOrderRemainingSelections
                        = [q \in won.winners |-> won.times]
               /\ logic'.state = "Action" => Cardinality(won.winners) = 1
  <1>1. PICK m :
          /\ IsLogicP(m) /\ Throwing(m)
          /\ m.state = "RpsForAction"
          /\ m.asked = logic.asked \ {p}
          /\ logic' = RpsForAction(m)
    BY ThrowTaken
  <1>2. CASE RpsForAction(m) = m
    BY <1>1, <1>2
  <1>3. ASSUME NEW e, IsLogicP(e), logic' = StartRpsForAction(e)
        PROVE  logic'.state = "RpsForAction"
    BY <1>3, NewThrow
  <1>4. ASSUME NEW e, m.asked = {}, IsLogicP(e),
               Alike(m, e, {"rpsForActionWinners", "signals",
                            "confirmedActionOrders", "actionOrderYields"}),
               Granted(e), e.confirmedActionOrders = EmptyHash,
               e.actionOrderYields = [q \in Name |-> 0],
               logic' = StartActionOrder(e)
        PROVE  /\ logic'.state = "ActionOrder" =>
                     logic'.actionOrderRemainingSelections
                        = [q \in logic'.rpsForActionWinners.winners |->
                              logic'.rpsForActionWinners.times]
               /\ logic'.state = "Action" =>
                     Cardinality(logic'.rpsForActionWinners.winners) = 1
    <2>1. /\ Striving(e) = e.rpsForActionWinners.winners
          /\ \A q \in Striving(e) :
                StrivingActionCount(e, q) = e.rpsForActionWinners.times
          /\ Striving(e) # {}
      BY <1>4, FreshSelections
    <2>2. e.state = "RpsForAction" /\ e.asked = {}
      BY <1>1, <1>4 DEF Alike, Fields
    <2>3. CASE NothingToChoose(e)
      <3>1. Cardinality(e.rpsForActionWinners.winners) = 1
        BY <2>1, <2>3 DEF NothingToChoose
      <3>2. \A q \in e.rpsForActionWinners.winners :
               Cardinality(Held(e, q)) + e.actionOrderYields[q]
                  <= e.rpsForActionWinners.times
        <4>1. \A q : Held(e, q) = {} /\ Cardinality(Held(e, q)) = 0
          BY <1>4, FS_EmptySet DEF Held, EmptyHash
        <4>2. /\ e.rpsForActionWinners.winners \subseteq Name
              /\ e.rpsForActionWinners.times \in Nat
          BY <1>4 DEF IsLogicP, Typed
        <4> QED
          BY <1>4, <4>1, <4>2
      <3>3. GoesOn(e, logic') /\ logic'.state = "Action"
        BY <1>4, <2>2, <2>3, <3>2, SelectionsGoOn DEF InRound
      <3> QED
        BY <3>1, <3>3 DEF GoesOn
    <2>4. CASE ~NothingToChoose(e)
      <3>1. /\ Alike(e, logic', {"desiredActionOrders", "state", "asked",
                                 "actionOrderRemainingSelections"})
            /\ logic'.actionOrderRemainingSelections =
                  [q \in Striving(e) |-> StrivingActionCount(e, q)]
            /\ logic'.state = "ActionOrder"
        BY <1>4, <2>2, <2>4, NewSelections DEF InRound
      <3>2. logic'.rpsForActionWinners = e.rpsForActionWinners
        BY <3>1 DEF Alike, Fields
      <3> QED
        BY <2>1, <3>1, <3>2
    <2> QED
      BY <2>3, <2>4
  <1>5. \/ RpsForAction(m) = m
        \/ \E e : IsLogicP(e) /\ logic' = StartRpsForAction(e)
        \/ m.asked = {} /\ \E e :
              /\ IsLogicP(e)
              /\ Alike(m, e, {"rpsForActionWinners", "signals",
                              "confirmedActionOrders", "actionOrderYields"})
              /\ Granted(e) /\ e.confirmedActionOrders = EmptyHash
              /\ e.actionOrderYields = [q \in Name |-> 0]
              /\ logic' = StartActionOrder(e)
    BY <1>1, ThrowEvaluated
  <1> QED
    BY <1>2, <1>3, <1>4, <1>5

\* Whatever the players held, desired or yielded after earlier throws of the round,
\* the winners of a throw are asked for all the orders it won them.
THEOREM LogicWinnersChooseAnew == Spec => WinnersChooseAnew
  <1> DEFINE won == logic'.rpsForActionWinners
             asked == logic'.actionOrderRemainingSelections
             anew == /\ logic'.state = "ActionOrder" =>
                           asked = [p \in won.winners |-> won.times]
                     /\ logic'.state = "Action" => Cardinality(won.winners) = 1
             throw == logic.state = "RpsForAction" => anew
  <1>1. Sound(logic) /\ InStep(logic) /\ [Next]_logic => [throw]_logic
    <2> SUFFICES ASSUME Sound(logic), InStep(logic), Next,
                        logic.state = "RpsForAction"
                 PROVE  anew
      OBVIOUS
    <2>1. \E p \in logic.asked : \E rps \in Throws : RpsReplyForAction(p, rps)
      BY DEF Next, AddPlayer, RemovePlayer, RoundStart, Reply, RpsReply,
             RpsReplyForActionOrder, ActionOrderReply, ActionReply, UpgradeReply
    <2> QED
      BY <2>1, ThrowChooses
  <1> QED
    BY <1>1, AlwaysInStep, PTL DEF Spec, WinnersChooseAnew

\* A throw for an order is recorded; or it is the last one, and the negotiation
\* goes on.
LEMMA ContestCall ==
    ASSUME Sound(logic), InStep(logic), NEW p \in logic.asked, NEW rps \in Throws,
           RpsReplyForActionOrder(p, rps)
    PROVE  \/ Records(logic, logic', p)
           \/ /\ logic.asked = {p}
              /\ \E e : /\ e.room = logic.room
                        /\ e.rpsForActionWinners = logic.rpsForActionWinners
                        /\ e.signals = {"rpsResult"}
                        /\ GoesOn(e, logic')
  <1>1. PICK m :
          /\ IsLogicP(m) /\ Contesting(m)
          /\ Alike(logic, m, {"rpsForActionOrderReplies", "asked", "signals"})
          /\ m.state = "RpsForActionOrder" /\ m.signals = {}
          /\ m.asked = logic.asked \ {p}
          /\ logic' = RpsForActionOrder(m)
    BY ContestThrowTaken
  <1>2. m.room = logic.room /\ m.rpsForActionWinners = logic.rpsForActionWinners
    BY <1>1 DEF Alike, Fields
  <1>3. CASE RpsForActionOrder(m) = m /\ m.asked # {}
    BY <1>1, <1>3 DEF Alike, Fields, Records
  <1>4. CASE /\ m.asked = {}
             /\ \E e : /\ IsLogicP(e)
                       /\ Alike(m, e, {"desiredActionOrders", "signals"})
                       /\ e.desiredActionOrders \subseteq m.desiredActionOrders
                       /\ e.signals = m.signals \cup {"rpsResult"}
                       /\ RpsForActionOrder(m) = StartRpsForActionOrder(e)
    <2>1. PICK e : /\ IsLogicP(e)
                   /\ Alike(m, e, {"desiredActionOrders", "signals"})
                   /\ e.desiredActionOrders \subseteq m.desiredActionOrders
                   /\ e.signals = m.signals \cup {"rpsResult"}
                   /\ logic' = StartRpsForActionOrder(e)
      BY <1>1, <1>4
    <2>2. Bidding(e)
      BY <1>1, <2>1, FewerDesired DEF Contesting
    <2>3. /\ e.asked = {} /\ e.state = "RpsForActionOrder" /\ e.room = m.room
          /\ e.rpsForActionWinners = m.rpsForActionWinners
          /\ DOMAIN e.actionOrderRemainingSelections = {}
      BY <1>1, <1>4, <2>1 DEF Alike, Fields, Contesting
    <2>4. GoesOn(e, logic')
      BY <2>1, <2>2, <2>3, ContestsGoOn DEF InRound
    <2>5. e.signals = {"rpsResult"}
      BY <1>1, <2>1
    <2> QED
      BY <1>1, <1>2, <1>4, <2>3, <2>4, <2>5
  <1> QED
    BY <1>1, <1>3, <1>4, ContestEvaluated

\* A list of orders is recorded; or it is the last one, and a contest or the first
\* turn follows, since every selection has been made.
LEMMA ListCall ==
    ASSUME Sound(logic), InStep(logic), NEW p \in logic.asked,
           NEW list \in OrderReplies, ActionOrderReply(p, list)
    PROVE  \/ Records(logic, logic', p)
           \/ /\ logic.asked = {p}
              /\ logic'.state # "ActionOrder"
              /\ \E e : /\ e.room = logic.room
                        /\ e.rpsForActionWinners = logic.rpsForActionWinners
                        /\ e.signals = {}
                        /\ GoesOn(e, logic')
  <1>1. PICK m :
          /\ IsLogicP(m) /\ Bidding(m)
          /\ Alike(logic, m, {"desiredActionOrders", "actionOrderYields",
                              "actionOrderRemainingSelections",
                              "asked", "signals"})
          /\ m.state = "ActionOrder" /\ m.signals = {}
          /\ m.asked = logic.asked \ {p}
          /\ m.asked = DOMAIN m.actionOrderRemainingSelections
          /\ \A q \in m.rpsForActionWinners.winners :
                Spent(m, q) + Selected(m, q) = m.rpsForActionWinners.times
          /\ logic' = ActionOrder(m)
    BY ListTaken
  <1>2. /\ m.room = logic.room /\ logic.state = "ActionOrder"
        /\ m.rpsForActionWinners = logic.rpsForActionWinners
    BY <1>1 DEF Alike, Fields, ActionOrderReply
  <1>3. CASE m.asked # {}
    <2>1. logic' = m
      BY <1>1, <1>3 DEF ActionOrder
    <2> QED
      BY <1>1, <1>2, <1>3, <2>1 DEF Records
  <1>4. CASE m.asked = {}
    <2>1. logic' = StartRpsForActionOrder(m)
      BY <1>1, <1>4 DEF ActionOrder
    <2>2. \A q \in m.rpsForActionWinners.winners :
             Spent(m, q) = m.rpsForActionWinners.times
      <3> SUFFICES ASSUME NEW q \in m.rpsForActionWinners.winners
                   PROVE  Spent(m, q) = m.rpsForActionWinners.times
        OBVIOUS
      <3>1. Selected(m, q) = 0
        BY <1>1, <1>4 DEF Selected
      <3>2. q \in Name /\ IsHash(m.confirmedActionOrders, Order, Name)
        BY <1>1 DEF IsLogicP, Typed
      <3>3. Wanted(m, q) \in SUBSET Order
        BY DEF Wanted
      <3>4. Cardinality(Wanted(m, q)) \in Nat
        BY <3>3, Finiteness, FS_Subset, FS_CardinalityType
      <3>5. Spent(m, q) \in Int
        BY <1>1, <3>2, <3>4, HeldType DEF Spent, IsLogicP, Typed
      <3> QED
        BY <1>1, <3>1, <3>5
    <2>3. /\ GoesOn(m, logic') /\ logic'.state # "ActionOrder"
      BY <1>1, <1>4, <2>1, <2>2, ContestsGoOn DEF InRound
    <2> QED
      BY <1>1, <1>2, <1>4, <2>3
  <1> QED
    BY <1>3, <1>4

\* What a turn does to the room.
AfterTurn(room, p, a) ==
    IF ActionFeasible(room, p, a) THEN ApplyAction(room, p, a) ELSE room

\* An action is applied at once: then the round is over, or the next holder
\* alive has the turn, or a new throw is asked for.
LEMMA TurnCall ==
    ASSUME Sound(logic), InStep(logic), NEW p \in logic.asked,
           NEW a \in ActionReplies, ActionReply(p, a)
    PROVE  /\ logic.state = "Action" /\ logic.asked = {p}
           /\ p = logic.confirmedActionOrders[logic.currentActionOrder]
           /\ logic.currentActionOrder \in DOMAIN logic.confirmedActionOrders
           /\ p \in AlivePlayers(logic.room) /\ Settled(logic)
           /\ logic'.room = AfterTurn(logic.room, p, a)
           /\ RoomKept(logic.room, logic'.room)
           /\ logic'.signals \subseteq {"actionResult", "roundOver"}
           /\ IsRoundOver(logic'.room) =>
                 /\ logic'.state = IF Earners(logic') = {} THEN "Action" ELSE "Upgrade"
                 /\ logic'.asked = Earners(logic')
           /\ ~IsRoundOver(logic'.room) =>
                 \E m : /\ m.confirmedActionOrders = logic.confirmedActionOrders
                        /\ m.rpsForActionWinners = logic.rpsForActionWinners
                        /\ m.currentActionOrder = logic.currentActionOrder
                        /\ m.room = logic'.room
                        /\ \/ /\ OrdersToCome(m) = {}
                              /\ logic'.state = "RpsForAction"
                              /\ logic'.asked = AlivePlayers(logic'.room)
                           \/ /\ logic'.state = "Action"
                              /\ logic'.currentActionOrder \in OrdersToCome(m)
                              /\ \A o \in OrdersToCome(m) :
                                    logic'.currentActionOrder <= o
                              /\ logic'.confirmedActionOrders
                                    = logic.confirmedActionOrders
                              /\ logic'.rpsForActionWinners
                                    = logic.rpsForActionWinners
                              /\ logic'.asked = {logic.confirmedActionOrders[
                                                    logic'.currentActionOrder]}
  <1>1. PICK m :
          /\ IsLogicP(m) /\ Settled(m)
          /\ Alike(logic, m, {"room", "asked", "signals"})
          /\ m.state = "Action" /\ m.signals = {"actionResult"}
          /\ m.asked = {}
          /\ m.room = AfterTurn(logic.room, p, a)
          /\ RoomKept(logic.room, m.room)
          /\ logic' = StartAction(m)
    BY TurnTaken DEF AfterTurn
  <1>2. /\ logic.state = "Action" /\ InRound(m)
        /\ m.confirmedActionOrders = logic.confirmedActionOrders
        /\ m.rpsForActionWinners = logic.rpsForActionWinners
        /\ m.currentActionOrder = logic.currentActionOrder
    BY <1>1 DEF Alike, Fields, ActionReply, InRound
  <1>3. Acting(logic)
    BY <1>2 DEF InStep
  <1>4. /\ logic.asked = {p} /\ Settled(logic)
        /\ p = logic.confirmedActionOrders[logic.currentActionOrder]
        /\ logic.currentActionOrder \in DOMAIN logic.confirmedActionOrders
        /\ p \in AlivePlayers(logic.room)
    BY <1>3 DEF Acting
  <1>5. Alike(m, logic', {"rpsForActionReplies", "rpsForActionWinners", "state",
                          "asked", "currentActionOrder", "upgrades", "signals"})
        /\ logic'.signals \subseteq m.signals \cup {"roundOver"}
    BY <1>1, <1>2, NextTurn
  <1>6. /\ logic'.room = m.room
        /\ logic'.confirmedActionOrders = m.confirmedActionOrders
    BY <1>5 DEF Alike, Fields
  <1>7. ASSUME IsRoundOver(m.room)
        PROVE  /\ logic'.state = IF Earners(logic') = {} THEN "Action" ELSE "Upgrade"
               /\ logic'.asked = Earners(logic')
    <2>1. Earners(logic') = Earners(m)
      BY <1>6 DEF Earners
    <2> QED
      BY <1>1, <1>2, <1>7, <2>1, NextTurn
  <1>8. CASE IsRoundOver(m.room)
    BY <1>1, <1>2, <1>4, <1>5, <1>6, <1>7, <1>8
  <1>9. CASE ~IsRoundOver(m.room) /\ OrdersToCome(m) = {}
    <2>1. /\ logic'.state = "RpsForAction"
          /\ logic'.asked = AlivePlayers(logic'.room)
      BY <1>1, <1>2, <1>6, <1>9, NextTurn
    <2> QED
      BY <1>1, <1>2, <1>4, <1>5, <1>6, <1>9, <2>1
  <1>10. CASE ~IsRoundOver(m.room) /\ OrdersToCome(m) # {}
    <2>1. /\ logic'.state = "Action"
          /\ logic'.currentActionOrder \in OrdersToCome(m)
          /\ \A o \in OrdersToCome(m) : logic'.currentActionOrder <= o
          /\ logic'.asked = {m.confirmedActionOrders[logic'.currentActionOrder]}
          /\ logic'.rpsForActionWinners = m.rpsForActionWinners
      BY <1>1, <1>2, <1>10, NextTurn
    <2> QED
      BY <1>1, <1>2, <1>4, <1>5, <1>6, <1>10, <2>1
  <1> QED
    BY <1>8, <1>9, <1>10

\* The room once the recorded upgrades are applied.
UpgradedRoom(l) ==
    [p \in DOMAIN l.room |->
        IF p \in DOMAIN l.upgrades
        THEN Upgraded(l.room[p], l.upgrades[p]) ELSE l.room[p]]

\* A list of upgrades is recorded; or it is the last one, and all are applied.
LEMMA UpgradeCall ==
    ASSUME Sound(logic), InStep(logic), NEW p \in logic.asked,
           NEW items \in UpgradeReplies, UpgradeReply(p, items)
    PROVE  /\ logic.state = "Upgrade"
           /\ \/ Records(logic, logic', p)
              \/ /\ logic.asked = {p}
                 /\ logic'.asked = {} /\ logic'.state = "BeforeRoundStart"
                 /\ \E m : /\ IsLogicP(m) /\ UpgradesInHand(m)
                           /\ m.room = logic.room
                           /\ DOMAIN m.upgrades = Earners(logic)
                           /\ logic'.upgrades = m.upgrades
                           /\ \/ /\ GameWinners(UpgradedRoom(m)) = {}
                                 /\ logic'.room = UpgradedRoom(m)
                                 /\ logic'.signals = {"upgradeResult"}
                              \/ /\ logic'.room = ResetUpgrades(UpgradedRoom(m))
                                 /\ logic'.signals = {"gameOver"}
  <1>1. PICK m : /\ IsLogicP(m) /\ Upgrading(m) /\ UpgradesInHand(m)
                 /\ Alike(logic, m, {"upgrades", "asked", "signals"})
                 /\ m.state = "Upgrade" /\ m.signals = {}
                 /\ m.asked = logic.asked \ {p}
                 /\ logic' = Upgrade(m)
    BY ItemsTaken
  <1>2. /\ m.room = logic.room /\ logic.state = "Upgrade"
        /\ m.rpsForActionWinners = logic.rpsForActionWinners
        /\ Earners(m) = Earners(logic)
    BY <1>1 DEF Alike, Fields, UpgradeReply, Earners
  <1>3. CASE logic' = m /\ m.asked # {}
    BY <1>1, <1>2, <1>3 DEF Records
  <1>4. CASE /\ m.asked = {} /\ DOMAIN m.upgrades = Earners(m)
             /\ Alike(m, logic', {"room", "state", "signals"})
             /\ logic'.state = "BeforeRoundStart"
             /\ \/ /\ GameWinners(UpgradedRoom(m)) = {}
                   /\ logic'.room = UpgradedRoom(m)
                   /\ logic'.signals = m.signals \cup {"upgradeResult"}
                \/ /\ GameWinners(UpgradedRoom(m)) # {}
                   /\ logic'.room = ResetUpgrades(UpgradedRoom(m))
                   /\ logic'.signals = m.signals \cup {"gameOver"}
    <2>1. logic'.asked = {} /\ logic'.upgrades = m.upgrades
      BY <1>4 DEF Alike, Fields
    <2> QED
      BY <1>1, <1>2, <1>4, <2>1
  <1> QED
    BY <1>1, <1>3, <1>4, UpgradesEvaluated DEF UpgradedRoom

-----------------------------------------------------------------------------
(* Points are spent, and stats are bought with nothing else. *)

\* Every player's stats are where they start.
AllReset(r) == \A p \in DOMAIN r : \E q \in PlayerFields : r[p] = UpgradesReset(q)

\* The stats of a player who is reset, and of one who is prepared for a round.
LEMMA ResetStats ==
    ASSUME NEW p \in PlayerFields
    PROVE  /\ RemainingTimes(UpgradesReset(p)) = RemainingTimes(NewPlayer)
           /\ FullyUpgraded(UpgradesReset(p)) <=> FullyUpgraded(NewPlayer)
           /\ \A seat :
                 LET q == PreparedForRoundStart(p, seat)
                 IN  /\ RemainingTimes(q) = RemainingTimes(p)
                     /\ FullyUpgraded(q) <=> FullyUpgraded(p)
  <1>1. LET q == UpgradesReset(p)
        IN  /\ q.knifeDamage = NewPlayer.knifeDamage
            /\ q.horseDamage = NewPlayer.horseDamage
            /\ q.maxHp = NewPlayer.maxHp
    BY DEF UpgradesReset, PlayerFields, NewPlayer
  <1>2. ASSUME NEW seat
        PROVE  LET q == PreparedForRoundStart(p, seat)
               IN  /\ q.knifeDamage = p.knifeDamage
                   /\ q.horseDamage = p.horseDamage
                   /\ q.maxHp = p.maxHp
    BY DEF PreparedForRoundStart, PlayerFields
  <1>3. ASSUME NEW q, NEW r, q.knifeDamage = r.knifeDamage,
               q.horseDamage = r.horseDamage, q.maxHp = r.maxHp
        PROVE  /\ RemainingTimes(q) = RemainingTimes(r)
               /\ FullyUpgraded(q) <=> FullyUpgraded(r)
    BY <1>3 DEF RemainingTimes, FullyUpgraded, UpgradeKnifeRemainingTimes,
                UpgradeHorseRemainingTimes, UpgradeMaxHpRemainingTimes
  <1> QED
    BY <1>1, <1>2, <1>3

\* A feasible list of upgrades costs all the points there are.
LEMMA UpgradedSpends ==
    ASSUME NEW p \in PlayerFields, NEW items \in ItemCounts,
           UpgradeFeasible(p, items)
    PROVE  RemainingTimes(Upgraded(p, items)) = RemainingTimes(p) - p.upgradePoint
  <1> DEFINE k == UpgradeKnifeRemainingTimes(p)
             h == UpgradeHorseRemainingTimes(p)
             m == UpgradeMaxHpRemainingTimes(p)
             q == Upgraded(p, items)
  <1>1. k \in Int /\ h \in Int /\ m \in Int
    BY RemainingType
  <1>2. /\ items.knife \in Nat /\ items.horse \in Nat /\ items.maxHp \in Nat
        /\ items.knife <= k /\ items.horse <= h /\ items.maxHp <= m
        /\ items.knife + items.horse + items.maxHp = p.upgradePoint
    BY DEF ItemCounts, UpgradeFeasible, ItemCount
  <1>3. /\ Least(items.knife, k) = items.knife
        /\ Least(items.horse, h) = items.horse
        /\ Least(items.maxHp, m) = items.maxHp
    BY <1>1, <1>2 DEF Least
  <1>4. q = [p EXCEPT !.knifeDamage = @ + items.knife,
                      !.horseDamage = @ + items.horse,
                      !.maxHp = @ + items.maxHp]
    BY <1>3 DEF Upgraded
  <1> HIDE DEF k, h, m, q
  <1>5. /\ q.knifeDamage = p.knifeDamage + items.knife
        /\ q.horseDamage = p.horseDamage + items.horse
        /\ q.maxHp = p.maxHp + items.maxHp
    BY <1>4 DEF PlayerFields
  <1> QED
    BY <1>2, <1>5, PlayerType, ConfigType
      DEF RemainingTimes, UpgradeKnifeRemainingTimes, UpgradeHorseRemainingTimes,
          UpgradeMaxHpRemainingTimes, q

\* What is kept of a player in a turn, its upgrades left included.
LEMMA KeptStats ==
    ASSUME NEW p \in PlayerFields, NEW q, Kept(p, q)
    PROVE  /\ RemainingTimes(q) = RemainingTimes(p)
           /\ FullyUpgraded(q) <=> FullyUpgraded(p)
  BY DEF Kept, RemainingTimes, FullyUpgraded, UpgradeKnifeRemainingTimes,
         UpgradeHorseRemainingTimes, UpgradeMaxHpRemainingTimes

\* Whoever comes or goes, everybody starts from the initial stats again.
LEMMA RoomCall ==
    ASSUME Sound(logic), NEW p \in Name, AddPlayer(p) \/ RemovePlayer(p)
    PROVE  /\ logic.state = "BeforeRoundStart"
           /\ AllReset(logic'.room) /\ logic'.signals = {}
           /\ AddPlayer(p) =>
                 /\ p \notin DOMAIN logic.room
                 /\ DOMAIN logic'.room = DOMAIN logic.room \cup {p}
                 /\ logic'.room = ResetUpgrades(Insert(logic.room, p, NewPlayer))
           /\ RemovePlayer(p) =>
                 /\ p \in DOMAIN logic.room
                 /\ DOMAIN logic'.room = DOMAIN logic.room \ {p}
                 /\ logic'.room =
                       ResetUpgrades([q \in DOMAIN logic.room \ {p} |-> logic.room[q]])
  <1> DEFINE n == NewCall
             added == Insert(logic.room, p, NewPlayer)
             rest == [q \in DOMAIN logic.room \ {p} |-> logic.room[q]]
             in == ResetUpgrades(added)
             out == ResetUpgrades(rest)
  <1>1. HasFields(n) /\ n.room = logic.room /\ n.signals = {}
    BY CallBegun DEF Sound, IsLogicP, Alike, Fields
  <1>2. /\ AddPlayer(p) => logic' = [n EXCEPT !.room = in]
        /\ RemovePlayer(p) => logic' = [n EXCEPT !.room = out]
    BY <1>1 DEF AddPlayer, RemovePlayer
  <1>3. IsHash(added, Name, PlayerFields) /\ IsHash(rest, Name, PlayerFields)
    <2>1. IsHash(logic.room, Name, PlayerFields)
      BY DEF Sound, IsLogicP, Typed
    <2> QED
      BY <2>1, NewPlayerInBounds, InsertType DEF IsHash
  <1>4. /\ AllReset(in) /\ DOMAIN in = DOMAIN added
        /\ AllReset(out) /\ DOMAIN out = DOMAIN rest
    BY <1>3 DEF AllReset, ResetUpgrades, IsHash
  <1>5. DOMAIN added = DOMAIN logic.room \cup {p}
        /\ DOMAIN rest = DOMAIN logic.room \ {p}
    BY DEF Insert
  <1> HIDE DEF in, out, n, added, rest
  <1>6. /\ AddPlayer(p) => logic'.room = in
        /\ RemovePlayer(p) => logic'.room = out
        /\ logic'.signals = {}
    <2>1. /\ [n EXCEPT !.room = in].room = in /\ [n EXCEPT !.room = out].room = out
          /\ [n EXCEPT !.room = in].signals = {}
          /\ [n EXCEPT !.room = out].signals = {}
      BY <1>1 DEF HasFields, Fields
    <2> QED
      BY <1>2, <2>1
  <1> QED
    BY <1>4, <1>5, <1>6 DEF AddPlayer, RemovePlayer, in, out, added, rest

\* A round starts with the stats bought so far, everybody alive, and everybody
\* asked for a throw.
LEMMA RoundCall ==
    ASSUME Sound(logic), InStep(logic), RoundStart
    PROVE  /\ logic.state = "BeforeRoundStart" /\ logic.asked = {}
           /\ Cardinality(DOMAIN logic.room) >= 2
           /\ logic'.room = PrepareForRoundStart(logic.room)
           /\ logic'.state = "RpsForAction"
           /\ logic'.asked = AlivePlayers(logic'.room)
           /\ logic'.signals = {}
  <1>1. PICK m : /\ IsLogicP(m) /\ Alike(logic, m, {"room", "signals"})
                 /\ m.room = PrepareForRoundStart(logic.room)
                 /\ m.asked = {} /\ m.signals = {}
                 /\ Cardinality(DOMAIN logic.room) >= 2
                 /\ logic.state = "BeforeRoundStart"
                 /\ logic' = StartRpsForAction(m)
    BY RoundBegun
  <1>2. /\ Alike(m, logic', {"rpsForActionReplies", "rpsForActionWinners",
                             "state", "asked"})
        /\ logic'.state = "RpsForAction"
        /\ logic'.asked = m.asked \cup AlivePlayers(m.room)
    BY <1>1, NewThrow
  <1>3. logic'.room = m.room /\ logic'.signals = m.signals
    BY <1>2 DEF Alike, Fields
  <1> QED
    BY <1>1, <1>2, <1>3 DEF InStep

\* The stats of everybody after all the recorded upgrades are those before, less
\* the points that were spent.
LEMMA UpgradedRoomSpends ==
    ASSUME NEW l, IsLogicP(l), UpgradesInHand(l), SpendableRoom(l.room),
           DOMAIN l.upgrades = Earners(l)
    PROVE  LET r == UpgradedRoom(l)
           IN  /\ DOMAIN r = DOMAIN l.room
               /\ \A p \in DOMAIN r :
                     /\ r[p] \in PlayerFields
                     /\ RemainingTimes(r[p]) =
                           RemainingTimes(l.room[p]) - l.room[p].upgradePoint
  <1> SUFFICES ASSUME NEW p \in DOMAIN l.room
               PROVE  /\ UpgradedRoom(l)[p] \in PlayerFields
                      /\ RemainingTimes(UpgradedRoom(l)[p]) =
                            RemainingTimes(l.room[p]) - l.room[p].upgradePoint
    BY DEF UpgradedRoom
  <1>1. l.room[p] \in PlayerFields /\ Spendable(l.room[p])
    BY RoomIsRoom DEF IsRoom, SpendableRoom
  <1>2. CASE p \in DOMAIN l.upgrades
    <2>1. /\ l.upgrades[p] \in ItemCounts /\ l.upgrades[p] \in UpgradeItems
          /\ UpgradeFeasible(l.room[p], l.upgrades[p])
      BY <1>2 DEF UpgradesInHand, ItemCounts, UpgradeItems
    <2>2. UpgradedRoom(l)[p] = Upgraded(l.room[p], l.upgrades[p])
      BY <1>2 DEF UpgradedRoom
    <2> QED
      BY <1>1, <2>1, <2>2, UpgradedType, UpgradedSpends
  <1>3. CASE p \notin DOMAIN l.upgrades
    <2>1. ~(l.room[p].upgradePoint > 0)
      BY <1>3 DEF Earners
    <2>2. l.room[p].upgradePoint = 0 /\ RemainingTimes(l.room[p]) \in Int
      BY <1>1, <2>1, PlayerType DEF Spendable
    <2>3. UpgradedRoom(l)[p] = l.room[p]
      BY <1>3 DEF UpgradedRoom
    <2> QED
      BY <1>1, <2>2, <2>3
  <1> QED
    BY <1>2, <1>3

\* Stats change by spending every point at the end of a round, or by being reset,
\* and in no other way.
THEOREM LogicEveryPointIsSpent == Spec => EveryPointIsSpent
  <1> DEFINE R == logic.room
             spends == logic.state = "Upgrade" /\ logic'.state = "BeforeRoundStart"
             resets == DOMAIN logic'.room # DOMAIN R \/ "gameOver" \in logic'.signals
             left(p) == IF resets THEN RemainingTimes(NewPlayer)
                        ELSE IF spends THEN RemainingTimes(R[p]) - R[p].upgradePoint
                        ELSE RemainingTimes(R[p])
             bought == \A p \in DOMAIN R \cap DOMAIN logic'.room :
                          RemainingTimes(logic'.room[p]) = left(p)
  <1>1. Sound(logic) /\ InStep(logic) /\ [Next]_logic => (logic' = logic \/ bought)
    <2> SUFFICES ASSUME Sound(logic), InStep(logic), Next PROVE bought
      OBVIOUS
    <2>1. \A q \in DOMAIN R : R[q] \in PlayerFields
      BY RoomIsRoom DEF Sound, IsRoom
    <2>2. ASSUME AllReset(logic'.room), resets PROVE bought
      BY <2>2, ResetStats DEF AllReset
    <2>3. ASSUME R = logic'.room, "gameOver" \notin logic'.signals, ~spends
          PROVE  bought
      BY <2>3
    <2>4. ASSUME NEW p, Records(logic, logic', p) PROVE bought
      BY <2>3, <2>4 DEF Records
    <2>5. ASSUME NEW e, e.room = R, e.signals \subseteq {"rpsResult"},
                 GoesOn(e, logic')
          PROVE  bought
      <3>1. /\ logic'.room = R /\ logic'.state # "BeforeRoundStart"
            /\ logic'.signals \subseteq {"rpsResult", "actionOrderResult"}
        BY <2>5 DEF GoesOn
      <3> QED
        BY <2>3, <3>1
    <2>6. ASSUME NEW p \in Name, AddPlayer(p) \/ RemovePlayer(p) PROVE bought
      BY <2>2, <2>6, RoomCall
    <2>7. ASSUME RoundStart PROVE bought
      <3>1. /\ logic.state = "BeforeRoundStart" /\ logic'.signals = {}
            /\ logic'.room = PrepareForRoundStart(R)
        BY <2>7, RoundCall
      <3>2. DOMAIN logic'.room = DOMAIN R
        BY <3>1 DEF PrepareForRoundStart
      <3>3. \A p \in DOMAIN R : RemainingTimes(logic'.room[p]) = RemainingTimes(R[p])
        BY <2>1, <3>1, ResetStats DEF PrepareForRoundStart
      <3> QED
        BY <3>1, <3>2, <3>3
    <2>8. ASSUME NEW p \in logic.asked, NEW rps \in Throws, RpsReply(p, rps)
          PROVE  bought
      <3>1. CASE RpsReplyForAction(p, rps)
        <4>1. CASE /\ R = logic'.room /\ logic'.state = "RpsForAction"
                   /\ logic'.signals \subseteq
                         ResultSignals \ {"gameOver", "upgradeResult"}
          BY <2>3, <4>1
        <4> QED
          BY <2>4, <2>5, <3>1, <4>1, ThrowCall
      <3>2. CASE RpsReplyForActionOrder(p, rps)
        BY <2>4, <2>5, <3>2, ContestCall
      <3> QED
        BY <2>8, <3>1, <3>2 DEF RpsReply
    <2>9. ASSUME NEW p \in logic.asked, NEW list \in OrderReplies,
                 ActionOrderReply(p, list)
          PROVE  bought
      BY <2>4, <2>5, <2>9, ListCall
    <2>10. ASSUME NEW p \in logic.asked, NEW a \in ActionReplies, ActionReply(p, a)
           PROVE  bought
      <3>1. /\ logic.state = "Action" /\ RoomKept(R, logic'.room)
            /\ logic'.signals \subseteq {"actionResult", "roundOver"}
        BY <2>10, TurnCall
      <3>2. \A q \in DOMAIN R : RemainingTimes(logic'.room[q]) = RemainingTimes(R[q])
        BY <2>1, <3>1, KeptStats DEF RoomKept
      <3> QED
        BY <3>1, <3>2 DEF RoomKept
    <2>11. ASSUME NEW p \in logic.asked, NEW items \in UpgradeReplies,
                  UpgradeReply(p, items)
           PROVE  bought
      <3>1. CASE Records(logic, logic', p)
        BY <2>4, <3>1
      <3>2. CASE ~Records(logic, logic', p)
        <4>1. logic.state = "Upgrade" /\ logic'.state = "BeforeRoundStart"
          BY <2>11, <3>2, UpgradeCall
        <4>2. PICK m : /\ IsLogicP(m) /\ UpgradesInHand(m) /\ m.room = R
                       /\ DOMAIN m.upgrades = Earners(logic)
                       /\ \/ /\ logic'.room = UpgradedRoom(m)
                             /\ logic'.signals = {"upgradeResult"}
                          \/ /\ logic'.room = ResetUpgrades(UpgradedRoom(m))
                             /\ logic'.signals = {"gameOver"}
          BY <2>11, <3>2, UpgradeCall
        <4> DEFINE r == UpgradedRoom(m)
        <4>3. /\ DOMAIN r = DOMAIN R
              /\ \A q \in DOMAIN r :
                    /\ r[q] \in PlayerFields
                    /\ RemainingTimes(r[q]) = RemainingTimes(R[q]) - R[q].upgradePoint
          <5>1. SpendableRoom(m.room) /\ Earners(m) = Earners(logic)
            BY <4>1, <4>2 DEF Sound, Earners
          <5> QED
            BY <4>2, <5>1, UpgradedRoomSpends
        <4> HIDE DEF r
        <4>4. CASE logic'.room = r /\ logic'.signals = {"upgradeResult"}
          BY <4>1, <4>3, <4>4
        <4>5. CASE logic'.room = ResetUpgrades(r) /\ logic'.signals = {"gameOver"}
          <5>1. AllReset(logic'.room)
            BY <4>3, <4>5 DEF AllReset, ResetUpgrades
          <5> QED
            BY <2>2, <4>5, <5>1
        <4> QED
          BY <4>2, <4>4, <4>5 DEF r
      <3> QED
        BY <3>1, <3>2
    <2> QED
      BY <2>6, <2>7, <2>8, <2>9, <2>10, <2>11 DEF Next, Reply
  <1>2. Sound(logic) /\ InStep(logic) /\ [Next]_logic =>
           [LET room == logic.room
                spent == logic.state = "Upgrade"
                           /\ logic'.state = "BeforeRoundStart"
                reset == \/ DOMAIN logic'.room # DOMAIN room
                         \/ "gameOver" \in logic'.signals
            IN  \A p \in DOMAIN room \cap DOMAIN logic'.room :
                   RemainingTimes(logic'.room[p]) =
                       IF reset THEN RemainingTimes(NewPlayer)
                       ELSE IF spent
                       THEN RemainingTimes(room[p]) - room[p].upgradePoint
                       ELSE RemainingTimes(room[p])]_logic
    BY <1>1
  <1> QED
    BY <1>2, AlwaysInStep, PTL DEF Spec, EveryPointIsSpent

-----------------------------------------------------------------------------
(* Nobody waits in vain, and no round outlives the win. *)

\* The configuration starts players alive, with something left to buy.  In a
\* configuration that does not, a round may be over with no upgrade to ask for.
Playable == Alive(NewPlayer) /\ ~FullyUpgraded(NewPlayer)

\* The second inductive invariant: nobody is fully upgraded, so every death leaves
\* somebody with a point; a round goes on until at most one player is alive, and
\* always has a request out.
Lively(l) ==
    /\ \A p \in DOMAIN l.room : ~FullyUpgraded(l.room[p])
    /\ l.state # "BeforeRoundStart" =>
          /\ Cardinality(DOMAIN l.room) >= 2
          /\ l.asked # {}
          /\ (\E p \in DOMAIN l.room : Dead(l.room[p])) => Earners(l) # {}
    /\ InRound(l) => ~IsRoundOver(l.room)

\* Whoever is alive in a room is one of finitely many.
LEMMA RoomIsFinite ==
    ASSUME NEW r, IsRoom(r)
    PROVE  /\ IsFiniteSet(DOMAIN r) /\ Cardinality(DOMAIN r) \in Nat
           /\ IsFiniteSet(AlivePlayers(r)) /\ Cardinality(AlivePlayers(r)) \in Nat
           /\ AlivePlayers(r) \subseteq DOMAIN r
  <1>1. DOMAIN r \in SUBSET Name /\ AlivePlayers(r) \in SUBSET Name
    BY DEF IsRoom, AlivePlayers
  <1>2. AlivePlayers(r) \subseteq DOMAIN r
    BY DEF AlivePlayers
  <1> QED
    BY <1>1, <1>2, Finiteness, FS_Subset, FS_CardinalityType

\* A round that is over with two players or more in the room has seen a death.
LEMMA OverMeansDeath ==
    ASSUME NEW r, IsRoom(r), Cardinality(DOMAIN r) >= 2
    PROVE  /\ IsRoundOver(r) => \E p \in DOMAIN r : Dead(r[p])
           /\ ~IsRoundOver(r) => AlivePlayers(r) # {}
  <1>1. ASSUME IsRoundOver(r) PROVE \E p \in DOMAIN r : Dead(r[p])
    <2>1. Cardinality(AlivePlayers(r)) <= 1
      BY <1>1 DEF IsRoundOver
    <2>2. AlivePlayers(r) # DOMAIN r
      BY <2>1, RoomIsFinite
    <2>3. PICK p \in DOMAIN r : p \notin AlivePlayers(r)
      BY <2>2, RoomIsFinite
    <2> QED
      BY <2>3 DEF AlivePlayers, Alive
  <1>2. ASSUME AlivePlayers(r) = {} PROVE IsRoundOver(r)
    BY <1>2, FS_EmptySet DEF IsRoundOver
  <1> QED
    BY <1>1, <1>2

\* The request that goes out with a step of the negotiation.
LEMMA GoesOnAsks ==
    ASSUME NEW e, NEW m, GoesOn(e, m)
    PROVE  m.asked # {} /\ m.state \in {"ActionOrder", "RpsForActionOrder", "Action"}
  <1>1. CASE m.state = "ActionOrder"
    BY <1>1 DEF GoesOn, InStep, Choosing
  <1>2. CASE m.state = "RpsForActionOrder"
    <2>1. Cardinality(m.asked) >= 2
      BY <1>2 DEF GoesOn
    <2>2. m.asked # {}
      BY <2>1, FS_EmptySet
    <2> QED
      BY <1>2, <2>2
  <1>3. CASE m.state = "Action"
    BY <1>3 DEF GoesOn
  <1> QED
    BY <1>1, <1>2, <1>3 DEF GoesOn

\* A recorded reply, or a step of the negotiation, in the same room.
LEMMA SameRoomLively ==
    ASSUME NEW l, NEW m, Lively(l), l.state # "BeforeRoundStart", m.room = l.room,
           m.asked # {},
           m.state = l.state \/ (InRound(l) /\ InRound(m))
    PROVE  Lively(m)
  <1>1. Earners(m) = Earners(l)
    BY DEF Earners
  <1> QED
    BY <1>1 DEF Lively, InRound

\* Between rounds only the stats matter.
LEMMA IdleLively ==
    ASSUME NEW l, l.state = "BeforeRoundStart",
           \A p \in DOMAIN l.room : ~FullyUpgraded(l.room[p])
    PROVE  Lively(l)
  BY DEF Lively, InRound

\* Everybody prepared for a round is alive.
LEMMA PreparedAlive ==
    ASSUME Playable, NEW p \in PlayerFields, StatsInBounds(p), NEW seat
    PROVE  Alive(PreparedForRoundStart(p, seat))
  <1>1. PreparedForRoundStart(p, seat).hp = p.maxHp
    BY DEF PreparedForRoundStart, PlayerFields
  <1>2. NewPlayer.hp = Config.initialMaxHp
    BY DEF NewPlayer
  <1>3. p.maxHp \in Int /\ p.maxHp >= Config.initialMaxHp
    BY ConfigType DEF StatsInBounds
  <1> QED
    BY <1>1, <1>2, <1>3, ConfigType DEF Playable, Alive, Dead, DeadAtHp

\* The room at the start of a round: everybody alive, and two of them at least.
LEMMA RoundLively ==
    ASSUME Playable, Sound(logic), InStep(logic), Lively(logic), RoundStart
    PROVE  /\ Lively(logic')
           /\ AlivePlayers(logic'.room) = DOMAIN logic.room
           /\ DOMAIN logic'.room = DOMAIN logic.room
  <1> DEFINE R == logic.room
             r == PrepareForRoundStart(R)
  <1>1. /\ Cardinality(DOMAIN R) >= 2 /\ logic'.room = r
        /\ logic'.state = "RpsForAction" /\ logic'.asked = AlivePlayers(r)
    BY RoundCall
  <1>2. IsRoom(R) /\ IsRoom(r) /\ DOMAIN r = DOMAIN R
    BY RoomIsRoom, PreparedRoom DEF Sound
  <1>3. ASSUME NEW p \in DOMAIN R
        PROVE  Alive(r[p]) /\ ~FullyUpgraded(r[p])
    <2>1. PICK seat \in Int : r[p] = PreparedForRoundStart(R[p], seat)
      BY <1>2, PreparedRoom
    <2>2. R[p] \in PlayerFields /\ StatsInBounds(R[p]) /\ ~FullyUpgraded(R[p])
      BY <1>2 DEF IsRoom, Sound, Lively
    <2> QED
      BY <2>1, <2>2, PreparedAlive, ResetStats
  <1> HIDE DEF r
  <1>4. AlivePlayers(r) = DOMAIN R
    BY <1>2, <1>3 DEF AlivePlayers
  <1>5. ~IsRoundOver(r) /\ AlivePlayers(r) # {}
    <2>1. Cardinality(DOMAIN R) \in Nat
      BY <1>2, RoomIsFinite
    <2> QED
      BY <1>1, <1>2, <1>4, <2>1, OverMeansDeath DEF IsRoundOver
  <1>6. \A p \in DOMAIN r : ~Dead(r[p])
    BY <1>2, <1>3 DEF Alive
  <1> QED
    BY <1>1, <1>2, <1>3, <1>4, <1>5, <1>6 DEF Lively, r

\* A turn leaves nobody fully upgraded, and a death leaves points to spend.
LEMMA TurnLively ==
    ASSUME Sound(logic), InStep(logic), Lively(logic), NEW p \in logic.asked,
           NEW a \in ActionReplies, ActionReply(p, a)
    PROVE  /\ Lively(logic')
           /\ \E victim \in AlivePlayers(logic.room) :
                 Wounds(logic.room, logic'.room, {p, victim})
           /\ IsRoundOver(logic'.room) => logic'.state = "Upgrade"
  <1> DEFINE R == logic.room
             r == logic'.room
  <1>1. /\ logic.state = "Action" /\ p \in AlivePlayers(R)
        /\ r = AfterTurn(R, p, a) /\ RoomKept(R, r)
        /\ IsRoundOver(r) =>
              /\ logic'.state = IF Earners(logic') = {} THEN "Action" ELSE "Upgrade"
              /\ logic'.asked = Earners(logic')
        /\ ~IsRoundOver(r) =>
              \/ logic'.state = "RpsForAction" /\ logic'.asked = AlivePlayers(r)
              \/ logic'.state = "Action" /\ logic'.asked # {}
    BY TurnCall
  <1>2. IsRoom(R) /\ AllCanEarn(R) /\ Cardinality(DOMAIN R) >= 2
    BY <1>1, RoomIsRoom DEF Sound, SpendableRoom, Lively, AllCanEarn, CanEarn
  <1>3. IsRoom(r) /\ DOMAIN r = DOMAIN R /\ AllCanEarn(r)
    BY <1>1, <1>2, KeptCanEarn DEF RoomKept
  <1>4. PICK victim \in AlivePlayers(R) : Wounds(R, r, {p, victim})
    <2>1. CASE ActionFeasible(R, p, a)
      BY <1>1, <1>2, <2>1, ActionsWound DEF AfterTurn
    <2>2. CASE ~ActionFeasible(R, p, a)
      <3>1. r = R
        BY <1>1, <2>2 DEF AfterTurn
      <3>2. Wounds(R, r, {})
        BY <1>2, <3>1, NobodyWounded
      <3> QED
        BY <1>1, <3>2 DEF Wounds
    <2> QED
      BY <2>1, <2>2
  <1>5. ASSUME NEW q \in DOMAIN r, Dead(r[q]) PROVE Earners(logic') # {}
    <2>1. CASE Alive(R[q])
      <3>1. PICK x \in DOMAIN r : r[x].upgradePoint > 0
        BY <1>3, <1>4, <1>5, <2>1 DEF Wounds
      <3> QED
        BY <3>1 DEF Earners
    <2>2. CASE Dead(R[q])
      <3>1. PICK x \in DOMAIN R : R[x].upgradePoint > 0
        BY <1>1, <1>3, <1>5, <2>2 DEF Lively, Earners
      <3>2. /\ r[x].upgradePoint >= R[x].upgradePoint
            /\ r[x].upgradePoint \in Int /\ R[x].upgradePoint \in Int
        BY <1>2, <1>3, <1>4, <3>1, PlayerType DEF Wounds, IsRoom
      <3> QED
        BY <1>3, <3>1, <3>2 DEF Earners
    <2> QED
      BY <2>1, <2>2 DEF Alive
  <1>6. \A q \in DOMAIN r : ~FullyUpgraded(r[q])
    BY <1>3 DEF AllCanEarn, CanEarn
  <1>7. CASE IsRoundOver(r)
    <2>1. Earners(logic') # {}
      BY <1>2, <1>3, <1>5, <1>7, OverMeansDeath
    <2> QED
      BY <1>1, <1>2, <1>3, <1>4, <1>5, <1>6, <1>7, <2>1 DEF Lively, InRound
  <1>8. CASE ~IsRoundOver(r)
    <2>1. AlivePlayers(r) # {}
      BY <1>2, <1>3, <1>8, OverMeansDeath
    <2>2. logic'.asked # {}
      BY <1>1, <1>8, <2>1
    <2> QED
      BY <1>2, <1>3, <1>4, <1>5, <1>6, <1>8, <2>2 DEF Lively
  <1> QED
    BY <1>7, <1>8

\* Once the upgrades are applied nobody is fully upgraded: who is has won, and
\* everybody starts again.
LEMMA UpgradesLively ==
    ASSUME Playable, Sound(logic), InStep(logic), Lively(logic),
           NEW p \in logic.asked, NEW items \in UpgradeReplies,
           UpgradeReply(p, items)
    PROVE  Lively(logic')
  <1>1. logic.state = "Upgrade"
    BY UpgradeCall
  <1>2. CASE Records(logic, logic', p)
    BY <1>1, <1>2, SameRoomLively DEF Records
  <1>3. CASE ~Records(logic, logic', p)
    <2>1. logic'.state = "BeforeRoundStart"
      BY <1>3, UpgradeCall
    <2>2. PICK m : /\ IsLogicP(m) /\ UpgradesInHand(m) /\ m.room = logic.room
                   /\ DOMAIN m.upgrades = Earners(logic)
                   /\ \/ /\ GameWinners(UpgradedRoom(m)) = {}
                         /\ logic'.room = UpgradedRoom(m)
                      \/ logic'.room = ResetUpgrades(UpgradedRoom(m))
      BY <1>3, UpgradeCall
    <2>3. \A q \in DOMAIN UpgradedRoom(m) : UpgradedRoom(m)[q] \in PlayerFields
      <3>1. SpendableRoom(m.room) /\ Earners(m) = Earners(logic)
        BY <1>1, <2>2 DEF Sound, Earners
      <3> QED
        BY <2>2, <3>1, UpgradedRoomSpends
    <2>4. CASE /\ GameWinners(UpgradedRoom(m)) = {}
               /\ logic'.room = UpgradedRoom(m)
      BY <2>1, <2>4, IdleLively DEF GameWinners
    <2>5. CASE logic'.room = ResetUpgrades(UpgradedRoom(m))
      <3>1. \A q \in DOMAIN logic'.room : ~FullyUpgraded(logic'.room[q])
        BY <2>3, <2>5, ResetStats DEF ResetUpgrades, Playable
      <3> QED
        BY <2>1, <3>1, IdleLively
    <2> QED
      BY <2>2, <2>4, <2>5
  <1> QED
    BY <1>2, <1>3

\* Every call of a slot keeps LogicP lively.
LEMMA NextLively ==
    ASSUME Playable, Sound(logic), InStep(logic), Lively(logic), [Next]_logic
    PROVE  Lively(logic')
  <1>1. ASSUME NEW p \in Name, AddPlayer(p) \/ RemovePlayer(p)
        PROVE  Lively(logic')
    <2>1. AllReset(logic'.room) /\ logic'.state = "BeforeRoundStart"
      BY <1>1, RoomCall, RoomChangeInStep
    <2>2. \A q \in DOMAIN logic'.room : ~FullyUpgraded(logic'.room[q])
      BY <2>1, ResetStats DEF AllReset, Playable
    <2> QED
      BY <2>1, <2>2, IdleLively
  <1>2. ASSUME RoundStart PROVE Lively(logic')
    BY <1>2, RoundLively
  <1>3. ASSUME NEW p, Records(logic, logic', p), logic.state # "BeforeRoundStart"
        PROVE  Lively(logic')
    BY <1>3, SameRoomLively DEF Records
  <1>4. ASSUME NEW e, e.room = logic.room, GoesOn(e, logic'), InRound(logic)
        PROVE  Lively(logic')
    <2>1. /\ logic'.asked # {} /\ logic'.room = logic.room /\ InRound(logic')
      BY <1>4, GoesOnAsks DEF GoesOn, InRound
    <2>2. logic.state # "BeforeRoundStart"
      BY <1>4 DEF InRound
    <2> QED
      BY <1>4, <2>1, <2>2, SameRoomLively
  <1>5. ASSUME NEW p \in logic.asked, NEW rps \in Throws, RpsReply(p, rps)
        PROVE  Lively(logic')
    <2>1. InRound(logic) /\ logic.state # "BeforeRoundStart"
      BY <1>5 DEF RpsReply, RpsReplyForAction, RpsReplyForActionOrder, InRound
    <2>2. CASE /\ logic'.room = logic.room /\ logic'.state = "RpsForAction"
               /\ logic'.asked = AlivePlayers(logic.room)
      <3>1. AlivePlayers(logic.room) # {}
        BY <2>1, RoomIsRoom, OverMeansDeath DEF Lively, Sound
      <3>2. InRound(logic')
        BY <2>2 DEF InRound
      <3> QED
        BY <2>1, <2>2, <3>1, <3>2, SameRoomLively
    <2> QED
      BY <1>3, <1>4, <1>5, <2>1, <2>2, ThrowCall, ContestCall DEF RpsReply
  <1>6. ASSUME NEW p \in logic.asked, NEW list \in OrderReplies,
               ActionOrderReply(p, list)
        PROVE  Lively(logic')
    <2>1. InRound(logic) /\ logic.state # "BeforeRoundStart"
      BY <1>6 DEF ActionOrderReply, InRound
    <2> QED
      BY <1>3, <1>4, <1>6, <2>1, ListCall
  <1>7. ASSUME NEW p \in logic.asked, NEW a \in ActionReplies, ActionReply(p, a)
        PROVE  Lively(logic')
    BY <1>7, TurnLively
  <1>8. ASSUME NEW p \in logic.asked, NEW items \in UpgradeReplies,
               UpgradeReply(p, items)
        PROVE  Lively(logic')
    BY <1>8, UpgradesLively
  <1>9. CASE UNCHANGED logic
    BY <1>9
  <1> QED
    BY <1>1, <1>2, <1>5, <1>6, <1>7, <1>8, <1>9 DEF Next, Reply

\* LogicP is always lively.
LEMMA AlwaysLively ==
    ASSUME Playable
    PROVE  Spec => [](Sound(logic) /\ InStep(logic) /\ Lively(logic))
  <1>1. Init => Lively(logic)
    <2>1. Init => logic.state = "BeforeRoundStart" /\ DOMAIN logic.room = {}
      BY DEF Init, EmptyHash
    <2> QED
      BY <2>1, IdleLively
  <1>2. Sound(logic) /\ InStep(logic) /\ Lively(logic) /\ [Next]_logic
           => Lively(logic)'
    BY NextLively
  <1> QED
    BY <1>1, <1>2, AlwaysInStep, PTL DEF Spec

\* Nobody plays a round who has bought every upgrade, nor with anybody who has.
THEOREM LogicNoRoundAfterTheWin ==
    ASSUME Playable
    PROVE  Spec => []NoRoundAfterTheWin
  <1>1. Lively(logic) => NoRoundAfterTheWin
    BY DEF Lively, NoRoundAfterTheWin
  <1> QED
    BY <1>1, AlwaysLively, PTL

\* The requests that are out are those whose replies the phase still waits for,
\* there is always one in a round, and only the living are asked to play it.
THEOREM LogicWaitsForWhatItAsked ==
    ASSUME Playable
    PROVE  Spec => []WaitsForWhatItAsked
  <1>1. Sound(logic) /\ InStep(logic) /\ Lively(logic) => WaitsForWhatItAsked
    <2> SUFFICES ASSUME Sound(logic), InStep(logic), Lively(logic)
                 PROVE  WaitsForWhatItAsked
      OBVIOUS
    <2>1. logic.state # "BeforeRoundStart" => logic.asked # {}
      BY DEF Lively
    <2>2. \A p \in AlivePlayers(logic.room) : Alive(logic.room[p])
      BY DEF AlivePlayers
    <2>3. CASE logic.state = "BeforeRoundStart"
      BY <2>1, <2>3 DEF InStep, WaitsForWhatItAsked, Awaited
    <2>4. CASE logic.state = "RpsForAction"
      BY <2>1, <2>2, <2>4 DEF InStep, Throwing, WaitsForWhatItAsked, Awaited
    <2>5. CASE logic.state = "ActionOrder"
      <3>1. Choosing(logic)
        BY <2>5 DEF InStep
      <3>2. /\ logic.asked \subseteq AlivePlayers(logic.room)
            /\ logic.asked = DOMAIN logic.actionOrderRemainingSelections
        BY <3>1 DEF Choosing, Bidding, Granted, Thrown
      <3> QED
        BY <2>1, <2>2, <2>5, <3>2 DEF WaitsForWhatItAsked, Awaited
    <2>6. CASE logic.state = "RpsForActionOrder"
      <3>1. Contesting(logic)
        BY <2>6 DEF InStep
      <3>2. logic.asked = Desirers(logic.desiredActionOrders,
                                   logic.currentStrivingActionOrder)
                            \ DOMAIN logic.rpsForActionOrderReplies
        BY <3>1 DEF Contesting
      <3>3. logic.asked \subseteq AlivePlayers(logic.room)
        BY <3>1, <3>2 DEF Contesting, Bidding, Granted, Thrown, Desirers
      <3> QED
        BY <2>1, <2>2, <2>6, <3>2, <3>3 DEF WaitsForWhatItAsked, Awaited
    <2>7. CASE logic.state = "Action"
      BY <2>1, <2>2, <2>7 DEF InStep, Acting, WaitsForWhatItAsked, Awaited
    <2>8. CASE logic.state = "Upgrade"
      BY <2>1, <2>8 DEF InStep, Upgrading, Earners, WaitsForWhatItAsked, Awaited
    <2> QED
      BY <2>3, <2>4, <2>5, <2>6, <2>7, <2>8 DEF Sound, IsLogicP, Typed, States
  <1> QED
    BY <1>1, AlwaysLively, PTL

-----------------------------------------------------------------------------
(* Logic implements Phases. *)

\* Whoever is asked is in the room.
LEMMA AskedInRoom ==
    ASSUME NEW l, IsLogicP(l), InStep(l)
    PROVE  l.asked \subseteq DOMAIN l.room
  <1>1. AlivePlayers(l.room) \subseteq DOMAIN l.room
    BY DEF AlivePlayers
  <1>2. CASE l.state = "BeforeRoundStart"
    BY <1>2 DEF InStep
  <1>3. CASE l.state = "RpsForAction"
    BY <1>1, <1>3 DEF InStep, Throwing
  <1>4. CASE l.state = "ActionOrder"
    BY <1>1, <1>4 DEF InStep, Choosing, Bidding, Granted, Thrown
  <1>5. CASE l.state = "RpsForActionOrder"
    <2>1. Contesting(l)
      BY <1>5 DEF InStep
    <2>2. l.asked \subseteq
             Desirers(l.desiredActionOrders, l.currentStrivingActionOrder)
      BY <2>1 DEF Contesting
    <2> QED
      BY <1>1, <2>1, <2>2 DEF Contesting, Bidding, Granted, Thrown, Desirers
  <1>6. CASE l.state = "Action"
    BY <1>1, <1>6 DEF InStep, Acting
  <1>7. CASE l.state = "Upgrade"
    BY <1>7 DEF InStep, Upgrading, Earners
  <1> QED
    BY <1>2, <1>3, <1>4, <1>5, <1>6, <1>7 DEF IsLogicP, Typed, States

\* The abstract modules count as Logic does.
LEMMA SameCardinality ==
    \A S : /\ Driven!Cardinality(S) = Cardinality(S)
           /\ Promise!Cardinality(S) = Cardinality(S)
  BY DEF Driven!Cardinality, Promise!Cardinality, Cardinality

\* What Phases allows a phase to ask, phase by phase.
LEMMA MayAskCases ==
    ASSUME NEW ph, NEW s
    PROVE  /\ ph = "BeforeRoundStart" /\ s = {} => Driven!MayAsk(ph, s)
           /\ ph = "Action" /\ Cardinality(s) = 1 => Driven!MayAsk(ph, s)
           /\ ph \in {"RpsForAction", "RpsForActionOrder"} /\ Cardinality(s) >= 2
                 => Driven!MayAsk(ph, s)
           /\ ph \in {"ActionOrder", "Upgrade"} /\ s # {} => Driven!MayAsk(ph, s)
  <1>1. CASE ph = "BeforeRoundStart"
    BY <1>1 DEF Driven!MayAsk, Driven!Idle
  <1>2. CASE ph = "Action"
    BY <1>2, SameCardinality DEF Driven!MayAsk, Driven!Idle
  <1>3. CASE ph \in {"RpsForAction", "RpsForActionOrder"}
    BY <1>3, SameCardinality DEF Driven!MayAsk, Driven!Idle
  <1>4. CASE ph \in {"ActionOrder", "Upgrade"}
    BY <1>4 DEF Driven!MayAsk, Driven!Idle
  <1> QED
    BY <1>1, <1>2, <1>3, <1>4

\* A phase asks as many players as Phases allows.
LEMMA AsksEnough ==
    ASSUME NEW l, Sound(l), InStep(l), Lively(l),
           l.state = "RpsForAction" => l.asked = AlivePlayers(l.room),
           l.state = "RpsForActionOrder" => Cardinality(l.asked) >= 2
    PROVE  Driven!MayAsk(l.state, l.asked)
  <1>1. CASE l.state = "BeforeRoundStart"
    BY <1>1, MayAskCases DEF InStep
  <1>2. CASE l.state = "RpsForAction"
    <2>1. Cardinality(AlivePlayers(l.room)) \in Nat
      BY RoomIsRoom, RoomIsFinite DEF Sound
    <2>2. ~(Cardinality(AlivePlayers(l.room)) <= 1)
      BY <1>2 DEF Lively, InRound, IsRoundOver
    <2>3. Cardinality(l.asked) >= 2
      BY <1>2, <2>1, <2>2
    <2> QED
      BY <1>2, <2>3, MayAskCases
  <1>3. CASE l.state = "RpsForActionOrder"
    BY <1>3, MayAskCases
  <1>4. CASE l.state = "Action"
    <2>1. l.asked = {l.confirmedActionOrders[l.currentActionOrder]}
      BY <1>4 DEF InStep, Acting, Lively
    <2>2. Cardinality(l.asked) = 1
      BY <2>1, FS_Singleton
    <2> QED
      BY <1>4, <2>2, MayAskCases
  <1>5. CASE l.state \in {"ActionOrder", "Upgrade"}
    BY <1>5, MayAskCases DEF Lively
  <1> QED
    BY <1>1, <1>2, <1>3, <1>4, <1>5 DEF Sound, IsLogicP, Typed, States

\* A reply that others are still waited for after is a reply of Phases.
LEMMA RecordedReply ==
    ASSUME NEW p \in logic.asked, p \in DOMAIN logic.room,
           logic.state \in Driven!Running, logic.state # "Action",
           Records(logic, logic', p)
    PROVE  Driven!Next
  <1>1. /\ DOMAIN logic'.room = DOMAIN logic.room /\ logic'.state = logic.state
        /\ logic'.asked = logic.asked \ {p} /\ logic'.asked # {}
    BY DEF Records
  <1>2. ~Driven!Completes(p)
    BY <1>1 DEF Driven!Completes
  <1>3. Driven!Accepts(p, Driven!RequestOf(logic.state))
    BY DEF Driven!Accepts
  <1>4. Driven!Reply(p, Driven!RequestOf(logic.state))
    BY <1>1, <1>2, <1>3 DEF Driven!Reply
  <1> QED
    BY <1>4 DEF Driven!Next

\* The last reply of a phase, with what the next one asks, is a reply of Phases.
LEMMA LastReply ==
    ASSUME NEW p \in logic.asked, p \in DOMAIN logic.room, logic.asked = {p},
           logic.state \in Driven!Running,
           logic'.state \in Driven!Follows[logic.state],
           DOMAIN logic'.room = DOMAIN logic.room,
           logic'.asked \subseteq DOMAIN logic.room,
           Driven!MayAsk(logic'.state, logic'.asked)
    PROVE  Driven!Next
  <1>1. Driven!Completes(p) /\ Driven!Accepts(p, Driven!RequestOf(logic.state))
    BY DEF Driven!Completes, Driven!Accepts
  <1>2. logic'.asked = (logic.asked \ {p}) \cup logic'.asked
    OBVIOUS
  <1>3. Driven!Reply(p, Driven!RequestOf(logic.state))
    BY <1>1, <1>2 DEF Driven!Reply
  <1> QED
    BY <1>3 DEF Driven!Next

\* Every call of a slot is a step of Phases, or changes nothing it speaks of.
LEMMA NextDriven ==
    ASSUME Playable, Sound(logic), InStep(logic), Lively(logic), [Next]_logic
    PROVE  [Driven!Next]_(Driven!vars)
  <1>1. Sound(logic') /\ InStep(logic') /\ Lively(logic')
    BY NextSound, NextInStep, NextLively
  <1>2. logic.asked \subseteq DOMAIN logic.room
        /\ logic'.asked \subseteq DOMAIN logic'.room
    BY <1>1, AskedInRoom DEF Sound
  <1>3. /\ Driven!Running = {"RpsForAction", "ActionOrder", "RpsForActionOrder",
                            "Action", "Upgrade"}
        /\ Driven!Follows["RpsForAction"] =
              {"RpsForAction", "ActionOrder", "Action"}
        /\ Driven!Follows["ActionOrder"] = {"RpsForActionOrder", "Action"}
        /\ Driven!Follows["RpsForActionOrder"] =
              {"ActionOrder", "RpsForActionOrder", "Action"}
        /\ Driven!Follows["Action"] = {"Action", "RpsForAction", "Upgrade"}
        /\ Driven!Follows["Upgrade"] = {"BeforeRoundStart"}
    BY DEF Driven!Running, Driven!Follows, Driven!Idle
  <1>4. ASSUME NEW p \in Name, AddPlayer(p) \/ RemovePlayer(p)
        PROVE  Driven!Next
    <2>1. /\ logic.state = "BeforeRoundStart" /\ logic'.state = "BeforeRoundStart"
          /\ logic.asked = {} /\ logic'.asked = {}
      BY <1>1, <1>4, RoomCall, RoomChangeInStep DEF InStep
    <2>2. CASE AddPlayer(p)
      <3>1. /\ p \notin DOMAIN logic.room
            /\ DOMAIN logic'.room = DOMAIN logic.room \cup {p}
        BY <2>2, RoomCall
      <3> QED
        BY <2>1, <3>1 DEF Driven!Next, Driven!AddPlayer, Driven!Idle
    <2>3. CASE RemovePlayer(p)
      <3>1. /\ p \in DOMAIN logic.room
            /\ DOMAIN logic'.room = DOMAIN logic.room \ {p}
        BY <2>3, RoomCall
      <3> QED
        BY <2>1, <3>1 DEF Driven!Next, Driven!RemovePlayer, Driven!Idle
    <2> QED
      BY <1>4, <2>2, <2>3
  <1>5. ASSUME RoundStart PROVE Driven!Next
    <2>1. /\ logic.state = "BeforeRoundStart"
          /\ Cardinality(DOMAIN logic.room) >= 2
          /\ logic'.state = "RpsForAction" /\ logic'.asked = DOMAIN logic.room
          /\ DOMAIN logic'.room = DOMAIN logic.room
      BY <1>5, RoundCall, RoundLively
    <2>2. Driven!RoundStart
      BY <2>1, SameCardinality DEF Driven!RoundStart, Driven!Idle
    <2> QED
      BY <2>2 DEF Driven!Next
  <1>6. ASSUME NEW p \in logic.asked, NEW rps \in Throws, RpsReply(p, rps)
        PROVE  Driven!Next
    <2>1. CASE RpsReplyForAction(p, rps)
      <3>1. logic.state = "RpsForAction" /\ p \in DOMAIN logic.room
        BY <2>1 DEF RpsReplyForAction
      <3>2. CASE Records(logic, logic', p)
        BY <1>3, <3>1, <3>2, RecordedReply
      <3>3. CASE /\ logic.asked = {p} /\ logic'.room = logic.room
                 /\ logic'.state = "RpsForAction"
                 /\ logic'.asked = AlivePlayers(logic.room)
        <4>1. Driven!MayAsk(logic'.state, logic'.asked)
          BY <1>1, <3>3, AsksEnough
        <4> QED
          BY <1>2, <1>3, <3>1, <3>3, <4>1, LastReply
      <3>4. ASSUME logic.asked = {p}, logic'.state # "RpsForActionOrder",
                   NEW e, e.room = logic.room, GoesOn(e, logic')
            PROVE  Driven!Next
        <4>1. logic'.state \in {"ActionOrder", "Action"}
              /\ logic'.room = logic.room
          BY <3>4 DEF GoesOn
        <4>2. Driven!MayAsk(logic'.state, logic'.asked)
          BY <1>1, <4>1, AsksEnough
        <4> QED
          BY <1>2, <1>3, <3>1, <3>4, <4>1, <4>2, LastReply
      <3> QED
        BY <2>1, <3>2, <3>3, <3>4, ThrowCall
    <2>2. CASE RpsReplyForActionOrder(p, rps)
      <3>1. logic.state = "RpsForActionOrder" /\ p \in DOMAIN logic.room
        BY <2>2 DEF RpsReplyForActionOrder
      <3>2. CASE Records(logic, logic', p)
        BY <1>3, <3>1, <3>2, RecordedReply
      <3>3. ASSUME logic.asked = {p}, NEW e, e.room = logic.room, GoesOn(e, logic')
            PROVE  Driven!Next
        <4>1. /\ logic'.state \in {"ActionOrder", "RpsForActionOrder", "Action"}
              /\ logic'.room = logic.room
              /\ logic'.state = "RpsForActionOrder" => Cardinality(logic'.asked) >= 2
          BY <3>3 DEF GoesOn
        <4>2. Driven!MayAsk(logic'.state, logic'.asked)
          BY <1>1, <4>1, AsksEnough
        <4> QED
          BY <1>2, <1>3, <3>1, <3>3, <4>1, <4>2, LastReply
      <3> QED
        BY <2>2, <3>2, <3>3, ContestCall
    <2> QED
      BY <1>6, <2>1, <2>2 DEF RpsReply
  <1>7. ASSUME NEW p \in logic.asked, NEW list \in OrderReplies,
               ActionOrderReply(p, list)
        PROVE  Driven!Next
    <2>1. logic.state = "ActionOrder" /\ p \in DOMAIN logic.room
      BY <1>7 DEF ActionOrderReply
    <2>2. CASE Records(logic, logic', p)
      BY <1>3, <2>1, <2>2, RecordedReply
    <2>3. ASSUME logic.asked = {p}, logic'.state # "ActionOrder",
                 NEW e, e.room = logic.room, GoesOn(e, logic')
          PROVE  Driven!Next
      <3>1. /\ logic'.state \in {"RpsForActionOrder", "Action"}
            /\ logic'.room = logic.room
            /\ logic'.state = "RpsForActionOrder" => Cardinality(logic'.asked) >= 2
        BY <2>3 DEF GoesOn
      <3>2. Driven!MayAsk(logic'.state, logic'.asked)
        BY <1>1, <3>1, AsksEnough
      <3> QED
        BY <1>2, <1>3, <2>1, <2>3, <3>1, <3>2, LastReply
    <2> QED
      BY <1>7, <2>2, <2>3, ListCall
  <1>8. ASSUME NEW p \in logic.asked, NEW a \in ActionReplies, ActionReply(p, a)
        PROVE  Driven!Next
    <2>1. /\ logic.state = "Action" /\ logic.asked = {p}
          /\ DOMAIN logic'.room = DOMAIN logic.room /\ p \in DOMAIN logic.room
          /\ logic'.state \in {"Action", "RpsForAction", "Upgrade"}
          /\ logic'.state = "RpsForAction" => logic'.asked = AlivePlayers(logic'.room)
      BY <1>2, <1>8, TurnCall DEF RoomKept
    <2>2. Driven!MayAsk(logic'.state, logic'.asked)
      BY <1>1, <2>1, AsksEnough
    <2> QED
      BY <1>2, <1>3, <2>1, <2>2, LastReply
  <1>9. ASSUME NEW p \in logic.asked, NEW items \in UpgradeReplies,
               UpgradeReply(p, items)
        PROVE  Driven!Next
    <2>1. logic.state = "Upgrade" /\ p \in DOMAIN logic.room
      BY <1>9 DEF UpgradeReply
    <2>2. CASE Records(logic, logic', p)
      BY <1>3, <2>1, <2>2, RecordedReply
    <2>3. CASE ~Records(logic, logic', p)
      <3>1. /\ logic.asked = {p}
            /\ logic'.asked = {} /\ logic'.state = "BeforeRoundStart"
        BY <1>9, <2>3, UpgradeCall
      <3>2. DOMAIN logic'.room = DOMAIN logic.room
        <4>1. PICK m : /\ m.room = logic.room
                       /\ \/ logic'.room = UpgradedRoom(m)
                          \/ logic'.room = ResetUpgrades(UpgradedRoom(m))
          BY <1>9, <2>3, UpgradeCall
        <4> QED
          BY <4>1 DEF UpgradedRoom, ResetUpgrades
      <3>3. Driven!MayAsk(logic'.state, logic'.asked)
        BY <1>1, <3>1, AsksEnough
      <3> QED
        BY <1>2, <1>3, <2>1, <3>1, <3>2, <3>3, LastReply
    <2> QED
      BY <2>2, <2>3
  <1>10. CASE UNCHANGED logic
    BY <1>10 DEF Driven!vars
  <1> QED
    BY <1>4, <1>5, <1>6, <1>7, <1>8, <1>9, <1>10 DEF Next, Reply

\* Whoever drives a Logic meets only the phases, and the numbers of requests, that
\* Phases allows.
THEOREM LogicImplementsPhases ==
    ASSUME Playable
    PROVE  Spec => PhasesAsPromised
  <1>1. Init => Driven!Init
    BY DEF Init, Driven!Init, Driven!Idle, EmptyHash
  <1>2. Sound(logic) /\ InStep(logic) /\ Lively(logic) /\ [Next]_logic
           => [Driven!Next]_(Driven!vars)
    BY NextDriven
  <1> QED
    BY <1>1, <1>2, AlwaysLively, PTL DEF Spec, PhasesAsPromised, Driven!Spec

-----------------------------------------------------------------------------
(* Logic implements Match. *)

\* What Match sees of a LogicP: how far the round is, who is alive in it, and how
\* many turns everybody is owed.
PhaseIn(l) ==
    CASE l.state = "BeforeRoundStart" -> "gathering"
      [] l.state = "Upgrade" -> "upgrading"
      [] OTHER -> "playing"

AliveIn(l) ==
    IF l.state = "BeforeRoundStart" THEN {} ELSE AlivePlayers(l.room)

\* The orders of p from the current one on.
Pending(l, p) ==
    {o \in DOMAIN l.confirmedActionOrders :
        l.confirmedActionOrders[o] = p /\ l.currentActionOrder <= o}

OwedIn(l, p) ==
    CASE l.state \in {"ActionOrder", "RpsForActionOrder"} ->
            IF p \in l.rpsForActionWinners.winners
            THEN l.rpsForActionWinners.times ELSE 0
      [] l.state = "Action" ->
            IF Alive(l.room[p]) THEN Cardinality(Pending(l, p)) ELSE 0
      [] OTHER -> 0

TurnsIn(l) ==
    [p \in Name |-> IF p \in DOMAIN l.room THEN OwedIn(l, p) ELSE 0]

\* The steps of Match, said of what it sees of LogicP before and after.
LEMMA MatchStart ==
    ASSUME PhaseIn(logic) = "gathering", PhaseIn(logic') = "playing",
           AliveIn(logic') \in SUBSET Name, Cardinality(AliveIn(logic')) >= 2,
           TurnsIn(logic') = [q \in Name |-> 0]
    PROVE  Promise!Start
  BY SameCardinality
    DEF Promise!Start, Promise!NoTurns, PhaseIn, AliveIn, TurnsIn, OwedIn, Pending,
        TurnsOwed

LEMMA MatchThrow ==
    ASSUME PhaseIn(logic) = "playing", PhaseIn(logic') = "playing",
           TurnsIn(logic) = [q \in Name |-> 0],
           AliveIn(logic') = AliveIn(logic),
           NEW W \in SUBSET AliveIn(logic), W # {}, W # AliveIn(logic),
           TurnsIn(logic') = [q \in Name |->
               IF q \in W THEN Cardinality(AliveIn(logic) \ W) ELSE 0]
    PROVE  Promise!Throw
  BY SameCardinality
    DEF Promise!Throw, Promise!NoTurns, PhaseIn, AliveIn, TurnsIn, OwedIn, Pending,
        TurnsOwed

LEMMA MatchTurn ==
    ASSUME NEW p \in Name, PhaseIn(logic) = "playing", p \in AliveIn(logic),
           TurnsIn(logic)[p] > 0,
           NEW victim \in AliveIn(logic), NEW dead \in SUBSET {p, victim},
           AliveIn(logic') = AliveIn(logic) \ dead,
           IF Cardinality(AliveIn(logic')) <= 1
           THEN PhaseIn(logic') = "upgrading" /\ TurnsIn(logic') = [q \in Name |-> 0]
           ELSE /\ PhaseIn(logic') = "playing"
                /\ TurnsIn(logic') = [q \in Name |->
                      IF q \notin AliveIn(logic') THEN 0
                      ELSE IF q = p THEN TurnsIn(logic)[q] - 1
                      ELSE TurnsIn(logic)[q]]
    PROVE  Promise!TakeTurn(p)
  BY SameCardinality
    DEF Promise!TakeTurn, Promise!NoTurns, PhaseIn, AliveIn, TurnsIn, OwedIn, Pending,
        TurnsOwed

LEMMA MatchUpgrade ==
    ASSUME PhaseIn(logic) = "upgrading", PhaseIn(logic') = "gathering",
           AliveIn(logic') = {}, TurnsIn(logic') = [q \in Name |-> 0]
    PROVE  Promise!FinishUpgrade
  BY DEF Promise!FinishUpgrade, Promise!NoTurns, PhaseIn, AliveIn, TurnsIn, OwedIn,
         Pending, TurnsOwed

LEMMA MatchStutter ==
    ASSUME PhaseIn(logic') = PhaseIn(logic), AliveIn(logic') = AliveIn(logic),
           TurnsIn(logic') = TurnsIn(logic)
    PROVE  UNCHANGED Promise!vars
  BY DEF Promise!vars, PhaseIn, AliveIn, TurnsIn, OwedIn, Pending, TurnsOwed

\* Nobody is owed a turn unless the throw has parted winners and losers.
LEMMA NoTurnsOwed ==
    ASSUME NEW l, l.state \in {"BeforeRoundStart", "RpsForAction", "Upgrade"}
    PROVE  TurnsIn(l) = [q \in Name |-> 0]
  <1>1. \A q : OwedIn(l, q) = 0
    BY DEF OwedIn
  <1> QED
    BY <1>1 DEF TurnsIn

\* From the throw to the first turn a winner is owed its selections.
LEMMA WonTurns ==
    ASSUME NEW l, IsLogicP(l), Thrown(l), InStep(l),
           \/ l.state \in {"ActionOrder", "RpsForActionOrder"}
           \/ l.state = "Action" /\ l.currentActionOrder = 1
    PROVE  TurnsIn(l) = [q \in Name |-> Won(l, q)]
  <1> SUFFICES ASSUME NEW q \in Name
               PROVE  (IF q \in DOMAIN l.room THEN OwedIn(l, q) ELSE 0) = Won(l, q)
    BY DEF TurnsIn
  <1>1. CASE l.state \in {"ActionOrder", "RpsForActionOrder"}
    BY <1>1 DEF OwedIn, Won, Thrown, AlivePlayers
  <1>2. CASE l.state = "Action" /\ l.currentActionOrder = 1
    <2>1. Settled(l)
      BY <1>2 DEF InStep, Acting
    <2>2. Pending(l, q) = Held(l, q)
      BY <1>2 DEF Pending, Held, IsLogicP, Typed, IsHash, Order
    <2>3. Cardinality(Pending(l, q)) = Won(l, q)
      BY <2>1, <2>2 DEF Settled
    <2>4. CASE q \in AlivePlayers(l.room)
      BY <1>2, <2>3, <2>4 DEF OwedIn, AlivePlayers
    <2>5. CASE q \notin AlivePlayers(l.room)
      <3>1. Won(l, q) = 0
        BY <2>5 DEF Won, Thrown
      <3> QED
        BY <1>2, <2>5, <3>1 DEF OwedIn, AlivePlayers
    <2> QED
      BY <2>4, <2>5
  <1> QED
    BY <1>1, <1>2

\* The negotiation changes nothing that Match sees: in a running round the winners
\* are owed the same from the throw until the first turn.
LEMMA GoesOnOwes ==
    ASSUME NEW e, NEW m, IsLogicP(m), Thrown(e), GoesOn(e, m)
    PROVE  /\ PhaseIn(m) = "playing" /\ AliveIn(m) = AlivePlayers(e.room)
           /\ TurnsIn(m) = [q \in Name |-> Won(e, q)]
  <1>1. /\ m.room = e.room /\ m.rpsForActionWinners = e.rpsForActionWinners
        /\ InStep(m)
        /\ \/ m.state \in {"ActionOrder", "RpsForActionOrder"}
           \/ m.state = "Action" /\ m.currentActionOrder = 1
    BY DEF GoesOn
  <1>2. Thrown(m)
    BY <1>1 DEF Thrown
  <1>3. \A q : Won(m, q) = Won(e, q)
    BY <1>1 DEF Won
  <1> QED
    BY <1>1, <1>2, <1>3, WonTurns DEF PhaseIn, AliveIn

\* A reply that is only recorded changes nothing that Match sees.
LEMMA RecordsOwes ==
    ASSUME NEW l, NEW m, NEW p, Records(l, m, p), l.state # "Action"
    PROVE  /\ PhaseIn(m) = PhaseIn(l) /\ AliveIn(m) = AliveIn(l)
           /\ TurnsIn(m) = TurnsIn(l)
  <1>1. /\ m.room = l.room /\ m.state = l.state
        /\ m.rpsForActionWinners = l.rpsForActionWinners
    BY DEF Records
  <1>2. \A q : OwedIn(m, q) = OwedIn(l, q)
    BY <1>1 DEF OwedIn
  <1> QED
    BY <1>1, <1>2 DEF PhaseIn, AliveIn, TurnsIn

\* After a turn of p, whoever is alive has the orders it had, less the one p used.
LEMMA PendingAfterTurn ==
    ASSUME NEW l, NEW m, NEW p, NEW r, NEW q \in AlivePlayers(r),
           IsHash(l.confirmedActionOrders, Order, Name), Settled(l),
           l.currentActionOrder \in DOMAIN l.confirmedActionOrders,
           p = l.confirmedActionOrders[l.currentActionOrder],
           m.confirmedActionOrders = l.confirmedActionOrders,
           m.rpsForActionWinners = l.rpsForActionWinners,
           m.currentActionOrder = l.currentActionOrder, m.room = r
    PROVE  /\ Pending(l, q) \ {l.currentActionOrder}
                 = {o \in OrdersToCome(m) : l.confirmedActionOrders[o] = q}
           /\ l.currentActionOrder \in Pending(l, q) <=> q = p
           /\ IsFiniteSet(Pending(l, q)) /\ Cardinality(Pending(l, q)) \in Nat
           /\ Cardinality(Pending(l, q) \ {l.currentActionOrder}) =
                 IF q = p THEN Cardinality(Pending(l, q)) - 1
                 ELSE Cardinality(Pending(l, q))
  <1> DEFINE C == l.confirmedActionOrders
             cur == l.currentActionOrder
             P == Pending(l, q)
  <1>1. DOMAIN C \in SUBSET Int /\ cur \in Int /\ DOMAIN C = Orders(l)
    BY DEF IsHash, Order, Settled
  <1>2. \A o \in DOMAIN C : o <= OrderCount(l.rpsForActionWinners)
    BY <1>1 DEF Orders
  <1>3. P \ {cur} = {o \in OrdersToCome(m) : C[o] = q}
    <2>1. \A o \in DOMAIN C : cur < o <=> cur <= o /\ o # cur
      BY <1>1
    <2> QED
      BY <1>2, <2>1 DEF Pending, OrdersToCome
  <1>4. cur \in P <=> q = p
    BY <1>1 DEF Pending
  <1>5. P \in SUBSET Order
    BY DEF Pending, IsHash
  <1>6. IsFiniteSet(P) /\ Cardinality(P) \in Nat
    BY <1>5, Finiteness, FS_Subset, FS_CardinalityType
  <1> HIDE DEF P
  <1>7. CASE q = p
    BY <1>4, <1>6, <1>7, FS_RemoveElement, <1>3 DEF P
  <1>8. CASE q # p
    <2>1. P \ {cur} = P
      BY <1>4, <1>8
    <2> QED
      BY <1>3, <1>4, <1>6, <1>8, <2>1 DEF P
  <1> QED
    BY <1>7, <1>8

\* A turn costs its player one, and forfeits those of whoever it kills.
LEMMA TurnOwes ==
    ASSUME Sound(logic), Sound(logic'), InStep(logic), NEW p \in logic.asked,
           NEW a \in ActionReplies, ActionReply(p, a),
           ~IsRoundOver(logic'.room),
           AlivePlayers(logic'.room) \subseteq AlivePlayers(logic.room)
    PROVE  /\ PhaseIn(logic') = "playing"
           /\ TurnsIn(logic') = [q \in Name |->
                 IF q \notin AlivePlayers(logic'.room) THEN 0
                 ELSE IF q = p THEN TurnsIn(logic)[q] - 1
                 ELSE TurnsIn(logic)[q]]
  <1> DEFINE C == logic.confirmedActionOrders
             cur == logic.currentActionOrder
             r == logic'.room
  <1>1. PICK m :
          /\ m.confirmedActionOrders = C
          /\ m.rpsForActionWinners = logic.rpsForActionWinners
          /\ m.currentActionOrder = cur
          /\ m.room = r
          /\ \/ /\ OrdersToCome(m) = {}
                /\ logic'.state = "RpsForAction"
             \/ /\ logic'.state = "Action"
                /\ logic'.currentActionOrder \in OrdersToCome(m)
                /\ \A o \in OrdersToCome(m) : logic'.currentActionOrder <= o
                /\ logic'.confirmedActionOrders = C
    BY TurnCall
  <1>2. /\ logic.state = "Action" /\ p = C[cur] /\ cur \in DOMAIN C
        /\ Settled(logic) /\ IsHash(C, Order, Name)
        /\ IsHash(logic.room, Name, PlayerFields) /\ IsHash(r, Name, PlayerFields)
    BY TurnCall DEF Sound, IsLogicP, Typed
  <1>3. PhaseIn(logic') = "playing"
    BY <1>1 DEF PhaseIn
  <1>4. ASSUME NEW q \in AlivePlayers(r)
        PROVE  /\ Pending(logic, q) \ {cur} = {o \in OrdersToCome(m) : C[o] = q}
               /\ Cardinality(Pending(logic, q) \ {cur}) =
                    IF q = p THEN TurnsIn(logic)[q] - 1 ELSE TurnsIn(logic)[q]
    <2>1. q \in Name /\ q \in DOMAIN logic.room /\ Alive(logic.room[q])
      BY <1>2 DEF AlivePlayers, IsHash
    <2>2. TurnsIn(logic)[q] = Cardinality(Pending(logic, q))
      BY <1>2, <2>1 DEF TurnsIn, OwedIn
    <2>3. /\ Pending(logic, q) \ {cur} = {o \in OrdersToCome(m) : C[o] = q}
          /\ Cardinality(Pending(logic, q) \ {cur}) =
                IF q = p THEN Cardinality(Pending(logic, q)) - 1
                ELSE Cardinality(Pending(logic, q))
      <3> HIDE DEF r
      <3> QED
        BY <1>1, <1>2, PendingAfterTurn
    <2> HIDE DEF r, C, cur
    <2> QED
      BY <2>2, <2>3
  <1>5. ASSUME NEW q \in AlivePlayers(r)
        PROVE  TurnsIn(logic')[q] = Cardinality(Pending(logic, q) \ {cur})
    <2>1. q \in Name /\ q \in DOMAIN r /\ Alive(r[q])
      BY <1>2 DEF AlivePlayers, IsHash
    <2>2. CASE logic'.state = "RpsForAction"
      <3>1. TurnsIn(logic')[q] = 0
        BY <2>1, <2>2, NoTurnsOwed
      <3>2. Pending(logic, q) \ {cur} = {}
        BY <1>1, <1>4, <2>2
      <3> QED
        BY <3>1, <3>2, FS_EmptySet
    <2>3. CASE logic'.state = "Action"
      <3>1. TurnsIn(logic')[q] = Cardinality(Pending(logic', q))
        BY <2>1, <2>3 DEF TurnsIn, OwedIn
      <3>2. Pending(logic', q) = {o \in OrdersToCome(m) : C[o] = q}
        <4>1. /\ logic'.currentActionOrder \in OrdersToCome(m)
              /\ \A o \in OrdersToCome(m) : logic'.currentActionOrder <= o
              /\ logic'.confirmedActionOrders = C
          BY <1>1, <2>3
        <4>2. DOMAIN C \in SUBSET Int /\ DOMAIN C = Orders(logic)
              /\ OrdersToCome(m) \subseteq DOMAIN C
          BY <1>1, <1>2 DEF IsHash, Order, Settled, OrdersToCome
        <4>3. cur \in Int /\ cur < logic'.currentActionOrder
              /\ logic'.currentActionOrder \in Int
          BY <1>1, <1>2, <4>1, <4>2 DEF OrdersToCome
        <4>4. \A o \in DOMAIN C : o <= OrderCount(logic.rpsForActionWinners)
          BY <4>2 DEF Orders
        <4>5. \A o \in DOMAIN C : C[o] = q /\ logic'.currentActionOrder <= o
                 => o \in OrdersToCome(m)
          <5> SUFFICES ASSUME NEW o \in DOMAIN C, C[o] = q,
                              logic'.currentActionOrder <= o
                       PROVE  o \in OrdersToCome(m)
            OBVIOUS
          <5>1. cur < o
            BY <4>2, <4>3
          <5> QED
            BY <1>1, <4>4, <5>1 DEF OrdersToCome
        <4> QED
          BY <4>1, <4>2, <4>5 DEF Pending
      <3> QED
        BY <1>4, <3>1, <3>2
    <2> QED
      BY <1>1, <2>2, <2>3
  <1>6. ASSUME NEW q \in Name, q \notin AlivePlayers(r)
        PROVE  TurnsIn(logic')[q] = 0
    BY <1>1, <1>6 DEF TurnsIn, OwedIn, AlivePlayers
  <1>7. TurnsIn(logic') = [q \in Name |-> TurnsIn(logic')[q]]
    BY DEF TurnsIn
  <1> QED
    BY <1>3, <1>4, <1>5, <1>6, <1>7

\* Every call of a slot is a step of Match, or changes nothing it speaks of.
LEMMA NextPromised ==
    ASSUME Playable, Sound(logic), InStep(logic), Lively(logic), [Next]_logic
    PROVE  [Promise!Next]_(Promise!vars)
  <1>1. Sound(logic') /\ InStep(logic') /\ Lively(logic')
    BY NextSound, NextInStep, NextLively
  <1>2. IsRoom(logic.room) /\ IsRoom(logic'.room)
        /\ IsLogicP(logic) /\ IsLogicP(logic')
    BY <1>1, RoomIsRoom DEF Sound
  <1>3. ASSUME NEW p, Records(logic, logic', p), logic.state # "Action"
        PROVE  UNCHANGED Promise!vars
    BY <1>3, RecordsOwes, MatchStutter
  <1>4. ASSUME NEW p \in Name, AddPlayer(p) \/ RemovePlayer(p)
        PROVE  UNCHANGED Promise!vars
    <2>1. logic.state = "BeforeRoundStart" /\ logic'.state = "BeforeRoundStart"
      BY <1>4, RoomCall, RoomChangeInStep
    <2> QED
      BY <2>1, NoTurnsOwed, MatchStutter DEF PhaseIn, AliveIn
  <1>5. ASSUME RoundStart PROVE Promise!Start
    <2>1. /\ logic.state = "BeforeRoundStart"
          /\ Cardinality(DOMAIN logic.room) >= 2
          /\ logic'.state = "RpsForAction"
          /\ AlivePlayers(logic'.room) = DOMAIN logic.room
          /\ DOMAIN logic.room \in SUBSET Name
      BY <1>2, <1>5, RoundCall, RoundLively DEF IsRoom
    <2> QED
      BY <2>1, NoTurnsOwed, MatchStart DEF PhaseIn, AliveIn
  <1>6. ASSUME NEW p \in logic.asked, NEW rps \in Throws, RpsReplyForAction(p, rps)
        PROVE  Promise!Throw \/ UNCHANGED Promise!vars
    <2>1. logic.state = "RpsForAction"
      BY <1>6 DEF RpsReplyForAction
    <2>2. /\ PhaseIn(logic) = "playing" /\ AliveIn(logic) = AlivePlayers(logic.room)
          /\ TurnsIn(logic) = [q \in Name |-> 0]
      BY <2>1, NoTurnsOwed DEF PhaseIn, AliveIn
    <2>3. CASE logic'.room = logic.room /\ logic'.state = "RpsForAction"
      BY <2>1, <2>2, <2>3, NoTurnsOwed, MatchStutter DEF PhaseIn, AliveIn
    <2>4. ASSUME NEW e, e.room = logic.room, Thrown(e), GoesOn(e, logic')
          PROVE  Promise!Throw
      <3> DEFINE W == e.rpsForActionWinners.winners
                 A == AlivePlayers(logic.room)
      <3>1. /\ PhaseIn(logic') = "playing" /\ AliveIn(logic') = A
            /\ TurnsIn(logic') = [q \in Name |-> Won(e, q)]
        BY <1>2, <2>4, GoesOnOwes
      <3>2. /\ W # {} /\ W \in SUBSET A /\ W # A
            /\ \A q : Won(e, q) = IF q \in W THEN Cardinality(A \ W) ELSE 0
        BY <2>4 DEF Thrown, Won
      <3> HIDE DEF W, A
      <3>3. TurnsIn(logic') = [q \in Name |->
                IF q \in W THEN Cardinality(A \ W) ELSE 0]
        BY <3>1, <3>2
      <3> QED
        BY <2>2, <3>1, <3>2, <3>3, MatchThrow DEF A
    <2> QED
      BY <1>3, <1>6, <2>1, <2>3, <2>4, ThrowCall
  <1>7. ASSUME logic.state \in {"ActionOrder", "RpsForActionOrder"},
               NEW e, e.room = logic.room,
               e.rpsForActionWinners = logic.rpsForActionWinners,
               GoesOn(e, logic')
        PROVE  UNCHANGED Promise!vars
    <2>1. Thrown(logic)
      BY <1>7 DEF InStep, Choosing, Contesting, Bidding, Granted
    <2>2. Thrown(e) /\ \A q : Won(e, q) = Won(logic, q)
      BY <1>7, <2>1 DEF Thrown, Won
    <2>3. TurnsIn(logic) = [q \in Name |-> Won(logic, q)]
      BY <1>2, <1>7, <2>1, WonTurns
    <2>4. /\ PhaseIn(logic') = "playing"
          /\ AliveIn(logic') = AlivePlayers(logic.room)
          /\ TurnsIn(logic') = [q \in Name |-> Won(e, q)]
      BY <1>2, <1>7, <2>2, GoesOnOwes
    <2>5. PhaseIn(logic) = "playing" /\ AliveIn(logic) = AlivePlayers(logic.room)
      BY <1>7 DEF PhaseIn, AliveIn
    <2> QED
      BY <2>2, <2>3, <2>4, <2>5, MatchStutter
  <1>8. ASSUME NEW p \in logic.asked, NEW rps \in Throws,
               RpsReplyForActionOrder(p, rps)
        PROVE  UNCHANGED Promise!vars
    <2>1. logic.state = "RpsForActionOrder"
      BY <1>8 DEF RpsReplyForActionOrder
    <2> QED
      BY <1>3, <1>7, <1>8, <2>1, ContestCall
  <1>9. ASSUME NEW p \in logic.asked, NEW list \in OrderReplies,
               ActionOrderReply(p, list)
        PROVE  UNCHANGED Promise!vars
    <2>1. logic.state = "ActionOrder"
      BY <1>9 DEF ActionOrderReply
    <2> QED
      BY <1>3, <1>7, <1>9, <2>1, ListCall
  <1>10. ASSUME NEW p \in logic.asked, NEW a \in ActionReplies, ActionReply(p, a)
         PROVE  p \in Name /\ Promise!TakeTurn(p)
    <2> DEFINE R == logic.room
               r == logic'.room
               cur == logic.currentActionOrder
    <2>1. /\ logic.state = "Action" /\ p \in AlivePlayers(R)
          /\ p = logic.confirmedActionOrders[cur]
          /\ cur \in DOMAIN logic.confirmedActionOrders
          /\ IsHash(logic.confirmedActionOrders, Order, Name)
      BY <1>2, <1>10, TurnCall DEF IsLogicP, Typed
    <2>2. PICK victim \in AlivePlayers(R) : Wounds(R, r, {p, victim})
      BY <1>10, TurnLively
    <2>3. /\ logic'.state # "BeforeRoundStart"
          /\ IsRoundOver(r) => logic'.state = "Upgrade"
      BY <1>10, TurnCall, TurnLively
    <2>4. p \in Name /\ p \in DOMAIN R /\ Alive(R[p])
      BY <1>2, <2>1 DEF IsRoom, AlivePlayers
    <2>5. TurnsIn(logic)[p] > 0
      <3>1. TurnsIn(logic)[p] = Cardinality(Pending(logic, p))
        BY <2>1, <2>4 DEF TurnsIn, OwedIn
      <3>2. Pending(logic, p) \in SUBSET Order
        BY <2>1 DEF Pending, IsHash
      <3>3. cur \in Pending(logic, p)
        <4>1. cur <= cur
          BY <2>1 DEF IsHash, Order
        <4> QED
          BY <2>1, <4>1 DEF Pending
      <3>4. Cardinality(Pending(logic, p)) \in Nat \ {0}
        BY <3>2, <3>3, Finiteness, FS_Subset, FS_CardinalityType, FS_EmptySet
      <3> QED
        BY <3>1, <3>4
    <2> DEFINE dead == {q \in {p, victim} : q \in DOMAIN R /\ Dead(r[q])}
    <2>6. AlivePlayers(r) = AlivePlayers(R) \ dead
      <3>1. ASSUME NEW q \in DOMAIN R
            PROVE  /\ Alive(r[q]) => Alive(R[q])
                   /\ q \notin {p, victim} => (Alive(r[q]) <=> Alive(R[q]))
        <4>1. /\ r[q].hp <= R[q].hp /\ r[q].hp \in Int /\ R[q].hp \in Int
              /\ q \notin {p, victim} => r[q].hp = R[q].hp
          BY <1>2, <2>2 DEF Wounds, IsRoom, PlayerFields
        <4> QED
          BY <4>1 DEF Alive, Dead, DeadAtHp
      <3>2. DOMAIN r = DOMAIN R
        BY <2>2 DEF Wounds
      <3> HIDE DEF r, R
      <3> QED
        BY <3>1, <3>2 DEF AlivePlayers, Alive
    <2>7. dead \in SUBSET {p, victim}
      OBVIOUS
    <2>8. /\ PhaseIn(logic) = "playing" /\ AliveIn(logic) = AlivePlayers(R)
          /\ AliveIn(logic') = AlivePlayers(r)
      BY <2>1, <2>3 DEF PhaseIn, AliveIn
    <2> HIDE DEF dead
    <2>9. CASE IsRoundOver(r)
      <3>1. PhaseIn(logic') = "upgrading" /\ TurnsIn(logic') = [q \in Name |-> 0]
        BY <2>3, <2>9, NoTurnsOwed DEF PhaseIn
      <3>2. Cardinality(AliveIn(logic')) <= 1
        BY <2>8, <2>9 DEF IsRoundOver
      <3> HIDE DEF r, R
      <3> QED
        BY <2>1, <2>4, <2>5, <2>6, <2>7, <2>8, <3>1, <3>2, MatchTurn
    <2>10. CASE ~IsRoundOver(r)
      <3>1. /\ PhaseIn(logic') = "playing"
            /\ TurnsIn(logic') = [q \in Name |->
                  IF q \notin AliveIn(logic') THEN 0
                  ELSE IF q = p THEN TurnsIn(logic)[q] - 1
                  ELSE TurnsIn(logic)[q]]
        BY <1>1, <1>10, <2>6, <2>8, <2>10, TurnOwes
      <3>2. ~(Cardinality(AliveIn(logic')) <= 1)
        BY <2>8, <2>10 DEF IsRoundOver
      <3> HIDE DEF r, R
      <3> QED
        BY <2>1, <2>4, <2>5, <2>6, <2>7, <2>8, <3>1, <3>2, MatchTurn
    <2> QED
      BY <2>4, <2>9, <2>10
  <1>11. ASSUME NEW p \in logic.asked, NEW items \in UpgradeReplies,
                UpgradeReply(p, items)
         PROVE  Promise!FinishUpgrade \/ UNCHANGED Promise!vars
    <2>1. logic.state = "Upgrade"
      BY <1>11, UpgradeCall
    <2>2. CASE Records(logic, logic', p)
      BY <1>3, <2>1, <2>2
    <2>3. CASE logic'.state = "BeforeRoundStart"
      BY <2>1, <2>3, NoTurnsOwed, MatchUpgrade DEF PhaseIn, AliveIn
    <2> QED
      BY <1>11, <2>2, <2>3, UpgradeCall
  <1>12. CASE UNCHANGED logic
    BY <1>12, MatchStutter
  <1> QED
    BY <1>4, <1>5, <1>6, <1>8, <1>9, <1>10, <1>11, <1>12
      DEF Next, Reply, RpsReply, Promise!Next

\* However the orders are negotiated, a Logic gives the turns Match promises: to
\* each winner of a throw one per loser, one at a time, until the round is over.
THEOREM LogicImplementsMatch ==
    ASSUME Playable
    PROVE  Spec => TurnsAsPromised
  <1>1. Init => Promise!Init
    <2> SUFFICES ASSUME Init PROVE Promise!Init
      OBVIOUS
    <2>1. logic.state = "BeforeRoundStart"
      BY DEF Init
    <2>2. /\ PhaseIn(logic) = "gathering" /\ AliveIn(logic) = {}
          /\ TurnsIn(logic) = [q \in Name |-> 0]
      BY <2>1, NoTurnsOwed DEF PhaseIn, AliveIn
    <2> QED
      BY <2>2 DEF Promise!Init, Promise!NoTurns, PhaseIn, AliveIn, TurnsIn, OwedIn,
                  Pending, TurnsOwed
  <1>2. Sound(logic) /\ InStep(logic) /\ Lively(logic) /\ [Next]_logic
           => [Promise!Next]_(Promise!vars)
    BY NextPromised
  <1> QED
    BY <1>1, <1>2, AlwaysLively, PTL DEF Spec, TurnsAsPromised, Promise!Spec

=============================================================================

-------------------------------- MODULE Mirror --------------------------------
(***************************************************************************)
(* The mirror every client keeps of the room: ClientP::room, changed by    *)
(* nothing but the notifications ServerConnectionP sends on, through the   *)
(* same Player and Room classes the logic uses.  A notification the mirror *)
(* cannot follow is a protocol error: the client drops its connection.     *)
(*                                                                         *)
(* A mirror that agrees with the logic's room before a step either refuses *)
(* the step's notification or holds some room after it, so a step says     *)
(* everything there is to say and the mirror needs no variable of its own. *)
(***************************************************************************)
EXTENDS Wire

\* Mutant: actionResult carries the reply as it was sent.
ToldAsSent(room, p, a) == a

\* What actionResult carries: an infeasible reply has become DoNothing.
Told(room, p, a) ==
    IF ActionFeasible(room, p, a) THEN a ELSE [a EXCEPT !.action = "DoNothing"]

\* The packet: a target and a place only for the actions that have one.
ActionNotified(a) ==
    [action |-> a.action,
     toPlayer |-> IF a.action \in Aimed THEN a.toPlayer ELSE Nobody,
     toPlace |-> IF a.action \in Moving THEN a.toPlace ELSE -1]

\* A Player's methods check their own rule, and change nothing when it says no.
PlayerDoes(room, p, a) ==
    LET can == ActionFeasible(room, p, a)
    IN  [success |-> can,
         room |-> IF can THEN ApplyAction(room, p, a) ELSE room]

NotifyAction(mirror, p, a) ==
    LET known == /\ p \in DOMAIN mirror
                 /\ a.action \in Aimed => a.toPlayer \in DOMAIN mirror
                 /\ a.action \in Moving =>
                        a.toPlace \in 0..Cardinality(DOMAIN mirror)
    IN  IF known THEN PlayerDoes(mirror, p, a)
                 ELSE [success |-> FALSE, room |-> mirror]

\* Item by item: the ones there is room for are applied, one that is not fails
\* the notification.
ApplyUpgrade(mirror, upgrades) ==
    [success |-> \A p \in DOMAIN upgrades :
        /\ upgrades[p].knife <= UpgradeKnifeRemainingTimes(mirror[p])
        /\ upgrades[p].horse <= UpgradeHorseRemainingTimes(mirror[p])
        /\ upgrades[p].maxHp <= UpgradeMaxHpRemainingTimes(mirror[p]),
     room |-> [p \in DOMAIN mirror |->
                  IF p \in DOMAIN upgrades THEN Upgraded(mirror[p], upgrades[p])
                                           ELSE mirror[p]]]

NotifyUpgrade(mirror, upgrades) ==
    IF DOMAIN upgrades \subseteq DOMAIN mirror
    THEN ApplyUpgrade(mirror, upgrades)
    ELSE [success |-> FALSE, room |-> mirror]

\* A QHash from order to player, as a list; a missing order is the empty name.
ActionOrderNotified(result) ==
    [i \in 1..Cardinality(DOMAIN result) |->
        IF i \in DOMAIN result THEN result[i] ELSE Nobody]

NotifyActionOrder(mirror, order) ==
    [success |-> \A i \in DOMAIN order : order[i] \in DOMAIN mirror,
     room |-> mirror]

NotifyPlayerAdded(mirror, p) == Insert(mirror, p, NewPlayer)
NotifyPlayerRemoved(mirror, p) == [q \in DOMAIN mirror \ {p} |-> mirror[q]]
NotifyRoundStart(mirror) == PrepareForRoundStart(mirror)

-----------------------------------------------------------------------------
Follows(outcome) == outcome.success /\ outcome.room = logic'.room

\* Players only come and go before the first round.
NoRoundYet == \A p \in DOMAIN logic.room : logic.room[p] = NewPlayer

\* The step took an action of p, and it can have been a: it has a's effect.
ActionTaken(p, a) ==
    /\ "actionResult" \in logic'.signals
    /\ p \in logic.asked
    /\ logic'.room = PlayerDoes(logic.room, p, a).room

\* Whatever the step, a mirror equal to the room takes what it is told of it
\* and is equal to the room again; `replies` are the actions asked about.  The
\* end of the match resets the logic's room and hangs up on the clients.
MirrorStep(replies) ==
    LET mirror == logic.room IN
    /\ \A p \in Name :
          /\ NoRoundYet /\ AddPlayer(p) =>
                NotifyPlayerAdded(mirror, p) = logic'.room
          /\ NoRoundYet /\ RemovePlayer(p) =>
                NotifyPlayerRemoved(mirror, p) = logic'.room
    /\ RoundStart => NotifyRoundStart(mirror) = logic'.room
    /\ \A p \in Name, a \in replies :
          ActionTaken(p, a) =>
            Follows(NotifyAction(mirror, p, ActionNotified(Told(mirror, p, a))))
    /\ "actionOrderResult" \in logic'.signals =>
          Follows(NotifyActionOrder(mirror,
                      ActionOrderNotified(logic'.confirmedActionOrders)))
    /\ "upgradeResult" \in logic'.signals =>
          Follows(NotifyUpgrade(mirror, logic'.upgrades))

\* The mirrors follow every notification and stay equal to the room: "This
\* replyed action should always be success, since it is judged in Server"
\* (ClientP::notifyAction).
MirrorsFollow == [][MirrorStep(ActionReplies)]_logic

\* The places the mirrors know: the village and a seat per player.
OnTheMap(a) == a.toPlace \in 0..Cardinality(DOMAIN logic.room)

\* The mirrors follow every notification of a match in which nobody asks for a
\* place that is not on the map.  What the logic made of an infeasible reply,
\* the points of a kill and its punishment, and the upgrades of everybody at
\* once must come out of a mirror as they came out of the room.
MirrorsFollowOnTheMap ==
    [][MirrorStep({a \in ActionReplies : OnTheMap(a)})]_logic
=============================================================================

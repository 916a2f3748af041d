--------------------------------- MODULE Phases --------------------------------
(***************************************************************************)
(* What Logic promises whoever drives it, with nothing of the game: which  *)
(* phase may follow which, and how many players each phase asks.  A phase  *)
(* ends with its last reply, and the next one has asked before the call    *)
(* returns.  LogicRunner is specified against this module.                 *)
(***************************************************************************)
EXTENDS Integers, FiniteSets

CONSTANT Name

VARIABLES
    players,    \* who is in the room of the logic
    phase,      \* Logic::State
    asked       \* who has a request not answered yet

vars == <<players, phase, asked>>

Running == {"RpsForAction", "ActionOrder", "RpsForActionOrder", "Action",
            "Upgrade"}

Idle == "BeforeRoundStart"

Requests == {"RockPaperScissors", "ActionOrder", "Action", "Upgrade"}

\* The request a phase makes.
RequestOf(ph) == IF ph \in {"RpsForAction", "RpsForActionOrder"}
                 THEN "RockPaperScissors" ELSE ph

\* The phases that may be next when ph has all its replies.
Follows ==
    [RpsForAction      |-> {"RpsForAction", "ActionOrder", "Action"},
     ActionOrder       |-> {"RpsForActionOrder", "Action"},
     RpsForActionOrder |-> {"ActionOrder", "RpsForActionOrder", "Action"},
     Action            |-> {"Action", "RpsForAction", "Upgrade"},
     Upgrade           |-> {Idle}]

\* How many players a phase may ask.
MayAsk(ph, s) ==
    CASE ph = Idle -> s = {}
      [] ph = "Action" -> Cardinality(s) = 1
      [] ph \in {"RpsForAction", "RpsForActionOrder"} -> Cardinality(s) >= 2
      [] OTHER -> s # {}

\* An action is applied as soon as it comes; the other phases collect a reply
\* of everybody they asked.
Completes(p) == phase = "Action" \/ asked \subseteq {p}

\* Whether a reply of p to a request r is taken; Logic does not look at who
\* replies with an action.
Accepts(p, r) ==
    /\ p \in players
    /\ phase \in Running
    /\ r = RequestOf(phase)
    /\ phase = "Action" \/ p \in asked

Init == players = {} /\ phase = Idle /\ asked = {}

AddPlayer(p) ==
    /\ phase = Idle /\ p \notin players
    /\ players' = players \cup {p}
    /\ UNCHANGED <<phase, asked>>

RemovePlayer(p) ==
    /\ phase = Idle /\ p \in players
    /\ players' = players \ {p}
    /\ UNCHANGED <<phase, asked>>

RoundStart ==
    /\ phase = Idle /\ Cardinality(players) >= 2
    /\ phase' = "RpsForAction"
    /\ asked' = players
    /\ UNCHANGED players

Reply(p, r) ==
    /\ Accepts(p, r)
    /\ IF Completes(p)
       THEN \E next \in Follows[phase] : \E s \in SUBSET players :
              /\ MayAsk(next, s)
              /\ phase' = next
              /\ asked' = (asked \ {p}) \cup s
       ELSE /\ asked' = asked \ {p}
            /\ UNCHANGED phase
    /\ UNCHANGED players

Next ==
    \/ RoundStart
    \/ \E p \in Name : AddPlayer(p) \/ RemovePlayer(p)
    \/ \E p \in asked : Reply(p, RequestOf(phase))

Spec == Init /\ [][Next]_vars
=============================================================================

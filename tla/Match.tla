--------------------------------- MODULE Match ---------------------------------
(***************************************************************************)
(* What a match promises its players, with nothing of how the order of the *)
(* actions is negotiated: a throw of Rock-Paper-Scissors gives each winner *)
(* as many turns as the throw has losers; one turn is taken at a time; the *)
(* turns of whoever dies are forfeited; the next throw comes when no turn  *)
(* is owed; and the round is over when at most one player is alive.        *)
(***************************************************************************)
EXTENDS Integers, FiniteSets

CONSTANT Name

VARIABLES
    phase,      \* "gathering", "playing" or "upgrading"
    alive,      \* who is alive in the round, {} between rounds
    turns       \* how many turns each player is owed

vars == <<phase, alive, turns>>

NoTurns == [p \in Name |-> 0]

Init == phase = "gathering" /\ alive = {} /\ turns = NoTurns

Start ==
    /\ phase = "gathering"
    /\ \E players \in SUBSET Name :
          Cardinality(players) >= 2 /\ alive' = players
    /\ phase' = "playing"
    /\ turns' = NoTurns

Throw ==
    /\ phase = "playing"
    /\ turns = NoTurns
    /\ \E winners \in SUBSET alive :
          /\ winners # {} /\ winners # alive
          /\ turns' = [p \in Name |->
                IF p \in winners THEN Cardinality(alive \ winners) ELSE 0]
    /\ UNCHANGED <<phase, alive>>

\* A turn kills at most its own player and one other.
TakeTurn(p) ==
    /\ phase = "playing"
    /\ p \in alive
    /\ turns[p] > 0
    /\ \E victim \in alive :
          \E dead \in SUBSET {p, victim} : alive' = alive \ dead
    /\ IF Cardinality(alive') <= 1
       THEN phase' = "upgrading" /\ turns' = NoTurns
       ELSE /\ phase' = "playing"
            /\ turns' = [q \in Name |->
                  IF q \notin alive' THEN 0
                  ELSE IF q = p THEN turns[q] - 1 ELSE turns[q]]

FinishUpgrade ==
    /\ phase = "upgrading"
    /\ phase' = "gathering"
    /\ alive' = {}
    /\ turns' = NoTurns

Next == Start \/ Throw \/ FinishUpgrade \/ \E p \in Name : TakeTurn(p)

Spec == Init /\ [][Next]_vars
=============================================================================

--------------------------------- MODULE Server --------------------------------
(***************************************************************************)
(* The server above its rooms: the sockets it accepts, who signs in on     *)
(* them and under which name, the room that recruits, the rooms that play, *)
(* and those that are over and wait to be deleted.  What happens inside a  *)
(* room is LogicRunner; here a game may end at any time.                   *)
(*                                                                         *)
(* Sockets are numbered as they are accepted, agents as they are made; a   *)
(* room has the number of the agent it was built for, and rooms and their  *)
(* agents are scanned in that order.  An agent and its connection are one, *)
(* and an agent that leaves its room is deleted at once.  Of an agent's    *)
(* state the online flag is here, which is what its player declares it.    *)
(***************************************************************************)
EXTENDS Startup, FiniteSets, FiniteSetsExt

CONSTANTS
    Names,              \* the names players sign in under
    Options,            \* of the command line
    UseV1Presets,       \* -1
    PerUserSettings,
    GlobalSettings,
    MaxSockets,         \* bound: connections accepted
    MaxAgents,          \* bound: agents made
    MaxGreeted,         \* bound: connections, at a time, that have yet to sign in
    MaxRepeats          \* bound: sign-ins on a connection after its first

ASSUME ServerAssumption ==
    /\ UseV1Presets \in BOOLEAN
    /\ Starts(Options, UseV1Presets, PerUserSettings, GlobalSettings)
    /\ MaxSockets \in Nat /\ MaxAgents \in Nat /\ MaxGreeted \in Nat
    /\ MaxRepeats \in Nat

Configuration ==
    Resolved(Options, UseV1Presets, PerUserSettings, GlobalSettings)

PlayerNumPerRoom == Configuration.playerNumPerRoom

\* 0: as many as there are.
MaximumRooms == Configuration.maximumRooms

SocketIds == 1..MaxSockets
Ids == 1..MaxAgents
Nobody == 0

VARIABLES
    sockets,    \* the sockets accepted
    agents,     \* what sign-ins have made
    made,       \* how many
    rooms,
    current,    \* the room that recruits
    repeats     \* history: how often a peer signed in again on one connection

vars == <<sockets, agents, made, rooms, current, repeats>>

\* A socket that is cut is one whose end the server has not been told of; one that
\* is closing, one the server has given up on; one that is down, one it was told of.
Links == {"none", "up", "cut", "closing", "down"}

\* Those that deliver what the peer sends; a WebSocket does so while it closes.
Speaking == {"up", "cut", "closing"}

Sockets == [link: Links, signedIn: BOOLEAN]
Agents == [name: Names \cup {Nobody}, online: BOOLEAN, socket: SocketIds \cup {Nobody}]
Rooms == [status: {"none", "live", "over"},
          agents: SUBSET Ids,       \* by name, hence of different names
          strays: SUBSET Ids]       \* refused by the room, and its children still

NoSocket == [link |-> "none", signedIn |-> FALSE]
Gone == [link |-> "down", signedIn |-> FALSE]
NoAgent == [name |-> Nobody, online |-> FALSE, socket |-> Nobody]
NoRoom == [status |-> "none", agents |-> {}, strays |-> {}]

-----------------------------------------------------------------------------
\* findChildren<LogicRunner *>(): a room is one until it is deleted.
Runners == {r \in Ids : rooms[r].status # "none"}

\* Mutant: rooms whose game is over are not counted.
TooManyRoomsLive ==
    /\ MaximumRooms > 0
    /\ Cardinality({r \in Ids : rooms[r].status = "live"}) >= MaximumRooms

TooManyRooms == MaximumRooms > 0 /\ Cardinality(Runners) >= MaximumRooms

Full(r) == Cardinality(rooms[r].agents) >= PlayerNumPerRoom

\* Mutant: a player is whoever has a seat.
StatusSeats ==
    [rooms |-> Cardinality(Runners),
     games |-> Cardinality({r \in Runners : Full(r)}),
     players |-> [r \in Runners |-> Cardinality(rooms[r].agents)]]

\* Server::status, the players as its room list has them.
Status ==
    [rooms |-> Cardinality(Runners),
     games |-> Cardinality({r \in Runners : Full(r)}),
     players |-> [r \in Runners |->
                    Cardinality({a \in rooms[r].agents \cup rooms[r].strays :
                                    agents[a].online})]]

Bound(s) == \E a \in Ids : agents[a].socket = s

\* The agent of that name in that room, offline.
Waiting(r, name) ==
    {a \in rooms[r].agents : agents[a].name = name /\ ~agents[a].online}

SocketBecomes(s, link) == sockets' = [sockets EXCEPT ![s].link = link]

\* setError: the transport closes, and will say so.
SetError(s) == SocketBecomes(s, "closing")

\* A sign-in was read from socket s, and leaves it with that link.
SignedIn(s, link) ==
    sockets' = [sockets EXCEPT ![s] = [link |-> link, signedIn |-> TRUE]]

\* Mutant: the end of any game ends the recruiting.
LogicRunnerGameOverAny(over, others) ==
    /\ rooms' = [r \in Ids |-> IF r \in over THEN [others[r] EXCEPT !.status = "over"]
                               ELSE others[r]]
    /\ current' = IF over # {} THEN Nobody ELSE current

\* Mutant: the room that is over is still the current one.
LogicRunnerGameOverStays(over, others) ==
    /\ rooms' = [r \in Ids |-> IF r \in over THEN [others[r] EXCEPT !.status = "over"]
                               ELSE others[r]]
    /\ UNCHANGED current

\* The rooms in over emit gameOver, the rooms having become others.
LogicRunnerGameOver(over, others) ==
    /\ rooms' = [r \in Ids |-> IF r \in over THEN [others[r] EXCEPT !.status = "over"]
                               ELSE others[r]]
    /\ current' = IF current \in over THEN Nobody ELSE current

-----------------------------------------------------------------------------
\* introduceSocket, by whichever transport.
Accept(s) ==
    /\ sockets[s].link = "none"
    /\ \A before \in 1..(s - 1) : sockets[before].link # "none"
    /\ Cardinality({i \in SocketIds : sockets[i].link \in Speaking
                                /\ ~sockets[i].signedIn}) < MaxGreeted
    /\ SocketBecomes(s, "up")
    /\ UNCHANGED <<agents, made, rooms, current, repeats>>

\* The player's seat is in whichever room holds it offline, and the agent is online
\* again whatever the player declares.  A socket the agent still has is deleted,
\* which no connection is told of: whoever was bound to it is bound to none.
Reconnect(s, a) ==
    LET old == agents[a].socket
        back == [agents EXCEPT ![a] = [@ EXCEPT !.online = TRUE, !.socket = s]]
    IN  /\ agents' = [b \in Ids |-> IF back[b].socket = old
                                    THEN [back[b] EXCEPT !.socket = Nobody]
                                    ELSE back[b]]
        /\ sockets' = [t \in SocketIds |->
                          IF t = old THEN Gone
                          ELSE [sockets[t] EXCEPT !.signedIn = @ \/ t = s]]
        /\ UNCHANGED <<made, rooms, current>>

\* A room too many.
Refuse(s) == SignedIn(s, "closing") /\ UNCHANGED <<agents, made, rooms, current>>

\* A new agent in the recruiting room r, as online as it declares, or, if the name
\* is taken there, a stray.
AddAgent(s, r, room, name, online) ==
    LET a == made + 1
    IN  /\ made < MaxAgents
        /\ made' = a
        /\ agents' = [agents EXCEPT ![a] =
                        [name |-> name, online |-> online, socket |-> s]]
        /\ current' = r
        /\ IF \E b \in room.agents : agents[b].name = name
           THEN /\ rooms' = [rooms EXCEPT ![r] = [room EXCEPT !.strays = @ \cup {a}]]
                /\ SignedIn(s, "closing")
           ELSE /\ rooms' = [rooms EXCEPT ![r] = [room EXCEPT !.agents = @ \cup {a}]]
                /\ SignedIn(s, sockets[s].link)

\* A sign-in under that name arrives, with a state that is online or not.  Nothing
\* asks whether the socket is an agent's already.
SignInAs(s, name, online) ==
    LET homes == {r \in Runners : Waiting(r, name) # {}}
        recruits == current # Nobody /\ ~Full(current)
    IN  \/ \E r \in homes :
              /\ \A home \in homes : r <= home
              /\ \E a \in Waiting(r, name) : Reconnect(s, a)
        \/ /\ homes = {} /\ recruits
           /\ AddAgent(s, current, rooms[current], name, online)
        \/ /\ homes = {} /\ ~recruits
           /\ IF TooManyRooms
              THEN Refuse(s)
              ELSE AddAgent(s, made + 1, [NoRoom EXCEPT !.status = "live"],
                            name, online)

SignIn(s) ==
    /\ sockets[s].link \in Speaking
    /\ IF sockets[s].signedIn
       THEN repeats < MaxRepeats /\ repeats' = repeats + 1
       ELSE UNCHANGED repeats
    /\ \E name \in Names, online \in BOOLEAN : SignInAs(s, name, online)

\* The player declares its state anew, for the first agent on the socket; a
\* declaration of what it is already changes nothing.
StateChange(s) ==
    /\ sockets[s].link \in Speaking
    /\ \/ \E a \in Ids :
             /\ agents[a].socket = s
             /\ \A b \in Ids : agents[b].socket = s => a <= b
             /\ agents' = [agents EXCEPT ![a].online = ~@]
             /\ UNCHANGED sockets
       \/ ~Bound(s) /\ SetError(s) /\ UNCHANGED agents
    /\ UNCHANGED <<made, rooms, current, repeats>>

\* The deadline leaves a socket alone that is an agent's.  One that is no agent's
\* any more, its room being gone, may still have its deadline before it.
SignInDeadline(s) ==
    /\ sockets[s].link \in {"up", "cut"} /\ ~Bound(s)
    /\ SetError(s)
    /\ UNCHANGED <<agents, made, rooms, current, repeats>>

\* The peer leaves, or the network loses it.
Cut(s) ==
    /\ sockets[s].link = "up"
    /\ SocketBecomes(s, "cut")
    /\ UNCHANGED <<agents, made, rooms, current, repeats>>

\* The server gives up on a peer: for an error of protocol, or, where it is an
\* agent's, a request that timed out or a silence.
GiveUp(s) ==
    /\ sockets[s].link \in {"up", "cut"}
    /\ SetError(s)
    /\ UNCHANGED <<agents, made, rooms, current, repeats>>

\* Mutant: the agent's seat is given up in a game as well.
AgentDisconnectedLeaves(gone) ==
    LogicRunnerGameOver(
        {}, [r \in Ids |-> [rooms[r] EXCEPT !.agents = @ \ gone]])

\* Mutant: whoever is left is counted with the agent who leaves.
AgentDisconnectedLate(gone) ==
    LogicRunnerGameOver(
        {r \in Ids : /\ Full(r) /\ rooms[r].agents \cap gone # {}
                     /\ \A b \in rooms[r].agents : ~agents[b].online},
        [r \in Ids |-> IF Full(r) THEN rooms[r]
                       ELSE [rooms[r] EXCEPT !.agents = @ \ gone]])

\* The agents in gone are offline: before the game they leave their room, in the
\* game the room is over if it has nobody left who is online.
AgentDisconnected(gone) ==
    LogicRunnerGameOver(
        {r \in Ids : /\ Full(r) /\ rooms[r].agents \cap gone # {}
                     /\ \A b \in rooms[r].agents : ~agents'[b].online},
        [r \in Ids |-> IF Full(r) THEN rooms[r]
                       ELSE [rooms[r] EXCEPT !.agents = @ \ gone]])

\* Mutant: the agents are left online.
OnSocketDisconnectedOnline(s) ==
    agents' = [a \in Ids |-> IF agents[a].socket = s
                             THEN [agents[a] EXCEPT !.socket = Nobody]
                             ELSE agents[a]]

OnSocketDisconnected(s) ==
    agents' = [a \in Ids |-> IF agents[a].socket = s
                             THEN [agents[a] EXCEPT !.online = FALSE, !.socket = Nobody]
                             ELSE agents[a]]

\* The server is told that a socket has ended; a stray tells nobody else.
SocketDisconnected(s) ==
    /\ sockets[s].link \in {"cut", "closing"}
    /\ sockets' = [sockets EXCEPT ![s] = Gone]
    /\ OnSocketDisconnected(s)
    /\ AgentDisconnected({a \in Ids : agents[a].socket = s})
    /\ UNCHANGED <<made, repeats>>

\* A game ends: it is won, or somebody is away when a round is over.
GameOver(r) ==
    /\ rooms[r].status = "live" /\ Full(r)
    /\ LogicRunnerGameOver({r}, rooms)
    /\ UNCHANGED <<sockets, agents, made, repeats>>

\* The deferred delete takes the agents with it; their sockets are the server's.
DeleteRunner(r) ==
    /\ rooms[r].status = "over"
    /\ rooms' = [rooms EXCEPT ![r] = NoRoom]
    /\ agents' = [a \in Ids |-> IF a \in rooms[r].agents \cup rooms[r].strays
                                THEN NoAgent ELSE agents[a]]
    /\ UNCHANGED <<sockets, made, current, repeats>>

-----------------------------------------------------------------------------
Init ==
    /\ sockets = [s \in SocketIds |-> NoSocket]
    /\ agents = [a \in Ids |-> NoAgent] /\ made = 0
    /\ rooms = [r \in Ids |-> NoRoom]
    /\ current = Nobody
    /\ repeats = 0

Next ==
    \/ \E s \in SocketIds :
          \/ Accept(s) \/ SignIn(s) \/ StateChange(s) \/ SignInDeadline(s)
          \/ Cut(s) \/ GiveUp(s) \/ SocketDisconnected(s)
    \/ \E r \in Ids : GameOver(r) \/ DeleteRunner(r)

Spec == Init /\ [][Next]_vars
-----------------------------------------------------------------------------
\* The types of the server's state; and the current room is one, and not over.
TypeOK ==
    /\ sockets \in [SocketIds -> Sockets]
    /\ agents \in [Ids -> Agents] /\ made \in 0..MaxAgents
    /\ rooms \in [Ids -> Rooms]
    /\ current \in {r \in Ids : rooms[r].status = "live"} \cup {Nobody}
    /\ repeats \in 0..MaxRepeats

\* The server never holds more rooms than it is configured to, those whose game
\* is over and which are still to be deleted included.
RoomsBounded == MaximumRooms > 0 => Cardinality(Runners) <= MaximumRooms

\* Nobody waits in a room no sign-in will be sent to: a room that is not full is
\* the one that recruits.
OneRecruiter ==
    \A r \in Ids : rooms[r].status # "none" /\ ~Full(r) => current = r

\* Every agent that is online, as the status counts them, has a socket whose end
\* the server has not been told of, and no two agents have one socket: an agent
\* that lost its socket is offline, which is what makes its seat findable and its
\* room's end certain.  While peers sign in once per connection.
OnlineIsConnected == repeats = 0 =>
    /\ \A a \in Ids :
          agents[a].online => /\ agents[a].socket # Nobody
                              /\ sockets[agents[a].socket].link \in Speaking
    /\ \A a, b \in Ids :
          agents[a].socket = agents[b].socket /\ agents[a].socket # Nobody => a = b

\* Once the game has started the room keeps its seats to the end: whoever drops
\* out finds the seat again, and the logic its players.
SeatsAreKept ==
    [][\A r \in Ids : Full(r) /\ rooms'[r].status # "none"
                        => rooms'[r].agents = rooms[r].agents]_vars

\* What the status says adds up with the connections there are: as many players
\* online as sockets on which a player is and declares so, a game for every player
\* number of seats.  While peers sign in once per connection.
StatusAddsUp == repeats = 0 =>
    /\ MapThenSumSet(LAMBDA r : Status.players[r], Runners)
         = Cardinality({s \in SocketIds :
                           \E a \in Ids : agents[a].socket = s /\ agents[a].online})
    /\ MapThenSumSet(LAMBDA r : Cardinality(rooms[r].agents), Runners)
         \in PlayerNumPerRoom * Status.games
            .. (PlayerNumPerRoom * Status.games + PlayerNumPerRoom - 1)

\* A game is never left to itself: the room that nobody is connected to is over, by
\* the handler that saw the last one go, whatever the players declared themselves.
\* While peers sign in once per connection.
GamesHavePlayers == repeats = 0 =>
    \A r \in Ids :
        rooms[r].status = "live" /\ Full(r)
            => \E a \in rooms[r].agents : agents[a].socket # Nobody
=============================================================================

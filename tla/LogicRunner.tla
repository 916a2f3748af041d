------------------------------ MODULE LogicRunner ------------------------------
(***************************************************************************)
(* One room: LogicRunner and LogicRunnerP with the connections of its      *)
(* agents on the server thread, and a Logic on a thread of its own, which  *)
(* is as Phases promises.  Calls to the logic and signals from it are      *)
(* posted events, in order in each direction.                              *)
(*                                                                         *)
(* Result signals that only notify clients are left out.  A peer is a      *)
(* client that declares itself online; what it sends is unconstrained.     *)
(***************************************************************************)
EXTENDS ServerConnection, Integers, FiniteSets

CONSTANTS
    Name,               \* the players who may sign in
    PlayerNumPerRoom,
    EagerWriteFailure,  \* whether a failing write closes the transport at once
    MaxZeroTimers,      \* bound: single shots pending on one connection
    MaxPosted           \* bound: calls posted when a player joins

ASSUME RoomAssumption ==
    /\ Name \subseteq Nat /\ IsFiniteSet(Name)
    /\ PlayerNumPerRoom \in Nat /\ PlayerNumPerRoom >= 2
    /\ EagerWriteFailure \in BOOLEAN
    /\ MaxZeroTimers \in Nat \ {0}
    /\ MaxPosted \in Nat

VARIABLES
    players, phase, asked,  \* the logic, as in Phases
    toLogic,                \* calls posted to the logic's thread
    toRunner,               \* signals posted to the server's thread
    agents,                 \* who has a seat
    conn,                   \* the connections
    over                    \* "running", "gameOver", "deleted" or "crashed"

logicVars == <<players, phase, asked>>
vars == <<players, phase, asked, toLogic, toRunner, agents, conn, over>>

Logic == INSTANCE Phases

Nobody == -1

AddPlayer(p) == [call |-> "addPlayer", player |-> p, request |-> Invalid]
RemovePlayer(p) == [call |-> "removePlayer", player |-> p, request |-> Invalid]
RoundStart == [call |-> "roundStart", player |-> Nobody, request |-> Invalid]
ReplyOf(p, r) == [call |-> "reply", player |-> p, request |-> r]

Request(s, r) == [signal |-> "request", to |-> s, request |-> r]
Result(signal) == [signal |-> signal, to |-> {}, request |-> Invalid]

InNameOrder(s) ==
    CHOOSE q \in [1..Cardinality(s) -> s] :
        \A i, j \in 1..Cardinality(s) : i < j => q[i] < q[j]

\* What the connections in cs have emitted to the logic, in name order.
Replies(cs) ==
    LET names == InNameOrder({p \in Name : cs[p].replies # <<>>})
        upTo[n \in 0..Len(names)] ==
            IF n = 0 THEN <<>>
            ELSE upTo[n - 1]
                 \o [i \in DOMAIN cs[names[n]].replies |->
                        ReplyOf(names[n], cs[names[n]].replies[i])]
    IN  upTo[Len(names)]

Full(room) == Cardinality(room) >= PlayerNumPerRoom

Alive == over \in {"running", "gameOver"}

-----------------------------------------------------------------------------
\* The server thread.

\* Mutant: a player who leaves loses the seat though the game has started.
SettleNoSeatKept(room, cs, after) ==
    LET gone == {p \in room : cs[p].left}
    IN  /\ agents' = room \ gone
        /\ over' = over
        /\ conn' = [p \in Name |-> IF p \in gone THEN NoConnection
                                   ELSE Quiet(cs[p])]
        /\ toLogic' = toLogic
              \o [i \in 1..Cardinality(gone) |->
                    RemovePlayer(InNameOrder(gone)[i])]
              \o Replies(cs) \o after

\* Mutant: a player who leaves a room that recruits stays in the logic's.
SettleLogicNotTold(room, cs, after) ==
    LET gone == {p \in room : cs[p].left}
        deserted == gone # {} /\ \A p \in room : ~cs[p].online
        left == IF Full(room) THEN {} ELSE gone
    IN  /\ agents' = room \ left
        /\ over' = IF Full(room) /\ deserted THEN "gameOver" ELSE over
        /\ conn' = [p \in Name |-> IF p \in left THEN NoConnection
                                   ELSE Quiet(cs[p])]
        /\ toLogic' = toLogic \o Replies(cs) \o after

\* Mutant: who is online is looked up before the player who left is offline.
SettleBeforeOffline(room, cs, after) ==
    LET gone == {p \in room : cs[p].left}
        deserted == gone # {} /\ \A p \in room : ~conn[p].online
        left == IF Full(room) THEN {} ELSE gone
    IN  /\ agents' = room \ left
        /\ over' = IF Full(room) /\ deserted THEN "gameOver" ELSE over
        /\ conn' = [p \in Name |-> IF p \in left THEN NoConnection
                                   ELSE Quiet(cs[p])]
        /\ toLogic' = toLogic
              \o [i \in 1..Cardinality(left) |->
                    RemovePlayer(InNameOrder(left)[i])]
              \o Replies(cs) \o after

\* Mutant: one player offline, not all of them, ends a full room.
SettleAnyoneGone(room, cs, after) ==
    LET gone == {p \in room : cs[p].left}
        deserted == gone # {} /\ \E p \in room : ~cs[p].online
        left == IF Full(room) THEN {} ELSE gone
    IN  /\ agents' = room \ left
        /\ over' = IF Full(room) /\ deserted THEN "gameOver" ELSE over
        /\ conn' = [p \in Name |-> IF p \in left THEN NoConnection
                                   ELSE Quiet(cs[p])]
        /\ toLogic' = toLogic
              \o [i \in 1..Cardinality(left) |->
                    RemovePlayer(InNameOrder(left)[i])]
              \o Replies(cs) \o after

\* The connections of the room become cs, and what their handlers emitted takes
\* effect: agentDisconnected takes the seat of a player who left a room that is
\* not full, and ends a full one with nobody online; replies are forwarded to
\* the logic.  Then the calls in `after` are posted.
Settle(room, cs, after) ==
    LET gone == {p \in room : cs[p].left}
        deserted == gone # {} /\ \A p \in room : ~cs[p].online
        left == IF Full(room) THEN {} ELSE gone
    IN  /\ agents' = room \ left
        /\ over' = IF Full(room) /\ deserted THEN "gameOver" ELSE over
        /\ conn' = [p \in Name |-> IF p \in left THEN NoConnection
                                   ELSE Quiet(cs[p])]
        /\ toLogic' = toLogic
              \o [i \in 1..Cardinality(left) |->
                    RemovePlayer(InNameOrder(left)[i])]
              \o Replies(cs) \o after

\* A handler of p's connection runs, in an event of its own.
Handle(p, c) ==
    /\ Alive
    /\ Settle(agents, [conn EXCEPT ![p] = c], <<>>)
    /\ UNCHANGED <<players, phase, asked, toRunner>>

\* addAgent, for a player who signs in to the room that recruits.  The first
\* write to the new player may fail before the logic is told of it.
Join(p) ==
    LET room == agents \cup {p}
        start == IF Full(room) THEN <<RoundStart>> ELSE <<>>
        bound == [SetSocket(NoConnection) EXCEPT !.online = TRUE]
    IN  /\ over = "running"
        /\ ~Full(agents)
        /\ Len(toLogic) <= MaxPosted
        /\ p \in Name \ agents
        /\ \E lost \in {FALSE, EagerWriteFailure} :
              Settle(room,
                     [conn EXCEPT ![p] = IF lost THEN OnSocketDisconnected(bound)
                                         ELSE bound],
                     <<AddPlayer(p)>> \o start)
        /\ UNCHANGED <<players, phase, asked, toRunner>>

\* ServerConnectionP::reconnect, then reconnectAgent: a player who is offline
\* signs in again.
Reconnect(p) ==
    /\ p \in agents
    /\ ~conn[p].online
    /\ Handle(p, [SetSocket(conn[p]) EXCEPT !.online = TRUE])

\* A packet arrives.  A WebSocket may still deliver what it has read after it
\* was told to close.
Packet(p) ==
    /\ p \in agents
    /\ conn[p].socket # "none"
    /\ \/ Handle(p, OtherPacket(conn[p]))
       \/ \E now \in BOOLEAN : Handle(p, UnknownNotify(conn[p], now))
       \/ \E now \in BOOLEAN : Handle(p, AbnormalPacket(conn[p], now))
       \/ /\ conn[p].currentRequest # Invalid
          /\ \/ Handle(p, Refusal(conn[p]))
             \/ Handle(p, Answer(conn[p]))
             \/ \E now \in BOOLEAN : Handle(p, MalformedAnswer(conn[p], now))

\* The transport reports that it is disconnected: what was told to close, or a
\* connection the peer or the network ended.
SocketDisconnected(p) ==
    /\ p \in agents
    /\ conn[p].socket # "none"
    /\ Handle(p, OnSocketDisconnected(conn[p]))

RequestTimer(p) ==
    /\ p \in agents
    /\ conn[p].requestTimer
    /\ \E now \in BOOLEAN : Handle(p, RequestTimedOut(conn[p], now))

HeartbeatDeadline(p) ==
    /\ p \in agents
    /\ conn[p].heartbeatDeadline
    /\ \E now \in BOOLEAN : Handle(p, PeerWentSilent(conn[p], now))

ZeroTimer(p) ==
    /\ p \in agents
    /\ conn[p].zeroTimers > 0
    /\ Handle(p, ZeroTimerFired(conn[p]))

\* A request signal: each player it names is asked, through agents.value(),
\* which is a null pointer for a player without a seat.
TakeRequest(m) ==
    /\ m.signal = "request"
    /\ IF m.to \subseteq agents
       THEN /\ \A p \in m.to : conn[p].zeroTimers < MaxZeroTimers
            /\ \E lost \in SUBSET (IF EagerWriteFailure THEN m.to ELSE {}) :
                  Settle(agents,
                         [p \in Name |->
                            IF p \in m.to
                            THEN AddRequest(conn[p], m.request, p \in lost)
                            ELSE conn[p]],
                         <<>>)
       ELSE over' = "crashed" /\ UNCHANGED <<toLogic, agents, conn>>

\* The round is over: the next one starts, unless a player is away.
TakeUpgradeResult(m) ==
    /\ m.signal = "upgradeResult"
    /\ IF \A p \in agents : conn[p].online
       THEN toLogic' = Append(toLogic, RoundStart) /\ UNCHANGED over
       ELSE over' = "gameOver" /\ UNCHANGED toLogic
    /\ UNCHANGED <<agents, conn>>

TakeGameOver(m) ==
    /\ m.signal = "gameOver"
    /\ over' = "gameOver"
    /\ UNCHANGED <<toLogic, agents, conn>>

RunnerTakes ==
    /\ Alive
    /\ toRunner # <<>>
    /\ \/ TakeRequest(Head(toRunner))
       \/ TakeUpgradeResult(Head(toRunner))
       \/ TakeGameOver(Head(toRunner))
    /\ toRunner' = Tail(toRunner)
    /\ UNCHANGED logicVars

\* The server deletes a runner whose game is over with its next deferred
\* deletes: the agents, their connections and the logic go with it.
Delete ==
    /\ over = "gameOver"
    /\ over' = "deleted"
    /\ agents' = {}
    /\ conn' = [p \in Name |-> NoConnection]
    /\ toLogic' = <<>>
    /\ toRunner' = <<>>
    /\ UNCHANGED logicVars

-----------------------------------------------------------------------------
\* The logic's thread.

\* What the logic has emitted when a call returns: one signal for all of a
\* throw, one per player for what is asked of each, none while it waits.
Emitted(next, s) ==
    CASE next \in {"RpsForAction", "RpsForActionOrder"} ->
            <<Request(s, "RockPaperScissors")>>
      [] OTHER -> [i \in 1..Cardinality(s) |->
                      Request({InNameOrder(s)[i]}, next)]

LogicAccepts(m) ==
    CASE m.call = "addPlayer" ->
            phase = "BeforeRoundStart" /\ m.player \notin players
      [] m.call = "removePlayer" ->
            phase = "BeforeRoundStart" /\ m.player \in players
      [] m.call = "roundStart" ->
            phase = "BeforeRoundStart" /\ Cardinality(players) >= 2
      [] m.call = "reply" -> Logic!Accepts(m.player, m.request)

LogicTakesCall(m) ==
    \/ /\ m.call = "addPlayer"
       /\ Logic!AddPlayer(m.player)
       /\ UNCHANGED toRunner
    \/ /\ m.call = "removePlayer"
       /\ Logic!RemovePlayer(m.player)
       /\ UNCHANGED toRunner
    \/ /\ m.call = "roundStart"
       /\ Logic!RoundStart
       /\ toRunner' = toRunner \o Emitted(phase', asked')
    \/ /\ m.call = "reply"
       /\ Logic!Reply(m.player, m.request)
       /\ IF ~Logic!Completes(m.player) THEN UNCHANGED toRunner
          ELSE IF phase' = "BeforeRoundStart"
          THEN \E signal \in {"upgradeResult", "gameOver"} :
                  toRunner' = Append(toRunner, Result(signal))
          ELSE toRunner' = toRunner
                  \o Emitted(phase', asked' \ (asked \ {m.player}))

\* A call the logic refuses returns false, which nobody sees.
LogicTakes ==
    /\ Alive
    /\ toLogic # <<>>
    /\ toLogic' = Tail(toLogic)
    /\ IF LogicAccepts(Head(toLogic)) THEN LogicTakesCall(Head(toLogic))
       ELSE UNCHANGED <<players, phase, asked, toRunner>>
    /\ UNCHANGED <<agents, conn, over>>

-----------------------------------------------------------------------------
Init ==
    /\ Logic!Init
    /\ toLogic = <<>> /\ toRunner = <<>>
    /\ agents = {}
    /\ conn = [p \in Name |-> NoConnection]
    /\ over = "running"

\* Nothing is left to run.
Ended == ~Alive /\ UNCHANGED vars

Next ==
    \/ \E p \in Name :
          \/ Join(p) \/ Reconnect(p) \/ Packet(p) \/ SocketDisconnected(p)
          \/ RequestTimer(p) \/ HeartbeatDeadline(p) \/ ZeroTimer(p)
    \/ RunnerTakes \/ LogicTakes \/ Delete \/ Ended

Spec == Init /\ [][Next]_vars

\* Both event loops run; timers that stay active fire, and a transport told to
\* close gets there.  Peers owe nothing.
Fairness ==
    /\ WF_vars(RunnerTakes) /\ WF_vars(LogicTakes) /\ WF_vars(Delete)
    /\ \A p \in Name :
          /\ WF_vars(RequestTimer(p)) /\ WF_vars(ZeroTimer(p))
          /\ WF_vars(conn[p].socket = "closing" /\ SocketDisconnected(p))

FairSpec == Spec /\ Fairness
-----------------------------------------------------------------------------
PostedCalls ==
    [call: {"addPlayer", "removePlayer"}, player: Name, request: {Invalid}]
    \cup {RoundStart}
    \cup [call: {"reply"}, player: Name, request: RequestIds]

PostedSignals ==
    [signal: {"request"}, to: (SUBSET Name) \ {{}}, request: RequestIds]
    \cup [signal: {"upgradeResult", "gameOver"}, to: {{}}, request: {Invalid}]

\* The types: every posted reply names a request and every posted request asks
\* somebody, what the runner knows of the logic is one of its phases, and no
\* handler leaves anything emitted that did not take effect.
TypeOK ==
    /\ players \subseteq Name /\ asked \subseteq Name /\ agents \subseteq Name
    /\ phase \in Logic!Running \cup {Logic!Idle}
    /\ toLogic \in Seq(PostedCalls)
    /\ toRunner \in Seq(PostedSignals)
    /\ conn \in [Name -> Connections]
    /\ \A p \in Name : conn[p] = Quiet(conn[p])
    /\ over \in {"running", "gameOver", "deleted", "crashed"}

Count(q, Test(_)) == Cardinality({i \in DOMAIN q : Test(q[i])})

\* A request is in exactly one place until it is answered: on its way to the
\* connection, current there, or on its way back as a reply; and it is the
\* request of the phase the logic is in.  A second answer to a request, as
\* the timers and the loss of a socket may nest, or one that comes after the
\* phase, would be taken for the answer to the next one.
OneAnswerPerRequest ==
    Alive =>
        \A p \in Name :
            LET r == Logic!RequestOf(phase)
                coming(m) == m.signal = "request" /\ p \in m.to
                going(m) == m.call = "reply" /\ m.player = p
                current == conn[p].currentRequest
            IN  /\ Count(toRunner, coming) + Count(toLogic, going)
                     + (IF current = Invalid THEN 0 ELSE 1)
                     = IF p \in asked THEN 1 ELSE 0
                /\ current \in {Invalid, r}
                /\ \A i \in DOMAIN toRunner :
                      coming(toRunner[i]) => toRunner[i].request = r
                /\ \A i \in DOMAIN toLogic :
                      going(toLogic[i]) => toLogic[i].request = r

\* The runner ignores what the slots of Logic return, so every call it posts is
\* to be one that the logic takes when it gets there.
PostedCallsAreAccepted ==
    Alive /\ toLogic # <<>> => LogicAccepts(Head(toLogic))

\* Who will be in the room of the logic when the calls posted have been taken.
PlayersToBe ==
    LET after[n \in 0..Len(toLogic)] ==
            IF n = 0 THEN players
            ELSE IF toLogic[n].call = "addPlayer"
            THEN after[n - 1] \cup {toLogic[n].player}
            ELSE IF toLogic[n].call = "removePlayer"
            THEN after[n - 1] \ {toLogic[n].player}
            ELSE after[n - 1]
    IN  after[Len(toLogic)]

\* The logic's room will hold the players who have a seat, and a round starts
\* with all of them in it: a player missing is never asked, and one too many is
\* asked through a null pointer.
RoomsAgree ==
    over \in {"running", "gameOver"} =>
        /\ PlayersToBe = agents
        /\ phase # "BeforeRoundStart" => players = agents /\ Full(agents)

\* A request that waits has something that ends its wait whatever the peer
\* does: the request timer, if there is one, or the zero timer of a player who
\* was away.  A connection with neither stalls the room for ever.
EveryWaitHasAnEnd ==
    \A p \in Name :
        conn[p].currentRequest # Invalid =>
            \/ conn[p].zeroTimers > 0
            \/ /\ conn[p].socket # "none"
               /\ RequestTimeoutEnabled => conn[p].requestTimer

\* A full room that nobody is connected to is not kept.
DesertedRoomCloses ==
    Alive /\ Full(agents) /\ (\A p \in agents : conn[p].socket = "none")
        => over = "gameOver"

\* A room that somebody is connected to does not end because a player left it:
\* only a result of the logic ends it, a game won or a round over.  The room
\* decides by the flags of its players, in the handler that clears one of them.
OccupiedRoomGoesOn ==
    [][over = "running" /\ over' = "gameOver" =>
          \/ \A p \in agents' : conn'[p].socket = "none"
          \/ /\ toRunner' # toRunner
             /\ Head(toRunner).signal # "request"]_vars

\* With a request timeout, the room never waits for one player for ever.
RequestsAreAnswered ==
    \A p \in Name :
        conn[p].currentRequest # Invalid
            ~> (conn[p].currentRequest = Invalid \/ ~Alive)

\* The request timer gives up only on a peer that owes a reply.
OnlyDebtorsTimeOut ==
    [][\A p \in Name :
          /\ conn[p].requestTimer /\ ~conn'[p].requestTimer
          /\ conn[p].socket = "up" /\ conn'[p].socket # "up"
          /\ p \in agents'
          => conn[p].currentRequest # Invalid]_vars

\* Per player of the logic the room has an agent, once a round has started: the
\* requests of the round go to all of them.
EveryPlayerHasAnAgent ==
    Alive /\ phase # "BeforeRoundStart" => players \subseteq agents
=============================================================================

--------------------------------- MODULE Session ---------------------------------
(***************************************************************************)
(* One player's session in a room that plays: the client of ClientLink,    *)
(* the server's end of ServerConnection with its log of round events, the  *)
(* two wires between them, and a network that loses connections, noticed   *)
(* or not.  The other players are what the room does by itself, and the    *)
(* state of the agent of one of them; the others stay, and keep the room.  *)
(*                                                                         *)
(* A round event is a throw's result, an order of turns, an action or the  *)
(* upgrades: which one it is changes nothing here.  The history of the     *)
(* room is what its clients are to mirror.                                 *)
(***************************************************************************)
EXTENDS ServerConnection, SequencesExt

CONSTANTS
    MaxReconnectAttempts,
    StateKnown,             \* whether the player acts only once it has its state
    PlayRequests,           \* the requests made while a round is played
    MaxHistory,             \* bound: length of the history
    MaxLosses,              \* bound: connections lost for no reason of the code
    MaxStalls,              \* bound: deadlines overdue on one connection
    MaxToggles              \* bound: changes of state nobody but a player causes

ASSUME BoundsAssumption ==
    /\ MaxReconnectAttempts \in Nat
    /\ StateKnown \in BOOLEAN
    /\ PlayRequests \subseteq RequestIds \ {"Upgrade"}
    /\ {MaxHistory, MaxLosses, MaxStalls, MaxToggles} \subseteq Nat

VARIABLES
    \* the room
    phase,          \* "playing", "upgrading" or "over"
    history,        \* what the room has been through
    peer,           \* the state of another player's agent
    \* the server
    conn,           \* the connection of the player
    trusted,        \* the managed flag of the player's agent
    roundEventLog,  \* of the connection
    bound,          \* the connection's socket is the client's present one
    \* the network
    link,           \* the client's present connection
    toClient, toServer,
    \* the player
    client,
    losses, stalls, toggles     \* the counters of the bounds

roomVars == <<phase, history, peer>>
serverVars == <<conn, trusted, roundEventLog, bound>>
wires == <<toClient, toServer>>
counters == <<losses, toggles>>
vars == <<roomVars, serverVars, link, wires, client, stalls, counters>>

Client == INSTANCE ClientLink
Wire == INSTANCE Protocol

\* What was on the wires of a connection that ends is lost: what was not had
\* arrived before.
Links == {"open", "cut"}
Lost == link' = "cut" /\ toClient' = <<>> /\ toServer' = <<>>

Version(compatible) == [kind |-> "version", compatible |-> compatible]
Event(e) == [kind |-> "event", event |-> e]
NotifyRoundStart == [kind |-> "roundStart"]
NotifyGameOver == [kind |-> "gameOver"]
NotifyPlayerAdded(s) == [kind |-> "playerAdded", state |-> s]
NotifyPeerAdded(s) == [kind |-> "peerAdded", state |-> s]
NotifyAgentStateChanged(s) == [kind |-> "agentStateChanged", state |-> s]
Request(r) == [kind |-> "request", request |-> r]

\* The packets a message may be: several notifications are a result of the round,
\* and the end of one is among what is left out.
Packets(m) ==
    CASE m.kind = "signIn" -> {Wire!Notify("SignIn")}
      [] m.kind = "stateChange" -> {Wire!Notify("StateChange")}
      [] m.kind = "reply" -> {Wire!Reply(m.request)}
      [] m.kind = "giveUp" -> {Wire!GiveUp(m.request)}
      [] m.kind = "version" -> {Wire!Notify("Version")}
      [] m.kind = "roundStart" -> {Wire!Notify("RoundStart")}
      [] m.kind = "gameOver" -> {Wire!Notify("GameOver")}
      [] m.kind \in {"playerAdded", "peerAdded"} -> {Wire!Notify("PlayerAdded")}
      [] m.kind = "agentStateChanged" -> {Wire!Notify("AgentStateChanged")}
      [] m.kind = "request" -> {Wire!Request(m.request)}
      [] m.kind = "event" ->
            {Wire!Notify(id) :
                id \in IF m.event = "upgrade" THEN {"Upgrade"}
                       ELSE {"RockPaperScissors", "ActionOrder", "Action"}}

-----------------------------------------------------------------------------
\* The network.

AgentState(online, managed) ==
    (IF online THEN {"online"} ELSE {})
        \cup (IF managed THEN {"managed"} ELSE {})

\* What the player's agent relays to its connection is sent, if there is anyone to
\* send it to.
Sent(packets) ==
    IF conn.socket = "up" /\ bound /\ link = "open"
    THEN toClient \o packets ELSE toClient

\* The client becomes c, after it took what has left toClient at `coming`; on
\* the connection it had, or on none.
ClientBecomes(c, coming) ==
    /\ client' = Client!Silent(c)
    /\ IF c.socket
       THEN /\ toServer' = IF link = "open" THEN toServer \o c.out ELSE <<>>
            /\ toClient' = coming
            /\ UNCHANGED <<link, bound, stalls>>
       ELSE Lost /\ bound' = FALSE /\ stalls' = 0

\* A connection attempt of c: refused, or never noticed to have gone nowhere; or
\* accepted by a server, which greets.
ConnectionAttempt(c) ==
    /\ client' = c
    /\ bound' = FALSE
    /\ \/ Lost
       \/ /\ link' = "open" /\ toServer' = <<>>
          /\ \E compatible \in IF phase = "over" THEN BOOLEAN ELSE {TRUE} :
                toClient' = <<Version(compatible)>>

\* The network loses the connection, and what is on the wires.
Cut ==
    /\ link = "open"
    /\ losses < MaxLosses
    /\ losses' = losses + 1
    /\ Lost
    /\ UNCHANGED <<roomVars, serverVars, client, stalls, toggles>>

-----------------------------------------------------------------------------
\* The room.

RoundsOf(changes) ==
    Cardinality({i \in DOMAIN changes : changes[i] = "roundStart"})

\* A request of the room to the player, who may be away.
RoomAsks ==
    /\ phase # "over"
    /\ conn.currentRequest = Invalid
    /\ conn.zeroTimers = 0
    /\ \E r \in IF phase = "playing" THEN PlayRequests ELSE {"Upgrade"} :
          /\ conn' = AddRequest(conn, r, FALSE)
          /\ toClient' = Sent(<<Request(r)>>)
    /\ UNCHANGED <<roomVars, trusted, roundEventLog, bound, link, toServer,
                   client, stalls, counters>>

\* Mutant: an event is logged for a player who is away only.
RoomResultLoggedIfAway ==
    /\ phase = "playing"
    /\ conn.currentRequest = Invalid
    /\ Len(history) < MaxHistory
    /\ history' = Append(history, "result")
    /\ roundEventLog' = IF conn.online THEN roundEventLog
                        ELSE Append(roundEventLog, "result")
    /\ toClient' = Sent(<<Event("result")>>)
    /\ UNCHANGED <<phase, peer, conn, trusted, bound, link, toServer, client,
                   stalls, counters>>

\* rpsResult, actionOrderResult and actionResult: every reply is in.
RoomResult ==
    /\ phase = "playing"
    /\ conn.currentRequest = Invalid
    /\ Len(history) < MaxHistory
    /\ history' = Append(history, "result")
    /\ roundEventLog' = Append(roundEventLog, "result")
    /\ toClient' = Sent(<<Event("result")>>)
    /\ UNCHANGED <<phase, peer, conn, trusted, bound, link, toServer, client,
                   stalls, counters>>

\* The log is dropped before the players are told.
RoundOver ==
    /\ phase = "playing"
    /\ conn.currentRequest = Invalid
    /\ roundEventLog # <<>>
    /\ phase' = "upgrading"
    /\ roundEventLog' = <<>>
    /\ UNCHANGED <<history, peer, conn, trusted, bound, link, wires, client,
                   stalls, counters>>

\* The match ends: the room goes, with its connections.
GameOver ==
    /\ phase' = "over"
    /\ conn' = NoConnection
    /\ trusted' = FALSE /\ roundEventLog' = <<>> /\ bound' = FALSE
    /\ toClient' = Sent(<<NotifyGameOver>>)
    /\ UNCHANGED <<history, peer, link, toServer, client, stalls, counters>>

NextRound ==
    /\ Len(history) + 2 <= MaxHistory
    /\ conn.online /\ peer = "online"
    /\ phase' = "playing"
    /\ history' = history \o <<"upgrade", "roundStart">>
    /\ toClient' = Sent(<<Event("upgrade"), NotifyRoundStart>>)
    /\ roundEventLog' = <<>>
    /\ UNCHANGED <<peer, conn, trusted, bound, link, toServer, client, stalls,
                   counters>>

\* upgradeResult: a player who is away ends the match; it may be won as well.
UpgradeResult ==
    /\ phase = "upgrading"
    /\ conn.currentRequest = Invalid
    /\ NextRound \/ GameOver

\* Another player goes or is back: the agents of all others are told.
AgentStateChanged ==
    /\ phase # "over"
    /\ toggles < MaxToggles /\ toggles' = toggles + 1
    /\ peer' = IF peer = "online" THEN "away" ELSE "online"
    /\ toClient' = Sent(<<NotifyAgentStateChanged(peer')>>)
    /\ UNCHANGED <<phase, history, serverVars, link, toServer, client, stalls,
                   losses>>

-----------------------------------------------------------------------------
\* The server's end.

\* c is what a handler of the connection has left.
ConnBecomes(c) ==
    /\ conn' = Quiet(c)
    /\ trusted' = (trusted /\ ~c.left)
    /\ bound' = (bound /\ c.socket # "none")

\* Mutant: what the client has already got is replayed too.
ReplayAll(seq) == [i \in DOMAIN roundEventLog |-> Event(roundEventLog[i])]

ReplayMissedRoundEvents(seq) ==
    [i \in 1..(IF seq < Len(roundEventLog) THEN Len(roundEventLog) - seq ELSE 0)
        |-> Event(roundEventLog[seq + i])]

\* The slots of the server take a message, and so does its connection's, if there
\* is one.
ForServer(m) == \E p \in Packets(m) : Wire!ServerSlot(p) = "takes"
ForConnection(m) ==
    bound /\ \E p \in Packets(m) : Wire!ConnectionSlot(p) = "takes"

\* A sign-in finds the player's seat if the agent is offline: the socket is
\* bound, what was missed replayed, the agent online, and the snapshot sent.
SeatFound(seq) ==
    /\ conn' = [SetSocket(conn) EXCEPT !.online = TRUE]
    /\ trusted' = trusted
    /\ bound' = TRUE
    /\ toClient' = toClient \o ReplayMissedRoundEvents(seq)
                     \o <<NotifyPlayerAdded(AgentState(TRUE, trusted)),
                          NotifyPeerAdded(peer)>>
    /\ toServer' = Tail(toServer)
    /\ UNCHANGED link

\* Otherwise it is a player of another room, which is not modelled: the server
\* is as if gone.
SeatNotFound == Lost /\ UNCHANGED <<conn, trusted, bound>>

TakeSignIn(m) ==
    /\ m.kind = "signIn" /\ ForServer(m)
    /\ IF phase # "over" /\ ~conn.online THEN SeatFound(m.seq)
                                         ELSE SeatNotFound

\* Before the sign-in there is no agent whose state could change, and nobody to
\* take a reply or refuse it.
TakeTooEarly(m) ==
    /\ m.kind # "signIn" /\ ~bound
    /\ IF ForServer(m)
       THEN Lost
       ELSE toServer' = Tail(toServer) /\ UNCHANGED <<link, toClient>>
    /\ UNCHANGED <<conn, trusted, bound>>

\* A reply to the request, or to one that is not current.
TakeReply(m) ==
    /\ m.kind \in {"reply", "giveUp"} /\ ForConnection(m)
    /\ IF m.request = conn.currentRequest
       THEN /\ ConnBecomes(IF m.kind = "reply" THEN Answer(conn)
                                               ELSE Refusal(conn))
            /\ toServer' = Tail(toServer)
            /\ UNCHANGED <<link, toClient>>
       ELSE ConnBecomes(AbnormalPacket(conn, FALSE)) /\ Lost

\* The declared state is the agent's, the online flag included.
TakeStateChange(m) ==
    /\ m.kind = "stateChange" /\ ForServer(m) /\ bound
    /\ conn' = [OtherPacket(conn) EXCEPT !.online = "online" \in m.state]
    /\ trusted' = ("managed" \in m.state)
    /\ toServer' = Tail(toServer)
    /\ UNCHANGED <<bound, link, toClient>>

ServerTakes ==
    /\ toServer # <<>>
    /\ \/ TakeSignIn(Head(toServer)) \/ TakeTooEarly(Head(toServer))
       \/ TakeReply(Head(toServer)) \/ TakeStateChange(Head(toServer))
    /\ UNCHANGED <<roomVars, roundEventLog, client, stalls, counters>>

\* The server finds out that a connection has ended.
SocketDisconnected ==
    /\ conn.socket # "none"
    /\ bound => link # "open"
    /\ ConnBecomes(OnSocketDisconnected(conn))
    /\ UNCHANGED <<roomVars, roundEventLog, link, wires, client, stalls, counters>>

\* A handler that may give up on the connection it has.
GivesUp(c) ==
    /\ ConnBecomes(c)
    /\ IF bound /\ link = "open" /\ c.socket # "up"
       THEN /\ losses < MaxLosses /\ losses' = losses + 1
            /\ Lost
       ELSE UNCHANGED <<losses, link, wires>>
    /\ UNCHANGED <<roomVars, roundEventLog, client, stalls, toggles>>

RequestTimer ==
    /\ conn.requestTimer
    /\ GivesUp(RequestTimedOut(conn, FALSE))

HeartbeatDeadline ==
    /\ conn.heartbeatDeadline
    /\ GivesUp(PeerWentSilent(conn, FALSE))

ZeroTimer == conn.zeroTimers > 0 /\ GivesUp(ZeroTimerFired(conn))

\* A connection nobody has signed in on in time is closed.
SignInDeadline ==
    /\ link = "open" /\ ~bound
    /\ stalls < MaxStalls /\ stalls' = stalls + 1
    /\ Lost
    /\ UNCHANGED <<roomVars, serverVars, client, counters>>

-----------------------------------------------------------------------------
\* The client's end.

\* An event is applied to the mirror if it comes next; if not, it may be refused.
Takes(m) ==
    CASE m.kind = "version" -> {Client!NotifyVersion(client, m.compatible)}
      [] m.kind = "roundStart" -> {Client!NotifyRoundStart(client)}
      [] m.kind = "gameOver" -> {Client!NotifyGameOver(client)}
      [] m.kind = "playerAdded" -> {Client!NotifyPlayerAdded(client, m.state)}
      [] m.kind = "peerAdded" -> {Client!NotifyPeerAdded(client, m.state)}
      [] m.kind = "agentStateChanged" ->
            {Client!NotifyAgentStateChanged(client, m.state)}
      [] m.kind = "request" -> {Client!RequestReceived(client, m.request)}
      [] m.kind = "event" ->
            {Client!NotifyRoundEvent(client, m.event, applies) :
                applies \in IF IsPrefix(client.mirror, history)
                            THEN {TRUE} ELSE BOOLEAN}

ClientTakes ==
    /\ toClient # <<>>
    /\ \E c \in Takes(Head(toClient)) : ClientBecomes(c, Tail(toClient))
    /\ UNCHANGED <<roomVars, conn, trusted, roundEventLog, counters>>

\* The client does something by itself.
ClientDoes(c) ==
    /\ c # client
    /\ ClientBecomes(c, toClient)
    /\ UNCHANGED <<roomVars, conn, trusted, roundEventLog>>

\* The socket reports an error, that it is disconnected, or one after the other.
SocketGone ==
    /\ client.socket /\ link = "cut"
    /\ ClientDoes(Client!HandleSocketGone(Client!HandleSocketGone(client)))
    /\ UNCHANGED counters

\* On a connection that works the ping is answered, and the window starts anew;
\* on one that does not, the next ping finds it standing.
Heartbeat ==
    /\ client.socket
    /\ LET asked == Client!HeartbeatTimeout(client)
       IN  ClientDoes(IF link = "open" THEN Client!NotifyPongServer(asked)
                                       ELSE asked)
    /\ UNCHANGED counters

\* Three intervals after the window began; or, once the client has been away
\* from its event loop, with fewer pings sent in it.
PongDeadline ==
    /\ client.pings > 0
    /\ LET judged == Client!PongDeadlinePassed(client)
       IN  IF ~judged.socket THEN ClientDoes(judged)
           ELSE /\ stalls < MaxStalls /\ stalls' = stalls + 1
                /\ client' = judged
                /\ UNCHANGED <<roomVars, serverVars, link, wires>>
    /\ UNCHANGED counters

ReconnectTimer ==
    /\ client.reconnectTimer
    /\ ConnectionAttempt(Client!ReconnectTimeout(client))
    /\ UNCHANGED <<roomVars, conn, trusted, roundEventLog, stalls, counters>>

\* The player.
PlayerReplies ==
    \/ ClientDoes(Client!SendReply(client)) /\ UNCHANGED counters
    \/ ClientDoes(Client!SendRequestGivenUp(client)) /\ UNCHANGED counters

PlayerManaged ==
    /\ toggles < MaxToggles
    /\ toggles' = toggles + 1
    /\ \E managed \in BOOLEAN : ClientDoes(Client!SetManaged(client, managed))
    /\ UNCHANGED losses

-----------------------------------------------------------------------------
\* The room has just been filled by this player.
Init ==
    /\ phase = "playing" /\ history = <<"roundStart">> /\ peer = "online"
    /\ conn = [SetSocket(NoConnection) EXCEPT !.online = TRUE]
    /\ trusted = FALSE /\ roundEventLog = <<>> /\ bound = TRUE
    /\ link = "open" /\ toServer = <<>>
    /\ IF StateKnown
       THEN /\ toClient = <<NotifyRoundStart>>
            /\ client = [Client!ConnectToHost(Client!NewClient) EXCEPT
                            !.state = {"online"}, !.peer = "online"]
       ELSE /\ toClient = <<NotifyPlayerAdded({"online"}),
                            NotifyPeerAdded("online"), NotifyRoundStart>>
            /\ client = Client!ConnectToHost(Client!NewClient)
    /\ losses = 0 /\ stalls = 0 /\ toggles = 0

Next ==
    \/ RoomAsks \/ RoomResult \/ RoundOver \/ UpgradeResult
    \/ AgentStateChanged
    \/ Cut
    \/ ServerTakes \/ SocketDisconnected
    \/ RequestTimer \/ HeartbeatDeadline \/ ZeroTimer \/ SignInDeadline
    \/ ClientTakes \/ SocketGone \/ Heartbeat \/ PongDeadline
    \/ ReconnectTimer
    \/ PlayerReplies \/ PlayerManaged

Spec == Init /\ [][Next]_vars

\* The client's event loop runs, and its timers fire.  Nothing promises that the
\* loss of a connection is reported to either end.
Fairness ==
    /\ WF_vars(ClientTakes)
    /\ WF_vars(Heartbeat) /\ WF_vars(client.pings = 2 /\ PongDeadline)
    /\ WF_vars(ReconnectTimer)

FairSpec == Spec /\ Fairness
-----------------------------------------------------------------------------
\* The types of the session, and its counters within their bounds.
TypeOK ==
    /\ phase \in {"playing", "upgrading", "over"}
    /\ history \in Seq(Client!Changes) /\ peer \in {"online", "away"}
    /\ conn \in Connections /\ conn = Quiet(conn)
    /\ trusted \in BOOLEAN /\ bound \in BOOLEAN
    /\ roundEventLog \in Seq(Client!RoundEvents)
    /\ link \in Links
    /\ toServer \in Seq(Client!ToServer)
    /\ client \in Client!Clients /\ client.out = <<>>
    /\ losses \in 0..MaxLosses /\ stalls \in 0..MaxStalls
    /\ toggles \in 0..MaxToggles

\* A message is a change to the client's mirror, and which.
IsChange(m) == m.kind \in {"event", "roundStart"}

ChangeOf(m) == IF m.kind = "event" THEN m.event ELSE "roundStart"

\* How many of the first i messages on a wire are.
ChangesIn(wire, i) == Cardinality({j \in 1..i : IsChange(wire[j])})

\* The mirror, with the changes on their way to it, is what the room has been
\* through.
Caught ==
    /\ IsPrefix(client.mirror, history)
    /\ Len(history) = Len(client.mirror) + ChangesIn(toClient, Len(toClient))
    /\ \A i \in DOMAIN toClient : IsChange(toClient[i]) =>
          ChangeOf(toClient[i])
            = history[Len(client.mirror) + ChangesIn(toClient, i)]

\* What the client holds of the peer, or will once it has read what is coming.
PeerKnown ==
    LET news == {i \in DOMAIN toClient : toClient[i].kind = "agentStateChanged"}
    IN  IF news = {} THEN client.peer ELSE toClient[Max(news)].state

\* A player who comes back in the round it left gets exactly the round events it
\* missed, none lost and none twice.  The two sides never compare logs: the server
\* indexes its own by the client's count.
GetsWhatItMissed ==
    (/\ ~bound /\ bound' /\ phase = "playing"
     /\ IsPrefix(client.mirror, history)
     /\ RoundsOf(client.mirror) = RoundsOf(history))
    => Caught'

\* Nothing but the connection's end keeps the mirror of a player who has caught up
\* from the room's history, or what it knows of a peer from the peer.
StaysUpToDate ==
    bound /\ bound' /\ link' = "open" =>
        (Caught => Caught') /\ (PeerKnown = peer => (PeerKnown = peer)')

\* What the replay and the notifications promise a player whose connections are lost:
\* it catches up when it is back, and then stays up to date.
CatchesUp == [][GetsWhatItMissed /\ StaysUpToDate]_vars

\* Whatever is on a wire is parsed at its end and has one slot there that takes
\* it: the two slots of the server neither both handle a packet of a player, nor
\* leave it to each other, nor refuse what is the other's.
PacketsHaveOneTaker ==
    /\ \A i \in DOMAIN toServer : \A p \in Packets(toServer[i]) :
          /\ ~Wire!HasError(p)
          /\ bound => {Wire!ServerSlot(p), Wire!ConnectionSlot(p)}
                        = {"takes", "leaves"}
    /\ \A i \in DOMAIN toClient : \A p \in Packets(toClient[i]) :
          ~Wire!HasError(p) /\ Wire!ClientSlot(p) = "takes"

\* Nothing is on its way between the two ends.
Settled ==
    /\ bound /\ link = "open" /\ conn.socket = "up"
    /\ toClient = <<>> /\ toServer = <<>>

\* Once nothing is on its way, both ends have the same state of the agent,
\* whatever losses, declarations and snapshots crossed before.
StatesAgree ==
    Settled => client.state = AgentState(conn.online, trusted)

\* A player who has handed over is never waited for: a request that was there
\* before, or that came while the hand-over was on its way, is given up.
ManagedIsAnsweredFor ==
    Settled /\ "managed" \in client.state /\ conn.zeroTimers = 0
        => conn.currentRequest = Invalid

\* A client that has lost its connection has one thing going to get it back, a
\* timer or a connection, never both and never none; and one that has not, or has
\* given up or been told to stop, has no attempt scheduled.
NeverStranded ==
    IF client.reconnectInProgress THEN client.reconnectTimer # client.socket
                                  ELSE ~client.reconnectTimer

RoundEventsOf(changes) ==
    SelectSeq(changes, LAMBDA change : change \in Client!RoundEvents)

\* What architecture.md says of a reconnect: the round events the client missed
\* are replayed "so its mirror converges".
MirrorConverges ==
    Settled => RoundEventsOf(client.mirror) = RoundEventsOf(history)

\* What reconnectAgent says of the snapshot it sends: it "is what tells the
\* returning player where it and everyone else stands".
SnapshotTells == Settled => client.peer = peer

\* A client does not stay on a connection that no longer carries anything, though
\* neither end is told of its end.
DeadLinkIsLeft ==
    client.socket /\ link # "open" ~> ~client.socket \/ link = "open"

\* A lost connection is made good or given up: no chain of attempts, failures and
\* losses while attempting goes on for ever.
LossIsResolved ==
    client.reconnectInProgress ~> ~client.reconnectInProgress
=============================================================================

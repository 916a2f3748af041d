------------------------------- MODULE ClientLink -------------------------------
(***************************************************************************)
(* The client's end of its connection: ClientP with its own Agent, and the *)
(* part of the front end that answers for a managed player.  A client is a *)
(* record, and each handler an operator from clients to clients; Session   *)
(* composes them with the server's end.  `out` is what the handler sends.  *)
(*                                                                         *)
(* The mirror is the history of what was applied to the client's room.  A  *)
(* socket that is gone is detached in the handler that finds out, so the   *)
(* time until its deferred delete is left out.  Payloads are left out.     *)
(***************************************************************************)
EXTENDS Naturals, Sequences

CONSTANT MaxReconnectAttempts   \* a number

Requests == {"RockPaperScissors", "ActionOrder", "Action", "Upgrade"}
NoRequest == "RequestInvalid"

\* What can be applied to a room: the start of a round, and the results that the
\* server counts as round events.
RoundEvents == {"result", "upgrade"}
Changes == {"roundStart"} \cup RoundEvents

\* The flags of an agent's state.
StateMasks == {"online", "managed"}

\* What a client may hold of the state of another player's agent.
Peers == {"unknown", "online", "away"}

SignIn(seq) == [kind |-> "signIn", seq |-> seq]
Reply(r) == [kind |-> "reply", request |-> r]
GiveUp(r) == [kind |-> "giveUp", request |-> r]
StateChange(s) == [kind |-> "stateChange", state |-> s]

ToServer ==
    [kind: {"signIn"}, seq: Nat]
    \cup [kind: {"reply", "giveUp"}, request: Requests]
    \cup [kind: {"stateChange"}, state: SUBSET StateMasks]

Clients ==
    [socket: BOOLEAN,                   \* there is one
     pings: 0..2,                       \* since the pong deadline was armed
     reconnectTimer: BOOLEAN,           \* active
     reconnectInProgress: BOOLEAN,
     reconnectAttempts: Nat,
     currentRequest: Requests \cup {NoRequest},
     lastRoundEventSeq: Nat,
     mirror: Seq(Changes),
     state: SUBSET StateMasks,          \* of its own agent
     peer: Peers,                       \* the agent of another player
     out: Seq(ToServer)]

\* The flags of ClientP before its first session.
NewClient ==
    [socket |-> FALSE, pings |-> 0, reconnectTimer |-> FALSE,
     reconnectInProgress |-> FALSE, reconnectAttempts |-> 0,
     currentRequest |-> NoRequest, lastRoundEventSeq |-> 0, mirror |-> <<>>,
     state |-> {}, peer |-> "unknown", out |-> <<>>]

Silent(c) == [c EXCEPT !.out = <<>>]

\* Nothing is sent without a socket.
Sending(c, packet) ==
    IF c.socket THEN [c EXCEPT !.out = Append(@, packet)] ELSE c

-----------------------------------------------------------------------------
\* The connection.

\* Both timers of the connection start with it.
ConnectSocket(c) == [c EXCEPT !.socket = TRUE, !.pings = 0]

ScheduleReconnect(c) ==
    IF c.reconnectAttempts >= MaxReconnectAttempts
    THEN [c EXCEPT !.reconnectInProgress = FALSE, !.reconnectTimer = FALSE]
    ELSE [c EXCEPT !.reconnectTimer = TRUE]

\* Mutant: every loss starts counting the attempts again.
HandleSocketGoneCountsAnew(c) ==
    IF ~c.socket THEN c
    ELSE ScheduleReconnect([c EXCEPT !.socket = FALSE, !.pings = 0,
                                     !.reconnectInProgress = TRUE,
                                     !.reconnectAttempts = 0])

\* Mutant: the next attempt is scheduled by the first loss only.
HandleSocketGoneOnce(c) ==
    LET detached == [c EXCEPT !.socket = FALSE, !.pings = 0]
    IN  IF ~c.socket THEN c
        ELSE IF c.reconnectInProgress THEN detached
        ELSE ScheduleReconnect([detached EXCEPT !.reconnectInProgress = TRUE,
                                                !.reconnectAttempts = 0])

\* The connection is over.  Attempts are counted per episode: from the first
\* loss to the server's greeting.
HandleSocketGone(c) ==
    IF ~c.socket THEN c
    ELSE ScheduleReconnect(
            [c EXCEPT !.socket = FALSE, !.pings = 0,
                      !.reconnectInProgress = TRUE,
                      !.reconnectAttempts =
                          IF c.reconnectInProgress THEN @ ELSE 0])

ReconnectTimeout(c) ==
    ConnectSocket([c EXCEPT !.reconnectTimer = FALSE,
                            !.reconnectAttempts = @ + 1])

\* Client::connectToHost: a session begins.
ConnectToHost(c) ==
    ConnectSocket([c EXCEPT !.reconnectTimer = FALSE,
                            !.reconnectInProgress = FALSE,
                            !.reconnectAttempts = 0])

\* Client::disconnectFromHost: nothing is told, nothing is retried.
DisconnectFromHost(c) ==
    [c EXCEPT !.socket = FALSE, !.pings = 0, !.reconnectTimer = FALSE,
              !.reconnectInProgress = FALSE, !.currentRequest = NoRequest]

\* Mutant: each ping is the first of its window.
HeartbeatTimeoutForgets(c) == [c EXCEPT !.pings = 1]

\* The first ping of the window is an interval old when the second is sent.
HeartbeatTimeout(c) == [c EXCEPT !.pings = IF @ = 0 THEN 1 ELSE 2]

NotifyPongServer(c) == [c EXCEPT !.pings = 0]

PongDeadlinePassed(c) ==
    IF c.pings = 2 THEN HandleSocketGone(c) ELSE [c EXCEPT !.pings = 0]

\* The greeting of a server.  One that speaks another protocol is left alone.
NotifyVersion(c, compatible) ==
    IF ~compatible THEN DisconnectFromHost(c)
    ELSE Sending([c EXCEPT !.reconnectTimer = @ /\ ~c.reconnectInProgress,
                           !.reconnectInProgress = FALSE],
                 SignIn(c.lastRoundEventSeq))

-----------------------------------------------------------------------------
\* The room's notifications.

\* Mutant: the count goes on from round to round.
NotifyRoundStartCountsOn(c) == [c EXCEPT !.mirror = Append(@, "roundStart")]

NotifyRoundStart(c) ==
    [c EXCEPT !.mirror = Append(@, "roundStart"), !.lastRoundEventSeq = 0]

\* A round event is counted before it is applied; one that cannot be applied ends
\* the connection.
NotifyRoundEvent(c, event, applies) ==
    LET counted == [c EXCEPT !.lastRoundEventSeq = @ + 1]
    IN  IF applies THEN [counted EXCEPT !.mirror = Append(@, event)]
        ELSE HandleSocketGone(counted)

\* The game is over: the client hangs up, and does not come back.
NotifyGameOver(c) == [c EXCEPT !.socket = FALSE, !.pings = 0]

\* Agent::setState, whose signal declares a state that changed.
SetState(c, s) ==
    IF c.state = s THEN c ELSE Sending([c EXCEPT !.state = s], StateChange(s))

\* Mutant: the state of the snapshot is adopted and not declared.
NotifyPlayerAddedSilent(c, s) == [c EXCEPT !.state = s]

\* The snapshot's entry for the client's own player.
NotifyPlayerAdded(c, s) == SetState(c, s)

\* The snapshot's entry for another player, who is already known to a client that
\* comes back: a duplicate.
NotifyPeerAdded(c, s) == IF c.peer = "unknown" THEN [c EXCEPT !.peer = s] ELSE c

\* Mutant: only the first state of a peer is kept.
NotifyAgentStateChangedOnce(c, s) == NotifyPeerAdded(c, s)

NotifyAgentStateChanged(c, s) == [c EXCEPT !.peer = s]

-----------------------------------------------------------------------------
\* Requests, and the player's side.

SendRequestGivenUp(c) ==
    IF c.currentRequest = NoRequest \/ ~c.socket THEN c
    ELSE Sending([c EXCEPT !.currentRequest = NoRequest],
                 GiveUp(c.currentRequest))

\* A request replaces the one there was, if any, and goes to the player's side.
Requested(c, r) == [c EXCEPT !.currentRequest = r]

\* It is shown to the player, or given up for one who is managed.
RequestReceived(c, r) ==
    LET current == Requested(c, r)
    IN  IF "managed" \in c.state THEN SendRequestGivenUp(current) ELSE current

\* Mutant: the request is cleared before the reply names it.
SendReplyCleared(c) ==
    IF c.currentRequest = NoRequest \/ ~c.socket THEN c
    ELSE Sending([c EXCEPT !.currentRequest = NoRequest], Reply(NoRequest))

SendReply(c) ==
    IF c.currentRequest = NoRequest \/ ~c.socket THEN c
    ELSE Sending([c EXCEPT !.currentRequest = NoRequest],
                 Reply(c.currentRequest))

\* Mutant: the hand-over leaves the request that is out to the player.
SetManagedKeepsRequest(c, managed) ==
    SetState(c, IF managed THEN c.state \cup {"managed"}
                           ELSE c.state \ {"managed"})

\* The player hands over, or takes the play back.
SetManaged(c, managed) ==
    LET s == IF managed THEN c.state \cup {"managed"}
                        ELSE c.state \ {"managed"}
        declared == SetState(c, s)
    IN  IF managed THEN SendRequestGivenUp(declared) ELSE declared
=============================================================================

---------------------------- MODULE ServerConnection ---------------------------
(***************************************************************************)
(* The server's end of one player: ServerConnectionP with its Agent.  A    *)
(* connection is a record, and each handler an operator from connections   *)
(* to connections, applied in the order of the code; LogicRunner composes  *)
(* them.  `replies` and `left` are what the handler emits: the requests    *)
(* it replies to, and whether the agent is reported as disconnected.       *)
(*                                                                         *)
(* A transport that is closed tells so at once, in the same call, or once  *)
(* the event loop runs again: `now` is which.  Payloads are left out; what *)
(* a packet is worth to the handlers is decided by LogicRunner's actions.  *)
(***************************************************************************)
EXTENDS Naturals, Sequences

CONSTANT RequestTimeoutEnabled  \* whether ServerConfiguration::requestTimeout > 0

ASSUME TimeoutAssumption == RequestTimeoutEnabled \in BOOLEAN

RequestIds == {"RockPaperScissors", "ActionOrder", "Action", "Upgrade"}
Invalid == "RequestInvalid"

\* No socket, one that carries packets, or one that has been told to close.
Sockets == {"none", "up", "closing"}

Connections ==
    [socket: Sockets,
     online: BOOLEAN,                       \* of the Agent's state
     currentRequest: RequestIds \cup {Invalid},
     requestTimer: BOOLEAN,                 \* active
     heartbeatDeadline: BOOLEAN,            \* active
     zeroTimers: Nat,                       \* single shots of addRequest
     replies: Seq(RequestIds),
     left: BOOLEAN]

NoConnection ==
    [socket |-> "none", online |-> FALSE, currentRequest |-> Invalid,
     requestTimer |-> FALSE, heartbeatDeadline |-> FALSE, zeroTimers |-> 0,
     replies |-> <<>>, left |-> FALSE]

\* Between two handlers nothing is being emitted.
Quiet(c) == [c EXCEPT !.replies = <<>>, !.left = FALSE]

SetSocket(c) == [c EXCEPT !.socket = "up", !.heartbeatDeadline = TRUE]

\* Mutant: the request is cleared before the default reply looks it up.
ExecuteDefaultReplyCleared(c) ==
    IF c.currentRequest = Invalid THEN c
    ELSE [c EXCEPT !.replies = Append(@, Invalid), !.currentRequest = Invalid]

ExecuteDefaultReply(c) ==
    IF c.currentRequest = Invalid THEN c
    ELSE [c EXCEPT !.replies = Append(@, c.currentRequest),
                   !.currentRequest = Invalid]

\* Mutant: the loss of the socket leaves the request to its timer.
OnSocketDisconnectedNoDefault(c) ==
    [c EXCEPT !.socket = "none", !.heartbeatDeadline = FALSE,
              !.online = FALSE, !.left = TRUE]

\* The request timer is left as it is.
OnSocketDisconnected(c) ==
    [ExecuteDefaultReply([c EXCEPT !.socket = "none",
                                   !.heartbeatDeadline = FALSE,
                                   !.online = FALSE])
        EXCEPT !.left = TRUE]

\* Socket::setError on the socket, if there is one.
SetError(c, now) ==
    IF c.socket = "none" THEN c
    ELSE IF now THEN OnSocketDisconnected(c)
    ELSE [c EXCEPT !.socket = "closing"]

\* Mutant: an absent player's request waits for the player to come back.
AddRequestNoZeroTimer(c, r, lost) ==
    LET asked == [c EXCEPT !.currentRequest = r]
        sent == IF lost THEN OnSocketDisconnected(asked) ELSE asked
    IN  IF c.socket = "none" THEN asked
        ELSE [sent EXCEPT !.requestTimer = @ \/ RequestTimeoutEnabled]

\* lost: writing the request fails, and the transport closes in that call.
AddRequest(c, r, lost) ==
    LET asked == [c EXCEPT !.currentRequest = r]
        sent == IF lost THEN OnSocketDisconnected(asked) ELSE asked
    IN  IF c.socket = "none" THEN [asked EXCEPT !.zeroTimers = @ + 1]
        ELSE [sent EXCEPT !.requestTimer = @ \/ RequestTimeoutEnabled]

-----------------------------------------------------------------------------
\* packetReceived, by what the packet is.  Any packet proves the peer alive.

Heard(c) == [c EXCEPT !.heartbeatDeadline = TRUE]

\* A ping, a change of state, or something the player says.
OtherPacket(c) == Heard(c)

\* A notify for the agent that it does not know; a packet the socket itself
\* cannot parse ends no differently.
UnknownNotify(c, now) == SetError(Heard(c), now)

\* A reply to another request, or to none; a request; an abnormal notify.
AbnormalPacket(c, now) == ExecuteDefaultReply(SetError(Heard(c), now))

\* The reply to the request, refused.
Refusal(c) == ExecuteDefaultReply([Heard(c) EXCEPT !.requestTimer = FALSE])

Replied(c) == [Heard(c) EXCEPT !.requestTimer = FALSE,
                               !.currentRequest = Invalid]

\* The reply to the request, well formed.
Answer(c) == [Replied(c) EXCEPT !.replies = Append(@, c.currentRequest)]

\* Mutant: the request is still current while its reply is decoded.
MalformedAnswerNotCleared(c, now) ==
    [SetError([Heard(c) EXCEPT !.requestTimer = FALSE], now)
        EXCEPT !.replies = Append(@, c.currentRequest),
               !.currentRequest = Invalid]

\* The reply to the request, with a value that cannot be decoded: the socket
\* is given up on before the default reply is made.
MalformedAnswer(c, now) ==
    [SetError(Replied(c), now) EXCEPT !.replies = Append(@, c.currentRequest)]

-----------------------------------------------------------------------------
\* The timers, all single shots.

RequestTimedOut(c, now) ==
    ExecuteDefaultReply(SetError([c EXCEPT !.requestTimer = FALSE], now))

PeerWentSilent(c, now) ==
    ExecuteDefaultReply(SetError([c EXCEPT !.heartbeatDeadline = FALSE], now))

ZeroTimerFired(c) == ExecuteDefaultReply([c EXCEPT !.zeroTimers = @ - 1])
=============================================================================

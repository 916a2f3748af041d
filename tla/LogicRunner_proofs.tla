--------------------------- MODULE LogicRunner_proofs --------------------------
(***************************************************************************)
(* One room, for any set of players, any number of seats, with or without  *)
(* a request timeout.                                                      *)
(*                                                                         *)
(* Waits: each handler keeps it of the connection it runs on that a wait   *)
(* has an end; the lemmas say so, handler by handler, and the theorem      *)
(* follows the actions of LogicRunner through Settle.                      *)
(*                                                                         *)
(* Requests: each handler keeps its request, or turns it into one reply    *)
(* (Keeps); Settle posts what the handlers emitted, so the places of a     *)
(* request are counted over the two queues and the connection (MailInv).   *)
(*                                                                         *)
(* Rooms: who leaves and who joins is posted as it happens, so the calls   *)
(* under way lead from the logic's room to that of the seats (RoomInv).    *)
(***************************************************************************)
EXTENDS LogicRunner, Counting

\* A connection whose wait for a reply, if it has one, will end.
WaitEnds(c) ==
    c.currentRequest # Invalid =>
        \/ c.zeroTimers > 0
        \/ /\ c.socket # "none"
           /\ RequestTimeoutEnabled => c.requestTimer

\* What every handler keeps of its connection.
Sound(c) == c \in Connections /\ WaitEnds(c)

\* A request is not the mark of having none.
LEMMA InvalidIsNone == Invalid \notin RequestIds
BY DEF Invalid, RequestIds

\* What a connection has emitted does not matter to its wait.
LEMMA QuietSound ==
    ASSUME NEW c, Sound(c)
    PROVE  Sound(Quiet(c))
<1>1. <<>> \in Seq(RequestIds)
  OBVIOUS
<1>2. Quiet(c) \in Connections
  BY <1>1 DEF Sound, Quiet, Connections
<1>3. WaitEnds(Quiet(c))
  BY DEF Sound, WaitEnds, Quiet, Connections
<1> QED
  BY <1>2, <1>3 DEF Sound

\* A player with no connection waits for nothing.
LEMMA NoConnectionSound == Sound(NoConnection)
BY DEF Sound, WaitEnds, NoConnection, Connections, Sockets

\* A wait with no socket is ended by a zero timer, with or without a new socket.
LEMMA SetSocketSound ==
    ASSUME NEW c, Sound(c)
    PROVE  Sound([SetSocket(c) EXCEPT !.online = TRUE])
BY TimeoutAssumption DEF Sound, WaitEnds, SetSocket, Connections, Sockets

\* A default reply leaves no wait.
LEMMA DefaultReplySound ==
    ASSUME NEW c \in Connections
    PROVE  /\ ExecuteDefaultReply(c) \in Connections
           /\ ExecuteDefaultReply(c).currentRequest = Invalid
<1>1. CASE c.currentRequest = Invalid
  BY <1>1 DEF ExecuteDefaultReply
<1>2. CASE c.currentRequest # Invalid
  <2> DEFINE rs == Append(c.replies, c.currentRequest)
  <2>1. c.replies \in Seq(RequestIds) /\ c.currentRequest \in RequestIds
    BY <1>2 DEF Connections
  <2>2. rs \in Seq(RequestIds)
    BY <2>1
  <2>3. ExecuteDefaultReply(c)
          = [c EXCEPT !.replies = rs, !.currentRequest = Invalid]
    BY <1>2 DEF ExecuteDefaultReply
  <2> HIDE DEF rs
  <2> QED
    BY <2>2, <2>3 DEF Connections
<1> QED
  BY <1>1, <1>2

\* The loss of the socket leaves no wait either.
LEMMA DisconnectedSound ==
    ASSUME NEW c \in Connections
    PROVE  /\ OnSocketDisconnected(c) \in Connections
           /\ OnSocketDisconnected(c).currentRequest = Invalid
<1> DEFINE d == [c EXCEPT !.socket = "none", !.heartbeatDeadline = FALSE,
                          !.online = FALSE]
<1>1. d \in Connections
  BY DEF Connections, Sockets
<1>2. /\ ExecuteDefaultReply(d) \in Connections
      /\ ExecuteDefaultReply(d).currentRequest = Invalid
  BY <1>1, DefaultReplySound
<1>3. OnSocketDisconnected(c) = [ExecuteDefaultReply(d) EXCEPT !.left = TRUE]
  BY DEF OnSocketDisconnected
<1> HIDE DEF d
<1> QED
  BY <1>2, <1>3 DEF Connections

\* Giving up on the socket leaves a socket that closes, or no wait.
LEMMA SetErrorSound ==
    ASSUME NEW c, Sound(c), NEW now \in BOOLEAN
    PROVE  Sound(SetError(c, now))
<1>1. CASE c.socket = "none"
  BY <1>1 DEF SetError
<1>2. CASE c.socket # "none" /\ now
  BY <1>2, DisconnectedSound DEF SetError, Sound, WaitEnds
<1>3. CASE c.socket # "none" /\ ~now
  BY <1>3 DEF SetError, Sound, WaitEnds, Connections, Sockets
<1> QED
  BY <1>1, <1>2, <1>3

\* A request is waited for with a timer, or with a zero timer, from the start;
\* one that could not be written is answered before it is waited for.
LEMMA AddRequestSound ==
    ASSUME NEW c, Sound(c), NEW r \in RequestIds, NEW lost \in BOOLEAN
    PROVE  Sound(AddRequest(c, r, lost))
<1> DEFINE a == [c EXCEPT !.currentRequest = r]
           sent == IF lost THEN OnSocketDisconnected(a) ELSE a
<1>1. a \in Connections
  BY DEF Sound, Connections
<1>2. CASE c.socket = "none"
  <2> DEFINE z == [a EXCEPT !.zeroTimers = @ + 1]
  <2>1. a.zeroTimers \in Nat
    BY <1>1 DEF Connections
  <2>2. z \in Connections
    <3> HIDE DEF a
    <3> QED
      BY <1>1, <2>1 DEF Connections
  <2>3. z.zeroTimers > 0
    <3> HIDE DEF a
    <3> QED
      BY <1>1, <2>1 DEF Connections
  <2>4. AddRequest(c, r, lost) = z
    BY <1>2 DEF AddRequest
  <2> HIDE DEF z
  <2> QED
    BY <2>2, <2>3, <2>4 DEF Sound, WaitEnds
<1>3. CASE c.socket # "none"
  <2>1. AddRequest(c, r, lost)
          = [sent EXCEPT !.requestTimer = @ \/ RequestTimeoutEnabled]
    BY <1>3 DEF AddRequest
  <2>2. CASE lost
    <3>1. sent \in Connections /\ sent.currentRequest = Invalid
      BY <1>1, <2>2, DisconnectedSound
    <3> HIDE DEF sent
    <3> QED
      BY <2>1, <3>1, TimeoutAssumption DEF Sound, WaitEnds, Connections
  <2>3. CASE ~lost
    <3>1. sent = a
      BY <2>3
    <3>2. a.socket # "none"
      BY <1>3 DEF Sound, Connections
    <3> HIDE DEF sent, a
    <3> QED
      BY <1>1, <2>1, <3>1, <3>2, TimeoutAssumption
      DEF Sound, WaitEnds, Connections
  <2> QED
    BY <2>2, <2>3
<1> QED
  BY <1>2, <1>3

\* The handlers of packets.
LEMMA HeardSound ==
    ASSUME NEW c, Sound(c)
    PROVE  Sound(Heard(c)) /\ Heard(c).currentRequest = c.currentRequest
BY DEF Sound, WaitEnds, Heard, Connections

\* A refusal is answered with the default reply.
LEMMA RefusalSound ==
    ASSUME NEW c, Sound(c)
    PROVE  Sound(Refusal(c))
<1>1. [Heard(c) EXCEPT !.requestTimer = FALSE] \in Connections
  BY DEF Sound, Heard, Connections
<1> QED
  BY <1>1, DefaultReplySound DEF Refusal, Sound, WaitEnds

\* A reply ends the wait, whatever becomes of its value.
LEMMA RepliedSound ==
    ASSUME NEW c, Sound(c)
    PROVE  Sound(Replied(c)) /\ Replied(c).currentRequest = Invalid
BY DEF Replied, Heard, Sound, WaitEnds, Connections

\* One more reply changes nothing of a wait.
LEMMA ReplySound ==
    ASSUME NEW c, Sound(c), NEW r \in RequestIds
    PROVE  Sound([c EXCEPT !.replies = Append(@, r)])
<1> DEFINE rs == Append(c.replies, r)
<1>1. rs \in Seq(RequestIds)
  BY DEF Sound, Connections
<1> HIDE DEF rs
<1>2. [c EXCEPT !.replies = rs] \in Connections
  BY <1>1 DEF Sound, Connections
<1>3. WaitEnds([c EXCEPT !.replies = rs])
  BY DEF Sound, WaitEnds, Connections
<1> QED
  BY <1>2, <1>3 DEF rs, Sound

\* The reply that was waited for, decodable or not.
LEMMA AnswerSound ==
    ASSUME NEW c, Sound(c), c.currentRequest # Invalid
    PROVE  /\ Sound(Answer(c))
           /\ \A now \in BOOLEAN : Sound(MalformedAnswer(c, now))
<1>1. c.currentRequest \in RequestIds
  BY DEF Sound, Connections
<1>2. Sound(Replied(c))
  BY RepliedSound
<1>3. ASSUME NEW now \in BOOLEAN
      PROVE  Sound(SetError(Replied(c), now))
  BY <1>2, SetErrorSound
<1> QED
  BY <1>1, <1>2, <1>3, ReplySound DEF Answer, MalformedAnswer

\* A packet that costs the peer its connection.
LEMMA AbnormalSound ==
    ASSUME NEW c, Sound(c), NEW now \in BOOLEAN
    PROVE  /\ Sound(UnknownNotify(c, now))
           /\ Sound(AbnormalPacket(c, now))
<1>1. Sound(SetError(Heard(c), now))
  BY HeardSound, SetErrorSound
<1> QED
  BY <1>1, DefaultReplySound
  DEF UnknownNotify, AbnormalPacket, Sound, WaitEnds

\* The timers: whichever fires leaves no wait.
LEMMA TimersSound ==
    ASSUME NEW c, Sound(c), NEW now \in BOOLEAN
    PROVE  /\ Sound(RequestTimedOut(c, now))
           /\ Sound(PeerWentSilent(c, now))
           /\ c.zeroTimers > 0 => Sound(ZeroTimerFired(c))
<1> DEFINE t == [c EXCEPT !.requestTimer = FALSE]
           h == [c EXCEPT !.heartbeatDeadline = FALSE]
           z == [c EXCEPT !.zeroTimers = @ - 1]
<1>1. /\ t \in Connections /\ h \in Connections
      /\ c.zeroTimers > 0 => z \in Connections
  <2>1. t \in Connections /\ h \in Connections
    BY DEF Sound, Connections
  <2>2. c \in Connections /\ c.zeroTimers \in Nat
    BY DEF Sound, Connections
  <2>3. c.zeroTimers > 0 => c.zeroTimers - 1 \in Nat
    BY <2>2
  <2>4. c.zeroTimers > 0 => z \in Connections
    BY <2>2, <2>3 DEF Connections
  <2> QED
    BY <2>1, <2>4
<1>2. ASSUME NEW d \in Connections
      PROVE  SetError(d, now) \in Connections
  <2>1. CASE d.socket = "none"
    BY <2>1 DEF SetError
  <2>2. CASE d.socket # "none" /\ now
    BY <2>2, DisconnectedSound DEF SetError
  <2>3. CASE d.socket # "none" /\ ~now
    BY <2>3 DEF SetError, Connections, Sockets
  <2> QED
    BY <2>1, <2>2, <2>3
<1>3. SetError(t, now) \in Connections /\ SetError(h, now) \in Connections
  BY <1>1, <1>2
<1> HIDE DEF t, h, z
<1>4. Sound(ExecuteDefaultReply(SetError(t, now)))
  BY <1>3, DefaultReplySound DEF Sound, WaitEnds
<1>5. Sound(ExecuteDefaultReply(SetError(h, now)))
  BY <1>3, DefaultReplySound DEF Sound, WaitEnds
<1>6. c.zeroTimers > 0 => Sound(ExecuteDefaultReply(z))
  BY <1>1, DefaultReplySound DEF Sound, WaitEnds
<1> QED
  BY <1>4, <1>5, <1>6
  DEF RequestTimedOut, PeerWentSilent, ZeroTimerFired, t, h, z

\* Between two steps every connection is sound and the logic is where Phases
\* knows it to be; what is posted to the runner asks for requests only.
SoundRoom ==
    /\ conn \in [Name -> Connections]
    /\ \A p \in Name : Sound(conn[p])

KnownLogic ==
    /\ phase \in Logic!Running \cup {Logic!Idle}
    /\ IsFiniteSet(players) /\ IsFiniteSet(asked)

\* Whatever the room and whatever is posted after it, connections that are
\* sound before their emissions take effect are sound when these have.
LEMMA SettleSound ==
    ASSUME NEW room, NEW cs, NEW after, \A p \in Name : Sound(cs[p]),
           Settle(room, cs, after)
    PROVE  SoundRoom'
<1> DEFINE left == IF Full(room) THEN {} ELSE {p \in room : cs[p].left}
<1>1. conn' = [p \in Name |-> IF p \in left THEN NoConnection ELSE Quiet(cs[p])]
  BY DEF Settle
<1> HIDE DEF left
<1>2. ASSUME NEW p \in Name
      PROVE  conn'[p] \in Connections /\ Sound(conn'[p])
  <2>1. Sound(Quiet(cs[p])) /\ Sound(NoConnection)
    BY QuietSound, NoConnectionSound
  <2>2. conn'[p] = NoConnection \/ conn'[p] = Quiet(cs[p])
    BY <1>1
  <2> QED
    BY <2>1, <2>2 DEF Sound
<1> QED
  BY <1>1, <1>2 DEF SoundRoom

\* A handler that keeps its own connection sound keeps them all.
LEMMA HandleSound ==
    ASSUME SoundRoom, NEW p \in Name, NEW c, Sound(c), Handle(p, c)
    PROVE  SoundRoom'
<1> DEFINE cs == [conn EXCEPT ![p] = c]
<1>1. \A q \in Name : Sound(cs[q])
  BY DEF SoundRoom
<1>2. Settle(agents, cs, <<>>)
  BY DEF Handle
<1> HIDE DEF cs
<1> QED
  BY <1>1, <1>2, SettleSound

\* The wait of every connection has an end, whichever transport event, timer or
\* packet is next.
LEMMA HandlersSound ==
    ASSUME SoundRoom, NEW p \in Name,
           \/ Reconnect(p) \/ Packet(p) \/ SocketDisconnected(p)
           \/ RequestTimer(p) \/ HeartbeatDeadline(p) \/ ZeroTimer(p)
    PROVE  SoundRoom'
<1> DEFINE c == conn[p]
<1>1. Sound(c) /\ c \in Connections
  BY DEF SoundRoom
<1>2. \A d : Sound(d) /\ Handle(p, d) => SoundRoom'
  BY HandleSound
<1>3. CASE Reconnect(p)
  BY <1>1, <1>2, <1>3, SetSocketSound DEF Reconnect
<1>4. CASE Packet(p)
  <2>1. Sound(OtherPacket(c)) /\ Sound(Refusal(c))
    BY <1>1, HeardSound, RefusalSound DEF OtherPacket
  <2>2. \A now \in BOOLEAN :
           Sound(UnknownNotify(c, now)) /\ Sound(AbnormalPacket(c, now))
    BY <1>1, AbnormalSound
  <2>3. c.currentRequest # Invalid =>
           /\ Sound(Answer(c))
           /\ \A now \in BOOLEAN : Sound(MalformedAnswer(c, now))
    BY <1>1, AnswerSound
  <2> QED
    BY <1>2, <1>4, <2>1, <2>2, <2>3 DEF Packet
<1>5. CASE SocketDisconnected(p)
  <2>1. Sound(OnSocketDisconnected(c))
    BY <1>1, DisconnectedSound DEF Sound, WaitEnds
  <2> QED
    BY <1>2, <1>5, <2>1 DEF SocketDisconnected
<1>6. \A now \in BOOLEAN :
         Sound(RequestTimedOut(c, now)) /\ Sound(PeerWentSilent(c, now))
  BY <1>1, TimersSound
<1>7. CASE RequestTimer(p)
  BY <1>2, <1>6, <1>7 DEF RequestTimer
<1>8. CASE HeartbeatDeadline(p)
  BY <1>2, <1>6, <1>8 DEF HeartbeatDeadline
<1>9. CASE ZeroTimer(p)
  <2>1. Sound(ZeroTimerFired(c))
    BY <1>1, <1>9, TimersSound DEF ZeroTimer
  <2> QED
    BY <1>2, <1>9, <2>1 DEF ZeroTimer
<1> QED
  BY <1>3, <1>4, <1>5, <1>7, <1>8, <1>9

\* A player who signs in has a connection that waits for nothing, also when the
\* first write to it fails.
LEMMA JoinSound ==
    ASSUME SoundRoom, NEW p \in Name, Join(p)
    PROVE  SoundRoom'
<1> DEFINE bound == [SetSocket(NoConnection) EXCEPT !.online = TRUE]
<1>1. PICK lost, room, after :
         Settle(room,
                [conn EXCEPT ![p] = IF lost THEN OnSocketDisconnected(bound)
                                    ELSE bound],
                after)
  BY DEF Join
<1> DEFINE c == IF lost THEN OnSocketDisconnected(bound) ELSE bound
           cs == [conn EXCEPT ![p] = c]
<1>2. Sound(bound)
  BY NoConnectionSound, SetSocketSound
<1>3. Sound(c)
  <2> HIDE DEF bound
  <2> QED
    BY <1>2, DisconnectedSound DEF Sound, WaitEnds
<1>4. Settle(room, cs, after)
  BY <1>1
<1> HIDE DEF c
<1>5. \A q \in Name : Sound(cs[q])
  BY <1>3 DEF SoundRoom
<1> HIDE DEF cs
<1> QED
  BY <1>4, <1>5, SettleSound

\* What is posted to the runner: the requests among it are requests.
SignalsKnown(q) ==
    \E S : /\ q \in Seq(S)
           /\ \A m \in S : m.signal = "request" => m.request \in RequestIds

\* To know them, it is enough to name a set they come from.
LEMMA KnownByRange ==
    ASSUME NEW q, NEW S, q \in Seq(S),
           \A m \in S : m.signal = "request" => m.request \in RequestIds
    PROVE  SignalsKnown(q)
BY DEF SignalsKnown

\* An empty queue asks for nothing.
LEMMA NothingKnown == SignalsKnown(<<>>)
<1> DEFINE q == <<>>
           S == {}
<1>1. q \in Seq(S)
  OBVIOUS
<1>2. \A m \in S : m.signal = "request" => m.request \in RequestIds
  OBVIOUS
<1> HIDE DEF q, S
<1>3. SignalsKnown(q)
  BY <1>1, <1>2, KnownByRange
<1> QED
  BY <1>3 DEF q

\* Signals are posted behind those that wait.
LEMMA PostedSignalsKnown ==
    ASSUME NEW q, NEW r, SignalsKnown(q), SignalsKnown(r)
    PROVE  SignalsKnown(q \o r)
<1>1. PICK S : /\ q \in Seq(S)
               /\ \A m \in S : m.signal = "request" => m.request \in RequestIds
  BY DEF SignalsKnown
<1>2. PICK T : /\ r \in Seq(T)
               /\ \A m \in T : m.signal = "request" => m.request \in RequestIds
  BY DEF SignalsKnown
<1>3. q \in Seq(S \cup T) /\ r \in Seq(S \cup T)
  BY <1>1, <1>2
<1>4. q \o r \in Seq(S \cup T)
  BY <1>3
<1> QED
  BY <1>1, <1>2, <1>4 DEF SignalsKnown

\* A result signal asks for nothing.
LEMMA ResultKnown ==
    ASSUME NEW q, SignalsKnown(q), NEW sig \in {"upgradeResult", "gameOver"}
    PROVE  SignalsKnown(Append(q, Result(sig)))
<1>1. PICK S : /\ q \in Seq(S)
               /\ \A m \in S : m.signal = "request" => m.request \in RequestIds
  BY DEF SignalsKnown
<1>2. Append(q, Result(sig)) \in Seq(S \cup {Result(sig)})
  BY <1>1
<1>3. Result(sig).signal # "request"
  BY DEF Result
<1> QED
  BY <1>1, <1>2, <1>3 DEF SignalsKnown

\* What the logic emits as it enters a phase are requests of that phase.
LEMMA EmittedKnown ==
    ASSUME NEW next \in Logic!Running, NEW s, IsFiniteSet(s)
    PROVE  SignalsKnown(Emitted(next, s))
<1>1. CASE next \in {"RpsForAction", "RpsForActionOrder"}
  <2> DEFINE m == Request(s, "RockPaperScissors")
  <2>1. Emitted(next, s) = <<m>>
    BY <1>1 DEF Emitted
  <2>2. m.request \in RequestIds
    BY DEF Request, RequestIds
  <2> DEFINE q == <<m>>
             S == {m}
  <2> HIDE DEF m
  <2>3. q \in Seq(S)
    OBVIOUS
  <2>4. \A x \in S : x.signal = "request" => x.request \in RequestIds
    BY <2>2
  <2> HIDE DEF q, S
  <2>5. SignalsKnown(q)
    BY <2>3, <2>4, KnownByRange
  <2> QED
    BY <2>1, <2>5 DEF q
<1>2. CASE next \notin {"RpsForAction", "RpsForActionOrder"}
  <2> DEFINE e(i) == Request({InNameOrder(s)[i]}, next)
             n == Cardinality(s)
             S == {e(i) : i \in 1..n}
  <2>1. n \in Nat
    BY FS_CardinalityType
  <2>2. next \in RequestIds
    BY <1>2 DEF Logic!Running, RequestIds
  <2>3. Emitted(next, s) = [i \in 1..n |-> e(i)]
    BY <1>2 DEF Emitted
  <2>4. \A i \in 1..n : e(i).request \in RequestIds
    BY <2>2 DEF Request
  <2> HIDE DEF e, n
  <2>5. [i \in 1..n |-> e(i)] \in Seq(S)
    BY <2>1
  <2>6. \A m \in S : m.request \in RequestIds
    BY <2>4
  <2> QED
    BY <2>3, <2>5, <2>6 DEF SignalsKnown
<1> QED
  BY <1>1, <1>2

\* The call at the head of the queue leaves the logic in a phase it has, and
\* asks for what that phase asks for.
LEMMA LogicStep ==
    ASSUME KnownLogic, SignalsKnown(toRunner), NEW m, LogicTakesCall(m)
    PROVE  KnownLogic' /\ SignalsKnown(toRunner)'
<1>1. CASE Logic!AddPlayer(m.player) /\ UNCHANGED toRunner
  BY <1>1, FS_AddElement DEF KnownLogic, Logic!AddPlayer
<1>2. CASE Logic!RemovePlayer(m.player) /\ UNCHANGED toRunner
  BY <1>2, FS_RemoveElement DEF KnownLogic, Logic!RemovePlayer
<1>3. CASE /\ Logic!RoundStart
           /\ toRunner' = toRunner \o Emitted(phase', asked')
  <2>1. phase' \in Logic!Running /\ IsFiniteSet(asked') /\ IsFiniteSet(players')
    BY <1>3 DEF KnownLogic, Logic!RoundStart, Logic!Running
  <2>2. SignalsKnown(Emitted(phase', asked'))
    BY <2>1, EmittedKnown
  <2>3. SignalsKnown(toRunner \o Emitted(phase', asked'))
    BY <2>2, PostedSignalsKnown
  <2> QED
    BY <1>3, <2>1, <2>3 DEF KnownLogic
<1>4. CASE /\ Logic!Reply(m.player, m.request)
           /\ IF ~Logic!Completes(m.player) THEN UNCHANGED toRunner
              ELSE IF phase' = "BeforeRoundStart"
              THEN \E signal \in {"upgradeResult", "gameOver"} :
                      toRunner' = Append(toRunner, Result(signal))
              ELSE toRunner' = toRunner
                      \o Emitted(phase', asked' \ (asked \ {m.player}))
  <2>1. players' = players /\ phase \in Logic!Running
    BY <1>4 DEF Logic!Reply, Logic!Accepts
  <2>2. CASE ~Logic!Completes(m.player)
    <3>1. /\ asked' = asked \ {m.player} /\ phase' = phase
          /\ toRunner' = toRunner
      BY <1>4, <2>2 DEF Logic!Reply
    <3>2. IsFiniteSet(asked')
      BY <3>1, FS_RemoveElement DEF KnownLogic
    <3> QED
      BY <2>1, <3>1, <3>2 DEF KnownLogic
  <2>3. CASE Logic!Completes(m.player)
    <3>1. PICK next \in Logic!Follows[phase], s \in SUBSET players :
             phase' = next /\ asked' = (asked \ {m.player}) \cup s
      BY <1>4, <2>3 DEF Logic!Reply
    <3>2. phase' \in Logic!Running \cup {Logic!Idle}
      BY <2>1, <3>1 DEF Logic!Follows, Logic!Running, Logic!Idle
    <3>3. IsFiniteSet(s) /\ IsFiniteSet(asked \ {m.player})
      BY FS_Subset, FS_RemoveElement DEF KnownLogic
    <3>4. IsFiniteSet(asked')
      BY <3>1, <3>3, FS_Union
    <3>5. KnownLogic'
      BY <2>1, <3>2, <3>4 DEF KnownLogic
    <3>6. CASE phase' = "BeforeRoundStart"
      BY <1>4, <2>3, <3>5, <3>6, ResultKnown
    <3>7. CASE phase' # "BeforeRoundStart"
      <4> DEFINE news == asked' \ (asked \ {m.player})
      <4>1. IsFiniteSet(news)
        BY <3>4, FS_Subset
      <4>2. phase' \in Logic!Running
        BY <3>2, <3>7 DEF Logic!Idle
      <4>3. toRunner' = toRunner \o Emitted(phase', news)
        BY <1>4, <2>3, <3>7
      <4> HIDE DEF news
      <4>4. SignalsKnown(Emitted(phase', news))
        BY <4>1, <4>2, EmittedKnown
      <4> QED
        BY <3>5, <4>3, <4>4, PostedSignalsKnown
    <3> QED
      BY <3>6, <3>7
  <2> QED
    BY <2>2, <2>3
<1> QED
  BY <1>1, <1>2, <1>3, <1>4 DEF LogicTakesCall

\* The inductive invariant behind EveryWaitHasAnEnd.
WaitInv == SoundRoom /\ KnownLogic /\ SignalsKnown(toRunner)

\* An empty room waits for nothing.
LEMMA WaitInit == Init => WaitInv
<1> SUFFICES ASSUME Init PROVE WaitInv
  OBVIOUS
<1>1. SoundRoom
  BY NoConnectionSound DEF Init, SoundRoom, Sound
<1>2. KnownLogic
  BY FS_EmptySet DEF Init, KnownLogic, Logic!Init
<1>3. SignalsKnown(toRunner)
  BY NothingKnown DEF Init
<1> QED
  BY <1>1, <1>2, <1>3 DEF WaitInv

\* Whatever the runner takes off its queue, the connections it asks are sound.
LEMMA RunnerSound ==
    ASSUME WaitInv, RunnerTakes
    PROVE  SoundRoom' /\ SignalsKnown(toRunner)'
<1>1. PICK S : /\ toRunner \in Seq(S)
               /\ \A m \in S : m.signal = "request" => m.request \in RequestIds
  BY DEF WaitInv, SignalsKnown
<1>2. /\ toRunner # <<>> /\ toRunner' = Tail(toRunner)
      /\ \/ TakeRequest(Head(toRunner))
         \/ TakeUpgradeResult(Head(toRunner))
         \/ TakeGameOver(Head(toRunner))
  BY DEF RunnerTakes
<1> DEFINE m == Head(toRunner)
<1>3. m \in S /\ Tail(toRunner) \in Seq(S)
  BY <1>1, <1>2
<1>4. SignalsKnown(toRunner)'
  BY <1>1, <1>2, <1>3 DEF SignalsKnown
<1>5. CASE UNCHANGED conn
  BY <1>4, <1>5 DEF WaitInv, SoundRoom
<1>6. CASE TakeRequest(m)
  <2>1. m.request \in RequestIds
    BY <1>1, <1>3, <1>6 DEF TakeRequest
  <2> HIDE DEF m
  <2>2. CASE m.to \subseteq agents
    <3>1. PICK lost \in SUBSET (IF EagerWriteFailure THEN m.to ELSE {}) :
             Settle(agents,
                    [p \in Name |->
                       IF p \in m.to
                       THEN AddRequest(conn[p], m.request, p \in lost)
                       ELSE conn[p]],
                    <<>>)
      BY <1>6, <2>2 DEF TakeRequest
    <3> DEFINE cs == [p \in Name |->
                        IF p \in m.to
                        THEN AddRequest(conn[p], m.request, p \in lost)
                        ELSE conn[p]]
    <3>2. ASSUME NEW p \in Name
          PROVE  Sound(cs[p])
      <4>1. Sound(conn[p])
        BY DEF WaitInv, SoundRoom
      <4>2. (p \in lost) \in BOOLEAN
        OBVIOUS
      <4>3. Sound(AddRequest(conn[p], m.request, p \in lost))
        BY <2>1, <4>1, <4>2, AddRequestSound
      <4> QED
        BY <4>1, <4>3
    <3>3. Settle(agents, cs, <<>>)
      BY <3>1
    <3> HIDE DEF cs
    <3> QED
      BY <1>4, <3>2, <3>3, SettleSound
  <2>3. CASE ~(m.to \subseteq agents)
    BY <1>5, <1>4, <1>6, <2>3 DEF TakeRequest, WaitInv, SoundRoom
  <2> QED
    BY <2>2, <2>3
<1> QED
  BY <1>2, <1>4, <1>5, <1>6 DEF TakeUpgradeResult, TakeGameOver

\* Every step keeps it: one step of the proof per action.
LEMMA WaitStep == WaitInv /\ [Next]_vars => WaitInv'
<1> SUFFICES ASSUME WaitInv, [Next]_vars PROVE WaitInv'
  OBVIOUS
<1>1. ASSUME NEW p \in Name, Join(p)
      PROVE  WaitInv'
  <2>1. SoundRoom'
    BY <1>1, JoinSound DEF WaitInv
  <2> QED
    BY <1>1, <2>1 DEF Join, WaitInv, KnownLogic
<1>2. ASSUME NEW p \in Name,
             \/ Reconnect(p) \/ Packet(p) \/ SocketDisconnected(p)
             \/ RequestTimer(p) \/ HeartbeatDeadline(p) \/ ZeroTimer(p)
      PROVE  WaitInv'
  <2>1. SoundRoom'
    BY <1>2, HandlersSound DEF WaitInv
  <2>2. UNCHANGED <<players, phase, asked, toRunner>>
    BY <1>2 DEF Reconnect, Packet, SocketDisconnected, RequestTimer,
                HeartbeatDeadline, ZeroTimer, Handle
  <2> QED
    BY <2>1, <2>2 DEF WaitInv, KnownLogic
<1>3. CASE RunnerTakes
  <2>1. SoundRoom' /\ SignalsKnown(toRunner)'
    BY <1>3, RunnerSound
  <2> QED
    BY <1>3, <2>1 DEF RunnerTakes, logicVars, WaitInv, KnownLogic
<1>4. CASE LogicTakes
  <2>1. SoundRoom'
    BY <1>4 DEF LogicTakes, WaitInv, SoundRoom
  <2>2. CASE UNCHANGED <<players, phase, asked, toRunner>>
    BY <2>1, <2>2 DEF WaitInv, KnownLogic
  <2>3. CASE LogicTakesCall(Head(toLogic))
    BY <2>1, <2>3, LogicStep DEF WaitInv
  <2> QED
    BY <1>4, <2>2, <2>3 DEF LogicTakes
<1>5. CASE Delete
  <2>1. SoundRoom'
    BY <1>5, NoConnectionSound DEF Delete, SoundRoom, Sound
  <2>2. SignalsKnown(toRunner')
    BY <1>5, NothingKnown DEF Delete
  <2> QED
    BY <1>5, <2>1, <2>2 DEF Delete, logicVars, WaitInv, KnownLogic
<1>6. CASE UNCHANGED vars
  BY <1>6 DEF vars, WaitInv, SoundRoom, KnownLogic
<1> QED
  BY <1>1, <1>2, <1>3, <1>4, <1>5, <1>6 DEF Next, Ended

\* Whatever the peers, the network and the two threads do, a request that waits
\* for a reply has a timer running that will end the wait.
THEOREM RunnerWaitsEnd == Spec => []EveryWaitHasAnEnd
<1>1. WaitInv => EveryWaitHasAnEnd
  BY DEF WaitInv, SoundRoom, Sound, WaitEnds, EveryWaitHasAnEnd
<1> QED
  BY <1>1, WaitInit, WaitStep, PTL DEF Spec

-----------------------------------------------------------------------------
(* Queues.  What Settle posts, in name order. *)

\* A set of players is finite, and can be put in the order of their names.
LEMMA NameOrder ==
    ASSUME NEW s \in SUBSET Name
    PROVE  /\ IsFiniteSet(s) /\ Cardinality(s) \in Nat
           /\ InNameOrder(s) \in [1..Cardinality(s) -> s]
           /\ \A x \in s : \E i \in 1..Cardinality(s) : InNameOrder(s)[i] = x
           /\ \A i, j \in 1..Cardinality(s) :
                 InNameOrder(s)[i] = InNameOrder(s)[j] => i = j
<1> DEFINE n == Cardinality(s)
           q == [k \in 1..n |-> CHOOSE o \in s : RankIn(s, o) = k]
           Ordered(f) == \A i, j \in 1..n : i < j => f[i] < f[j]
<1>1. IsFiniteSet(s) /\ n \in Nat /\ s \in SUBSET Int
  <2>1. IsFiniteSet(Name) /\ Name \in SUBSET Nat
    BY RoomAssumption
  <2>2. IsFiniteSet(s)
    BY <2>1, FS_Subset
  <2>3. s \in SUBSET Int
    BY <2>1
  <2> QED
    BY <2>2, <2>3, FS_CardinalityType
<1>2. \A k \in 1..n : q[k] \in s /\ RankIn(s, q[k]) = k
  BY <1>1, RankBijection
<1>3. q \in [1..n -> s]
  BY <1>2
<1>4. Ordered(q)
  <2> SUFFICES ASSUME NEW i \in 1..n, NEW j \in 1..n, i < j PROVE q[i] < q[j]
    OBVIOUS
  <2> HIDE DEF q, n
  <2>0. q[i] \in s /\ q[j] \in s /\ RankIn(s, q[i]) = i /\ RankIn(s, q[j]) = j
    BY <1>2
  <2>1. q[i] \in Int /\ q[j] \in Int
    BY <1>1, <2>0
  <2>2. q[j] < q[i] => RankIn(s, q[j]) < RankIn(s, q[i])
    BY <1>1, <2>0, RankBijection
  <2>3. q[j] # q[i] /\ ~(q[j] < q[i])
    BY <2>0, <2>1, <2>2
  <2> QED
    BY <2>1, <2>3
<1> DEFINE o == InNameOrder(s)
<1>5. o \in [1..n -> s] /\ Ordered(o)
  <2>1. o = CHOOSE f \in [1..n -> s] : Ordered(f)
    BY DEF InNameOrder
  <2>2. \E f \in [1..n -> s] : Ordered(f)
    BY <1>3, <1>4
  <2> HIDE DEF Ordered, o
  <2> QED
    BY <2>1, <2>2
<1>6. \A i, j \in 1..n : o[i] = o[j] => i = j
  <2> SUFFICES ASSUME NEW i \in 1..n, NEW j \in 1..n, o[i] = o[j], i # j
               PROVE  FALSE
    OBVIOUS
  <2>1. i < j \/ j < i
    OBVIOUS
  <2>2. o[i] < o[j] \/ o[j] < o[i]
    BY <1>5, <2>1
  <2>3. o[i] \in Int /\ o[j] \in Int
    BY <1>1, <1>5
  <2> HIDE DEF o
  <2> QED
    BY <2>2, <2>3
<1>7. \A x \in s : \E i \in 1..n : o[i] = x
  <2>1. o \in Injection(1..n, s)
    BY <1>5, <1>6 DEF Injection, IsInjective
  <2>2. IsFiniteSet(1..n) /\ Cardinality(1..n) = n
    BY <1>1, FS_Interval
  <2>3. o \in Surjection(1..n, s)
    BY <1>1, <2>1, <2>2, FS_Injection
  <2> HIDE DEF o
  <2> QED
    BY <2>3 DEF Surjection
<1> QED
  BY <1>1, <1>5, <1>6, <1>7

\* Whose handlers have emitted a reply.
Repliers(cs) == {p \in Name : cs[p].replies # <<>>}

\* At most one reply has been emitted on each connection.
OneReplyEach(cs) ==
    \A p \in Name : \/ cs[p].replies = <<>>
                    \/ \E r \in RequestIds : cs[p].replies = <<r>>

\* Then Replies are these, one for each of them.
RepliesInOrder(cs) ==
    [i \in 1..Cardinality(Repliers(cs)) |->
        LET p == InNameOrder(Repliers(cs))[i] IN ReplyOf(p, cs[p].replies[1])]

LEMMA RepliesShape ==
    ASSUME NEW cs, OneReplyEach(cs)
    PROVE  Replies(cs) = RepliesInOrder(cs)
<1> DEFINE s == Repliers(cs)
           names == InNameOrder(s)
           n == Cardinality(s)
           block(k) == [i \in DOMAIN cs[names[k]].replies |->
                          ReplyOf(names[k], cs[names[k]].replies[i])]
           one(k) == ReplyOf(names[k], cs[names[k]].replies[1])
           F(u) == [k \in 0..Len(names) |->
                      IF k = 0 THEN <<>> ELSE u[k - 1] \o block(k)]
           g == [k \in 0..n |-> [i \in 1..k |-> one(i)]]
<1>1. /\ n \in Nat /\ names \in [1..n -> s]
      /\ s \in SUBSET Name
  BY NameOrder DEF Repliers
<1>2. Len(names) = n
  BY <1>1
<1>3. Replies(cs) = (CHOOSE u : u = F(u))[n]
  BY <1>2 DEF Replies, Repliers
<1>4. \A k \in 1..n : block(k) = <<one(k)>>
  <2> SUFFICES ASSUME NEW k \in 1..n PROVE block(k) = <<one(k)>>
    OBVIOUS
  <2>1. names[k] \in s
    BY <1>1
  <2>2. PICK r \in RequestIds : cs[names[k]].replies = <<r>>
    BY <2>1 DEF OneReplyEach, Repliers
  <2> HIDE DEF names, s, n
  <2>3. DOMAIN cs[names[k]].replies = 1..1
    BY <2>2
  <2> QED
    BY <2>3
<1> HIDE DEF s, names, block, one
<1>5. g = F(g)
  <2>1. \A k \in 1..n : g[k] = g[k - 1] \o <<one(k)>>
    <3> SUFFICES ASSUME NEW k \in 1..n
                 PROVE  [i \in 1..k |-> one(i)]
                          = [i \in 1..(k - 1) |-> one(i)] \o <<one(k)>>
      BY <1>1
    <3> DEFINE a == [i \in 1..(k - 1) |-> one(i)]
               b == [i \in 1..k |-> one(i)]
    <3>1. k \in Nat /\ k - 1 \in Nat
      BY <1>1
    <3>2. a \in Seq({one(i) : i \in 1..k}) /\ Len(a) = k - 1
      BY <3>1
    <3>3. b \in Seq({one(i) : i \in 1..k}) /\ Len(b) = k
      BY <3>1
    <3> QED
      BY <3>1, <3>2, <3>3
  <2>2. g[0] = <<>>
    BY <1>1
  <2>3. \A k \in 1..n : g[k] = g[k - 1] \o block(k)
    BY <1>4, <2>1
  <2>4. g = [k \in 0..n |-> IF k = 0 THEN <<>> ELSE g[k - 1] \o block(k)]
    <3> DEFINE h == [k \in 0..n |-> IF k = 0 THEN <<>> ELSE g[k - 1] \o block(k)]
    <3>1. g[0] = h[0]
      BY <1>1, <2>2
    <3>2. ASSUME NEW k \in 1..n PROVE g[k] = h[k]
      <4>1. k \in 0..n /\ k # 0
        BY <1>1
      <4>2. h[k] = g[k - 1] \o block(k)
        BY <4>1
      <4> QED
        BY <2>3, <4>2
    <3>3. \A k \in 0..n : k = 0 \/ k \in 1..n
      BY <1>1
    <3>4. DOMAIN g = 0..n /\ DOMAIN h = 0..n
      OBVIOUS
    <3>5. \A k \in 0..n : g[k] = h[k]
      BY <3>1, <3>2, <3>3
    <3>6. g = [k \in 0..n |-> g[k]] /\ h = [k \in 0..n |-> h[k]]
      OBVIOUS
    <3> HIDE DEF g, h
    <3>7. g = h
      BY <3>5, <3>6
    <3> QED
      BY <3>7 DEF h
  <2> QED
    BY <1>2, <2>4
<1> HIDE DEF g
<1>6. ASSUME NEW u, u = F(u) PROVE u[n] = g[n]
  <2> DEFINE bad == {k \in 0..n : u[k] # g[k]}
  <2>0. /\ u[0] = <<>> /\ g[0] = <<>>
        /\ \A k \in 1..n : u[k] = u[k - 1] \o block(k) /\ g[k] = g[k - 1] \o block(k)
    <3>1. u = [k \in 0..n |-> IF k = 0 THEN <<>> ELSE u[k - 1] \o block(k)]
      BY <1>2, <1>6
    <3>2. g = [k \in 0..n |-> IF k = 0 THEN <<>> ELSE g[k - 1] \o block(k)]
      BY <1>2, <1>5
    <3>3. \A k \in 1..n : k \in 0..n /\ k # 0
      BY <1>1
    <3>4. 0 \in 0..n
      BY <1>1
    <3> QED
      BY <3>1, <3>2, <3>3, <3>4
  <2> SUFFICES ASSUME bad # {} PROVE FALSE
    BY <1>1
  <2>1. PICK k \in bad : \A x \in bad : k <= x
    <3>1. bad \in SUBSET Nat
      OBVIOUS
    <3> HIDE DEF bad
    <3> QED
      BY <3>1, LeastNat
  <2>2. k \in 1..n /\ k - 1 \in 0..n /\ k - 1 \notin bad
    BY <1>1, <2>0, <2>1
  <2>3. u[k - 1] = g[k - 1]
    BY <2>2
  <2> QED
    BY <2>0, <2>1, <2>2, <2>3
<1>7. (CHOOSE u : u = F(u))[n] = g[n]
  <2> DEFINE v == CHOOSE u : u = F(u)
  <2>1. v = F(v)
    BY <1>5
  <2> HIDE DEF v, F
  <2>2. v[n] = g[n]
    BY <1>6, <2>1
  <2> QED
    BY <2>2 DEF v
<1>8. g[n] = [i \in 1..n |-> one(i)]
  BY <1>1 DEF g
<1> QED
  BY <1>3, <1>7, <1>8 DEF RepliesInOrder, s, names, one

-----------------------------------------------------------------------------
(* Handlers.  What each does to the request of its connection. *)

\* From c a handler has made d: the request is as it was, or it is answered, once
\* and by itself; a connection that is lost is reported, waits for nothing and is
\* offline.
Keeps(c, d) ==
    /\ c \in Connections /\ d \in Connections
    /\ \/ d.currentRequest = c.currentRequest /\ d.replies = c.replies
       \/ /\ c.currentRequest # Invalid /\ d.currentRequest = Invalid
          /\ d.replies = Append(c.replies, c.currentRequest)
    /\ c.left => d.left
    /\ d.left => c.left \/ d.currentRequest = Invalid
    /\ d.socket = "none" => c.socket = "none" \/ d.left
    /\ (c.socket = "none" => ~c.online) => (d.socket = "none" => ~d.online)
    /\ (~c.online => c.socket = "none") => (~d.online => d.socket = "none")

\* Handlers call one another.
LEMMA KeepsTrans ==
    ASSUME NEW c, NEW d, NEW e, Keeps(c, d), Keeps(d, e)
    PROVE  Keeps(c, e)
BY DEF Keeps

\* A handler that sets timers leaves the request alone.
LEMMA TimersKeep ==
    ASSUME NEW c \in Connections
    PROVE  /\ Keeps(c, c)
           /\ \A b \in BOOLEAN : /\ Keeps(c, [c EXCEPT !.requestTimer = b])
                                 /\ Keeps(c, [c EXCEPT !.heartbeatDeadline = b])
           /\ \A n \in Nat : Keeps(c, [c EXCEPT !.zeroTimers = n])
           /\ Keeps(c, Heard(c))
           /\ Keeps(c, [SetSocket(c) EXCEPT !.online = TRUE])
<1>1. Keeps(c, c)
  BY DEF Keeps
<1>2. ASSUME NEW b \in BOOLEAN
      PROVE  /\ Keeps(c, [c EXCEPT !.requestTimer = b])
             /\ Keeps(c, [c EXCEPT !.heartbeatDeadline = b])
  BY DEF Keeps, Connections
<1>3. ASSUME NEW n \in Nat
      PROVE  Keeps(c, [c EXCEPT !.zeroTimers = n])
  BY DEF Keeps, Connections
<1>4. Keeps(c, Heard(c))
  BY <1>2 DEF Heard
<1>5. Keeps(c, [SetSocket(c) EXCEPT !.online = TRUE])
  BY DEF Keeps, SetSocket, Connections, Sockets
<1> QED
  BY <1>1, <1>2, <1>3, <1>4, <1>5

\* The default reply answers the request, if there is one.
LEMMA DefaultReplyKeeps ==
    ASSUME NEW c \in Connections
    PROVE  Keeps(c, ExecuteDefaultReply(c))
<1>1. CASE c.currentRequest = Invalid
  BY <1>1, TimersKeep DEF ExecuteDefaultReply
<1>2. CASE c.currentRequest # Invalid
  <2> DEFINE rs == Append(c.replies, c.currentRequest)
             d == ExecuteDefaultReply(c)
  <2>1. d \in Connections
    BY DefaultReplySound
  <2>2. d = [c EXCEPT !.replies = rs, !.currentRequest = Invalid]
    BY <1>2 DEF ExecuteDefaultReply
  <2>3. /\ d.replies = rs /\ d.currentRequest = Invalid /\ d.left = c.left
        /\ d.socket = c.socket /\ d.online = c.online
        /\ c.left \in BOOLEAN /\ c.online \in BOOLEAN
    <3> HIDE DEF rs, d
    <3> QED
      BY <2>2 DEF Connections
  <2> HIDE DEF d
  <2>4. /\ c.left => d.left
        /\ d.left => c.left \/ d.currentRequest = Invalid
        /\ d.socket = "none" => c.socket = "none" \/ d.left
    BY <2>3
  <2>5. (c.socket = "none" => ~c.online) => (d.socket = "none" => ~d.online)
    BY <2>3
  <2>6. Keeps(c, d)
    BY <1>2, <2>1, <2>3, <2>4, <2>5 DEF Keeps
  <2> QED
    BY <2>6 DEF d
<1> QED
  BY <1>1, <1>2

\* So does the loss of the socket.
LEMMA DisconnectedKeeps ==
    ASSUME NEW c \in Connections
    PROVE  /\ Keeps(c, OnSocketDisconnected(c))
           /\ OnSocketDisconnected(c).left
<1> DEFINE b == [c EXCEPT !.socket = "none", !.heartbeatDeadline = FALSE,
                          !.online = FALSE]
           e == ExecuteDefaultReply(b)
           d == OnSocketDisconnected(c)
<1>1. /\ b \in Connections /\ b.replies = c.replies /\ b.left = c.left
      /\ b.currentRequest = c.currentRequest
      /\ b.socket = "none" /\ ~b.online
  BY DEF Connections, Sockets
<1>2. Keeps(b, e) /\ e.currentRequest = Invalid
  BY <1>1, DefaultReplyKeeps, DefaultReplySound
<1>3. d = [e EXCEPT !.left = TRUE]
  BY DEF OnSocketDisconnected
<1>4. d \in Connections
  BY DisconnectedSound
<1> HIDE DEF b, e, d
<1>5. /\ d.replies = e.replies /\ d.currentRequest = Invalid /\ d.left
      /\ d.socket = e.socket /\ d.online = e.online
  BY <1>2, <1>3 DEF Keeps, Connections
<1>6. /\ e.socket = "none" => ~e.online
      /\ ~e.online => e.socket = "none"
  BY <1>1, <1>2 DEF Keeps
<1>7. \/ e.replies = c.replies /\ c.currentRequest = Invalid
      \/ /\ c.currentRequest # Invalid
         /\ e.replies = Append(c.replies, c.currentRequest)
  BY <1>1, <1>2 DEF Keeps
<1>8. Keeps(c, d)
  BY <1>4, <1>5, <1>6, <1>7 DEF Keeps
<1> QED
  BY <1>5, <1>8 DEF d

\* And a socket that is given up on, now or later.
LEMMA SetErrorKeeps ==
    ASSUME NEW c \in Connections, NEW now \in BOOLEAN
    PROVE  Keeps(c, SetError(c, now))
<1>1. CASE c.socket = "none"
  BY <1>1, TimersKeep DEF SetError
<1>2. CASE c.socket # "none" /\ now
  BY <1>2, DisconnectedKeeps DEF SetError
<1>3. CASE c.socket # "none" /\ ~now
  <2> DEFINE d == [c EXCEPT !.socket = "closing"]
  <2>1. SetError(c, now) = d
    BY <1>3 DEF SetError
  <2>2. /\ d \in Connections /\ d.replies = c.replies /\ d.left = c.left
        /\ d.currentRequest = c.currentRequest /\ d.socket # "none"
        /\ d.online = c.online
    BY DEF Connections, Sockets
  <2> HIDE DEF d
  <2> QED
    BY <1>3, <2>1, <2>2 DEF Keeps
<1> QED
  BY <1>1, <1>2, <1>3

\* The packets and the timers.
LEMMA PacketsKeep ==
    ASSUME NEW c \in Connections, NEW now \in BOOLEAN
    PROVE  /\ Keeps(c, OtherPacket(c))
           /\ Keeps(c, UnknownNotify(c, now))
           /\ Keeps(c, AbnormalPacket(c, now))
           /\ Keeps(c, Refusal(c))
           /\ Keeps(c, RequestTimedOut(c, now))
           /\ Keeps(c, PeerWentSilent(c, now))
           /\ c.zeroTimers > 0 => Keeps(c, ZeroTimerFired(c))
<1>1. ASSUME NEW d, Keeps(c, d)
      PROVE  /\ Keeps(c, SetError(d, now))
             /\ Keeps(c, ExecuteDefaultReply(d))
  <2>1. d \in Connections
    BY <1>1 DEF Keeps
  <2>2. Keeps(d, SetError(d, now)) /\ Keeps(d, ExecuteDefaultReply(d))
    BY <2>1, SetErrorKeeps, DefaultReplyKeeps
  <2> QED
    BY <1>1, <2>2, KeepsTrans
<1>2. Keeps(c, Heard(c)) /\ Heard(c) \in Connections
  BY TimersKeep DEF Keeps
<1>3. Keeps(c, [Heard(c) EXCEPT !.requestTimer = FALSE])
  BY <1>2, TimersKeep, KeepsTrans
<1>4. /\ Keeps(c, [c EXCEPT !.requestTimer = FALSE])
      /\ Keeps(c, [c EXCEPT !.heartbeatDeadline = FALSE])
  BY TimersKeep
<1>5. c.zeroTimers > 0 => Keeps(c, [c EXCEPT !.zeroTimers = c.zeroTimers - 1])
  <2>1. c.zeroTimers \in Nat
    BY DEF Connections
  <2>2. c.zeroTimers > 0 => c.zeroTimers - 1 \in Nat
    BY <2>1
  <2> QED
    BY <2>2, TimersKeep
<1>6. [c EXCEPT !.zeroTimers = @ - 1] = [c EXCEPT !.zeroTimers = c.zeroTimers - 1]
  OBVIOUS
<1> QED
  BY <1>1, <1>2, <1>3, <1>4, <1>5, <1>6
  DEF OtherPacket, UnknownNotify, AbnormalPacket, Refusal, RequestTimedOut,
      PeerWentSilent, ZeroTimerFired

\* The answer to the request, decodable or not: the request is cleared first and
\* replied to last.
LEMMA AnswersKeep ==
    ASSUME NEW c \in Connections, NEW now \in BOOLEAN, c.currentRequest # Invalid
    PROVE  Keeps(c, Answer(c)) /\ Keeps(c, MalformedAnswer(c, now))
<1> DEFINE b == Replied(c)
           rs == Append(c.replies, c.currentRequest)
<1>1. /\ b \in Connections /\ b.currentRequest = Invalid /\ b.left = c.left
      /\ b.replies = c.replies /\ b.socket = c.socket /\ b.online = c.online
  BY DEF Replied, Heard, Connections
<1>2. rs \in Seq(RequestIds)
  BY DEF Connections
<1> HIDE DEF b, rs
<1>3. ASSUME NEW e, Keeps(b, e)
      PROVE  Keeps(c, [e EXCEPT !.replies = Append(@, c.currentRequest)])
  <2> DEFINE d == [e EXCEPT !.replies = rs]
  <2>1. e.replies = c.replies /\ e.currentRequest = Invalid /\ e \in Connections
    BY <1>1, <1>3 DEF Keeps
  <2>2. [e EXCEPT !.replies = Append(@, c.currentRequest)] = d
    BY <2>1 DEF rs
  <2>3. /\ d \in Connections /\ d.replies = rs /\ d.currentRequest = Invalid
        /\ d.left = e.left /\ d.socket = e.socket /\ d.online = e.online
    BY <1>2, <2>1 DEF Connections
  <2> HIDE DEF d
  <2>4. Keeps(c, d)
    BY <1>1, <1>3, <2>3 DEF Keeps, rs
  <2> QED
    BY <2>2, <2>4
<1>4. Keeps(b, b) /\ Keeps(b, SetError(b, now))
  BY <1>1, TimersKeep, SetErrorKeeps
<1> QED
  BY <1>3, <1>4 DEF Answer, MalformedAnswer, b

\* A new request, when there is none: it is kept, or answered at once when it could
\* not be written.
LEMMA AddRequestKeeps ==
    ASSUME NEW c \in Connections, NEW r \in RequestIds, NEW lost \in BOOLEAN
    PROVE  Keeps([c EXCEPT !.currentRequest = r], AddRequest(c, r, lost))
<1> DEFINE a == [c EXCEPT !.currentRequest = r]
           sent == IF lost THEN OnSocketDisconnected(a) ELSE a
<1>1. a \in Connections /\ a.zeroTimers \in Nat /\ a.socket = c.socket
  BY DEF Connections
<1>2. CASE c.socket = "none"
  <2> HIDE DEF a
  <2>0. a.zeroTimers + 1 \in Nat
    BY <1>1
  <2>1. Keeps(a, [a EXCEPT !.zeroTimers = a.zeroTimers + 1])
    BY <1>1, <2>0, TimersKeep
  <2>2. AddRequest(c, r, lost) = [a EXCEPT !.zeroTimers = a.zeroTimers + 1]
    BY <1>2 DEF AddRequest, a
  <2> QED
    BY <2>1, <2>2 DEF a
<1>3. CASE c.socket # "none"
  <2>1. Keeps(a, sent)
    <3> HIDE DEF a
    <3> QED
      BY <1>1, DisconnectedKeeps, TimersKeep
  <2>2. AddRequest(c, r, lost)
          = [sent EXCEPT !.requestTimer = @ \/ RequestTimeoutEnabled]
    BY <1>3 DEF AddRequest
  <2> HIDE DEF sent, a
  <2> DEFINE t == sent.requestTimer \/ RequestTimeoutEnabled
  <2>3. AddRequest(c, r, lost) = [sent EXCEPT !.requestTimer = t]
    BY <2>2
  <2>4. sent \in Connections
    BY <2>1 DEF Keeps
  <2>5. t \in BOOLEAN
    OBVIOUS
  <2> HIDE DEF t
  <2>6. Keeps(sent, [sent EXCEPT !.requestTimer = t])
    BY <2>4, <2>5, TimersKeep
  <2> QED
    BY <2>1, <2>3, <2>6, KeepsTrans DEF a
<1> QED
  BY <1>2, <1>3 DEF a

-----------------------------------------------------------------------------
(* Requests in their places. *)

\* The replies of p among the posted calls, the requests to p among the signals.
Going(p) == {m \in PostedCalls : m.call = "reply" /\ m.player = p}
Coming(p) == {m \in PostedSignals : m.signal = "request" /\ p \in m.to}

Owed(c) == IF c.currentRequest = Invalid THEN 0 ELSE 1

\* Which of the calls is a reply, and whose.
LEMMA CallTypes ==
    ASSUME NEW p \in Name, NEW q \in Name
    PROVE  /\ AddPlayer(p) \in PostedCalls \ Going(q)
           /\ RemovePlayer(p) \in PostedCalls \ Going(q)
           /\ RoundStart \in PostedCalls \ Going(q)
           /\ \A r \in RequestIds :
                 /\ ReplyOf(p, r) \in PostedCalls
                 /\ ReplyOf(p, r) \in Going(q) <=> p = q
           /\ AddPlayer(p).call # "reply" /\ RemovePlayer(p).call # "reply"
           /\ RoundStart.call # "reply"
BY DEF AddPlayer, RemovePlayer, RoundStart, ReplyOf, PostedCalls, Going

\* Departures are posted, and no reply with them.
LEMMA RemovesPosted ==
    ASSUME NEW left \in SUBSET Name, NEW q,
           q = [i \in 1..Cardinality(left) |-> RemovePlayer(InNameOrder(left)[i])]
    PROVE  /\ q \in Seq(PostedCalls)
           /\ \A p \in Name : HitCount(q, Going(p)) = 0
           /\ \A i \in DOMAIN q : q[i].call # "reply"
<1> DEFINE n == Cardinality(left)
           e(i) == RemovePlayer(InNameOrder(left)[i])
<1>1. n \in Nat /\ \A i \in 1..n : InNameOrder(left)[i] \in Name
  BY NameOrder
<1>2. \A i \in 1..n : /\ e(i) \in PostedCalls /\ e(i).call # "reply"
                      /\ \A p \in Name : e(i) \notin Going(p)
  BY <1>1, CallTypes
<1> HIDE DEF n, e
<1>3. q = [i \in 1..n |-> e(i)]
  BY DEF n, e
<1>4. q \in Seq(PostedCalls) /\ DOMAIN q = 1..n
  <2>1. q \in [1..n -> PostedCalls]
    BY <1>2, <1>3
  <2>2. n \in Nat
    BY <1>1
  <2> QED
    BY <2>1, <2>2, TupleType
<1>5. \A i \in DOMAIN q : q[i].call # "reply" /\ \A p \in Name : q[i] \notin Going(p)
  BY <1>2, <1>3, <1>4
<1> QED
  BY <1>4, <1>5, HitsType

\* The reply of each connection that has emitted one is posted, once.
LEMMA RepliesPosted ==
    ASSUME NEW cs, OneReplyEach(cs)
    PROVE  /\ Replies(cs) \in Seq(PostedCalls)
           /\ \A p \in Name : HitCount(Replies(cs), Going(p))
                                = IF cs[p].replies = <<>> THEN 0 ELSE 1
           /\ \A i \in DOMAIN Replies(cs) : \E p \in Name :
                 /\ cs[p].replies # <<>>
                 /\ Replies(cs)[i] = ReplyOf(p, cs[p].replies[1])
<1> DEFINE s == Repliers(cs)
           n == Cardinality(s)
           name(i) == InNameOrder(s)[i]
           q == Replies(cs)
<1>1. /\ s \in SUBSET Name /\ n \in Nat
      /\ \A i \in 1..n : name(i) \in s
      /\ \A x \in s : \E i \in 1..n : name(i) = x
      /\ \A i, j \in 1..n : name(i) = name(j) => i = j
  BY NameOrder DEF Repliers
<1>2. q = [i \in 1..n |-> ReplyOf(name(i), cs[name(i)].replies[1])]
  BY RepliesShape DEF RepliesInOrder
<1>3. \A p \in s : cs[p].replies[1] \in RequestIds
  BY DEF OneReplyEach, Repliers
<1>4. \A p \in Name : p \in s <=> cs[p].replies # <<>>
  BY DEF Repliers
<1> HIDE DEF s, n, name, q
<1>5. \A i \in 1..n : /\ q[i] \in PostedCalls
                      /\ \A p \in Name : q[i] \in Going(p) <=> p = name(i)
  BY <1>1, <1>2, <1>3, CallTypes
<1>6. q \in Seq(PostedCalls) /\ DOMAIN q = 1..n
  <2>1. q \in [1..n -> PostedCalls]
    BY <1>2, <1>5
  <2> QED
    BY <1>1, <2>1
<1>7. ASSUME NEW p \in Name
      PROVE  HitCount(q, Going(p)) = IF cs[p].replies = <<>> THEN 0 ELSE 1
  <2>1. CASE p \in s
    <3>1. PICK k \in 1..n : name(k) = p
      BY <1>1, <2>1
    <3>2. q[k] \in Going(p) /\ \A i \in 1..n : q[i] \in Going(p) => i = k
      BY <1>1, <1>5, <3>1
    <3>3. HitCount(q, Going(p)) = 1
      BY <1>6, <3>2, HitsOnce
    <3> QED
      BY <1>4, <2>1, <3>3
  <2>2. CASE p \notin s
    <3>1. \A i \in DOMAIN q : q[i] \notin Going(p)
      BY <1>1, <1>5, <1>6, <2>2
    <3>2. HitCount(q, Going(p)) = 0
      BY <1>6, <3>1, HitsType
    <3> QED
      BY <1>4, <2>2, <3>2
  <2> QED
    BY <2>1, <2>2
<1>8. ASSUME NEW i \in DOMAIN q
      PROVE  \E p \in Name : /\ cs[p].replies # <<>>
                             /\ q[i] = ReplyOf(p, cs[p].replies[1])
  <2>1. name(i) \in s /\ name(i) \in Name
    BY <1>1, <1>6
  <2>2. q[i] = ReplyOf(name(i), cs[name(i)].replies[1])
    BY <1>2, <1>6
  <2> QED
    BY <1>4, <2>1, <2>2
<1> QED
  BY <1>6, <1>7, <1>8 DEF q

\* The replies among the calls in q are to r.
RepliesAre(q, r) ==
    \A i \in DOMAIN q : q[i].call = "reply" => q[i].request = r

\* The connections before an event, quiet.
Still(base) ==
    \A p \in Name : base[p].replies = <<>> /\ ~base[p].left

\* Settle posts the answer of every request that an event has answered, and nothing
\* else of the kind: what is owed and what is under way add up as before.
LEMMA SettlePosts ==
    ASSUME toLogic \in Seq(PostedCalls), NEW room \in SUBSET Name,
           NEW base, NEW cs, NEW after \in Seq(PostedCalls),
           Still(base), \A p \in Name : Keeps(base[p], cs[p]),
           Settle(room, cs, after)
    PROVE  /\ toLogic' \in Seq(PostedCalls)
           /\ \A p \in Name :
                 /\ HitCount(toLogic', Going(p)) + Owed(conn'[p])
                      = HitCount(toLogic, Going(p)) + Owed(base[p])
                          + HitCount(after, Going(p))
                 /\ conn'[p].currentRequest \in {Invalid, base[p].currentRequest}
           /\ \A r : /\ RepliesAre(toLogic, r) /\ RepliesAre(after, r)
                     /\ \A p \in Name : base[p].currentRequest \in {Invalid, r}
                     => RepliesAre(toLogic', r)
<1> DEFINE gone == {p \in room : cs[p].left}
           left == IF Full(room) THEN {} ELSE gone
           removes == [i \in 1..Cardinality(left) |->
                          RemovePlayer(InNameOrder(left)[i])]
           replies == Replies(cs)
<1>1. \A p \in Name :
         \/ /\ cs[p].replies = <<>>
            /\ cs[p].currentRequest = base[p].currentRequest
         \/ /\ base[p].currentRequest # Invalid
            /\ base[p].currentRequest \in RequestIds
            /\ cs[p].replies = <<base[p].currentRequest>>
            /\ cs[p].currentRequest = Invalid
  <2> SUFFICES ASSUME NEW p \in Name
               PROVE  \/ /\ cs[p].replies = <<>>
                         /\ cs[p].currentRequest = base[p].currentRequest
                      \/ /\ base[p].currentRequest # Invalid
                         /\ base[p].currentRequest \in RequestIds
                         /\ cs[p].replies = <<base[p].currentRequest>>
                         /\ cs[p].currentRequest = Invalid
    OBVIOUS
  <2>1. Keeps(base[p], cs[p]) /\ base[p].replies = <<>>
    BY DEF Still
  <2>2. base[p].currentRequest \in RequestIds \cup {Invalid}
    BY <2>1 DEF Keeps, Connections
  <2>3. Append(<<>>, base[p].currentRequest) = <<base[p].currentRequest>>
    OBVIOUS
  <2> QED
    BY <2>1, <2>2, <2>3 DEF Keeps
<1>2. OneReplyEach(cs)
  BY <1>1 DEF OneReplyEach
<1>3. /\ toLogic' = ((toLogic \o removes) \o replies) \o after
      /\ conn' = [p \in Name |-> IF p \in left THEN NoConnection ELSE Quiet(cs[p])]
  BY DEF Settle
<1>4. left \in SUBSET Name /\ \A p \in left : cs[p].left
  OBVIOUS
<1> HIDE DEF left
<1>5. /\ removes \in Seq(PostedCalls)
      /\ \A p \in Name : HitCount(removes, Going(p)) = 0
      /\ \A i \in DOMAIN removes : removes[i].call # "reply"
  BY <1>4, RemovesPosted
<1>6. /\ replies \in Seq(PostedCalls)
      /\ \A p \in Name : HitCount(replies, Going(p))
                           = IF cs[p].replies = <<>> THEN 0 ELSE 1
      /\ \A i \in DOMAIN replies : \E p \in Name :
            /\ cs[p].replies # <<>>
            /\ replies[i] = ReplyOf(p, cs[p].replies[1])
  BY <1>2, RepliesPosted
<1> HIDE DEF removes, replies
<1> DEFINE a == toLogic \o removes
           b == a \o replies
<1>7. /\ a \in Seq(PostedCalls)
      /\ \A i \in DOMAIN a : \/ \E j \in DOMAIN toLogic : a[i] = toLogic[j]
                             \/ \E j \in DOMAIN removes : a[i] = removes[j]
      /\ \A p \in Name : HitCount(a, Going(p))
            = HitCount(toLogic, Going(p)) + HitCount(removes, Going(p))
  BY <1>5, HitsParts, HitsConcat
<1> HIDE DEF a
<1>8. /\ b \in Seq(PostedCalls)
      /\ \A i \in DOMAIN b : \/ \E j \in DOMAIN a : b[i] = a[j]
                             \/ \E j \in DOMAIN replies : b[i] = replies[j]
      /\ \A p \in Name : HitCount(b, Going(p))
            = HitCount(a, Going(p)) + HitCount(replies, Going(p))
  BY <1>6, <1>7, HitsParts, HitsConcat
<1> HIDE DEF b
<1>9. toLogic' = b \o after
  BY <1>3 DEF a, b
<1>10. /\ toLogic' \in Seq(PostedCalls)
       /\ \A i \in DOMAIN toLogic' : \/ \E j \in DOMAIN b : toLogic'[i] = b[j]
                                     \/ \E j \in DOMAIN after : toLogic'[i] = after[j]
       /\ \A p \in Name : HitCount(toLogic', Going(p))
             = HitCount(b, Going(p)) + HitCount(after, Going(p))
  BY <1>8, <1>9, HitsParts, HitsConcat
<1>11. ASSUME NEW p \in Name
       PROVE  conn'[p].currentRequest = cs[p].currentRequest
  <2>1. CASE p \in left
    <3>1. cs[p].currentRequest = Invalid
      BY <1>4, <2>1 DEF Keeps, Still
    <3> QED
      BY <1>3, <2>1, <3>1 DEF NoConnection
  <2>2. CASE p \notin left
    <3>1. cs[p] \in Connections
      BY DEF Keeps
    <3>2. conn'[p] = Quiet(cs[p])
      BY <1>3, <2>2
    <3> QED
      BY <3>1, <3>2 DEF Quiet, Connections
  <2> QED
    BY <2>1, <2>2
<1>12. ASSUME NEW p \in Name
       PROVE  /\ HitCount(toLogic', Going(p)) + Owed(conn'[p])
                   = HitCount(toLogic, Going(p)) + Owed(base[p])
                       + HitCount(after, Going(p))
              /\ conn'[p].currentRequest \in {Invalid, base[p].currentRequest}
  <2>1. /\ HitCount(toLogic, Going(p)) \in Nat /\ HitCount(after, Going(p)) \in Nat
    BY HitsType
  <2>2. /\ HitCount(removes, Going(p)) = 0
        /\ HitCount(a, Going(p)) = HitCount(toLogic, Going(p))
                                     + HitCount(removes, Going(p))
        /\ HitCount(b, Going(p)) = HitCount(a, Going(p)) + HitCount(replies, Going(p))
        /\ HitCount(toLogic', Going(p)) = HitCount(b, Going(p))
                                            + HitCount(after, Going(p))
    BY <1>5, <1>7, <1>8, <1>10
  <2>3. HitCount(replies, Going(p)) = IF cs[p].replies = <<>> THEN 0 ELSE 1
    BY <1>6
  <2>4. HitCount(replies, Going(p)) + Owed(conn'[p]) = Owed(base[p])
        /\ HitCount(replies, Going(p)) \in Nat /\ Owed(conn'[p]) \in Nat
    <3> DEFINE r == base[p].currentRequest
    <3>1. <<r>> # <<>>
      OBVIOUS
    <3>2. conn'[p].currentRequest = cs[p].currentRequest
      BY <1>11
    <3>3. CASE cs[p].replies = <<>> /\ cs[p].currentRequest = r
      BY <2>3, <3>2, <3>3 DEF Owed
    <3>4. CASE /\ r # Invalid /\ cs[p].replies = <<r>>
               /\ cs[p].currentRequest = Invalid
      <4>1. cs[p].replies # <<>>
        BY <3>1, <3>4
      <4>2. HitCount(replies, Going(p)) = 1
        BY <2>3, <4>1
      <4> QED
        BY <3>2, <3>4, <4>2 DEF Owed
    <3> QED
      BY <1>1, <3>3, <3>4
  <2>5. conn'[p].currentRequest \in {Invalid, base[p].currentRequest}
    BY <1>1, <1>11
  <2> QED
    BY <2>1, <2>2, <2>4, <2>5
<1>13. ASSUME NEW i \in DOMAIN toLogic', toLogic'[i].call = "reply"
       PROVE  \/ \E j \in DOMAIN toLogic : toLogic'[i] = toLogic[j]
              \/ \E j \in DOMAIN after : toLogic'[i] = after[j]
              \/ \E p \in Name :
                    /\ base[p].currentRequest # Invalid
                    /\ toLogic'[i] = ReplyOf(p, base[p].currentRequest)
  <2>1. CASE \E j \in DOMAIN replies : toLogic'[i] = replies[j]
    <3>1. PICK p \in Name : /\ cs[p].replies # <<>>
                            /\ toLogic'[i] = ReplyOf(p, cs[p].replies[1])
      BY <1>6, <2>1
    <3>2. base[p].currentRequest # Invalid
          /\ cs[p].replies = <<base[p].currentRequest>>
      BY <1>1, <3>1
    <3>3. cs[p].replies[1] = base[p].currentRequest
      BY <3>2
    <3> QED
      BY <3>1, <3>2, <3>3
  <2>2. CASE \E j \in DOMAIN removes : toLogic'[i] = removes[j]
    BY <1>5, <1>13, <2>2
  <2>3. CASE \E k \in DOMAIN a : toLogic'[i] = a[k]
    <3>1. PICK k \in DOMAIN a : toLogic'[i] = a[k]
      BY <2>3
    <3>2. \/ \E j \in DOMAIN toLogic : a[k] = toLogic[j]
          \/ \E j \in DOMAIN removes : a[k] = removes[j]
      BY <1>7
    <3> QED
      BY <2>2, <3>1, <3>2
  <2>4. CASE \E k \in DOMAIN b : toLogic'[i] = b[k]
    <3>1. PICK k \in DOMAIN b : toLogic'[i] = b[k]
      BY <2>4
    <3>2. \/ \E j \in DOMAIN a : b[k] = a[j]
          \/ \E j \in DOMAIN replies : b[k] = replies[j]
      BY <1>8
    <3> QED
      BY <2>1, <2>3, <3>1, <3>2
  <2> QED
    BY <1>10, <2>4
<1>14. ASSUME NEW r, RepliesAre(toLogic, r), RepliesAre(after, r),
              \A p \in Name : base[p].currentRequest \in {Invalid, r}
       PROVE  RepliesAre(toLogic', r)
  <2>1. ASSUME NEW i \in DOMAIN toLogic', toLogic'[i].call = "reply"
        PROVE  toLogic'[i].request = r
    <3>1. CASE \E p \in Name : /\ base[p].currentRequest # Invalid
                               /\ toLogic'[i] = ReplyOf(p, base[p].currentRequest)
      BY <1>14, <3>1 DEF ReplyOf
    <3> QED
      BY <1>13, <1>14, <2>1, <3>1 DEF RepliesAre
  <2> QED
    BY <2>1 DEF RepliesAre
<1> QED
  BY <1>10, <1>12, <1>14

\* A connection that has emitted nothing is quiet, and so is none.
LEMMA NoConnectionQuiet ==
    /\ \A c \in Connections :
          /\ c = Quiet(c) <=> c.replies = <<>> /\ ~c.left
          /\ Quiet(c) \in Connections /\ Quiet(c).socket = c.socket
          /\ Quiet(c).online = c.online /\ Quiet(c).currentRequest = c.currentRequest
    /\ NoConnection \in Connections /\ NoConnection = Quiet(NoConnection)
<1>1. ASSUME NEW c \in Connections
      PROVE  /\ Quiet(c).socket = c.socket /\ Quiet(c).online = c.online
             /\ Quiet(c).currentRequest = c.currentRequest
             /\ Quiet(c).replies = <<>> /\ Quiet(c).left = FALSE
  BY DEF Connections, Quiet
<1>2. ASSUME NEW c \in Connections, c.replies = <<>>, ~c.left
      PROVE  c = Quiet(c)
  <2>1. c.left = FALSE
    BY <1>2 DEF Connections
  <2> QED
    BY <1>2, <2>1 DEF Connections, Quiet
<1>3. ASSUME NEW c \in Connections PROVE Quiet(c) \in Connections
  <2>1. <<>> \in Seq(RequestIds)
    OBVIOUS
  <2> QED
    BY <2>1 DEF Quiet, Connections
<1>4. /\ NoConnection \in Connections /\ NoConnection.replies = <<>>
      /\ ~NoConnection.left
  <2>1. NoConnection \in Connections
    BY NoConnectionSound DEF Sound
  <2>2. NoConnection.replies = <<>> /\ ~NoConnection.left
    BY DEF NoConnection
  <2> QED
    BY <2>1, <2>2
<1>5. \A c \in Connections : c = Quiet(c) => c.replies = <<>> /\ ~c.left
  BY <1>1
<1> QED
  BY <1>1, <1>2, <1>3, <1>4, <1>5

\* What Settle makes of seats and connections.
LEMMA SettleSeats ==
    ASSUME NEW room \in SUBSET Name, NEW cs, NEW after,
           \A p \in Name : cs[p] \in Connections,
           Settle(room, cs, after)
    PROVE  /\ agents' \in SUBSET room /\ over' \in {over, "gameOver"}
           /\ Full(room) => agents' = room
           /\ \A p \in Name :
                 /\ conn'[p] = Quiet(conn'[p])
                 /\ p \in room \ agents' => conn'[p] = NoConnection
                 /\ p \notin room \ agents' => conn'[p] = Quiet(cs[p])
<1> DEFINE gone == {p \in room : cs[p].left}
           left == IF Full(room) THEN {} ELSE gone
<1>1. /\ agents' = room \ left /\ left \in SUBSET room
      /\ Full(room) => left = {}
      /\ conn' = [p \in Name |-> IF p \in left THEN NoConnection ELSE Quiet(cs[p])]
      /\ over' \in {over, "gameOver"}
  BY DEF Settle
<1>2. /\ \A c \in Connections : Quiet(c) = Quiet(Quiet(c))
      /\ NoConnection = Quiet(NoConnection)
  <2>1. ASSUME NEW c \in Connections PROVE Quiet(c) = Quiet(Quiet(c))
    BY DEF Connections, Quiet
  <2>2. NoConnection = Quiet(NoConnection)
    BY NoConnectionQuiet
  <2> QED
    BY <2>1, <2>2
<1> HIDE DEF left
<1>3. room \ agents' = left
  BY <1>1
<1>4. \A p \in Name : /\ p \in left => conn'[p] = NoConnection
                      /\ p \notin left => conn'[p] = Quiet(cs[p])
  BY <1>1
<1> QED
  BY <1>1, <1>2, <1>3, <1>4


\* The logic's cardinality is everybody's.
LEMMA SameCardinality == \A S : Logic!Cardinality(S) = Cardinality(S)
BY DEF Logic!Cardinality, Cardinality

\* What the logic emits as it enters a phase asks each player named, once, for what
\* the phase asks for.
LEMMA EmittedPosted ==
    ASSUME NEW next \in Logic!Running, NEW s \in SUBSET Name, s # {}
    PROVE  /\ Emitted(next, s) \in Seq(PostedSignals)
           /\ \A p \in Name : HitCount(Emitted(next, s), Coming(p))
                                = IF p \in s THEN 1 ELSE 0
           /\ \A i \in DOMAIN Emitted(next, s) :
                 /\ Emitted(next, s)[i].signal = "request"
                 /\ Emitted(next, s)[i].request = Logic!RequestOf(next)
<1> DEFINE q == Emitted(next, s)
           r == Logic!RequestOf(next)
<1>1. r \in RequestIds
  BY DEF Logic!RequestOf, Logic!Running, RequestIds
<1>2. ASSUME NEW t \in SUBSET Name, t # {}
      PROVE  /\ Request(t, r) \in PostedSignals
             /\ Request(t, r).signal = "request" /\ Request(t, r).request = r
             /\ \A p \in Name : Request(t, r) \in Coming(p) <=> p \in t
  <2> DEFINE m == Request(t, r)
  <2>1. m.signal = "request" /\ m.to = t /\ m.request = r
    BY DEF Request
  <2>2. m \in [signal: {"request"}, to: (SUBSET Name) \ {{}}, request: RequestIds]
    BY <1>1, <1>2 DEF Request
  <2> HIDE DEF m
  <2>3. m \in PostedSignals
    BY <2>2 DEF PostedSignals
  <2>4. \A p \in Name : m \in Coming(p) <=> p \in t
    BY <2>1, <2>3 DEF Coming
  <2> QED
    BY <2>1, <2>3, <2>4 DEF m
<1>3. CASE next \in {"RpsForAction", "RpsForActionOrder"}
  <2> DEFINE m == Request(s, r)
  <2>1. q = <<m>>
    BY <1>3 DEF Emitted, Logic!RequestOf
  <2>2. /\ m \in PostedSignals /\ m.signal = "request" /\ m.request = r
        /\ \A p \in Name : m \in Coming(p) <=> p \in s
    BY <1>2
  <2> HIDE DEF m, q
  <2>3. \A p \in Name : HitCount(<<m>>, Coming(p)) = IF p \in s THEN 1 ELSE 0
    BY <2>2, HitsSingle
  <2>4. <<m>> \in Seq(PostedSignals) /\ \A i \in DOMAIN <<m>> : <<m>>[i] = m
    BY <2>2
  <2> QED
    BY <2>1, <2>2, <2>3, <2>4 DEF q
<1>4. CASE next \notin {"RpsForAction", "RpsForActionOrder"}
  <2> DEFINE n == Cardinality(s)
             name(i) == InNameOrder(s)[i]
             e(i) == Request({name(i)}, r)
  <2>1. /\ n \in Nat /\ \A i \in 1..n : name(i) \in s
        /\ \A x \in s : \E i \in 1..n : name(i) = x
        /\ \A i, j \in 1..n : name(i) = name(j) => i = j
    BY NameOrder
  <2>2. q = [i \in 1..n |-> e(i)]
    BY <1>4 DEF Emitted, Logic!RequestOf
  <2>3. \A i \in 1..n : /\ e(i) \in PostedSignals /\ e(i).signal = "request"
                        /\ e(i).request = r
                        /\ \A p \in Name : e(i) \in Coming(p) <=> p = name(i)
    BY <1>2, <2>1
  <2> HIDE DEF n, name, e, q
  <2>4. q \in [1..n -> PostedSignals]
    BY <2>2, <2>3
  <2>5. q \in Seq(PostedSignals) /\ DOMAIN q = 1..n
    BY <2>1, <2>4, TupleType
  <2>6. \A i \in 1..n : q[i] = e(i)
    BY <2>2
  <2>7. ASSUME NEW p \in Name
        PROVE  HitCount(q, Coming(p)) = IF p \in s THEN 1 ELSE 0
    <3>1. CASE p \in s
      <4>1. PICK k \in 1..n : name(k) = p
        BY <2>1, <3>1
      <4>2. q[k] \in Coming(p) /\ \A i \in DOMAIN q : q[i] \in Coming(p) => i = k
        BY <2>1, <2>3, <2>5, <2>6, <4>1
      <4>3. HitCount(q, Coming(p)) = 1
        BY <2>5, <4>2, HitsOnce
      <4> QED
        BY <3>1, <4>3
    <3>2. CASE p \notin s
      <4>1. \A i \in DOMAIN q : q[i] \notin Coming(p)
        BY <2>1, <2>3, <2>5, <2>6, <3>2
      <4>2. HitCount(q, Coming(p)) = 0
        BY <2>5, <4>1, HitsType
      <4> QED
        BY <3>2, <4>2
    <3> QED
      BY <3>1, <3>2
  <2> QED
    BY <2>3, <2>5, <2>6, <2>7 DEF q
<1> QED
  BY <1>3, <1>4

\* How many places the request to p is in.
Places(p) ==
    HitCount(toRunner, Coming(p)) + HitCount(toLogic, Going(p)) + Owed(conn[p])

\* One for each player asked, none for the others, and each is the request of the
\* phase.
OnTheWay ==
    LET r == Logic!RequestOf(phase) IN
    /\ \A p \in Name : /\ Places(p) = IF p \in asked THEN 1 ELSE 0
                       /\ conn[p].currentRequest \in {Invalid, r}
    /\ \A i \in DOMAIN toRunner :
          toRunner[i].signal = "request" => toRunner[i].request = r
    /\ RepliesAre(toLogic, r)

\* The inductive invariant behind OneAnswerPerRequest.  A phase takes all replies it
\* waits for before the next one asks, which for an action, taken as soon as it
\* comes, needs that one player is asked; and who joins finds no trace of an earlier
\* life, which needs that a player without a seat has no connection.
MailInv ==
    /\ TypeOK
    /\ \A p \in Name \ agents : conn[p] = NoConnection
    /\ asked \subseteq players
    /\ phase = Logic!Idle => asked = {}
    /\ phase = "Action" => \E p : asked = {p}
    /\ Alive => OnTheWay

\* Before its handlers run, an event has made the connections base: what they owe
\* more has been taken from the queue of signals.
Asks(base) ==
    /\ toRunner' \in Seq(PostedSignals)
    /\ \A i \in DOMAIN toRunner' : \E j \in DOMAIN toRunner :
          toRunner'[i] = toRunner[j]
    /\ \A p \in Name :
          /\ base[p].currentRequest \in {Invalid, Logic!RequestOf(phase)}
          /\ HitCount(toRunner', Coming(p)) + Owed(base[p])
               = HitCount(toRunner, Coming(p)) + Owed(conn[p])
    /\ UNCHANGED <<players, phase, asked>>

\* The calls in q are no replies.
NoReplies(q) == \A i \in DOMAIN q : q[i].call # "reply"

\* An event keeps the requests in their places.
LEMMA SettleMail ==
    ASSUME MailInv, Alive, conn' \in [Name -> Connections],
           NEW room \in SUBSET Name, NEW base, NEW cs, NEW after \in Seq(PostedCalls),
           Still(base), \A p \in Name : Keeps(base[p], cs[p]),
           \A p \in Name \ room : cs[p] = NoConnection,
           Asks(base), NoReplies(after),
           Settle(room, cs, after)
    PROVE  MailInv'
<1> DEFINE r == Logic!RequestOf(phase)
<1>1. /\ toLogic \in Seq(PostedCalls) /\ toRunner \in Seq(PostedSignals)
      /\ \A p \in Name : cs[p] \in Connections
  BY DEF MailInv, TypeOK, Keeps
<1>2. /\ toLogic' \in Seq(PostedCalls)
      /\ \A p \in Name :
            /\ HitCount(toLogic', Going(p)) + Owed(conn'[p])
                 = HitCount(toLogic, Going(p)) + Owed(base[p])
                     + HitCount(after, Going(p))
            /\ conn'[p].currentRequest \in {Invalid, base[p].currentRequest}
      /\ \A x : /\ RepliesAre(toLogic, x) /\ RepliesAre(after, x)
                /\ \A p \in Name : base[p].currentRequest \in {Invalid, x}
                => RepliesAre(toLogic', x)
  BY <1>1, SettlePosts
<1>3. /\ agents' \in SUBSET room /\ over' \in {over, "gameOver"}
      /\ \A p \in Name :
            /\ conn'[p] = Quiet(conn'[p])
            /\ p \in room \ agents' => conn'[p] = NoConnection
            /\ p \notin room \ agents' => conn'[p] = Quiet(cs[p])
  BY <1>1, SettleSeats
<1>4. TypeOK'
  BY <1>2, <1>3 DEF MailInv, TypeOK, Asks
<1>5. \A p \in Name \ agents' : conn'[p] = NoConnection
  BY <1>3, NoConnectionQuiet
<1>6. ASSUME NEW p \in Name
      PROVE  /\ Places(p)' = IF p \in asked THEN 1 ELSE 0
             /\ conn'[p].currentRequest \in {Invalid, r}
  <2>1. HitCount(after, Going(p)) = 0
    <3>1. \A i \in DOMAIN after : after[i] \notin Going(p)
      BY DEF Going, NoReplies
    <3> QED
      BY <3>1, HitsType
  <2>2. /\ HitCount(toRunner', Coming(p)) \in Nat
        /\ HitCount(toRunner, Coming(p)) \in Nat
        /\ HitCount(toLogic', Going(p)) \in Nat /\ HitCount(toLogic, Going(p)) \in Nat
    BY <1>1, <1>2, HitsType DEF Asks
  <2>3. Owed(base[p]) \in Nat /\ Owed(conn[p]) \in Nat /\ Owed(conn'[p]) \in Nat
    BY DEF Owed
  <2>4. HitCount(toRunner', Coming(p)) + HitCount(toLogic', Going(p)) + Owed(conn'[p])
          = HitCount(toRunner, Coming(p)) + HitCount(toLogic, Going(p)) + Owed(conn[p])
    <3>1. HitCount(toLogic', Going(p)) + Owed(conn'[p])
            = HitCount(toLogic, Going(p)) + Owed(base[p]) + HitCount(after, Going(p))
      BY <1>2
    <3>2. HitCount(toRunner', Coming(p)) + Owed(base[p])
            = HitCount(toRunner, Coming(p)) + Owed(conn[p])
      BY DEF Asks
    <3> DEFINE a == HitCount(toLogic', Going(p))
               b == HitCount(toLogic, Going(p))
               c == HitCount(toRunner', Coming(p))
               d == HitCount(toRunner, Coming(p))
               x == Owed(base[p])
               y == Owed(conn[p])
               z == Owed(conn'[p])
    <3>3. a + z = b + x + 0 /\ c + x = d + y
      BY <2>1, <3>1, <3>2
    <3>4. /\ a \in Nat /\ b \in Nat /\ c \in Nat /\ d \in Nat
          /\ x \in Nat /\ y \in Nat /\ z \in Nat
      BY <2>2, <2>3
    <3> HIDE DEF a, b, c, d, x, y, z
    <3>5. c + a + z = d + b + y
      BY <3>3, <3>4
    <3> QED
      BY <3>5 DEF a, b, c, d, x, y, z
  <2>5. Places(p) = IF p \in asked THEN 1 ELSE 0
    BY DEF MailInv, OnTheWay
  <2> QED
    BY <1>2, <2>4, <2>5 DEF Places, Asks
<1>7. RepliesAre(toLogic', r)
  <2>1. RepliesAre(toLogic, r)
    BY DEF MailInv, OnTheWay
  <2>2. RepliesAre(after, r)
    BY DEF NoReplies, RepliesAre
  <2>3. \A p \in Name : base[p].currentRequest \in {Invalid, r}
    BY DEF Asks
  <2> QED
    BY <1>2, <2>1, <2>2, <2>3
<1>8. ASSUME NEW i \in DOMAIN toRunner', toRunner'[i].signal = "request"
      PROVE  toRunner'[i].request = r
  BY <1>8 DEF MailInv, OnTheWay, Asks
<1>9. Logic!RequestOf(phase)' = r
  BY DEF Logic!RequestOf, Asks
<1>10. OnTheWay'
  BY <1>6, <1>7, <1>8, <1>9 DEF OnTheWay, Asks
<1> QED
  BY <1>4, <1>5, <1>10 DEF MailInv, Asks


\* Between two events the connections are quiet, typed, and owe what the phase asks.
LEMMA StillAtRest ==
    ASSUME MailInv
    PROVE  /\ Still(conn)
           /\ \A p \in Name : conn[p] \in Connections /\ Keeps(conn[p], conn[p])
           /\ Alive /\ UNCHANGED <<players, phase, asked, toRunner>> => Asks(conn)
<1>1. \A p \in Name : conn[p] \in Connections /\ conn[p] = Quiet(conn[p])
  BY DEF MailInv, TypeOK
<1>2. Still(conn)
  BY <1>1, NoConnectionQuiet DEF Still
<1>3. \A p \in Name : Keeps(conn[p], conn[p])
  BY <1>1, TimersKeep
<1>4. ASSUME Alive, UNCHANGED <<players, phase, asked, toRunner>> PROVE Asks(conn)
  BY <1>4 DEF MailInv, TypeOK, OnTheWay, Asks
<1> QED
  BY <1>1, <1>2, <1>3, <1>4

\* An event of one player's connection.
LEMMA HandleMail ==
    ASSUME MailInv, conn' \in [Name -> Connections],
           NEW p \in agents, NEW c, Keeps(conn[p], c), Handle(p, c)
    PROVE  MailInv'
<1> DEFINE cs == [conn EXCEPT ![p] = c]
<1>1. /\ Alive /\ UNCHANGED <<players, phase, asked, toRunner>>
      /\ Settle(agents, cs, <<>>)
  BY DEF Handle
<1>2. agents \in SUBSET Name /\ p \in Name /\ conn \in [Name -> Connections]
  BY DEF MailInv, TypeOK
<1>3. \A q \in Name : Keeps(conn[q], cs[q])
  BY <1>2, StillAtRest
<1>4. \A q \in Name \ agents : cs[q] = NoConnection
  BY <1>2 DEF MailInv
<1>5. <<>> \in Seq(PostedCalls) /\ NoReplies(<<>>)
  BY DEF NoReplies
<1> DEFINE none == <<>>
<1> HIDE DEF cs, none
<1>6. Settle(agents, cs, none) /\ none \in Seq(PostedCalls) /\ NoReplies(none)
  BY <1>1, <1>5 DEF none
<1> QED
  BY <1>1, <1>2, <1>3, <1>4, <1>6, StillAtRest, SettleMail

\* Whatever a peer, the network or a timer does to a connection, its request stays
\* where it is or is answered, once.
LEMMA HandlersKeep ==
    ASSUME NEW p \in Name, conn[p] \in Connections,
           \/ Reconnect(p) \/ Packet(p) \/ SocketDisconnected(p)
           \/ RequestTimer(p) \/ HeartbeatDeadline(p) \/ ZeroTimer(p)
    PROVE  p \in agents /\ \E d : Keeps(conn[p], d) /\ Handle(p, d)
<1> DEFINE c == conn[p]
<1>2. CASE Reconnect(p)
  BY <1>2, TimersKeep DEF Reconnect
<1>3. /\ Keeps(c, OtherPacket(c)) /\ Keeps(c, Refusal(c))
      /\ \A now \in BOOLEAN :
            /\ Keeps(c, UnknownNotify(c, now)) /\ Keeps(c, AbnormalPacket(c, now))
            /\ Keeps(c, RequestTimedOut(c, now)) /\ Keeps(c, PeerWentSilent(c, now))
      /\ c.zeroTimers > 0 => Keeps(c, ZeroTimerFired(c))
  BY PacketsKeep
<1>4. CASE Packet(p)
  <2>1. c.currentRequest # Invalid =>
           /\ Keeps(c, Answer(c))
           /\ \A now \in BOOLEAN : Keeps(c, MalformedAnswer(c, now))
    BY AnswersKeep
  <2> HIDE DEF c
  <2> QED
    BY <1>3, <1>4, <2>1 DEF Packet, c
<1>5. CASE SocketDisconnected(p)
  BY <1>5, DisconnectedKeeps DEF SocketDisconnected
<1>6. CASE RequestTimer(p)
  BY <1>3, <1>6 DEF RequestTimer
<1>7. CASE HeartbeatDeadline(p)
  BY <1>3, <1>7 DEF HeartbeatDeadline
<1>8. CASE ZeroTimer(p)
  BY <1>3, <1>8 DEF ZeroTimer
<1> QED
  BY <1>2, <1>4, <1>5, <1>6, <1>7, <1>8

\* So the requests stay in their places.
LEMMA HandlersMail ==
    ASSUME MailInv, conn' \in [Name -> Connections], NEW p \in Name,
           \/ Reconnect(p) \/ Packet(p) \/ SocketDisconnected(p)
           \/ RequestTimer(p) \/ HeartbeatDeadline(p) \/ ZeroTimer(p)
    PROVE  MailInv'
<1>1. conn[p] \in Connections
  BY StillAtRest
<1> QED
  BY <1>1, HandlersKeep, HandleMail

\* A player who signs in owes nothing, and nothing is under way to or from it.
LEMMA JoinSettles ==
    ASSUME MailInv, NEW p \in Name, Join(p)
    PROVE  LET room == agents \cup {p}
               after == <<AddPlayer(p)>>
                          \o (IF Full(room) THEN <<RoundStart>> ELSE <<>>)
           IN  \E base, cs :
                  /\ Still(base) /\ \A q \in Name : Keeps(base[q], cs[q])
                  /\ \A q \in Name \ room : cs[q] = NoConnection
                  /\ \A q \in Name \ {p} : base[q] = conn[q]
                  /\ base[p].socket # "none" /\ base[p].online /\ Asks(base)
                  /\ ~EagerWriteFailure => cs[p] = base[p]
                  /\ \A q \in Name \ {p} : cs[q] = conn[q]
                  /\ after \in Seq(PostedCalls) /\ NoReplies(after)
                  /\ Settle(room, cs, after)
<1> DEFINE room == agents \cup {p}
           after == <<AddPlayer(p)>>
                      \o (IF Full(room) THEN <<RoundStart>> ELSE <<>>)
           bound == [SetSocket(NoConnection) EXCEPT !.online = TRUE]
           base == [conn EXCEPT ![p] = bound]
<1>1. PICK lost \in {FALSE, EagerWriteFailure} :
         Settle(room,
                [conn EXCEPT ![p] = IF lost THEN OnSocketDisconnected(bound)
                                    ELSE bound],
                after)
  BY DEF Join
<1>0. lost \in BOOLEAN
  BY RoomAssumption
<1> DEFINE c == IF lost THEN OnSocketDisconnected(bound) ELSE bound
           cs == [conn EXCEPT ![p] = c]
<1>2. /\ UNCHANGED <<players, phase, asked, toRunner>> /\ Alive
      /\ p \notin agents
  BY DEF Join, Alive
<1>3. /\ bound \in Connections /\ bound.replies = <<>> /\ ~bound.left
      /\ bound.currentRequest = Invalid
  <2>1. bound \in Connections
    BY NoConnectionSound, SetSocketSound DEF Sound
  <2> QED
    BY <2>1 DEF SetSocket, NoConnection
<1>4. conn[p] = NoConnection /\ NoConnection.currentRequest = Invalid
  BY <1>2 DEF MailInv, NoConnection
<1>13. bound.socket # "none" /\ bound.online
  BY DEF SetSocket, NoConnection
<1> HIDE DEF bound
<1>14. ~EagerWriteFailure => c = bound
  <2>1. ~EagerWriteFailure => ~lost
    BY <1>0
  <2> QED
    BY <2>1
<1>5. Keeps(bound, c)
  BY <1>3, DisconnectedKeeps, TimersKeep
<1> HIDE DEF c
<1>6. conn \in [Name -> Connections] /\ room \in SUBSET Name
  BY DEF MailInv, TypeOK
<1>7. Still(base) /\ \A q \in Name : Keeps(base[q], cs[q])
  BY <1>3, <1>5, <1>6, StillAtRest DEF Still
<1>8. \A q \in Name \ room : cs[q] = NoConnection
  BY <1>6 DEF MailInv
<1>9. Asks(base)
  <2>1. Asks(conn)
    BY <1>2, StillAtRest
  <2>2. \A q \in Name : base[q].currentRequest = conn[q].currentRequest
    BY <1>3, <1>4, <1>6
  <2> HIDE DEF base
  <2> QED
    BY <2>1, <2>2 DEF Asks, Owed
<1>10. after \in Seq(PostedCalls) /\ NoReplies(after)
  <2>1. /\ AddPlayer(p) \in PostedCalls /\ RoundStart \in PostedCalls
        /\ AddPlayer(p).call # "reply" /\ RoundStart.call # "reply"
    BY CallTypes
  <2> DEFINE a == <<AddPlayer(p)>>
             b == IF Full(room) THEN <<RoundStart>> ELSE <<>>
  <2>2. a \in Seq(PostedCalls) /\ NoReplies(a)
    BY <2>1 DEF NoReplies
  <2>3. b \in Seq(PostedCalls) /\ NoReplies(b)
    BY <2>1 DEF NoReplies
  <2>4. after = a \o b
    OBVIOUS
  <2> HIDE DEF a, b, after
  <2>5. a \o b \in Seq(PostedCalls) /\ NoReplies(a \o b)
    BY <2>2, <2>3, HitsParts DEF NoReplies
  <2> QED
    BY <2>4, <2>5
<1>11. Settle(room, cs, after)
  BY <1>1 DEF c
<1>15. /\ \A q \in Name \ {p} : base[q] = conn[q] /\ cs[q] = conn[q]
       /\ base[p] = bound /\ cs[p] = c
  BY <1>6
<1> HIDE DEF room, after, base, cs
<1>16. /\ Still(base) /\ \A q \in Name : Keeps(base[q], cs[q])
       /\ \A q \in Name \ room : cs[q] = NoConnection
       /\ \A q \in Name \ {p} : base[q] = conn[q]
       /\ base[p].socket # "none" /\ base[p].online /\ Asks(base)
       /\ ~EagerWriteFailure => cs[p] = base[p]
       /\ \A q \in Name \ {p} : cs[q] = conn[q]
       /\ after \in Seq(PostedCalls) /\ NoReplies(after)
       /\ Settle(room, cs, after)
  BY <1>7, <1>8, <1>9, <1>10, <1>11, <1>13, <1>14, <1>15
<1> QED
  BY <1>16 DEF room, after

\* So it leaves the requests in their places.
LEMMA JoinMail ==
    ASSUME MailInv, conn' \in [Name -> Connections], NEW p \in Name, Join(p)
    PROVE  MailInv'
<1> DEFINE room == agents \cup {p}
           after == <<AddPlayer(p)>>
                      \o (IF Full(room) THEN <<RoundStart>> ELSE <<>>)
<1>1. PICK base, cs :
         /\ Still(base) /\ \A q \in Name : Keeps(base[q], cs[q])
         /\ \A q \in Name \ room : cs[q] = NoConnection
         /\ Asks(base)
         /\ after \in Seq(PostedCalls) /\ NoReplies(after)
         /\ Settle(room, cs, after)
  BY JoinSettles
<1>2. Alive /\ room \in SUBSET Name
  BY DEF Join, Alive, MailInv, TypeOK
<1> HIDE DEF room, after
<1> QED
  BY <1>1, <1>2, SettleMail


\* With no request of anybody's on the way there is none on the way.
LEMMA NothingOnTheWay ==
    /\ \A q \in Seq(PostedCalls) :
          (\A p \in Name : HitCount(q, Going(p)) = 0) =>
             NoReplies(q) /\ \A r : RepliesAre(q, r)
    /\ \A q \in Seq(PostedSignals) :
          (\A p \in Name : HitCount(q, Coming(p)) = 0) =>
             \A i \in DOMAIN q : q[i].signal # "request"
<1>1. ASSUME NEW q \in Seq(PostedCalls),
             \A p \in Name : HitCount(q, Going(p)) = 0
      PROVE  NoReplies(q) /\ \A r : RepliesAre(q, r)
  <2>1. \A i \in DOMAIN q : q[i] \in PostedCalls
    OBVIOUS
  <2>2. \A p \in Name : \A i \in DOMAIN q : q[i] \notin Going(p)
    BY <1>1, HitsType
  <2>3. \A m \in PostedCalls : m.call = "reply" => m.player \in Name
    BY DEF PostedCalls, RoundStart
  <2>4. \A i \in DOMAIN q : q[i].call # "reply"
    BY <2>1, <2>2, <2>3 DEF Going
  <2> QED
    BY <2>4 DEF NoReplies, RepliesAre
<1>2. ASSUME NEW q \in Seq(PostedSignals),
             \A p \in Name : HitCount(q, Coming(p)) = 0, NEW i \in DOMAIN q
      PROVE  q[i].signal # "request"
  <2>1. q[i] \in PostedSignals
    OBVIOUS
  <2>2. \A p \in Name : q[i] \notin Coming(p)
    BY <1>2, HitsType
  <2>3. q[i].signal = "request" => \E p \in Name : p \in q[i].to
    BY <2>1 DEF PostedSignals
  <2> QED
    BY <2>1, <2>2, <2>3 DEF Coming
<1> QED
  BY <1>1, <1>2

\* The request that the runner takes off its queue is the phase's, and asks who is
\* asked.
LEMMA RequestOfThePhase ==
    ASSUME MailInv, Alive, toRunner # <<>>, Head(toRunner).signal = "request"
    PROVE  LET m == Head(toRunner) IN
           /\ m \in PostedSignals /\ m.request = Logic!RequestOf(phase)
           /\ m.request \in RequestIds /\ m.to # {} /\ m.to \subseteq asked
           /\ \A p \in m.to : m \in Coming(p) /\ Owed(conn[p]) = 0
<1> DEFINE m == Head(toRunner)
<1>1. /\ toRunner \in Seq(PostedSignals) /\ toLogic \in Seq(PostedCalls) /\ OnTheWay
  BY DEF MailInv, TypeOK
<1>2. m \in PostedSignals /\ 1 \in DOMAIN toRunner /\ toRunner[1] = m
  BY <1>1
<1>3. m.request = Logic!RequestOf(phase)
  BY <1>1, <1>2 DEF OnTheWay
<1>4. m.request \in RequestIds /\ m.to # {} /\ m.to \subseteq Name
  BY <1>2 DEF PostedSignals
<1> HIDE DEF m
<1>5. ASSUME NEW p \in m.to
      PROVE  p \in asked /\ m \in Coming(p) /\ Owed(conn[p]) = 0
  <2>1. p \in Name /\ m \in Coming(p)
    BY <1>2, <1>4 DEF Coming, m
  <2>2. HitCount(toRunner, Coming(p)) # 0
    BY <1>1, <1>2, <2>1, HitsType
  <2>3. /\ HitCount(toRunner, Coming(p)) \in Nat /\ HitCount(toLogic, Going(p)) \in Nat
        /\ Owed(conn[p]) \in Nat
    BY <1>1, HitsType DEF Owed
  <2>4. Places(p) = IF p \in asked THEN 1 ELSE 0
    BY <1>1, <2>1 DEF OnTheWay
  <2> QED
    BY <2>1, <2>2, <2>3, <2>4 DEF Places
<1>6. /\ m \in PostedSignals /\ m.request = Logic!RequestOf(phase)
      /\ m.request \in RequestIds /\ m.to # {} /\ m.to \subseteq asked
      /\ \A p \in m.to : m \in Coming(p) /\ Owed(conn[p]) = 0
  BY <1>2, <1>3, <1>4, <1>5
<1> QED
  BY <1>6 DEF m

\* It is asked of the connections: what each player owes is then the same.
LEMMA RequestSettles ==
    ASSUME MailInv, RunnerTakes, TakeRequest(Head(toRunner)),
           Head(toRunner).to \subseteq agents
    PROVE  \E base, cs :
              /\ Still(base) /\ \A p \in Name : Keeps(base[p], cs[p])
              /\ \A p \in Name \ agents : cs[p] = NoConnection
              /\ \A p \in Name : /\ base[p].socket = conn[p].socket
                                 /\ base[p].online = conn[p].online
              /\ Asks(base)
              /\ Settle(agents, cs, <<>>)
<1> DEFINE m == Head(toRunner)
           r == Logic!RequestOf(phase)
<1>1. /\ Alive /\ toRunner # <<>> /\ toRunner' = Tail(toRunner)
      /\ UNCHANGED <<players, phase, asked>> /\ m.signal = "request"
  BY DEF RunnerTakes, TakeRequest, logicVars
<1>2. /\ toRunner \in Seq(PostedSignals) /\ toLogic \in Seq(PostedCalls)
      /\ conn \in [Name -> Connections] /\ agents \in SUBSET Name /\ OnTheWay
  BY <1>1 DEF MailInv, TypeOK
<1>3. /\ toRunner' \in Seq(PostedSignals)
      /\ \A p \in Name : HitCount(toRunner, Coming(p))
            = HitCount(toRunner', Coming(p)) + (IF m \in Coming(p) THEN 1 ELSE 0)
      /\ \A i \in DOMAIN toRunner' : \E j \in DOMAIN toRunner :
            toRunner'[i] = toRunner[j]
  BY <1>1, <1>2, HitsTail, HitsParts
<1>4. /\ m.request = r /\ m.request \in RequestIds
      /\ \A p \in m.to : m \in Coming(p) /\ Owed(conn[p]) = 0
  BY <1>1, RequestOfThePhase
<1>5. PICK lost \in SUBSET (IF EagerWriteFailure THEN m.to ELSE {}) :
         Settle(agents,
                [p \in Name |->
                   IF p \in m.to
                   THEN AddRequest(conn[p], m.request, p \in lost)
                   ELSE conn[p]],
                <<>>)
  BY DEF TakeRequest
<1> HIDE DEF m
<1> DEFINE base == [p \in Name |->
                      IF p \in m.to
                      THEN [conn[p] EXCEPT !.currentRequest = m.request]
                      ELSE conn[p]]
           cs == [p \in Name |->
                    IF p \in m.to
                    THEN AddRequest(conn[p], m.request, p \in lost)
                    ELSE conn[p]]
<1>6. ASSUME NEW p \in Name PROVE Keeps(base[p], cs[p])
  <2>1. (p \in lost) \in BOOLEAN /\ conn[p] \in Connections
    BY <1>2
  <2>2. Keeps([conn[p] EXCEPT !.currentRequest = m.request],
              AddRequest(conn[p], m.request, p \in lost))
    BY <1>4, <2>1, AddRequestKeeps
  <2>3. Keeps(conn[p], conn[p])
    BY StillAtRest
  <2> QED
    BY <2>2, <2>3
<1>7. ASSUME NEW p \in Name
      PROVE  /\ base[p].replies = <<>> /\ ~base[p].left
             /\ base[p].socket = conn[p].socket /\ base[p].online = conn[p].online
             /\ p \in m.to => base[p].currentRequest = m.request
             /\ p \notin m.to => base[p].currentRequest = conn[p].currentRequest
  <2>1. conn[p].replies = <<>> /\ ~conn[p].left /\ conn[p] \in Connections
    BY StillAtRest DEF Still
  <2> QED
    BY <2>1 DEF Connections
<1>8. \A p \in Name \ agents : cs[p] = NoConnection
  BY DEF MailInv, m
<1>9. Settle(agents, cs, <<>>)
  BY <1>5
<1> HIDE DEF base, cs
<1>10. Still(base)
  BY <1>7 DEF Still
<1>11. ASSUME NEW p \in Name
       PROVE  /\ base[p].currentRequest \in {Invalid, r}
              /\ HitCount(toRunner', Coming(p)) + Owed(base[p])
                   = HitCount(toRunner, Coming(p)) + Owed(conn[p])
  <2>1. /\ conn[p].currentRequest \in {Invalid, r}
        /\ HitCount(toRunner, Coming(p))
             = HitCount(toRunner', Coming(p)) + (IF m \in Coming(p) THEN 1 ELSE 0)
    BY <1>2, <1>3 DEF OnTheWay
  <2>2. HitCount(toRunner', Coming(p)) \in Nat /\ Owed(conn[p]) \in Nat
    BY <1>3, HitsType DEF Owed
  <2>3. CASE p \in m.to
    <3>1. base[p].currentRequest = r /\ r # Invalid
      BY <1>4, <1>7, <2>3, InvalidIsNone
    <3>2. Owed(base[p]) = 1 /\ Owed(conn[p]) = 0 /\ m \in Coming(p)
      BY <1>4, <2>3, <3>1 DEF Owed
    <3> QED
      BY <2>1, <2>2, <3>1, <3>2
  <2>4. CASE p \notin m.to
    <3>1. base[p].currentRequest = conn[p].currentRequest /\ m \notin Coming(p)
      BY <1>7, <2>4 DEF Coming
    <3>2. Owed(base[p]) = Owed(conn[p])
      BY <3>1 DEF Owed
    <3> QED
      BY <2>1, <2>2, <3>1, <3>2
  <2> QED
    BY <2>3, <2>4
<1>12. Asks(base)
  BY <1>1, <1>3, <1>11 DEF Asks
<1> QED
  BY <1>6, <1>7, <1>8, <1>9, <1>10, <1>12

\* What the runner takes off its queue is asked of the connections, or ends the
\* round or the game.
LEMMA RunnerMail ==
    ASSUME MailInv, conn' \in [Name -> Connections], RunnerTakes
    PROVE  MailInv'
<1> DEFINE m == Head(toRunner)
           r == Logic!RequestOf(phase)
<1>1. /\ Alive /\ toRunner # <<>> /\ toRunner' = Tail(toRunner)
      /\ UNCHANGED <<players, phase, asked>>
      /\ TakeRequest(m) \/ TakeUpgradeResult(m) \/ TakeGameOver(m)
  BY DEF RunnerTakes, logicVars
<1>2. /\ toRunner \in Seq(PostedSignals) /\ toLogic \in Seq(PostedCalls)
      /\ conn \in [Name -> Connections] /\ agents \in SUBSET Name
  BY DEF MailInv, TypeOK
<1>3. /\ m \in PostedSignals /\ toRunner' \in Seq(PostedSignals)
      /\ \A p \in Name : HitCount(toRunner, Coming(p))
            = HitCount(toRunner', Coming(p)) + (IF m \in Coming(p) THEN 1 ELSE 0)
      /\ \A i \in DOMAIN toRunner' : \E j \in DOMAIN toRunner :
            toRunner'[i] = toRunner[j]
  BY <1>1, <1>2, HitsTail, HitsParts
<1>4. \A p \in Name : /\ HitCount(toRunner', Coming(p)) \in Nat
                      /\ HitCount(toLogic, Going(p)) \in Nat
                      /\ Owed(conn[p]) \in Nat
  BY <1>2, <1>3, HitsType DEF Owed
<1>5. OnTheWay
  BY <1>1 DEF MailInv
<1>6. CASE TakeRequest(m)
  <2>1. CASE m.to \subseteq agents
    <3> DEFINE none == <<>>
    <3>1. PICK base, cs :
             /\ Still(base) /\ \A p \in Name : Keeps(base[p], cs[p])
             /\ \A p \in Name \ agents : cs[p] = NoConnection
             /\ Asks(base)
             /\ Settle(agents, cs, none)
      BY <1>6, <2>1, RequestSettles
    <3>2. none \in Seq(PostedCalls) /\ NoReplies(none)
      BY DEF NoReplies
    <3> HIDE DEF none, m
    <3> QED
      BY <1>1, <1>2, <3>1, <3>2, SettleMail
  <2>2. CASE ~(m.to \subseteq agents)
    <3>1. over' = "crashed" /\ UNCHANGED <<toLogic, agents, conn>>
      BY <1>6, <2>2 DEF TakeRequest
    <3>2. ~Alive'
      BY <3>1 DEF Alive
    <3>3. TypeOK'
      BY <1>1, <1>3, <3>1 DEF MailInv, TypeOK
    <3> QED
      BY <1>1, <3>1, <3>2, <3>3 DEF MailInv
  <2> QED
    BY <2>1, <2>2
<1>7. CASE TakeUpgradeResult(m) \/ TakeGameOver(m)
  <2>1. /\ m.signal # "request" /\ UNCHANGED <<agents, conn>>
        /\ over' \in {over, "gameOver"}
        /\ toLogic' = toLogic \/ toLogic' = Append(toLogic, RoundStart)
    BY <1>7 DEF TakeUpgradeResult, TakeGameOver
  <2> HIDE DEF m
  <2>2. RoundStart \in PostedCalls /\ RoundStart.call # "reply"
        /\ \A p \in Name : RoundStart \notin Going(p)
    BY DEF RoundStart, PostedCalls, Going
  <2>3. /\ toLogic' \in Seq(PostedCalls)
        /\ \A p \in Name : HitCount(toLogic', Going(p)) = HitCount(toLogic, Going(p))
        /\ RepliesAre(toLogic, r) => RepliesAre(toLogic', r)
    <3>1. CASE toLogic' = toLogic
      BY <1>2, <3>1
    <3>2. CASE toLogic' = Append(toLogic, RoundStart)
      <4>1. /\ toLogic' \in Seq(PostedCalls)
            /\ \A p \in Name : HitCount(toLogic', Going(p))
                  = HitCount(toLogic, Going(p))
                      + (IF RoundStart \in Going(p) THEN 1 ELSE 0)
            /\ \A i \in DOMAIN toLogic' : \/ \E j \in DOMAIN toLogic : toLogic'[i] = toLogic[j]
                                          \/ toLogic'[i] = RoundStart
        <5> DEFINE q == Append(toLogic, RoundStart)
        <5>1. /\ q \in Seq(PostedCalls)
              /\ \A T : HitCount(q, T)
                    = HitCount(toLogic, T) + (IF RoundStart \in T THEN 1 ELSE 0)
              /\ \A i \in DOMAIN q : \/ \E j \in DOMAIN toLogic : q[i] = toLogic[j]
                                     \/ q[i] = RoundStart
          BY <1>2, <2>2, HitsAppend
        <5> HIDE DEF q
        <5>2. toLogic' = q
          BY <3>2 DEF q
        <5> QED
          BY <5>1, <5>2
      <4>2. \A p \in Name : HitCount(toLogic', Going(p)) = HitCount(toLogic, Going(p))
        BY <1>4, <2>2, <4>1
      <4> QED
        BY <2>2, <4>1, <4>2 DEF RepliesAre
    <3> QED
      BY <2>1, <3>1, <3>2
  <2>4. TypeOK'
    BY <1>1, <1>3, <2>1, <2>3 DEF MailInv, TypeOK
  <2>5. OnTheWay'
    <3>1. \A p \in Name : m \notin Coming(p)
      BY <2>1 DEF Coming
    <3>2. \A p \in Name : HitCount(toRunner', Coming(p)) = HitCount(toRunner, Coming(p))
      BY <1>3, <1>4, <3>1 DEF m
    <3>3. \A p \in Name : Places(p)' = Places(p)
      BY <2>1, <2>3, <3>2 DEF Places
    <3>4. Logic!RequestOf(phase)' = r
      BY <1>1 DEF Logic!RequestOf
    <3>5. RepliesAre(toLogic', r)
      BY <1>5, <2>3 DEF OnTheWay
    <3>6. \A i \in DOMAIN toRunner' :
             toRunner'[i].signal = "request" => toRunner'[i].request = r
      BY <1>3, <1>5 DEF OnTheWay
    <3> QED
      BY <1>1, <1>5, <2>1, <3>3, <3>4, <3>5, <3>6 DEF OnTheWay
  <2> QED
    BY <1>1, <2>1, <2>4, <2>5 DEF MailInv
<1> QED
  BY <1>1, <1>6, <1>7


\* How many players a phase may ask: nobody when idle, one for an action.
LEMMA MayAskSome ==
    ASSUME NEW ph \in Logic!Running \cup {Logic!Idle}, NEW s \in SUBSET Name,
           Logic!MayAsk(ph, s)
    PROVE  /\ ph = Logic!Idle => s = {}
           /\ ph # Logic!Idle => s # {}
           /\ ph = "Action" => \E p : s = {p}
<1>1. IsFiniteSet(s) /\ Logic!Cardinality(s) = Cardinality(s) /\ Cardinality({}) = 0
  BY NameOrder, SameCardinality, FS_EmptySet
<1>2. CASE ph = Logic!Idle
  BY <1>2 DEF Logic!MayAsk, Logic!Idle
<1>3. CASE ph = "Action"
  <2>1. Cardinality(s) = 1
    BY <1>1, <1>3 DEF Logic!MayAsk, Logic!Idle
  <2> QED
    BY <1>1, <1>3, <2>1, TwoMembers DEF Logic!Idle
<1>4. CASE ph \in {"RpsForAction", "RpsForActionOrder"}
  <2>1. Cardinality(s) >= 2
    BY <1>1, <1>4 DEF Logic!MayAsk, Logic!Idle
  <2>2. s # {}
    BY <1>1, <2>1
  <2> QED
    BY <1>4, <2>2 DEF Logic!Idle
<1>5. CASE ph \in {"ActionOrder", "Upgrade"}
  BY <1>5 DEF Logic!MayAsk, Logic!Idle
<1> QED
  BY <1>2, <1>3, <1>4, <1>5 DEF Logic!Running

\* A phase that has taken every reply asks anew.
LEMMA AsksAnew ==
    ASSUME MailInv, UNCHANGED <<agents, conn, over, players>>,
           NEW next \in Logic!Running \cup {Logic!Idle}, NEW s \in SUBSET players,
           Logic!MayAsk(next, s), phase' = next, asked' = s,
           toLogic' \in Seq(PostedCalls),
           \A p \in Name : /\ HitCount(toRunner, Coming(p)) = 0
                           /\ HitCount(toLogic', Going(p)) = 0
                           /\ conn[p].currentRequest = Invalid,
           NEW q \in Seq(PostedSignals), toRunner' = toRunner \o q,
           \A p \in Name : HitCount(q, Coming(p)) = IF p \in s THEN 1 ELSE 0,
           \A i \in DOMAIN q :
              q[i].signal = "request" => q[i].request = Logic!RequestOf(next)
    PROVE  MailInv'
<1>1. toRunner \in Seq(PostedSignals) /\ s \in SUBSET Name /\ conn' = conn
  BY DEF MailInv, TypeOK
<1> DEFINE w == toRunner \o q
<1>2. /\ w \in Seq(PostedSignals)
      /\ \A i \in DOMAIN w : \/ \E j \in DOMAIN toRunner : w[i] = toRunner[j]
                             \/ \E j \in DOMAIN q : w[i] = q[j]
      /\ \A p \in Name : HitCount(w, Coming(p))
            = HitCount(toRunner, Coming(p)) + HitCount(q, Coming(p))
  BY <1>1, HitsParts, HitsConcat
<1>3. toRunner' = w
  OBVIOUS
<1> HIDE DEF w
<1>4. ASSUME NEW p \in Name
      PROVE  /\ Places(p)' = IF p \in asked' THEN 1 ELSE 0
             /\ conn'[p].currentRequest = Invalid
  <2>1. Owed(conn'[p]) = 0 /\ conn'[p].currentRequest = Invalid
    BY <1>1 DEF Owed
  <2>2. HitCount(toRunner', Coming(p)) = IF p \in s THEN 1 ELSE 0
    BY <1>2, <1>3
  <2> QED
    BY <2>1, <2>2 DEF Places
<1>5. \A j \in DOMAIN toRunner : toRunner[j].signal # "request"
  BY <1>1, NothingOnTheWay
<1>6. ASSUME NEW i \in DOMAIN toRunner', toRunner'[i].signal = "request"
      PROVE  toRunner'[i].request = Logic!RequestOf(next)
  BY <1>2, <1>3, <1>5, <1>6
<1>7. RepliesAre(toLogic', Logic!RequestOf(next))
  BY NothingOnTheWay
<1>8. Logic!RequestOf(phase)' = Logic!RequestOf(next)
  BY DEF Logic!RequestOf
<1>9. OnTheWay'
  BY <1>4, <1>6, <1>7, <1>8 DEF OnTheWay
<1>10. TypeOK'
  BY <1>1, <1>2, <1>3 DEF MailInv, TypeOK
<1>11. /\ next = Logic!Idle => s = {}
       /\ next = "Action" => \E p : s = {p}
  BY <1>1, MayAskSome
<1> QED
  BY <1>9, <1>10, <1>11 DEF MailInv

\* A reply that gets to the logic is one it waits for.
LEMMA ReplyIsAwaited ==
    ASSUME MailInv, Alive, toLogic # <<>>, Head(toLogic).call = "reply"
    PROVE  /\ Head(toLogic).player \in asked
           /\ Head(toLogic).request = Logic!RequestOf(phase)
           /\ phase \in Logic!Running
           /\ LogicAccepts(Head(toLogic))
<1> DEFINE h == Head(toLogic)
           p == h.player
<1>1. toLogic \in Seq(PostedCalls) /\ toRunner \in Seq(PostedSignals) /\ OnTheWay
  BY DEF MailInv, TypeOK
<1>2. h \in PostedCalls /\ 1 \in DOMAIN toLogic /\ toLogic[1] = h
  BY <1>1
<1>3. p \in Name /\ h \in Going(p)
  BY <1>2 DEF PostedCalls, Going, RoundStart
<1> HIDE DEF h
<1>4. h.request = Logic!RequestOf(phase)
  BY <1>1, <1>2 DEF OnTheWay, RepliesAre, h
<1> HIDE DEF p
<1>5. HitCount(toLogic, Going(p)) # 0
  BY <1>1, <1>2, <1>3, HitsType
<1>6. p \in asked
  <2>1. Places(p) = IF p \in asked THEN 1 ELSE 0
    BY <1>1, <1>3 DEF OnTheWay
  <2>2. /\ HitCount(toRunner, Coming(p)) \in Nat /\ HitCount(toLogic, Going(p)) \in Nat
        /\ Owed(conn[p]) \in Nat
    BY <1>1, HitsType DEF Owed
  <2> QED
    BY <1>5, <2>1, <2>2 DEF Places
<1>7. p \in players /\ phase \in Logic!Running
  BY <1>6 DEF MailInv, TypeOK
<1>8. LogicAccepts(h)
  BY <1>4, <1>6, <1>7 DEF LogicAccepts, Logic!Accepts, p, h
<1> QED
  BY <1>4, <1>6, <1>7, <1>8 DEF p, h

\* A call of the runner's about its own players, or one that the logic refuses,
\* changes nothing of what is under way.
LEMMA CallMail ==
    ASSUME MailInv, UNCHANGED <<agents, conn, over, phase, asked, toRunner>>,
           toLogic # <<>>, toLogic' = Tail(toLogic),
           Head(toLogic).call # "reply",
           players' \in SUBSET Name, asked \subseteq players'
    PROVE  MailInv'
<1> DEFINE h == Head(toLogic)
<1>1. toLogic \in Seq(PostedCalls) /\ toRunner \in Seq(PostedSignals)
  BY DEF MailInv, TypeOK
<1>2. /\ toLogic' \in Seq(PostedCalls)
      /\ \A p \in Name : HitCount(toLogic, Going(p))
            = HitCount(toLogic', Going(p)) + (IF h \in Going(p) THEN 1 ELSE 0)
      /\ \A i \in DOMAIN toLogic' : \E j \in DOMAIN toLogic :
            toLogic'[i] = toLogic[j]
  BY <1>1, HitsTail, HitsParts
<1>3. \A p \in Name : h \notin Going(p)
  BY DEF Going
<1>4. \A p \in Name : HitCount(toLogic', Going(p)) = HitCount(toLogic, Going(p))
  <2>1. \A p \in Name : HitCount(toLogic', Going(p)) \in Nat
    BY <1>2, HitsType
  <2> QED
    BY <1>2, <1>3, <2>1
<1>5. \A p \in Name : Places(p)' = Places(p)
  BY <1>4 DEF Places
<1>6. \A r : RepliesAre(toLogic, r) => RepliesAre(toLogic', r)
  BY <1>2 DEF RepliesAre
<1>7. Logic!RequestOf(phase)' = Logic!RequestOf(phase)
  BY DEF Logic!RequestOf
<1>8. OnTheWay => OnTheWay'
  BY <1>5, <1>6, <1>7 DEF OnTheWay
<1>9. TypeOK'
  BY <1>2 DEF MailInv, TypeOK
<1> QED
  BY <1>8, <1>9 DEF MailInv, Alive


\* A round starts with nothing under way, and asks everybody.
LEMMA RoundStartMail ==
    ASSUME MailInv, Alive, UNCHANGED <<agents, conn, over>>,
           toLogic # <<>>, toLogic' = Tail(toLogic),
           Head(toLogic).call # "reply",
           Logic!RoundStart, toRunner' = toRunner \o Emitted(phase', asked')
    PROVE  MailInv'
<1> DEFINE next == "RpsForAction"
           s == players
           q == Emitted(next, s)
<1>1. /\ phase = Logic!Idle /\ phase' = next /\ asked' = s /\ players' = players
      /\ Logic!Cardinality(s) >= 2
  BY DEF Logic!RoundStart
<1>2. /\ s \in SUBSET Name /\ toLogic \in Seq(PostedCalls)
      /\ toRunner \in Seq(PostedSignals) /\ OnTheWay /\ asked = {}
  BY <1>1 DEF MailInv, TypeOK
<1>3. s # {} /\ next \in Logic!Running
  <2>1. Cardinality(players) >= 2
    BY <1>1, SameCardinality
  <2>2. players # {}
    <3>1. Cardinality({}) = 0
      BY FS_EmptySet
    <3>2. ~(0 >= 2)
      OBVIOUS
    <3> QED
      BY <2>1, <3>1, <3>2
  <2>3. next \in Logic!Running
    BY DEF Logic!Running
  <2> QED
    BY <2>2, <2>3
<1>4. Logic!MayAsk(next, s)
  BY <1>1 DEF Logic!MayAsk, Logic!Idle
<1> DEFINE h == Head(toLogic)
<1>5. /\ toLogic' \in Seq(PostedCalls)
      /\ \A p \in Name : HitCount(toLogic, Going(p))
            = HitCount(toLogic', Going(p)) + (IF h \in Going(p) THEN 1 ELSE 0)
  BY <1>2, HitsTail
<1>6. \A p \in Name : h \notin Going(p)
  BY DEF Going
<1> HIDE DEF h
<1>7. ASSUME NEW p \in Name
      PROVE  /\ HitCount(toRunner, Coming(p)) = 0
             /\ HitCount(toLogic', Going(p)) = 0
             /\ conn[p].currentRequest = Invalid
  <2>1. /\ HitCount(toRunner, Coming(p)) \in Nat /\ HitCount(toLogic, Going(p)) \in Nat
        /\ HitCount(toLogic', Going(p)) \in Nat /\ Owed(conn[p]) \in Nat
    BY <1>2, <1>5, HitsType DEF Owed
  <2>2. Places(p) = 0
    BY <1>2 DEF OnTheWay
  <2>3. HitCount(toLogic, Going(p)) = HitCount(toLogic', Going(p))
    BY <1>5, <1>6, <2>1
  <2>4. Owed(conn[p]) = 0 /\ HitCount(toRunner, Coming(p)) = 0
        /\ HitCount(toLogic', Going(p)) = 0
    BY <2>1, <2>2, <2>3 DEF Places
  <2> QED
    BY <2>4 DEF Owed
<1>8. /\ q \in Seq(PostedSignals)
      /\ \A p \in Name : HitCount(q, Coming(p)) = IF p \in s THEN 1 ELSE 0
      /\ \A i \in DOMAIN q :
            q[i].signal = "request" => q[i].request = Logic!RequestOf(next)
  BY <1>2, <1>3, EmittedPosted
<1>9. toRunner' = toRunner \o q
  BY <1>1
<1> HIDE DEF next, s, q
<1>10. next \in Logic!Running \cup {Logic!Idle} /\ s \in SUBSET players
  BY <1>3 DEF s
<1> QED
  BY <1>1, <1>4, <1>5, <1>7, <1>8, <1>9, <1>10, AsksAnew

\* A reply is taken for the request it answers; the last one of a phase leaves no
\* request under way, and the next phase asks.
LEMMA ReplyMail ==
    ASSUME MailInv, Alive, UNCHANGED <<agents, conn, over>>,
           toLogic # <<>>, toLogic' = Tail(toLogic),
           Head(toLogic).call = "reply", LogicTakesCall(Head(toLogic))
    PROVE  MailInv'
<1> DEFINE h == Head(toLogic)
           p == h.player
           r == Logic!RequestOf(phase)
<1>1. /\ toLogic \in Seq(PostedCalls) /\ toRunner \in Seq(PostedSignals) /\ OnTheWay
      /\ asked \in SUBSET players /\ players \in SUBSET Name
  BY DEF MailInv, TypeOK
<1>2. p \in asked /\ h.request = r /\ phase \in Logic!Running
  BY ReplyIsAwaited
<1>3. /\ Logic!Reply(p, h.request)
      /\ IF ~Logic!Completes(p) THEN UNCHANGED toRunner
         ELSE IF phase' = "BeforeRoundStart"
         THEN \E signal \in {"upgradeResult", "gameOver"} :
                 toRunner' = Append(toRunner, Result(signal))
         ELSE toRunner' = toRunner \o Emitted(phase', asked' \ (asked \ {p}))
  BY DEF LogicTakesCall
<1>4. /\ toLogic' \in Seq(PostedCalls)
      /\ \A x \in Name : HitCount(toLogic, Going(x))
            = HitCount(toLogic', Going(x)) + (IF h \in Going(x) THEN 1 ELSE 0)
      /\ \A i \in DOMAIN toLogic' : \E j \in DOMAIN toLogic :
            toLogic'[i] = toLogic[j]
  BY <1>1, HitsTail, HitsParts
<1>5. \A x \in Name : h \in Going(x) <=> x = p
  <2>1. h \in PostedCalls
    BY <1>1
  <2> QED
    BY <2>1 DEF Going
<1> HIDE DEF h, p
\* What is under way when the reply has been taken.
<1>6. ASSUME NEW x \in Name
      PROVE  /\ HitCount(toRunner, Coming(x)) \in Nat
             /\ HitCount(toLogic', Going(x)) \in Nat /\ Owed(conn[x]) \in Nat
             /\ HitCount(toRunner, Coming(x)) + HitCount(toLogic', Going(x))
                  + Owed(conn[x]) = IF x \in asked \ {p} THEN 1 ELSE 0
  <2>1. /\ HitCount(toRunner, Coming(x)) \in Nat /\ HitCount(toLogic', Going(x)) \in Nat
        /\ HitCount(toLogic, Going(x)) \in Nat /\ Owed(conn[x]) \in Nat
    BY <1>1, <1>4, HitsType DEF Owed
  <2>2. Places(x) = IF x \in asked THEN 1 ELSE 0
    BY <1>1 DEF OnTheWay
  <2>3. HitCount(toLogic, Going(x))
           = HitCount(toLogic', Going(x)) + (IF x = p THEN 1 ELSE 0)
    BY <1>4, <1>5
  <2>4. CASE x = p
    <3>1. Places(x) = 1 /\ x \in asked /\ x \notin asked \ {p}
      BY <1>2, <2>2, <2>4
    <3> QED
      BY <2>1, <2>3, <2>4, <3>1 DEF Places
  <2>5. CASE x # p
    <3>1. x \in asked <=> x \in asked \ {p}
      BY <2>5
    <3> QED
      BY <2>1, <2>2, <2>3, <2>5, <3>1 DEF Places
  <2> QED
    BY <2>4, <2>5
<1>7. CASE ~Logic!Completes(p)
  <2>1. /\ asked' = asked \ {p} /\ phase' = phase /\ players' = players
        /\ toRunner' = toRunner /\ phase # "Action"
    BY <1>3, <1>7 DEF Logic!Reply, Logic!Completes
  <2>2. \A x \in Name : Places(x)' = IF x \in asked' THEN 1 ELSE 0
    BY <1>6, <2>1 DEF Places
  <2>3. RepliesAre(toLogic', r)
    BY <1>1, <1>4 DEF OnTheWay, RepliesAre
  <2>4. Logic!RequestOf(phase)' = r
    BY <2>1 DEF Logic!RequestOf
  <2>5. OnTheWay'
    BY <1>1, <2>1, <2>2, <2>3, <2>4 DEF OnTheWay
  <2>6. TypeOK'
    BY <1>4, <2>1 DEF MailInv, TypeOK
  <2> QED
    BY <1>1, <2>1, <2>5, <2>6 DEF MailInv
<1>8. CASE Logic!Completes(p)
  <2>1. PICK next \in Logic!Follows[phase], s \in SUBSET players :
           /\ Logic!MayAsk(next, s)
           /\ phase' = next /\ asked' = (asked \ {p}) \cup s /\ players' = players
    BY <1>3, <1>8 DEF Logic!Reply
  <2>2. asked \ {p} = {}
    BY <1>2, <1>8 DEF Logic!Completes, MailInv
  <2>3. asked' = s /\ asked' \ (asked \ {p}) = s
    BY <2>1, <2>2
  <2>4. next \in Logic!Running \cup {Logic!Idle}
    BY <1>2, <2>1 DEF Logic!Follows, Logic!Running, Logic!Idle
  <2>5. \A x \in Name : /\ HitCount(toRunner, Coming(x)) = 0
                        /\ HitCount(toLogic', Going(x)) = 0
                        /\ conn[x].currentRequest = Invalid
    <3> SUFFICES ASSUME NEW x \in Name
                 PROVE  /\ HitCount(toRunner, Coming(x)) = 0
                        /\ HitCount(toLogic', Going(x)) = 0
                        /\ conn[x].currentRequest = Invalid
      OBVIOUS
    <3>1. /\ HitCount(toRunner, Coming(x)) \in Nat
          /\ HitCount(toLogic', Going(x)) \in Nat /\ Owed(conn[x]) \in Nat
          /\ HitCount(toRunner, Coming(x)) + HitCount(toLogic', Going(x))
               + Owed(conn[x]) = IF x \in asked \ {p} THEN 1 ELSE 0
      BY <1>6
    <3>2. x \notin asked \ {p}
      BY <2>2
    <3>3. /\ HitCount(toRunner, Coming(x)) = 0 /\ HitCount(toLogic', Going(x)) = 0
          /\ Owed(conn[x]) = 0
      BY <3>1, <3>2
    <3> QED
      BY <3>3 DEF Owed
  <2>6. /\ next = Logic!Idle => s = {}
        /\ next # Logic!Idle => s # {}
    BY <1>1, <2>1, <2>4, MayAskSome
  <2>7. ASSUME NEW q \in Seq(PostedSignals), toRunner' = toRunner \o q,
               \A x \in Name : HitCount(q, Coming(x)) = IF x \in s THEN 1 ELSE 0,
               \A i \in DOMAIN q :
                  q[i].signal = "request" => q[i].request = Logic!RequestOf(next)
        PROVE  MailInv'
    BY <1>4, <2>1, <2>3, <2>4, <2>5, <2>7, AsksAnew
  <2>8. CASE next = Logic!Idle
    <3>1. PICK signal \in {"upgradeResult", "gameOver"} :
             toRunner' = Append(toRunner, Result(signal))
      BY <1>3, <1>8, <2>1, <2>8 DEF Logic!Idle
    <3> DEFINE m == Result(signal)
               q == <<m>>
    <3>2. m \in PostedSignals /\ m.signal # "request"
      BY DEF Result, PostedSignals
    <3>3. \A x \in Name : m \notin Coming(x)
      BY <3>2 DEF Coming
    <3> HIDE DEF m
    <3>4. /\ q \in Seq(PostedSignals) /\ \A i \in DOMAIN q : q[i] = m
          /\ \A x \in Name : HitCount(q, Coming(x)) = 0
      BY <3>2, <3>3, HitsSingle
    <3>5. Append(toRunner, m) = toRunner \o q
      BY <1>1, <3>2, HitsAppend
    <3> HIDE DEF q
    <3>6. toRunner' = toRunner \o q
      BY <3>1, <3>5 DEF m
    <3>7. \A x \in Name : HitCount(q, Coming(x)) = IF x \in s THEN 1 ELSE 0
      BY <2>6, <2>8, <3>4
    <3>8. \A i \in DOMAIN q :
             q[i].signal = "request" => q[i].request = Logic!RequestOf(next)
      BY <3>2, <3>4
    <3> QED
      BY <2>7, <3>4, <3>6, <3>7, <3>8
  <2>9. CASE next # Logic!Idle
    <3> DEFINE q == Emitted(next, s)
    <3>1. toRunner' = toRunner \o q
      BY <1>3, <1>8, <2>1, <2>3, <2>9 DEF Logic!Idle
    <3>2. /\ next \in Logic!Running /\ s # {} /\ s \in SUBSET Name
      BY <1>1, <2>4, <2>6, <2>9
    <3>3. /\ q \in Seq(PostedSignals)
          /\ \A x \in Name : HitCount(q, Coming(x)) = IF x \in s THEN 1 ELSE 0
          /\ \A i \in DOMAIN q : /\ q[i].signal = "request"
                                 /\ q[i].request = Logic!RequestOf(next)
      BY <3>2, EmittedPosted
    <3> HIDE DEF q
    <3> QED
      BY <2>7, <3>1, <3>3
  <2> QED
    BY <2>8, <2>9
<1> QED
  BY <1>7, <1>8

\* The logic's thread takes a call.
LEMMA LogicMail ==
    ASSUME MailInv, LogicTakes
    PROVE  MailInv'
<1> DEFINE h == Head(toLogic)
<1>1. /\ Alive /\ toLogic # <<>> /\ toLogic' = Tail(toLogic)
      /\ UNCHANGED <<agents, conn, over>>
      /\ IF LogicAccepts(h) THEN LogicTakesCall(h)
         ELSE UNCHANGED <<players, phase, asked, toRunner>>
  BY DEF LogicTakes
<1>2. /\ toLogic \in Seq(PostedCalls) /\ players \in SUBSET Name
      /\ asked \in SUBSET players /\ (phase = Logic!Idle => asked = {})
  BY DEF MailInv, TypeOK
<1>3. h \in PostedCalls
  BY <1>1, <1>2
<1> HIDE DEF h
<1>4. CASE ~LogicAccepts(h)
  <2>1. h.call # "reply"
    BY <1>1, <1>4, ReplyIsAwaited DEF h
  <2> QED
    BY <1>1, <1>2, <1>4, <2>1, CallMail DEF h
<1>5. CASE LogicAccepts(h) /\ h.call = "reply"
  BY <1>1, <1>5, ReplyMail DEF h
<1>6. CASE LogicAccepts(h) /\ h.call = "roundStart"
  <2>1. Logic!RoundStart /\ toRunner' = toRunner \o Emitted(phase', asked')
    BY <1>1, <1>6 DEF LogicTakesCall
  <2> QED
    BY <1>1, <1>6, <2>1, RoundStartMail DEF h
<1>7. CASE LogicAccepts(h) /\ h.call \in {"addPlayer", "removePlayer"}
  <2>1. h.player \in Name
    BY <1>3, <1>7 DEF PostedCalls, RoundStart
  <2>2. /\ UNCHANGED <<phase, asked, toRunner>> /\ phase = Logic!Idle
        /\ players' = players \cup {h.player} \/ players' = players \ {h.player}
    BY <1>1, <1>7 DEF LogicTakesCall, Logic!AddPlayer, Logic!RemovePlayer
  <2> QED
    BY <1>1, <1>2, <1>7, <2>1, <2>2, CallMail DEF h
<1> QED
  BY <1>3, <1>4, <1>5, <1>6, <1>7 DEF PostedCalls, RoundStart

\* The room is empty, and nothing is under way.
LEMMA MailInit == Init => MailInv
<1> SUFFICES ASSUME Init PROVE MailInv
  OBVIOUS
<1>1. /\ players = {} /\ phase = Logic!Idle /\ asked = {} /\ toLogic = <<>>
      /\ toRunner = <<>> /\ agents = {} /\ over = "running"
      /\ conn = [p \in Name |-> NoConnection]
  BY DEF Init, Logic!Init
<1>2. /\ <<>> \in Seq(PostedCalls) /\ <<>> \in Seq(PostedSignals) /\ DOMAIN <<>> = {}
  OBVIOUS
<1> DEFINE none == <<>>
<1>3. /\ toLogic = none /\ toRunner = none /\ none \in Seq(PostedCalls)
      /\ none \in Seq(PostedSignals) /\ DOMAIN none = {}
  BY <1>1, <1>2
<1> HIDE DEF none
<1>4. \A T : HitCount(none, T) = 0
  BY <1>3, HitsType
<1>5. /\ NoConnection \in Connections /\ NoConnection = Quiet(NoConnection)
      /\ NoConnection.currentRequest = Invalid /\ Owed(NoConnection) = 0
  BY NoConnectionQuiet DEF NoConnection, Owed
<1>6. TypeOK
  BY <1>1, <1>3, <1>5 DEF TypeOK
<1>7. OnTheWay
  <2>1. \A p \in Name : Places(p) = 0 /\ conn[p].currentRequest = Invalid
    BY <1>1, <1>3, <1>4, <1>5 DEF Places
  <2>2. RepliesAre(toLogic, Logic!RequestOf(phase))
    BY <1>3 DEF RepliesAre
  <2> QED
    BY <1>1, <1>3, <2>1, <2>2 DEF OnTheWay
<1> QED
  BY <1>1, <1>6, <1>7 DEF MailInv, Logic!Idle

\* Every step keeps it.
LEMMA MailStep == MailInv /\ WaitInv /\ [Next]_vars => MailInv'
<1> SUFFICES ASSUME MailInv, WaitInv, [Next]_vars PROVE MailInv'
  OBVIOUS
<1>0. conn' \in [Name -> Connections]
  BY WaitStep DEF WaitInv, SoundRoom
<1>1. ASSUME NEW p \in Name, Join(p)
      PROVE  MailInv'
  BY <1>0, <1>1, JoinMail
<1>2. ASSUME NEW p \in Name,
             \/ Reconnect(p) \/ Packet(p) \/ SocketDisconnected(p)
             \/ RequestTimer(p) \/ HeartbeatDeadline(p) \/ ZeroTimer(p)
      PROVE  MailInv'
  BY <1>0, <1>2, HandlersMail
<1>3. CASE RunnerTakes
  BY <1>0, <1>3, RunnerMail
<1>4. CASE LogicTakes
  BY <1>4, LogicMail
<1>5. CASE Delete
  <2>1. /\ over' = "deleted" /\ agents' = {} /\ toLogic' = <<>> /\ toRunner' = <<>>
        /\ conn' = [p \in Name |-> NoConnection]
        /\ UNCHANGED <<players, phase, asked>>
    BY <1>5 DEF Delete, logicVars
  <2>2. toLogic' \in Seq(PostedCalls) /\ toRunner' \in Seq(PostedSignals)
    BY <2>1
  <2>3. \A p \in Name : conn'[p] = Quiet(conn'[p]) /\ conn'[p] = NoConnection
    BY <2>1, NoConnectionQuiet
  <2>4. TypeOK'
    BY <1>0, <2>1, <2>2, <2>3 DEF MailInv, TypeOK
  <2>5. ~Alive'
    BY <2>1 DEF Alive
  <2> QED
    BY <2>1, <2>3, <2>4, <2>5 DEF MailInv
<1>6. CASE UNCHANGED vars
  <2>1. /\ TypeOK' /\ Alive' = Alive
    BY <1>6 DEF vars, MailInv, TypeOK, Alive
  <2>2. OnTheWay => OnTheWay'
    BY <1>6 DEF vars, OnTheWay, Places, Logic!RequestOf
  <2> QED
    BY <1>6, <2>1, <2>2 DEF vars, MailInv
<1> QED
  BY <1>1, <1>2, <1>3, <1>4, <1>5, <1>6 DEF Next, Ended

\* What the runner, the connections and the two queues hold is what it is meant to
\* be, for any players and any order of the events.
THEOREM RunnerTypeOK == Spec => []TypeOK
<1>1. MailInv => TypeOK
  BY DEF MailInv
<1> QED
  BY <1>1, WaitInit, WaitStep, MailInit, MailStep, PTL DEF Spec

\* However timers, lost sockets, failed writes and late packets fall together, a
\* request is in one place until it is answered, and is answered once, in the phase
\* that asked.
THEOREM RunnerOneAnswer == Spec => []OneAnswerPerRequest
<1>1. MailInv => OneAnswerPerRequest
  <2> SUFFICES ASSUME MailInv, Alive, NEW p \in Name
               PROVE
        LET r == Logic!RequestOf(phase)
            coming(m) == m.signal = "request" /\ p \in m.to
            going(m) == m.call = "reply" /\ m.player = p
            current == conn[p].currentRequest
        IN  /\ Count(toRunner, coming) + Count(toLogic, going)
                 + (IF current = Invalid THEN 0 ELSE 1)
                 = IF p \in asked THEN 1 ELSE 0
            /\ current \in {Invalid, r}
            /\ \A i \in DOMAIN toRunner :
                  coming(toRunner[i]) => toRunner[i].request = r
            /\ \A i \in DOMAIN toLogic :
                  going(toLogic[i]) => toLogic[i].request = r
    BY DEF OneAnswerPerRequest
  <2>1. toLogic \in Seq(PostedCalls) /\ toRunner \in Seq(PostedSignals) /\ OnTheWay
    BY DEF MailInv, TypeOK
  <2>2. Cardinality({i \in DOMAIN toRunner :
                        toRunner[i].signal = "request" /\ p \in toRunner[i].to})
          = HitCount(toRunner, Coming(p))
    <3>1. \A i \in DOMAIN toRunner : toRunner[i] \in PostedSignals
      BY <2>1
    <3>2. {i \in DOMAIN toRunner :
              toRunner[i].signal = "request" /\ p \in toRunner[i].to}
            = Hits(toRunner, Coming(p))
      BY <3>1 DEF Hits, Coming
    <3> QED
      BY <3>2 DEF HitCount
  <2>3. Cardinality({i \in DOMAIN toLogic :
                        toLogic[i].call = "reply" /\ toLogic[i].player = p})
          = HitCount(toLogic, Going(p))
    <3>1. \A i \in DOMAIN toLogic : toLogic[i] \in PostedCalls
      BY <2>1
    <3>2. {i \in DOMAIN toLogic :
              toLogic[i].call = "reply" /\ toLogic[i].player = p}
            = Hits(toLogic, Going(p))
      BY <3>1 DEF Hits, Going
    <3> QED
      BY <3>2 DEF HitCount
  <2>4. HitCount(toRunner, Coming(p)) + HitCount(toLogic, Going(p))
          + (IF conn[p].currentRequest = Invalid THEN 0 ELSE 1)
          = IF p \in asked THEN 1 ELSE 0
    BY <2>1 DEF OnTheWay, Places, Owed
  <2> QED
    BY <2>1, <2>2, <2>3, <2>4 DEF OnTheWay, RepliesAre, Count
<1> QED
  BY <1>1, WaitInit, WaitStep, MailInit, MailStep, PTL DEF Spec


-----------------------------------------------------------------------------
(* Deserted rooms. *)

\* Who has no socket is not online, and only they.
Offline(base) == \A p \in Name : base[p].socket = "none" <=> ~base[p].online

\* A full room that nobody is connected to.
Deserted(room, base) == Full(room) /\ \A p \in room : base[p].socket = "none"

\* The inductive invariant behind DesertedRoomCloses: the room counts who is online,
\* the property who has a socket.
DesertInv ==
    /\ Offline(conn)
    /\ Alive /\ Deserted(agents, conn) => over = "gameOver"

\* An event after which the room is full and nobody is connected took the last
\* socket, and then whoever left found nobody online.
LEMMA SettleDeserts ==
    ASSUME NEW room \in SUBSET Name, NEW base, NEW cs, NEW after,
           \A p \in Name : Keeps(base[p], cs[p]), Offline(base),
           Deserted(room, base) => over = "gameOver",
           Settle(room, cs, after)
    PROVE  DesertInv'
<1> DEFINE gone == {p \in room : cs[p].left}
           left == IF Full(room) THEN {} ELSE gone
<1>1. /\ agents' \in SUBSET room /\ (Full(room) => agents' = room)
      /\ \A p \in Name :
            /\ p \in room \ agents' => conn'[p] = NoConnection
            /\ p \notin room \ agents' => conn'[p] = Quiet(cs[p])
  <2>1. \A p \in Name : cs[p] \in Connections
    BY DEF Keeps
  <2> QED
    BY <2>1, SettleSeats
<1>2. over' = IF Full(room) /\ gone # {} /\ (\A p \in room : ~cs[p].online)
              THEN "gameOver" ELSE over
  BY DEF Settle
<1>3. \A p \in Name : /\ cs[p] \in Connections
                      /\ cs[p].socket = "none" <=> ~cs[p].online
                      /\ cs[p].socket = "none" => base[p].socket = "none" \/ cs[p].left
  BY DEF Keeps, Offline
<1>4. \A p \in Name : /\ Quiet(cs[p]).socket = cs[p].socket
                      /\ Quiet(cs[p]).online = cs[p].online
  BY <1>3, NoConnectionQuiet
<1>5. ~NoConnection.online /\ NoConnection.socket = "none"
  BY DEF NoConnection
<1>6. Offline(conn')
  <2> SUFFICES ASSUME NEW p \in Name
               PROVE  conn'[p].socket = "none" <=> ~conn'[p].online
    BY DEF Offline
  <2>1. CASE p \in room \ agents'
    BY <1>1, <1>5, <2>1
  <2>2. CASE p \notin room \ agents'
    BY <1>1, <1>3, <1>4, <2>2
  <2> QED
    BY <2>1, <2>2
<1>7. ASSUME Deserted(agents', conn') PROVE over' = "gameOver"
  <2>1. Full(room)
    <3>0. agents' \in SUBSET Name
      BY <1>1
    <3>1. IsFiniteSet(room) /\ IsFiniteSet(agents')
      BY <3>0, NameOrder
    <3>2. /\ Cardinality(agents') <= Cardinality(room)
          /\ Cardinality(agents') \in Nat /\ Cardinality(room) \in Nat
      BY <1>1, <3>1, FS_Subset, FS_CardinalityType
    <3>3. Cardinality(agents') >= PlayerNumPerRoom /\ PlayerNumPerRoom \in Nat
      BY <1>7, RoomAssumption DEF Deserted, Full
    <3> QED
      BY <3>2, <3>3 DEF Full
  <2>2. \A p \in room : cs[p].socket = "none"
    BY <1>1, <1>4, <1>7, <2>1 DEF Deserted
  <2>3. \A p \in room : ~cs[p].online
    BY <1>3, <2>2
  <2>4. CASE gone = {}
    <3>1. \A p \in room : base[p].socket = "none"
      BY <1>3, <2>2, <2>4
    <3> QED
      BY <1>2, <2>1, <3>1 DEF Deserted
  <2>5. CASE gone # {}
    BY <1>2, <2>1, <2>3, <2>5
  <2> QED
    BY <2>4, <2>5
<1> QED
  BY <1>6, <1>7 DEF DesertInv

\* Every step keeps it.
LEMMA DesertStep == DesertInv /\ MailInv /\ [Next]_vars => DesertInv'
<1> SUFFICES ASSUME DesertInv, MailInv, [Next]_vars PROVE DesertInv'
  OBVIOUS
<1>0. agents \in SUBSET Name /\ conn \in [Name -> Connections]
  BY DEF MailInv, TypeOK
<1>1. ASSUME NEW p \in Name, Join(p)
      PROVE  DesertInv'
  <2> DEFINE room == agents \cup {p}
             after == <<AddPlayer(p)>>
                        \o (IF Full(room) THEN <<RoundStart>> ELSE <<>>)
  <2>1. PICK base, cs :
           /\ \A q \in Name : Keeps(base[q], cs[q])
           /\ \A q \in Name \ {p} : base[q] = conn[q]
           /\ base[p].socket # "none" /\ base[p].online
           /\ Settle(room, cs, after)
    BY <1>1, JoinSettles
  <2> HIDE DEF after
  <2>2. Offline(base) /\ ~Deserted(room, base)
    BY <2>1 DEF DesertInv, Offline, Deserted
  <2> QED
    BY <1>0, <2>1, <2>2, SettleDeserts
<1>2. ASSUME NEW p \in Name,
             \/ Reconnect(p) \/ Packet(p) \/ SocketDisconnected(p)
             \/ RequestTimer(p) \/ HeartbeatDeadline(p) \/ ZeroTimer(p)
      PROVE  DesertInv'
  <2>1. PICK d : p \in agents /\ Keeps(conn[p], d) /\ Handle(p, d)
    BY <1>0, <1>2, HandlersKeep
  <2> DEFINE cs == [conn EXCEPT ![p] = d]
             none == <<>>
  <2>2. Alive /\ Settle(agents, cs, none)
    BY <2>1 DEF Handle
  <2>3. \A q \in Name : Keeps(conn[q], cs[q])
    BY <1>0, <2>1, StillAtRest
  <2> HIDE DEF cs, none
  <2> QED
    BY <1>0, <2>2, <2>3, SettleDeserts DEF DesertInv
<1>3. CASE RunnerTakes
  <2> DEFINE m == Head(toRunner)
  <2>1. /\ Alive
        /\ TakeRequest(m) \/ TakeUpgradeResult(m) \/ TakeGameOver(m)
    BY <1>3 DEF RunnerTakes
  <2>2. CASE TakeRequest(m) /\ m.to \subseteq agents
    <3> DEFINE none == <<>>
    <3>1. PICK base, cs :
             /\ \A p \in Name : Keeps(base[p], cs[p])
             /\ \A p \in Name : /\ base[p].socket = conn[p].socket
                                /\ base[p].online = conn[p].online
             /\ Settle(agents, cs, none)
      BY <1>3, <2>2, RequestSettles
    <3>2. Offline(base) /\ (Deserted(agents, base) => over = "gameOver")
      BY <1>0, <2>1, <3>1 DEF DesertInv, Offline, Deserted
    <3> HIDE DEF none
    <3> QED
      BY <1>0, <3>1, <3>2, SettleDeserts
  <2>3. CASE TakeRequest(m) /\ ~(m.to \subseteq agents)
    BY <2>3 DEF TakeRequest, DesertInv, Alive
  <2>4. CASE TakeUpgradeResult(m) \/ TakeGameOver(m)
    BY <2>1, <2>4 DEF TakeUpgradeResult, TakeGameOver, DesertInv
  <2> QED
    BY <2>1, <2>2, <2>3, <2>4
<1>4. CASE LogicTakes
  BY <1>4 DEF LogicTakes, DesertInv, Alive
<1>5. CASE Delete
  <2>1. ~NoConnection.online /\ NoConnection.socket = "none"
    BY DEF NoConnection
  <2> QED
    BY <1>5, <2>1 DEF Delete, DesertInv, Offline, Alive
<1>6. CASE UNCHANGED vars
  BY <1>6 DEF vars, DesertInv, Alive
<1> QED
  BY <1>1, <1>2, <1>3, <1>4, <1>5, <1>6 DEF Next, Ended

\* A room that has its players, and has lost the sockets of all of them, is closed:
\* whichever way the last of them went, it was found deserted.
THEOREM RunnerDesertedRoomCloses == Spec => []DesertedRoomCloses
<1>1. Init => DesertInv
  <2>1. ~Full({}) /\ ~NoConnection.online /\ NoConnection.socket = "none"
    BY FS_EmptySet, RoomAssumption DEF Full, NoConnection
  <2> QED
    BY <2>1 DEF Init, DesertInv, Offline, Deserted
<1>2. DesertInv => DesertedRoomCloses
  BY DEF DesertInv, Deserted, DesertedRoomCloses
<1> QED
  BY <1>1, <1>2, DesertStep, WaitInit, WaitStep, MailInit, MailStep, PTL DEF Spec

\* An event that ends a running room as deserted finds all of it without a socket.
LEMMA SettleEndsDeserted ==
    ASSUME NEW room \in SUBSET Name, NEW base, NEW cs, NEW after,
           \A p \in Name : Keeps(base[p], cs[p]), Offline(base),
           Settle(room, cs, after), over = "running", over' = "gameOver"
    PROVE  \A p \in agents' : conn'[p].socket = "none"
<1>1. \A p \in Name : cs[p] \in Connections
  BY DEF Keeps
<1>2. Full(room) /\ \A p \in room : ~cs[p].online
  BY DEF Settle
<1>3. agents' = room /\ \A p \in Name : conn'[p] = Quiet(cs[p])
  BY <1>1, <1>2, SettleSeats
<1>4. \A p \in Name : Quiet(cs[p]).socket = cs[p].socket
  BY <1>1, NoConnectionQuiet
<1>5. \A p \in Name : ~cs[p].online => cs[p].socket = "none"
  BY DEF Keeps, Offline
<1> QED
  BY <1>2, <1>3, <1>4, <1>5

\* Each step that ends the room: a handler finds it deserted, or a result of the
\* logic is taken.
LEMMA OccupiedStep ==
    ASSUME DesertInv, MailInv, [Next]_vars,
           over = "running", over' = "gameOver"
    PROVE  \/ \A p \in agents' : conn'[p].socket = "none"
           \/ toRunner' # toRunner /\ Head(toRunner).signal # "request"
<1>0. agents \in SUBSET Name /\ conn \in [Name -> Connections] /\ Offline(conn)
  BY DEF MailInv, TypeOK, DesertInv
<1>1. ASSUME NEW p \in Name, Join(p)
      PROVE  \A q \in agents' : conn'[q].socket = "none"
  <2> DEFINE room == agents \cup {p}
             after == <<AddPlayer(p)>>
                        \o (IF Full(room) THEN <<RoundStart>> ELSE <<>>)
  <2>1. PICK base, cs :
           /\ \A q \in Name : Keeps(base[q], cs[q])
           /\ \A q \in Name \ {p} : base[q] = conn[q]
           /\ base[p].socket # "none" /\ base[p].online
           /\ Settle(room, cs, after)
    BY <1>1, JoinSettles
  <2> HIDE DEF after
  <2>2. Offline(base)
    BY <1>0, <2>1 DEF Offline
  <2> QED
    BY <1>0, <2>1, <2>2, SettleEndsDeserted
<1>2. ASSUME NEW p \in Name,
             \/ Reconnect(p) \/ Packet(p) \/ SocketDisconnected(p)
             \/ RequestTimer(p) \/ HeartbeatDeadline(p) \/ ZeroTimer(p)
      PROVE  \A q \in agents' : conn'[q].socket = "none"
  <2>1. PICK d : p \in agents /\ Keeps(conn[p], d) /\ Handle(p, d)
    BY <1>0, <1>2, HandlersKeep
  <2> DEFINE cs == [conn EXCEPT ![p] = d]
             none == <<>>
  <2>2. Settle(agents, cs, none)
    BY <2>1 DEF Handle
  <2>3. \A q \in Name : Keeps(conn[q], cs[q])
    BY <1>0, <2>1, StillAtRest
  <2> HIDE DEF cs, none
  <2> QED
    BY <1>0, <2>2, <2>3, SettleEndsDeserted
<1>3. CASE RunnerTakes
  <2> DEFINE m == Head(toRunner)
  <2>1. CASE TakeRequest(m) /\ m.to \subseteq agents
    <3> DEFINE none == <<>>
    <3>1. PICK base, cs :
             /\ \A p \in Name : Keeps(base[p], cs[p])
             /\ \A p \in Name : /\ base[p].socket = conn[p].socket
                                /\ base[p].online = conn[p].online
             /\ Settle(agents, cs, none)
      BY <1>3, <2>1, RequestSettles
    <3>2. Offline(base)
      BY <1>0, <3>1 DEF Offline
    <3> HIDE DEF none
    <3> QED
      BY <1>0, <3>1, <3>2, SettleEndsDeserted
  <2>2. CASE TakeRequest(m) /\ ~(m.to \subseteq agents)
    BY <2>2 DEF TakeRequest
  <2>3. CASE TakeUpgradeResult(m) \/ TakeGameOver(m)
    <3>1. m.signal # "request"
      BY <2>3 DEF TakeUpgradeResult, TakeGameOver
    <3>2. toRunner # <<>> /\ toRunner' = Tail(toRunner)
      BY <1>3 DEF RunnerTakes
    <3>3. toRunner \in Seq(PostedSignals)
      BY DEF MailInv, TypeOK
    <3>4. Len(Tail(toRunner)) # Len(toRunner)
      BY <3>2, <3>3
    <3> QED
      BY <3>1, <3>2, <3>4
  <2> QED
    BY <1>3, <2>1, <2>2, <2>3 DEF RunnerTakes
<1>4. CASE LogicTakes
  BY <1>4 DEF LogicTakes
<1>5. CASE Delete
  BY <1>5 DEF Delete
<1>6. CASE UNCHANGED vars
  BY <1>6 DEF vars
<1> QED
  BY <1>1, <1>2, <1>3, <1>4, <1>5, <1>6 DEF Next, Ended

\* A room somebody is connected to is not ended by a departure: whoever is not
\* online has no socket, whichever handlers ran, so finding nobody online is
\* finding nobody connected.
THEOREM RunnerOccupiedRoomGoesOn == Spec => OccupiedRoomGoesOn
<1>1. Init => DesertInv
  <2>1. ~Full({}) /\ ~NoConnection.online /\ NoConnection.socket = "none"
    BY FS_EmptySet, RoomAssumption DEF Full, NoConnection
  <2> QED
    BY <2>1 DEF Init, DesertInv, Offline, Deserted
<1>2. DesertInv /\ MailInv /\ [Next]_vars
        => [over = "running" /\ over' = "gameOver" =>
              \/ \A p \in agents' : conn'[p].socket = "none"
              \/ /\ toRunner' # toRunner
                 /\ Head(toRunner).signal # "request"]_vars
  BY OccupiedStep
<1> QED
  BY <1>1, <1>2, DesertStep, WaitInit, WaitStep, MailInit, MailStep, PTL
     DEF Spec, OccupiedRoomGoesOn


-----------------------------------------------------------------------------
(* Two rooms. *)

\* The room of the logic is a; it takes the call m, and it is b.
Becomes(a, m, b) ==
    /\ m.call = "addPlayer" => m.player \notin a /\ b = a \cup {m.player}
    /\ m.call = "removePlayer" => m.player \in a /\ b = a \ {m.player}
    /\ m.call \notin {"addPlayer", "removePlayer"} => b = a

\* The calls in q lead it from a to b, and it takes each of them.
Leads(a, q, b) ==
    \E t \in [0..Len(q) -> SUBSET Name] :
        /\ t[0] = a /\ t[Len(q)] = b
        /\ \A n \in 1..Len(q) : Becomes(t[n - 1], q[n], t[n])

\* No calls, one call, and calls that are about nobody.
LEMMA LeadsSimply ==
    /\ \A a \in SUBSET Name : Leads(a, <<>>, a)
    /\ \A a, b : Leads(a, <<>>, b) => a = b
    /\ \A a, b \in SUBSET Name : \A m : Becomes(a, m, b) => Leads(a, <<m>>, b)
    /\ \A a \in SUBSET Name : \A q \in Seq(PostedCalls) :
          (\A i \in DOMAIN q : q[i].call \notin {"addPlayer", "removePlayer"})
             => Leads(a, q, a)
<1>1. ASSUME NEW a \in SUBSET Name, NEW q \in Seq(PostedCalls),
             \A i \in DOMAIN q : q[i].call \notin {"addPlayer", "removePlayer"}
      PROVE  Leads(a, q, a)
  <2> DEFINE t == [n \in 0..Len(q) |-> a]
  <2>1. /\ Len(q) \in Nat /\ DOMAIN q = 1..Len(q)
        /\ \A n \in 1..Len(q) : n \in 0..Len(q) /\ n - 1 \in 0..Len(q)
        /\ 0 \in 0..Len(q) /\ Len(q) \in 0..Len(q)
    OBVIOUS
  <2>2. t \in [0..Len(q) -> SUBSET Name] /\ \A n \in 0..Len(q) : t[n] = a
    OBVIOUS
  <2> HIDE DEF t
  <2>3. \A n \in 1..Len(q) : Becomes(t[n - 1], q[n], t[n])
    BY <1>1, <2>1, <2>2 DEF Becomes
  <2> QED
    BY <2>1, <2>2, <2>3 DEF Leads
<1>2. ASSUME NEW a \in SUBSET Name PROVE Leads(a, <<>>, a)
  <2> DEFINE none == <<>>
  <2>1. none \in Seq(PostedCalls) /\ DOMAIN none = {}
    OBVIOUS
  <2> HIDE DEF none
  <2>2. Leads(a, none, a)
    BY <1>1, <2>1
  <2> QED
    BY <2>2 DEF none
<1>3. ASSUME NEW a, NEW b, Leads(a, <<>>, b) PROVE a = b
  BY <1>3 DEF Leads
<1>4. ASSUME NEW a \in SUBSET Name, NEW b \in SUBSET Name, NEW m, Becomes(a, m, b)
      PROVE  Leads(a, <<m>>, b)
  <2> DEFINE q == <<m>>
             t == [n \in 0..1 |-> IF n = 0 THEN a ELSE b]
  <2>1. Len(q) = 1 /\ q[1] = m
    OBVIOUS
  <2>2. t \in [0..1 -> SUBSET Name] /\ t[0] = a /\ t[1] = b
    OBVIOUS
  <2> HIDE DEF q, t
  <2>3. \A n \in 1..1 : Becomes(t[n - 1], q[n], t[n])
    BY <1>4, <2>1, <2>2
  <2>4. Leads(a, q, b)
    BY <2>1, <2>2, <2>3 DEF Leads
  <2> QED
    BY <2>4 DEF q
<1> QED
  BY <1>1, <1>2, <1>3, <1>4

\* More calls behind.
LEMMA LeadsConcat ==
    ASSUME NEW S, NEW q \in Seq(S), NEW r \in Seq(S), NEW a, NEW b, NEW c,
           Leads(a, q, b), Leads(b, r, c)
    PROVE  Leads(a, q \o r, c)
<1>1. PICK t \in [0..Len(q) -> SUBSET Name] :
         /\ t[0] = a /\ t[Len(q)] = b
         /\ \A n \in 1..Len(q) : Becomes(t[n - 1], q[n], t[n])
  BY DEF Leads
<1>2. PICK u \in [0..Len(r) -> SUBSET Name] :
         /\ u[0] = b /\ u[Len(r)] = c
         /\ \A n \in 1..Len(r) : Becomes(u[n - 1], r[n], u[n])
  BY DEF Leads
<1> DEFINE k == Len(q)
           l == Len(r)
           s == q \o r
           v == [n \in 0..(k + l) |-> IF n <= k THEN t[n] ELSE u[n - k]]
<1>3. /\ k \in Nat /\ l \in Nat /\ Len(s) = k + l
      /\ \A n \in 1..k : s[n] = q[n]
      /\ \A n \in (k + 1)..(k + l) : s[n] = r[n - k]
  OBVIOUS
<1>4. t \in [0..k -> SUBSET Name] /\ u \in [0..l -> SUBSET Name] /\ t[k] = u[0]
  BY <1>1, <1>2
<1> HIDE DEF k, l, s
<1>5. v \in [0..(k + l) -> SUBSET Name]
  <2> SUFFICES ASSUME NEW n \in 0..(k + l)
               PROVE  (IF n <= k THEN t[n] ELSE u[n - k]) \in SUBSET Name
    OBVIOUS
  <2>1. CASE n <= k
    <3>1. n \in 0..k
      BY <1>3, <2>1
    <3> QED
      BY <1>4, <2>1, <3>1
  <2>2. CASE ~(n <= k)
    <3>1. n - k \in 0..l
      BY <1>3, <2>2
    <3> QED
      BY <1>4, <2>2, <3>1
  <2> QED
    BY <2>1, <2>2
<1>6. v[0] = a /\ v[k + l] = c
  <2>1. v[0] = t[0]
    BY <1>3
  <2>2. CASE l = 0
    <3>1. k + l = k /\ k \in 0..(k + l)
      BY <1>3, <2>2
    <3>2. v[k + l] = t[k]
      BY <1>3, <3>1
    <3> QED
      BY <1>1, <1>2, <1>4, <2>1, <2>2, <3>2 DEF l
  <2>3. CASE l # 0
    <3>1. k + l \in 0..(k + l) /\ ~(k + l <= k) /\ (k + l) - k = l
      BY <1>3, <2>3
    <3>2. v[k + l] = u[l]
      BY <3>1
    <3> QED
      BY <1>1, <1>2, <2>1, <3>2 DEF l
  <2> QED
    BY <2>2, <2>3
<1>7. ASSUME NEW n \in 1..(k + l) PROVE Becomes(v[n - 1], s[n], v[n])
  <2>1. n \in 0..(k + l) /\ n - 1 \in 0..(k + l) /\ n \in Int
    BY <1>3
  <2>2. CASE n <= k
    <3>1. n \in 1..k /\ n - 1 <= k
      BY <1>3, <2>2
    <3>2. v[n - 1] = t[n - 1] /\ v[n] = t[n] /\ s[n] = q[n]
      BY <1>3, <2>1, <2>2, <3>1
    <3>3. Becomes(t[n - 1], q[n], t[n])
      BY <1>1, <3>1 DEF k
    <3> HIDE DEF v
    <3> QED
      BY <3>2, <3>3
  <2>3. CASE n = k + 1
    <3>1. n - 1 = k /\ n - k = 1 /\ 1 \in 1..l /\ n \in (k + 1)..(k + l) /\ ~(n <= k)
      BY <1>3, <2>3
    <3>2. v[n - 1] = t[k] /\ v[n] = u[1] /\ s[n] = r[1]
      <4>1. v[n - 1] = t[n - 1]
        BY <1>3, <2>1, <3>1
      <4>2. v[n] = u[n - k]
        BY <2>1, <3>1
      <4>3. s[n] = r[n - k]
        BY <1>3, <3>1
      <4> HIDE DEF v
      <4> QED
        BY <3>1, <4>1, <4>2, <4>3
    <3>3. Becomes(u[0], r[1], u[1])
      <4>1. \A j \in 1..l : Becomes(u[j - 1], r[j], u[j])
        BY <1>2 DEF l
      <4>2. 1 - 1 = 0
        OBVIOUS
      <4> QED
        BY <3>1, <4>1, <4>2
    <3> HIDE DEF v
    <3> QED
      BY <1>4, <3>2, <3>3
  <2>4. CASE n > k + 1
    <3> DEFINE j == n - k
    <3>1. /\ j \in 1..l /\ j - 1 = (n - 1) - k /\ n \in (k + 1)..(k + l)
          /\ ~(n <= k) /\ ~(n - 1 <= k)
      BY <1>3, <2>4
    <3> HIDE DEF j
    <3>2. v[n - 1] = u[j - 1] /\ v[n] = u[j] /\ s[n] = r[j]
      <4>1. v[n - 1] = u[(n - 1) - k]
        BY <2>1, <3>1
      <4>2. v[n] = u[n - k]
        BY <2>1, <3>1
      <4>3. s[n] = r[n - k]
        BY <1>3, <3>1
      <4> HIDE DEF v
      <4> QED
        BY <3>1, <4>1, <4>2, <4>3 DEF j
    <3>3. Becomes(u[j - 1], r[j], u[j])
      BY <1>2, <3>1 DEF l
    <3> HIDE DEF v
    <3> QED
      BY <3>2, <3>3
  <2> QED
    BY <1>3, <2>1, <2>2, <2>3, <2>4
<1> HIDE DEF v
<1> QED
  BY <1>3, <1>5, <1>6, <1>7 DEF Leads, s

\* The first call is taken, and the others lead on.
LEMMA LeadsTail ==
    ASSUME NEW S, NEW q \in Seq(S), q # <<>>, NEW a, NEW b, Leads(a, q, b)
    PROVE  \E c \in SUBSET Name : Becomes(a, Head(q), c) /\ Leads(c, Tail(q), b)
<1>1. PICK t \in [0..Len(q) -> SUBSET Name] :
         /\ t[0] = a /\ t[Len(q)] = b
         /\ \A n \in 1..Len(q) : Becomes(t[n - 1], q[n], t[n])
  BY DEF Leads
<1> DEFINE k == Len(q)
           r == Tail(q)
           u == [n \in 0..(k - 1) |-> t[n + 1]]
<1>2. /\ k \in Nat /\ k >= 1 /\ Len(r) = k - 1 /\ Head(q) = q[1]
      /\ \A n \in 1..(k - 1) : r[n] = q[n + 1]
  OBVIOUS
<1>3. t \in [0..k -> SUBSET Name]
  BY <1>1
<1> HIDE DEF k, r
<1>4. 1 \in 1..k /\ 1 \in 0..k /\ 1 - 1 = 0 /\ 0 \in 0..(k - 1) /\ k - 1 \in 0..(k - 1)
      /\ 0 + 1 = 1 /\ (k - 1) + 1 = k
  BY <1>2
<1>5. t[1] \in SUBSET Name /\ Becomes(a, q[1], t[1])
  <2>1. Becomes(t[1 - 1], q[1], t[1])
    BY <1>1, <1>4 DEF k
  <2> QED
    BY <1>1, <1>3, <1>4, <2>1
<1>6. u \in [0..(k - 1) -> SUBSET Name]
  <2> SUFFICES ASSUME NEW n \in 0..(k - 1) PROVE t[n + 1] \in SUBSET Name
    OBVIOUS
  <2>1. n + 1 \in 0..k
    BY <1>2
  <2> QED
    BY <1>3, <2>1
<1>7. u[0] = t[1] /\ u[k - 1] = b
  <2>1. u[0] = t[0 + 1] /\ u[k - 1] = t[(k - 1) + 1]
    BY <1>4
  <2> HIDE DEF u
  <2> QED
    BY <1>1, <1>4, <2>1 DEF k
<1>8. ASSUME NEW n \in 1..(k - 1) PROVE Becomes(u[n - 1], r[n], u[n])
  <2>1. /\ n \in 0..(k - 1) /\ n - 1 \in 0..(k - 1) /\ n + 1 \in 1..k
        /\ (n - 1) + 1 = n /\ (n + 1) - 1 = n
    BY <1>2
  <2>2. u[n - 1] = t[(n - 1) + 1] /\ u[n] = t[n + 1] /\ r[n] = q[n + 1]
    BY <1>2, <2>1
  <2>3. Becomes(t[(n + 1) - 1], q[n + 1], t[n + 1])
    BY <1>1, <2>1 DEF k
  <2> HIDE DEF u
  <2> QED
    BY <2>1, <2>2, <2>3
<1> HIDE DEF u
<1>9. Leads(t[1], r, b)
  BY <1>2, <1>6, <1>7, <1>8 DEF Leads
<1> QED
  BY <1>2, <1>5, <1>9 DEF r


\* What the calls posted lead to is who will be in the room.
LEMMA LeadsToBe ==
    ASSUME toLogic \in Seq(PostedCalls), NEW b, Leads(players, toLogic, b)
    PROVE  PlayersToBe = b
<1>1. PICK t \in [0..Len(toLogic) -> SUBSET Name] :
         /\ t[0] = players /\ t[Len(toLogic)] = b
         /\ \A n \in 1..Len(toLogic) : Becomes(t[n - 1], toLogic[n], t[n])
  BY DEF Leads
<1> DEFINE k == Len(toLogic)
           next(a, m) == IF m.call = "addPlayer" THEN a \cup {m.player}
                         ELSE IF m.call = "removePlayer" THEN a \ {m.player}
                         ELSE a
           F(u) == [n \in 0..Len(toLogic) |->
                      IF n = 0 THEN players ELSE next(u[n - 1], toLogic[n])]
<1>2. PlayersToBe = (CHOOSE u : u = F(u))[k]
  BY DEF PlayersToBe
<1>3. k \in Nat /\ 0 \in 0..k /\ k \in 0..k
  OBVIOUS
<1>4. \A n \in 1..k : t[n] = next(t[n - 1], toLogic[n])
  BY <1>1 DEF Becomes
<1> HIDE DEF next
<1>5. t = F(t)
  <2> DEFINE g == F(t)
  <2>1. DOMAIN t = 0..k /\ DOMAIN g = 0..k
    OBVIOUS
  <2>2. \A n \in 0..k : t[n] = g[n]
    <3> SUFFICES ASSUME NEW n \in 0..k PROVE t[n] = g[n]
      OBVIOUS
    <3>1. CASE n = 0
      BY <1>1, <3>1
    <3>2. CASE n # 0
      <4>1. n \in 1..k
        BY <3>2
      <4>2. g[n] = next(t[n - 1], toLogic[n])
        BY <3>2
      <4> QED
        BY <1>4, <4>1, <4>2
    <3> QED
      BY <3>1, <3>2
  <2>3. t = [n \in 0..k |-> t[n]] /\ g = [n \in 0..k |-> g[n]]
    OBVIOUS
  <2> HIDE DEF g
  <2>4. t = g
    BY <2>2, <2>3
  <2> QED
    BY <2>4 DEF g
<1>6. \A u : u = F(u) => u[k] = t[k]
  <2> SUFFICES ASSUME NEW u, u = F(u) PROVE u[k] = t[k]
    OBVIOUS
  <2> DEFINE bad == {n \in 0..k : u[n] # t[n]}
  <2>1. u[0] = players /\ \A n \in 1..k : u[n] = next(u[n - 1], toLogic[n])
    <3>1. \A n \in 0..k :
             u[n] = IF n = 0 THEN players ELSE next(u[n - 1], toLogic[n])
      BY <1>3
    <3>2. \A n \in 1..k : n \in 0..k /\ n # 0
      BY <1>3
    <3> QED
      BY <1>3, <3>1, <3>2
  <2> HIDE DEF F, k
  <2> SUFFICES ASSUME bad # {} PROVE FALSE
    BY <1>3
  <2>2. PICK n \in bad : \A x \in bad : n <= x
    <3>1. bad \in SUBSET Nat
      BY <1>3
    <3> HIDE DEF bad
    <3> QED
      BY <3>1, LeastNat
  <2>3. n \in 0..k /\ u[n] # t[n]
    OBVIOUS
  <2>4. n # 0
    BY <1>1, <2>1, <2>3
  <2>5. n \in 1..k /\ n - 1 \in 0..k /\ ~(n <= n - 1)
    BY <1>3, <2>3, <2>4
  <2>6. u[n - 1] = t[n - 1]
    BY <2>2, <2>5
  <2> QED
    BY <1>4, <2>1, <2>3, <2>5, <2>6
<1>7. (CHOOSE u : u = F(u))[k] = t[k]
  <2> DEFINE v == CHOOSE u : u = F(u)
  <2>1. v = F(v)
    BY <1>5
  <2> HIDE DEF v, F
  <2>2. v[k] = t[k]
    BY <1>6, <2>1
  <2> QED
    BY <2>2 DEF v
<1> QED
  BY <1>1, <1>2, <1>7

\* Nobody but p leaves a room that recruits.
OnlyLeaves(p, room, cs) == Full(room) \/ \A q \in room \ {p} : ~cs[q].left

\* An event has posted d and the replies q before the calls that come after: d is
\* the departure of p, if p leaves a room that recruits.
Posted(p, room, base, cs, after, d, q) ==
    /\ d \in Seq(PostedCalls) /\ q \in Seq(PostedCalls)
    /\ toLogic' = ((toLogic \o d) \o q) \o after
    /\ \A i \in DOMAIN q : q[i].call = "reply"
    /\ (\A x \in Name : base[x].currentRequest = Invalid) => q = <<>>
    /\ \/ agents' = room /\ d = <<>>
       \/ /\ ~Full(room) /\ p \in room /\ cs[p].left
          /\ agents' = room \ {p} /\ d = <<RemovePlayer(p)>>

\* And that is all it posts.
LEMMA SettleCalls ==
    ASSUME toLogic \in Seq(PostedCalls), NEW room \in SUBSET Name,
           NEW base, NEW cs, NEW after \in Seq(PostedCalls), NEW p \in Name,
           Still(base), \A q \in Name : Keeps(base[q], cs[q]),
           OnlyLeaves(p, room, cs),
           Settle(room, cs, after)
    PROVE  \E d, q : Posted(p, room, base, cs, after, d, q)
<1> DEFINE gone == {x \in room : cs[x].left}
           left == IF Full(room) THEN {} ELSE gone
           d == [i \in 1..Cardinality(left) |-> RemovePlayer(InNameOrder(left)[i])]
           q == Replies(cs)
<1>1. toLogic' = ((toLogic \o d) \o q) \o after /\ agents' = room \ left
  BY DEF Settle
<1>2. left \in SUBSET Name /\ (left = {} \/ left = {p})
      /\ (left = {p} => ~Full(room) /\ p \in room /\ cs[p].left)
  BY DEF OnlyLeaves
<1> HIDE DEF left
<1>3. d \in Seq(PostedCalls)
  BY <1>2, RemovesPosted
<1>4. \A x \in Name :
         \/ cs[x].replies = <<>>
         \/ /\ base[x].currentRequest # Invalid
            /\ \E r \in RequestIds : cs[x].replies = <<r>>
  <2> SUFFICES ASSUME NEW x \in Name, cs[x].replies # <<>>
               PROVE  /\ base[x].currentRequest # Invalid
                      /\ \E r \in RequestIds : cs[x].replies = <<r>>
    OBVIOUS
  <2>1. Keeps(base[x], cs[x]) /\ base[x].replies = <<>>
    BY DEF Still
  <2>2. base[x].currentRequest \in RequestIds \cup {Invalid}
    BY <2>1 DEF Keeps, Connections
  <2>3. Append(<<>>, base[x].currentRequest) = <<base[x].currentRequest>>
    OBVIOUS
  <2> QED
    BY <2>1, <2>2, <2>3 DEF Keeps
<1>5. OneReplyEach(cs)
  BY <1>4 DEF OneReplyEach
<1>6. /\ q \in Seq(PostedCalls)
      /\ \A i \in DOMAIN q : \E x \in Name :
            /\ cs[x].replies # <<>> /\ q[i] = ReplyOf(x, cs[x].replies[1])
  BY <1>5, RepliesPosted
<1> HIDE DEF q
<1>7. \A i \in DOMAIN q : q[i].call = "reply"
  BY <1>6 DEF ReplyOf
<1>8. ASSUME \A x \in Name : base[x].currentRequest = Invalid
      PROVE  q = <<>>
  <2>1. DOMAIN q = {}
    BY <1>4, <1>6, <1>8
  <2> QED
    BY <1>6, <2>1
<1>9. CASE left = {}
  <2>1. Cardinality(left) = 0
    BY <1>9, FS_EmptySet
  <2>2. d = <<>>
    BY <2>1
  <2>3. agents' = room
    BY <1>1, <1>9
  <2> HIDE DEF d
  <2> QED
    BY <1>1, <1>3, <1>6, <1>7, <1>8, <2>2, <2>3 DEF Posted
<1>10. CASE left = {p}
  <2>1. Cardinality(left) = 1 /\ InNameOrder(left)[1] = p
    <3>1. Cardinality(left) = 1
      BY <1>10, FS_Singleton
    <3>2. InNameOrder(left) \in [1..1 -> left]
      BY <1>2, <3>1, NameOrder
    <3> QED
      BY <1>10, <3>1, <3>2
  <2>2. d = <<RemovePlayer(p)>>
    <3> DEFINE m == RemovePlayer(p)
    <3>1. d = [i \in 1..1 |-> RemovePlayer(InNameOrder(left)[i])]
      BY <2>1
    <3>2. \A i \in 1..1 : RemovePlayer(InNameOrder(left)[i]) = m
      BY <2>1
    <3> HIDE DEF d, m
    <3>3. d = [i \in 1..1 |-> m]
      BY <3>1, <3>2
    <3>4. d = <<m>>
      BY <3>3
    <3> QED
      BY <3>4 DEF m
  <2>3. agents' = room \ {p}
    BY <1>1, <1>10
  <2> HIDE DEF d
  <2> QED
    BY <1>1, <1>2, <1>3, <1>6, <1>7, <1>8, <1>10, <2>2, <2>3 DEF Posted
<1> QED
  BY <1>2, <1>9, <1>10


OnlyReplies(q) == \A i \in DOMAIN q : q[i].call = "reply"
OnlyRequests(q) == \A i \in DOMAIN q : q[i].signal = "request"

\* A round starts with the last call posted, in a full room.
StartsLast(q, room) ==
    \A i \in DOMAIN q : q[i].call = "roundStart" => i = Len(q) /\ Full(room)

\* The inductive invariant behind RoomsAgree and PostedCallsAreAccepted.  During a
\* round the two rooms are one, and only requests and replies go between them.
\* Before it, the calls posted lead from one to the other; and what ends a round is
\* posted when nothing else is.
RoomInv ==
    Alive =>
        /\ phase \in Logic!Running =>
              /\ players = agents /\ Full(agents)
              /\ OnlyReplies(toLogic) /\ OnlyRequests(toRunner)
        /\ phase = Logic!Idle =>
              /\ Leads(players, toLogic, agents)
              /\ StartsLast(toLogic, agents)
              /\ \/ toRunner = <<>>
                 \/ /\ Full(agents) /\ toLogic = <<>>
                    /\ \E m : toRunner = <<m>> /\ m.signal # "request"

\* An idle logic owes nobody an answer and is owed none.
LEMMA IdleOwesNothing ==
    ASSUME MailInv, Alive, phase = Logic!Idle
    PROVE  /\ \A p \in Name : conn[p].currentRequest = Invalid
           /\ NoReplies(toLogic)
           /\ \A i \in DOMAIN toRunner : toRunner[i].signal # "request"
<1>1. /\ toLogic \in Seq(PostedCalls) /\ toRunner \in Seq(PostedSignals) /\ OnTheWay
      /\ asked = {}
  BY DEF MailInv, TypeOK
<1>2. ASSUME NEW p \in Name
      PROVE  /\ conn[p].currentRequest = Invalid
             /\ HitCount(toLogic, Going(p)) = 0 /\ HitCount(toRunner, Coming(p)) = 0
  <2>1. /\ HitCount(toRunner, Coming(p)) \in Nat /\ HitCount(toLogic, Going(p)) \in Nat
        /\ Owed(conn[p]) \in Nat
    BY <1>1, HitsType DEF Owed
  <2>2. Places(p) = 0
    BY <1>1 DEF OnTheWay
  <2>3. /\ Owed(conn[p]) = 0 /\ HitCount(toLogic, Going(p)) = 0
        /\ HitCount(toRunner, Coming(p)) = 0
    BY <2>1, <2>2 DEF Places
  <2> QED
    BY <2>3 DEF Owed
<1> QED
  BY <1>1, <1>2, NothingOnTheWay

\* What an event posts during a round are replies.
LEMMA SettleRunning ==
    ASSUME MailInv, Alive, OnlyReplies(toLogic), Full(agents), NEW p \in Name,
           NEW base, NEW cs, Still(base), \A q \in Name : Keeps(base[q], cs[q]),
           Settle(agents, cs, <<>>)
    PROVE  agents' = agents /\ OnlyReplies(toLogic')
<1> DEFINE none == <<>>
<1>1. /\ toLogic \in Seq(PostedCalls) /\ agents \in SUBSET Name
      /\ none \in Seq(PostedCalls) /\ Settle(agents, cs, none)
  BY DEF MailInv, TypeOK
<1>2. \A q \in Seq(PostedCalls) : q \o none = q
  OBVIOUS
<1> HIDE DEF none
<1>3. OnlyLeaves(p, agents, cs)
  BY DEF OnlyLeaves
<1>9. PICK d, q : Posted(p, agents, base, cs, none, d, q)
  BY <1>1, <1>3, SettleCalls
<1>4. /\ d \in Seq(PostedCalls) /\ q \in Seq(PostedCalls)
      /\ toLogic' = ((toLogic \o d) \o q) \o none
      /\ \A i \in DOMAIN q : q[i].call = "reply"
      /\ agents' = agents /\ d = <<>>
  BY <1>9 DEF Posted
<1>5. d = none
  BY <1>4 DEF none
<1> DEFINE w == toLogic \o q
<1>6. /\ w \in Seq(PostedCalls)
      /\ \A i \in DOMAIN w : \/ \E j \in DOMAIN toLogic : w[i] = toLogic[j]
                             \/ \E j \in DOMAIN q : w[i] = q[j]
  <2>1. toLogic \in Seq(PostedCalls) /\ q \in Seq(PostedCalls)
    BY <1>1, <1>4
  <2> QED
    BY <2>1, HitsParts
<1> HIDE DEF w
<1>7. toLogic' = w
  BY <1>1, <1>2, <1>4, <1>5, <1>6 DEF w
<1>8. OnlyReplies(w)
  BY <1>4, <1>6 DEF OnlyReplies
<1> QED
  BY <1>4, <1>7, <1>8

\* An event of one player's connection.
LEMMA HandleRooms ==
    ASSUME RoomInv, MailInv, NEW p \in agents, NEW c, Keeps(conn[p], c), Handle(p, c)
    PROVE  RoomInv'
<1> DEFINE cs == [conn EXCEPT ![p] = c]
           none == <<>>
<1>1. /\ Alive /\ UNCHANGED <<players, phase, asked, toRunner>>
      /\ Settle(agents, cs, <<>>)
  BY DEF Handle
<1>2. /\ agents \in SUBSET Name /\ p \in Name /\ conn \in [Name -> Connections]
      /\ toLogic \in Seq(PostedCalls) /\ players \in SUBSET Name
      /\ phase \in Logic!Running \cup {Logic!Idle} /\ none \in Seq(PostedCalls)
  BY DEF MailInv, TypeOK
<1>3. /\ Still(conn) /\ \A q \in Name : Keeps(conn[q], cs[q])
      /\ OnlyLeaves(p, agents, cs)
  BY <1>2, StillAtRest DEF Still, OnlyLeaves
<1>4. \A q \in Seq(PostedCalls) : q \o none = q
  OBVIOUS
<1> HIDE DEF cs
<1>5. CASE phase \in Logic!Running
  <2>1. /\ players = agents /\ Full(agents)
        /\ OnlyReplies(toLogic) /\ OnlyRequests(toRunner)
    BY <1>1, <1>5 DEF RoomInv
  <2>2. agents' = agents /\ OnlyReplies(toLogic')
    BY <1>1, <1>2, <1>3, <2>1, SettleRunning
  <2>3. phase' # Logic!Idle
    BY <1>1, <1>5 DEF Logic!Running, Logic!Idle
  <2> QED
    BY <1>1, <2>1, <2>2, <2>3 DEF RoomInv
<1>6. CASE phase = Logic!Idle
  <2>0. phase' = Logic!Idle /\ phase' \notin Logic!Running
    BY <1>1, <1>6 DEF Logic!Running, Logic!Idle
  <2>1. /\ Leads(players, toLogic, agents) /\ StartsLast(toLogic, agents)
        /\ \/ toRunner = <<>>
           \/ /\ Full(agents) /\ toLogic = <<>>
              /\ \E m : toRunner = <<m>> /\ m.signal # "request"
    BY <1>1, <1>6 DEF RoomInv
  <2>2. \A q \in Name : conn[q].currentRequest = Invalid
    BY <1>1, <1>6, IdleOwesNothing
  <2>3. Settle(agents, cs, none)
    BY <1>1
  <2> HIDE DEF none
  <2>10. PICK d, q : Posted(p, agents, conn, cs, none, d, q)
    BY <1>2, <1>3, <2>3, SettleCalls
  <2>4. /\ d \in Seq(PostedCalls)
        /\ toLogic' = ((toLogic \o d) \o q) \o none
        /\ q = <<>>
        /\ \/ agents' = agents /\ d = <<>>
           \/ /\ ~Full(agents)
              /\ agents' = agents \ {p} /\ d = <<RemovePlayer(p)>>
    BY <2>2, <2>10 DEF Posted
  <2>5. q = none
    BY <2>4 DEF none
  <2>11. toLogic \in Seq(PostedCalls) /\ d \in Seq(PostedCalls)
    BY <1>2, <2>4
  <2>6. toLogic \o d \in Seq(PostedCalls)
    BY <2>11
  <2>7. toLogic' = toLogic \o d
    BY <1>4, <2>4, <2>5, <2>6
  <2>8. CASE agents' = agents /\ d = <<>>
    <3>1. toLogic' = toLogic
      BY <1>2, <1>4, <2>7, <2>8 DEF none
    <3> QED
      BY <1>1, <2>0, <2>1, <2>8, <3>1 DEF RoomInv
  <2>9. CASE ~Full(agents) /\ agents' = agents \ {p} /\ d = <<RemovePlayer(p)>>
    <3>1. toRunner' = <<>>
      BY <1>1, <2>1, <2>9
    <3>2. Becomes(agents, RemovePlayer(p), agents')
      BY <2>9 DEF Becomes, RemovePlayer
    <3>3. agents' \in SUBSET Name
      BY <1>2, <2>9
    <3>4. Leads(agents, d, agents')
      BY <1>2, <2>9, <3>2, <3>3, LeadsSimply
    <3>5. Leads(players, toLogic', agents')
      BY <2>1, <2>7, <2>11, <3>4, LeadsConcat
    <3>6. StartsLast(toLogic', agents')
      <4> DEFINE w == toLogic \o d
      <4>1. \A i \in DOMAIN w : \/ \E j \in DOMAIN toLogic : w[i] = toLogic[j]
                                \/ \E j \in DOMAIN d : w[i] = d[j]
        BY <2>11, HitsParts
      <4>2. \A j \in DOMAIN d : d[j].call # "roundStart"
        BY <2>9 DEF RemovePlayer
      <4>3. \A j \in DOMAIN toLogic : toLogic[j].call # "roundStart"
        BY <2>1, <2>9 DEF StartsLast
      <4>4. \A i \in DOMAIN w : w[i].call # "roundStart"
        BY <4>1, <4>2, <4>3
      <4> QED
        BY <2>7, <4>4 DEF StartsLast
    <3> QED
      BY <1>1, <2>0, <3>1, <3>5, <3>6 DEF RoomInv
  <2> QED
    BY <2>4, <2>8, <2>9
<1> QED
  BY <1>2, <1>5, <1>6


\* A player who signs in to a room that recruits, and is not lost before the logic
\* is told, is in both rooms in the end; the round starts when that fills it.
LEMMA JoinRooms ==
    ASSUME EagerWriteFailure = FALSE, RoomInv, MailInv, NEW p \in Name, Join(p)
    PROVE  RoomInv'
<1> DEFINE room == agents \cup {p}
           start == IF Full(room) THEN <<RoundStart>> ELSE <<>>
           after == <<AddPlayer(p)>> \o start
           none == <<>>
<1>1. /\ Alive /\ ~Full(agents) /\ p \notin agents
      /\ UNCHANGED <<players, phase, asked, toRunner>>
  BY DEF Join, Alive
<1>2. /\ toLogic \in Seq(PostedCalls) /\ agents \in SUBSET Name
      /\ room \in SUBSET Name /\ players \in SUBSET Name
      /\ phase \in Logic!Running \cup {Logic!Idle}
  BY DEF MailInv, TypeOK
<1>3. /\ phase = Logic!Idle /\ phase \notin Logic!Running
      /\ Leads(players, toLogic, agents)
      /\ StartsLast(toLogic, agents) /\ toRunner = <<>>
  <2>1. phase = Logic!Idle
    BY <1>1, <1>2 DEF RoomInv
  <2> QED
    BY <1>1, <2>1 DEF RoomInv, Logic!Idle, Logic!Running
<1>4. PICK base, cs :
         /\ Still(base) /\ \A q \in Name : Keeps(base[q], cs[q])
         /\ \A q \in Name \ {p} : base[q] = conn[q]
         /\ Asks(base)
         /\ cs[p] = base[p]
         /\ \A q \in Name \ {p} : cs[q] = conn[q]
         /\ after \in Seq(PostedCalls)
         /\ Settle(room, cs, after)
  BY JoinSettles
<1>5. \A x \in Name : base[x].currentRequest = Invalid
  <2> SUFFICES ASSUME NEW x \in Name PROVE base[x].currentRequest = Invalid
    OBVIOUS
  <2>1. base[x].currentRequest \in {Invalid, Logic!RequestOf(phase)}
    BY <1>4 DEF Asks
  <2>2. base[x].currentRequest \in RequestIds \cup {Invalid}
    BY <1>4 DEF Keeps, Connections
  <2>3. Logic!RequestOf(phase) \notin RequestIds
    BY <1>3 DEF Logic!RequestOf, Logic!Idle, RequestIds
  <2> QED
    BY <2>1, <2>2, <2>3
<1>6. \A x \in Name : ~cs[x].left
  BY <1>4 DEF Still
<1>7. OnlyLeaves(p, room, cs)
  BY <1>2, <1>6 DEF OnlyLeaves
<1>8. AddPlayer(p) \in PostedCalls /\ RoundStart \in PostedCalls
  BY CallTypes
<1>9. /\ start \in Seq(PostedCalls) /\ <<AddPlayer(p)>> \in Seq(PostedCalls)
      /\ \A q \in Seq(PostedCalls) : q \o none = q
  BY <1>8
<1> HIDE DEF room, after, none
<1>10. PICK d, q : Posted(p, room, base, cs, after, d, q)
  BY <1>2, <1>4, <1>7, SettleCalls
<1>11. /\ toLogic' = ((toLogic \o d) \o q) \o after
       /\ agents' = room /\ d = none /\ q = none
  BY <1>5, <1>6, <1>10 DEF Posted, none
<1>12. toLogic' = toLogic \o after
  BY <1>2, <1>9, <1>11
<1>13. Leads(players, toLogic', room)
  <2>1. Becomes(agents, AddPlayer(p), room)
    BY <1>1 DEF Becomes, AddPlayer, room
  <2>2. Leads(agents, <<AddPlayer(p)>>, room)
    BY <1>2, <2>1, LeadsSimply
  <2>3. Leads(room, start, room)
    <3>1. \A i \in DOMAIN start : start[i].call \notin {"addPlayer", "removePlayer"}
      BY DEF RoundStart
    <3> HIDE DEF start
    <3> QED
      BY <1>2, <1>9, <3>1, LeadsSimply
  <2> DEFINE add == <<AddPlayer(p)>>
  <2>4. /\ Leads(agents, add, room) /\ add \in Seq(PostedCalls)
        /\ after = add \o start
    BY <1>9, <2>2 DEF after
  <2> HIDE DEF start, add
  <2>5. Leads(agents, after, room)
    BY <1>9, <2>3, <2>4, LeadsConcat
  <2>6. after \in Seq(PostedCalls)
    BY <1>4
  <2>7. Leads(players, toLogic \o after, room)
    BY <1>2, <1>3, <2>5, <2>6, LeadsConcat
  <2> QED
    BY <1>12, <2>7
<1>14. StartsLast(toLogic', room)
  <2> DEFINE w == toLogic \o after
             k == Len(toLogic)
  <2>1. \A j \in DOMAIN toLogic : toLogic[j].call # "roundStart"
    BY <1>1, <1>3 DEF StartsLast
  <2>2. /\ after[1].call # "roundStart"
        /\ Len(after) = IF Full(room) THEN 2 ELSE 1
    BY DEF after, AddPlayer
  <2>3. /\ k \in Nat /\ DOMAIN toLogic = 1..k
        /\ Len(w) = k + Len(after) /\ DOMAIN w = 1..(k + Len(after))
        /\ \A i \in 1..k : w[i] = toLogic[i]
        /\ \A i \in (k + 1)..(k + Len(after)) : w[i] = after[i - k]
    <3>1. after \in Seq(PostedCalls)
      BY <1>4
    <3> QED
      BY <1>2, <3>1
  <2> HIDE DEF w, k
  <2>4. ASSUME NEW i \in DOMAIN w, w[i].call = "roundStart"
        PROVE  i = Len(w) /\ Full(room)
    <3>1. ~(i <= k)
      BY <2>1, <2>3, <2>4
    <3>2. i \in (k + 1)..(k + Len(after)) /\ w[i] = after[i - k]
      BY <2>2, <2>3, <3>1
    <3>3. i # k + 1
      <4>1. i = k + 1 => i - k = 1
        BY <2>3
      <4> QED
        BY <2>2, <2>4, <3>2, <4>1
    <3> QED
      BY <2>2, <2>3, <3>2, <3>3
  <2>5. StartsLast(w, room)
    BY <2>4 DEF StartsLast
  <2> QED
    BY <1>12, <2>5 DEF w
<1> QED
  BY <1>1, <1>3, <1>11, <1>13, <1>14 DEF RoomInv

\* Every request finds its players seated; what ends a round is taken when both
\* queues are empty, and only a round can follow.
LEMMA RunnerRooms ==
    ASSUME RoomInv, MailInv, RunnerTakes
    PROVE  RoomInv'
<1> DEFINE m == Head(toRunner)
<1>1. /\ Alive /\ toRunner # <<>> /\ toRunner' = Tail(toRunner)
      /\ UNCHANGED <<players, phase, asked>>
      /\ TakeRequest(m) \/ TakeUpgradeResult(m) \/ TakeGameOver(m)
  BY DEF RunnerTakes, logicVars
<1>2. /\ toLogic \in Seq(PostedCalls) /\ toRunner \in Seq(PostedSignals)
      /\ agents \in SUBSET Name /\ asked \in SUBSET players
      /\ phase \in Logic!Running \cup {Logic!Idle}
      /\ Logic!Idle \notin Logic!Running
  BY DEF MailInv, TypeOK, Logic!Idle, Logic!Running
<1>3. /\ m \in PostedSignals /\ 1 \in DOMAIN toRunner /\ toRunner[1] = m
      /\ \A i \in DOMAIN Tail(toRunner) : \E j \in DOMAIN toRunner :
            Tail(toRunner)[i] = toRunner[j]
  BY <1>1, <1>2, HitsParts
<1> HIDE DEF m
<1>4. CASE TakeRequest(m)
  <2>1. m.signal = "request"
    BY <1>4 DEF TakeRequest
  <2>2. phase \in Logic!Running
    BY <1>1, <1>2, <1>3, <2>1, IdleOwesNothing
  <2>3. /\ players = agents /\ Full(agents)
        /\ OnlyReplies(toLogic) /\ OnlyRequests(toRunner)
    BY <1>1, <2>2 DEF RoomInv
  <2>4. m.to # {} /\ m.to \subseteq asked
    BY <1>1, <2>1, RequestOfThePhase DEF m
  <2>5. m.to \subseteq agents
    BY <1>2, <2>3, <2>4
  <2>6. PICK base, cs :
           /\ Still(base) /\ \A p \in Name : Keeps(base[p], cs[p])
           /\ Settle(agents, cs, <<>>)
    BY <1>4, <2>5, RequestSettles DEF m
  <2>7. PICK p \in Name : TRUE
    BY <1>2, <2>4, <2>5
  <2>8. agents' = agents /\ OnlyReplies(toLogic')
    BY <1>1, <2>3, <2>6, SettleRunning
  <2>9. OnlyRequests(toRunner')
    BY <1>1, <1>3, <2>3 DEF OnlyRequests
  <2>10. phase' # Logic!Idle
    BY <1>1, <1>2, <2>2
  <2> QED
    BY <1>1, <2>3, <2>8, <2>9, <2>10 DEF RoomInv
<1>5. CASE TakeUpgradeResult(m) \/ TakeGameOver(m)
  <2>1. /\ m.signal # "request" /\ agents' = agents
        /\ toLogic' = toLogic \/ toLogic' = Append(toLogic, RoundStart)
    BY <1>5 DEF TakeUpgradeResult, TakeGameOver
  <2>2. phase = Logic!Idle
    <3>1. ~OnlyRequests(toRunner)
      BY <1>3, <2>1 DEF OnlyRequests
    <3> QED
      BY <1>1, <1>2, <3>1 DEF RoomInv
  <2>3. /\ Leads(players, toLogic, agents) /\ Full(agents) /\ toLogic = <<>>
        /\ \E x : toRunner = <<x>>
    BY <1>1, <2>2 DEF RoomInv
  <2>4. players = agents
    BY <2>3, LeadsSimply
  <2>5. toRunner' = <<>>
    BY <1>1, <2>3
  <2>6. toLogic' = <<>> \/ toLogic' = <<RoundStart>>
    BY <2>1, <2>3
  <2>7. Leads(players, toLogic', agents) /\ StartsLast(toLogic', agents)
    <3>1. CASE toLogic' = <<>>
      <4>1. StartsLast(<<>>, agents)
        BY DEF StartsLast
      <4> QED
        BY <1>2, <2>4, <3>1, <4>1, LeadsSimply
    <3>2. CASE toLogic' = <<RoundStart>>
      <4>1. Becomes(agents, RoundStart, agents)
        BY DEF Becomes, RoundStart
      <4>2. Leads(agents, <<RoundStart>>, agents)
        BY <1>2, <4>1, LeadsSimply
      <4>3. StartsLast(<<RoundStart>>, agents)
        BY <2>3 DEF StartsLast
      <4> QED
        BY <2>4, <3>2, <4>2, <4>3
    <3> QED
      BY <2>6, <3>1, <3>2
  <2> QED
    BY <1>1, <1>2, <2>1, <2>2, <2>5, <2>7 DEF RoomInv
<1> QED
  BY <1>1, <1>4, <1>5


\* The call that gets to the logic is one it takes, and takes it one call nearer to
\* the room of the runner.
LEMMA HeadIsTaken ==
    ASSUME RoomInv, MailInv, Alive, toLogic # <<>>
    PROVE  LET h == Head(toLogic) IN
           /\ LogicAccepts(h)
           /\ phase = Logic!Idle =>
                 /\ h.call # "reply"
                 /\ \E c \in SUBSET Name : Becomes(players, h, c)
                                           /\ Leads(c, Tail(toLogic), agents)
                 /\ h.call = "roundStart" =>
                       /\ players = agents /\ Full(agents)
                       /\ Tail(toLogic) = <<>>
<1> DEFINE h == Head(toLogic)
           Goal == /\ h.call # "reply"
                   /\ \E c \in SUBSET Name : Becomes(players, h, c)
                                             /\ Leads(c, Tail(toLogic), agents)
                   /\ h.call = "roundStart" =>
                         /\ players = agents /\ Full(agents)
                         /\ Tail(toLogic) = <<>>
<1>1. /\ toLogic \in Seq(PostedCalls) /\ agents \in SUBSET Name
      /\ players \in SUBSET Name /\ phase \in Logic!Running \cup {Logic!Idle}
      /\ Logic!Idle \notin Logic!Running
  BY DEF MailInv, TypeOK, Logic!Idle, Logic!Running
<1> DEFINE r == Tail(toLogic)
<1>5. r \in Seq(PostedCalls) /\ Len(r) = Len(toLogic) - 1 /\ Len(toLogic) \in Nat
  BY <1>1
<1>6. h \in PostedCalls /\ 1 \in DOMAIN toLogic /\ toLogic[1] = h
  BY <1>1
<1> HIDE DEF r
<1>7. Len(toLogic) = 1 => r = <<>>
  BY <1>5
<1>2. /\ h \in PostedCalls /\ 1 \in DOMAIN toLogic /\ toLogic[1] = h
      /\ (Len(toLogic) = 1 => Tail(toLogic) = <<>>)
  BY <1>6, <1>7 DEF r
<1> HIDE DEF h
<1>3. CASE phase \in Logic!Running
  <2>1. h.call = "reply"
    BY <1>2, <1>3 DEF RoomInv, OnlyReplies
  <2> QED
    BY <1>1, <1>3, <2>1, ReplyIsAwaited DEF h
<1>4. CASE phase = Logic!Idle
  <2>1. Leads(players, toLogic, agents) /\ StartsLast(toLogic, agents)
    BY <1>4 DEF RoomInv
  <2>2. h.call # "reply"
    BY <1>2, <1>4, IdleOwesNothing DEF NoReplies
  <2>3. PICK c \in SUBSET Name : Becomes(players, h, c)
                                 /\ Leads(c, Tail(toLogic), agents)
    BY <1>1, <2>1, LeadsTail DEF h
  <2>4. ASSUME h.call = "roundStart"
        PROVE  players = agents /\ Full(agents) /\ Tail(toLogic) = <<>>
    <3>1. Len(toLogic) = 1 /\ Full(agents)
      BY <1>2, <2>1, <2>4 DEF StartsLast
    <3>2. Tail(toLogic) = <<>>
      BY <1>2, <3>1
    <3>5. Leads(c, <<>>, agents)
      BY <2>3, <3>2
    <3>3. c = agents
      BY <3>5, LeadsSimply
    <3>4. c = players
      BY <2>3, <2>4 DEF Becomes
    <3> QED
      BY <3>1, <3>2, <3>3, <3>4
  <2>5. LogicAccepts(h)
    <3>1. h.call \in {"addPlayer", "removePlayer", "roundStart"}
      BY <1>2, <2>2 DEF PostedCalls, RoundStart
    <3>2. h.call = "roundStart" => Cardinality(players) >= 2
      <4>1. /\ Cardinality(agents) \in Nat /\ PlayerNumPerRoom \in Nat
            /\ PlayerNumPerRoom >= 2
        BY <1>1, NameOrder, RoomAssumption
      <4> QED
        BY <2>4, <4>1 DEF Full
    <3> QED
      BY <1>4, <2>3, <3>1, <3>2 DEF LogicAccepts, Becomes, Logic!Idle
  <2>6. Goal
    BY <2>2, <2>3, <2>4
  <2> QED
    BY <2>5, <2>6 DEF h
<1> QED
  BY <1>1, <1>3, <1>4

\* The same of a state, to be used of the next one.
LEMMA NothingOwed ==
    MailInv /\ Alive /\ phase = Logic!Idle =>
        /\ NoReplies(toLogic)
        /\ \A i \in DOMAIN toRunner : toRunner[i].signal # "request"
  BY IdleOwesNothing

\* The logic's thread takes a call.
LEMMA LogicRooms ==
    ASSUME RoomInv, MailInv, MailInv', LogicTakes
    PROVE  RoomInv'
<1> DEFINE h == Head(toLogic)
<1>1. /\ Alive /\ toLogic # <<>> /\ toLogic' = Tail(toLogic)
      /\ UNCHANGED <<agents, conn, over>> /\ LogicAccepts(h) /\ LogicTakesCall(h)
  BY HeadIsTaken DEF LogicTakes
<1>2. /\ toLogic \in Seq(PostedCalls) /\ toRunner \in Seq(PostedSignals)
      /\ agents \in SUBSET Name /\ players \in SUBSET Name
      /\ asked \in SUBSET players
      /\ phase \in Logic!Running \cup {Logic!Idle}
      /\ Logic!Idle \notin Logic!Running
  BY DEF MailInv, TypeOK, Logic!Idle, Logic!Running
<1>3. /\ h \in PostedCalls
      /\ \A i \in DOMAIN Tail(toLogic) : \E j \in DOMAIN toLogic :
            Tail(toLogic)[i] = toLogic[j]
      /\ \A i \in DOMAIN Tail(toLogic) :
            /\ i + 1 \in DOMAIN toLogic /\ Tail(toLogic)[i] = toLogic[i + 1]
            /\ i \in Nat
      /\ Len(Tail(toLogic)) = Len(toLogic) - 1 /\ Len(toLogic) \in Nat
  BY <1>1, <1>2, HitsParts
<1>4. phase = Logic!Idle =>
         /\ h.call # "reply"
         /\ \E c \in SUBSET Name : Becomes(players, h, c)
                                   /\ Leads(c, Tail(toLogic), agents)
         /\ h.call = "roundStart" =>
               /\ players = agents /\ Full(agents)
               /\ Tail(toLogic) = <<>>
  BY <1>1, HeadIsTaken
<1> HIDE DEF h
<1>5. CASE h.call = "reply"
  <2>1. phase \in Logic!Running
    BY <1>2, <1>4, <1>5
  <2>2. /\ players = agents /\ Full(agents)
        /\ OnlyReplies(toLogic) /\ OnlyRequests(toRunner)
    BY <1>1, <2>1 DEF RoomInv
  <2>3. OnlyReplies(toLogic')
    BY <1>1, <1>3, <2>2 DEF OnlyReplies
  <2>4. /\ Logic!Reply(h.player, h.request) /\ players' = players
        /\ IF ~Logic!Completes(h.player) THEN UNCHANGED toRunner
           ELSE IF phase' = "BeforeRoundStart"
           THEN \E signal \in {"upgradeResult", "gameOver"} :
                   toRunner' = Append(toRunner, Result(signal))
           ELSE toRunner' = toRunner
                   \o Emitted(phase', asked' \ (asked \ {h.player}))
    BY <1>1, <1>5 DEF LogicTakesCall, Logic!Reply
  <2>5. CASE ~Logic!Completes(h.player)
    <3>1. phase' = phase /\ toRunner' = toRunner
      BY <2>4, <2>5 DEF Logic!Reply
    <3> QED
      BY <1>1, <1>2, <2>1, <2>2, <2>3, <2>4, <3>1 DEF RoomInv
  <2>6. CASE Logic!Completes(h.player) /\ phase' = Logic!Idle
    <3>1. PICK signal \in {"upgradeResult", "gameOver"} :
             toRunner' = Append(toRunner, Result(signal))
      BY <2>4, <2>6 DEF Logic!Idle
    <3> DEFINE m == Result(signal)
    <3>2. Alive' /\ m \in PostedSignals /\ m.signal # "request"
      BY <1>1 DEF Alive, Result, PostedSignals
    <3>3. /\ NoReplies(toLogic')
          /\ \A i \in DOMAIN toRunner' : toRunner'[i].signal # "request"
      <4>1. MailInv' /\ Alive' /\ (phase = Logic!Idle)'
        BY <2>6, <3>2 DEF Logic!Idle
      <4>2. (/\ NoReplies(toLogic)
             /\ \A i \in DOMAIN toRunner : toRunner[i].signal # "request")'
        BY <4>1, NothingOwed, PTL
      <4> QED
        BY <4>2 DEF NoReplies
    <3>4. toLogic' = <<>>
      <4>1. toLogic' \in Seq(PostedCalls)
        BY <1>1, <1>2
      <4>2. DOMAIN toLogic' = {}
        BY <2>3, <3>3 DEF NoReplies, OnlyReplies
      <4> QED
        BY <4>1, <4>2
    <3>5. toRunner' = <<m>>
      <4>1. \A i \in DOMAIN toRunner : i \in DOMAIN toRunner'
                                       /\ toRunner'[i] = toRunner[i]
        <5>1. m \in PostedSignals
          BY <3>2
        <5> HIDE DEF m
        <5>2. \A i \in DOMAIN toRunner : /\ i \in DOMAIN Append(toRunner, m)
                                         /\ Append(toRunner, m)[i] = toRunner[i]
          BY <1>2, <5>1
        <5> QED
          BY <3>1, <5>2 DEF m
      <4>2. DOMAIN toRunner = {}
        BY <2>2, <3>3, <4>1 DEF OnlyRequests
      <4>3. toRunner = <<>>
        BY <1>2, <4>2
      <4> HIDE DEF m
      <4>4. toRunner' = Append(<<>>, m)
        BY <3>1, <4>3 DEF m
      <4> QED
        BY <4>4
    <3>6. Leads(players', toLogic', agents') /\ StartsLast(toLogic', agents')
      <4>1. StartsLast(<<>>, agents')
        BY DEF StartsLast
      <4> QED
        BY <1>1, <1>2, <2>2, <2>4, <3>4, <4>1, LeadsSimply
    <3> HIDE DEF m
    <3>7. Full(agents') /\ \E x : toRunner' = <<x>> /\ x.signal # "request"
      BY <1>1, <2>2, <3>2, <3>5
    <3> QED
      BY <1>2, <2>6, <3>4, <3>6, <3>7 DEF RoomInv
  <2>7. CASE Logic!Completes(h.player) /\ phase' # Logic!Idle
    <3>1. PICK next \in Logic!Follows[phase], s \in SUBSET players :
             /\ Logic!MayAsk(next, s)
             /\ phase' = next /\ asked' = (asked \ {h.player}) \cup s
      BY <2>4, <2>7 DEF Logic!Reply
    <3>2. h.player \in asked
      BY <1>1, <1>5, ReplyIsAwaited DEF h
    <3>3. asked \ {h.player} = {}
      BY <2>7, <3>2 DEF Logic!Completes, MailInv
    <3>4. next \in Logic!Running \cup {Logic!Idle} /\ next \in Logic!Running
      BY <2>1, <2>7, <3>1 DEF Logic!Follows, Logic!Running, Logic!Idle
    <3>5. s # {} /\ s \in SUBSET Name
      BY <1>2, <2>7, <3>1, <3>4, MayAskSome
    <3> DEFINE q == Emitted(next, s)
    <3>6. toRunner' = toRunner \o q
      <4>1. asked' \ (asked \ {h.player}) = s
        BY <3>1, <3>3
      <4> QED
        BY <2>4, <2>7, <3>1, <4>1 DEF Logic!Idle
    <3>7. q \in Seq(PostedSignals) /\ OnlyRequests(q)
      BY <3>4, <3>5, EmittedPosted DEF OnlyRequests
    <3> HIDE DEF q
    <3>8. OnlyRequests(toRunner \o q)
      <4>1. \A i \in DOMAIN (toRunner \o q) :
               \/ \E j \in DOMAIN toRunner : (toRunner \o q)[i] = toRunner[j]
               \/ \E j \in DOMAIN q : (toRunner \o q)[i] = q[j]
        BY <1>2, <3>7, HitsParts
      <4> QED
        BY <2>2, <3>7, <4>1 DEF OnlyRequests
    <3> QED
      BY <1>1, <2>2, <2>3, <2>4, <2>7, <3>6, <3>8 DEF RoomInv
  <2> QED
    BY <2>5, <2>6, <2>7
<1>6. CASE h.call = "roundStart"
  <2>1. /\ phase = Logic!Idle /\ phase' = "RpsForAction" /\ players' = players
        /\ asked' = players /\ Logic!Cardinality(players) >= 2
        /\ toRunner' = toRunner \o Emitted("RpsForAction", players)
    BY <1>1, <1>6 DEF LogicTakesCall, Logic!RoundStart
  <2>2. players = agents /\ Full(agents) /\ toLogic' = <<>> /\ toRunner = <<>>
    BY <1>1, <1>4, <1>6, <2>1 DEF RoomInv
  <2>3. players # {}
    <3>1. Cardinality(players) >= 2
      BY <2>1, SameCardinality
    <3>2. Cardinality({}) = 0 /\ ~(0 >= 2)
      BY FS_EmptySet
    <3> QED
      BY <3>1, <3>2
  <2> DEFINE q == Emitted("RpsForAction", players)
  <2>4. q \in Seq(PostedSignals) /\ OnlyRequests(q)
    <3>1. "RpsForAction" \in Logic!Running
      BY DEF Logic!Running
    <3> QED
      BY <1>2, <2>3, <3>1, EmittedPosted DEF OnlyRequests
  <2> HIDE DEF q
  <2>5. toRunner' = q
    BY <2>1, <2>2, <2>4 DEF q
  <2>6. OnlyReplies(toLogic') /\ phase' # Logic!Idle
    BY <2>1, <2>2 DEF OnlyReplies, Logic!Idle
  <2> QED
    BY <1>1, <2>1, <2>2, <2>4, <2>5, <2>6 DEF RoomInv
<1>7. CASE h.call \in {"addPlayer", "removePlayer"}
  <2>1. /\ phase = Logic!Idle /\ phase' = phase /\ toRunner' = toRunner
        /\ h.call = "addPlayer" => players' = players \cup {h.player}
        /\ h.call = "removePlayer" => players' = players \ {h.player}
    BY <1>1, <1>7 DEF LogicTakesCall, Logic!AddPlayer, Logic!RemovePlayer
  <2>2. PICK c \in SUBSET Name : Becomes(players, h, c)
                                 /\ Leads(c, Tail(toLogic), agents)
    BY <1>4, <2>1
  <2>3. players' = c
    BY <1>7, <2>1, <2>2 DEF Becomes
  <2>4. /\ StartsLast(toLogic, agents) /\ toRunner = <<>>
    BY <1>1, <2>1 DEF RoomInv
  <2>5. StartsLast(Tail(toLogic), agents)
    <3>1. ASSUME NEW i \in DOMAIN Tail(toLogic),
                 Tail(toLogic)[i].call = "roundStart"
          PROVE  i = Len(Tail(toLogic)) /\ Full(agents)
      <4>1. i \in Nat /\ i + 1 = Len(toLogic) /\ Full(agents)
        BY <1>3, <2>4, <3>1 DEF StartsLast
      <4> QED
        BY <1>3, <4>1
    <3> QED
      BY <3>1 DEF StartsLast
  <2> QED
    BY <1>1, <1>2, <2>1, <2>2, <2>3, <2>4, <2>5 DEF RoomInv
<1> QED
  BY <1>3, <1>5, <1>6, <1>7 DEF PostedCalls, RoundStart


LEMMA RoomInit == Init => RoomInv
<1> SUFFICES ASSUME Init PROVE RoomInv
  OBVIOUS
<1>1. /\ players = {} /\ agents = {} /\ toLogic = <<>> /\ toRunner = <<>>
      /\ phase = Logic!Idle /\ Logic!Idle \notin Logic!Running
  BY DEF Init, Logic!Init, Logic!Idle, Logic!Running
<1>2. Leads({}, <<>>, {})
  BY LeadsSimply
<1>3. StartsLast(<<>>, agents)
  BY DEF StartsLast
<1> QED
  BY <1>1, <1>2, <1>3 DEF RoomInv

LEMMA RoomStep ==
    ASSUME EagerWriteFailure = FALSE
    PROVE  RoomInv /\ MailInv /\ WaitInv /\ [Next]_vars => RoomInv'
<1> SUFFICES ASSUME RoomInv, MailInv, WaitInv, [Next]_vars PROVE RoomInv'
  OBVIOUS
<1>1. ASSUME NEW p \in Name, Join(p)
      PROVE  RoomInv'
  BY <1>1, JoinRooms
<1>2. ASSUME NEW p \in Name,
             \/ Reconnect(p) \/ Packet(p) \/ SocketDisconnected(p)
             \/ RequestTimer(p) \/ HeartbeatDeadline(p) \/ ZeroTimer(p)
      PROVE  RoomInv'
  <2>1. conn[p] \in Connections
    BY StillAtRest
  <2>2. p \in agents
    BY <1>2 DEF Reconnect, Packet, SocketDisconnected, RequestTimer,
                HeartbeatDeadline, ZeroTimer
  <2>3. PICK c : Keeps(conn[p], c) /\ Handle(p, c)
    BY <1>2, <2>1, HandlersKeep
  <2> QED
    BY <2>2, <2>3, HandleRooms
<1>3. CASE RunnerTakes
  BY <1>3, RunnerRooms
<1>4. CASE LogicTakes
  BY <1>4, LogicRooms, MailStep
<1>5. CASE Delete
  <2>1. ~Alive'
    BY <1>5 DEF Delete, Alive
  <2> QED
    BY <2>1 DEF RoomInv
<1>6. CASE UNCHANGED vars
  BY <1>6 DEF vars, RoomInv, Alive
<1> QED
  BY <1>1, <1>2, <1>3, <1>4, <1>5, <1>6 DEF Next, Ended

\* Where a failing write is reported after the handler that wrote, the logic's room
\* is, once the calls posted have been taken, the room of the seats, however joins,
\* departures and reconnections cross what the logic's thread is doing; and during a
\* round the two are one.
THEOREM RunnerRoomsAgree ==
    ASSUME EagerWriteFailure = FALSE
    PROVE  Spec => []RoomsAgree
<1>1. RoomInv /\ MailInv => RoomsAgree
  <2> SUFFICES ASSUME RoomInv, MailInv, Alive
               PROVE  /\ PlayersToBe = agents
                      /\ phase # "BeforeRoundStart" =>
                            players = agents /\ Full(agents)
    BY DEF RoomsAgree, Alive
  <2>1. /\ toLogic \in Seq(PostedCalls) /\ agents \in SUBSET Name
        /\ players \in SUBSET Name
        /\ phase \in Logic!Running \cup {Logic!Idle}
    BY DEF MailInv, TypeOK
  <2>2. CASE phase = Logic!Idle
    <3>1. Leads(players, toLogic, agents)
      BY <2>2 DEF RoomInv
    <3> QED
      BY <2>1, <2>2, <3>1, LeadsToBe DEF Logic!Idle
  <2>3. CASE phase \in Logic!Running
    <3>1. players = agents /\ Full(agents) /\ OnlyReplies(toLogic)
      BY <2>3 DEF RoomInv
    <3>2. Leads(agents, toLogic, agents)
      <4>1. \A i \in DOMAIN toLogic :
               toLogic[i].call \notin {"addPlayer", "removePlayer"}
        BY <3>1 DEF OnlyReplies
      <4> QED
        BY <2>1, <4>1, LeadsSimply
    <3> QED
      BY <2>1, <3>1, <3>2, LeadsToBe
  <2> QED
    BY <2>1, <2>2, <2>3
<1> QED
  BY <1>1, RoomInit, RoomStep, WaitInit, WaitStep, MailInit, MailStep, PTL DEF Spec

\* There, too, no call the runner posts is refused by the logic when it gets to it:
\* that its slots' return values are dropped does no harm.
THEOREM RunnerCallsAccepted ==
    ASSUME EagerWriteFailure = FALSE
    PROVE  Spec => []PostedCallsAreAccepted
<1>1. RoomInv /\ MailInv => PostedCallsAreAccepted
  BY HeadIsTaken DEF PostedCallsAreAccepted
<1> QED
  BY <1>1, RoomInit, RoomStep, WaitInit, WaitStep, MailInit, MailStep, PTL DEF Spec


\* An event of the server's thread that is not a request leaves no null pointer.
LEMMA SettleSafe ==
    ASSUME NEW room, NEW cs, NEW after, over # "crashed", Settle(room, cs, after)
    PROVE  over' # "crashed"
  BY DEF Settle

\* There, too, no request meets a player without a seat, whom the runner would ask
\* through a null pointer.
THEOREM RunnerAsksTheSeated ==
    ASSUME EagerWriteFailure = FALSE
    PROVE  Spec => [](over # "crashed")
<1>1. Init => over # "crashed"
  BY DEF Init
<1>2. /\ RoomInv /\ MailInv /\ over # "crashed" /\ [Next]_vars
      => (over # "crashed")'
  <2> SUFFICES ASSUME RoomInv, MailInv, over # "crashed", [Next]_vars
               PROVE  over' # "crashed"
    OBVIOUS
  <2>1. ASSUME NEW p \in Name, Join(p)
        PROVE  over' # "crashed"
    BY <2>1, SettleSafe DEF Join
  <2>2. ASSUME NEW p \in Name, NEW c, Handle(p, c)
        PROVE  over' # "crashed"
    BY <2>2, SettleSafe DEF Handle
  <2>3. ASSUME NEW p \in Name,
               \/ Reconnect(p) \/ Packet(p) \/ SocketDisconnected(p)
               \/ RequestTimer(p) \/ HeartbeatDeadline(p) \/ ZeroTimer(p)
        PROVE  over' # "crashed"
    <3>1. conn[p] \in Connections
      BY StillAtRest
    <3> QED
      BY <2>2, <2>3, <3>1, HandlersKeep
  <2>4. CASE RunnerTakes
    <3> DEFINE m == Head(toRunner)
    <3>1. /\ Alive /\ toRunner # <<>>
          /\ TakeRequest(m) \/ TakeUpgradeResult(m) \/ TakeGameOver(m)
      BY <2>4 DEF RunnerTakes
    <3>2. CASE TakeRequest(m)
      <4>1. /\ toRunner \in Seq(PostedSignals) /\ agents \in SUBSET Name
            /\ asked \in SUBSET players
            /\ phase \in Logic!Running \cup {Logic!Idle}
        BY DEF MailInv, TypeOK
      <4>2. m.signal = "request"
        BY <3>2 DEF TakeRequest
      <4>3. 1 \in DOMAIN toRunner /\ toRunner[1] = m
        BY <3>1, <4>1
      <4>4. phase \in Logic!Running
        BY <3>1, <4>1, <4>2, <4>3, IdleOwesNothing
      <4>5. players = agents
        BY <3>1, <4>4 DEF RoomInv
      <4>6. m.to \subseteq asked
        BY <3>1, <4>2, RequestOfThePhase
      <4>7. m.to \subseteq agents
        BY <4>1, <4>5, <4>6
      <4> HIDE DEF m
      <4> QED
        BY <3>2, <4>7, SettleSafe DEF TakeRequest
    <3>3. CASE TakeUpgradeResult(m) \/ TakeGameOver(m)
      BY <3>3 DEF TakeUpgradeResult, TakeGameOver
    <3> QED
      BY <3>1, <3>2, <3>3
  <2>5. CASE LogicTakes
    BY <2>5 DEF LogicTakes
  <2>6. CASE Delete
    BY <2>6 DEF Delete
  <2>7. CASE UNCHANGED vars
    BY <2>7 DEF vars
  <2> QED
    BY <2>1, <2>3, <2>4, <2>5, <2>6, <2>7 DEF Next, Ended
<1> QED
  BY <1>1, <1>2, RoomInit, RoomStep, WaitInit, WaitStep, MailInit, MailStep, PTL
  DEF Spec
=============================================================================

------------------------------- MODULE Session_proofs ------------------------------
(***************************************************************************)
(* One player's session, for any kinds of request, any number of attempts  *)
(* to reconnect, and any losses, delays and changes of state.              *)
(***************************************************************************)
EXTENDS Session, Counting

-----------------------------------------------------------------------------
(* Packets: what becomes of one at the slots it reaches, for every line of the
   wire that a socket hands on. *)

\* Packet::fromJson: the ids of a line that is handed on fit its type, and it names
\* one thing, unless it is of no type and names nothing.
THEOREM PacketShape ==
    ASSUME NEW p \in Wire!Lines, ~Wire!HasError(p)
    PROVE  \/ /\ p.type \in {"Request", "Reply"} /\ p.requestId \in Wire!RequestIds
              /\ p.notifyId = Wire!Invalid
           \/ /\ p.type = "Notify" /\ p.requestId = Wire!Invalid
              /\ p.notifyId \in Wire!NotifyIds
           \/ /\ p.type = Wire!Invalid /\ p.requestId = Wire!Invalid
              /\ p.notifyId = Wire!Invalid
  BY DEF Wire!Lines, Wire!HasError, Wire!Invalid, Wire!Unusable

\* ServerP::socketPacketReceived and ServerConnectionP::packetReceived are on one
\* socket and both are told of every packet: exactly one of them answers for it,
\* by taking or by refusing it, and the other leaves it alone.  Neither is a packet
\* handled twice, nor is one, whatever its type and ids, dropped by both unseen.
THEOREM PacketsHaveOneVerdict ==
    ASSUME NEW p \in Wire!Lines
    PROVE  (Wire!ServerSlot(p) = "leaves") # (Wire!ConnectionSlot(p) = "leaves")
  <1>1. CASE p.type # "Notify"
    BY <1>1 DEF Wire!ServerSlot, Wire!ConnectionSlot
  <1>2. CASE p.type = "Notify" /\ p.notifyId \in Wire!ToServer
    <2>1. p.notifyId \notin Wire!ToAgent
      BY <1>2 DEF Wire!ToServer, Wire!ToAgent
    <2> QED
      BY <1>2, <2>1 DEF Wire!ServerSlot, Wire!ConnectionSlot
  <1>3. CASE p.type = "Notify" /\ p.notifyId \notin Wire!ToServer
    BY <1>3 DEF Wire!ServerSlot, Wire!ConnectionSlot
  <1> QED
    BY <1>1, <1>2, <1>3

\* The two ends agree on who sends what: what the client's slot takes, the server
\* refuses, and what a server's slot takes, the client refuses; a packet that comes
\* back to the end that sent it is a protocol error there.
THEOREM DirectionsAreApart ==
    ASSUME NEW p \in Wire!Lines
    PROVE  (Wire!ClientSlot(p) = "takes")
              => "refuses" \in {Wire!ServerSlot(p), Wire!ConnectionSlot(p)}
  <1>1. CASE p.type = "Request"
    BY <1>1 DEF Wire!ServerSlot, Wire!ConnectionSlot
  <1>2. CASE p.type = "Notify" /\ p.notifyId \in Wire!FromServer \cup Wire!FromAgent
    <2>1. p.notifyId \notin Wire!ToServer \cup Wire!ToAgent
      BY <1>2 DEF Wire!FromServer, Wire!FromAgent, Wire!ToServer, Wire!ToAgent
    <2> QED
      BY <1>2, <2>1 DEF Wire!ServerSlot, Wire!ConnectionSlot
  <1> QED
    BY <1>1, <1>2 DEF Wire!ClientSlot

-----------------------------------------------------------------------------
(* Messages. *)

\* What the server sends to the client.
ToClient ==
    [kind: {"version"}, compatible: BOOLEAN]
    \cup [kind: {"event"}, event: Client!RoundEvents]
    \cup [kind: {"roundStart", "gameOver"}]
    \cup [kind: {"playerAdded"}, state: SUBSET Client!StateMasks]
    \cup [kind: {"peerAdded", "agentStateChanged"}, state: {"online", "away"}]
    \cup [kind: {"request"}, request: RequestIds]

\* The packet on a wire, whichever message it is of.
LEMMA PacketsTaken ==
    /\ \A m \in Client!ToServer : \A p \in Packets(m) :
          ~Wire!HasError(p)
          /\ {Wire!ServerSlot(p), Wire!ConnectionSlot(p)} = {"takes", "leaves"}
    /\ \A m \in ToClient : \A p \in Packets(m) :
          ~Wire!HasError(p) /\ Wire!ClientSlot(p) = "takes"
  <1> USE DEF Packets, Wire!Notify, Wire!Reply, Wire!GiveUp, Wire!Request,
              Wire!Packet, Wire!HasError, Wire!Invalid, Wire!Unusable
  <1>1. ASSUME NEW m \in Client!ToServer, NEW p \in Packets(m)
        PROVE  ~Wire!HasError(p)
               /\ {Wire!ServerSlot(p), Wire!ConnectionSlot(p)} = {"takes", "leaves"}
    <2>1. CASE m.kind \in {"signIn", "stateChange"}
      <3>1. \/ p = Wire!Notify("SignIn") \/ p = Wire!Notify("StateChange")
        BY <1>1, <2>1
      <3> QED
        BY <3>1 DEF Wire!ServerSlot, Wire!ConnectionSlot, Wire!ToServer, Wire!ToAgent
    <2>2. CASE m.kind \in {"reply", "giveUp"}
      <3>1. m.request \in Client!Requests
        BY <1>1, <2>2 DEF Client!ToServer
      <3>2. p = Wire!Reply(m.request) \/ p = Wire!GiveUp(m.request)
        BY <1>1, <2>2
      <3>3. p.type = "Reply" /\ p.requestId = m.request /\ p.notifyId = Wire!Invalid
            /\ p.value \in {"some", "null"}
        BY <3>2
      <3> QED
        BY <3>1, <3>3 DEF Wire!ServerSlot, Wire!ConnectionSlot, Client!Requests
    <2> QED
      BY <1>1, <2>1, <2>2 DEF Client!ToServer
  <1>2. ASSUME NEW m \in ToClient, NEW p \in Packets(m)
        PROVE  ~Wire!HasError(p) /\ Wire!ClientSlot(p) = "takes"
    <2>1. CASE m.kind = "request"
      <3>1. m.request \in RequestIds
        BY <1>2, <2>1 DEF ToClient
      <3>2. p = Wire!Request(m.request)
        BY <1>2, <2>1
      <3> QED
        BY <3>1, <3>2 DEF Wire!ClientSlot, RequestIds
    <2>2. CASE m.kind # "request"
      <3> DEFINE ids == {"Version", "RoundStart", "GameOver", "PlayerAdded",
                         "AgentStateChanged", "Upgrade", "RockPaperScissors",
                         "ActionOrder", "Action"}
      <3>1. \E id \in ids : p = Wire!Notify(id)
        BY <1>2, <2>2 DEF ToClient
      <3>2. PICK id \in ids : p = Wire!Notify(id)
        BY <3>1
      <3>3. /\ p.type = "Notify" /\ p.requestId = Wire!Invalid /\ p.notifyId = id
            /\ p.value = "some"
        BY <3>2
      <3> QED
        BY <3>3 DEF Wire!ClientSlot, Wire!FromServer, Wire!FromAgent
    <2> QED
      BY <2>1, <2>2
  <1> QED
    BY <1>1, <1>2


-----------------------------------------------------------------------------
(* The invariants. *)

\* A client that has lost its connection has one thing going to get it back.
Reaching(c) ==
    IF c.reconnectInProgress THEN c.reconnectTimer # c.socket ELSE ~c.reconnectTimer

\* The inductive invariant behind TypeOK and NeverStranded.  The end of a match is
\* no attempt's to hear: until the server's greeting has been taken nothing else
\* comes, as nobody is bound before the sign-in, which answers the greeting.
LinkInv ==
    /\ TypeOK
    /\ toClient \in Seq(ToClient)
    /\ Reaching(client)
    /\ ~client.socket => link = "cut"
    /\ link = "cut" => toClient = <<>> /\ toServer = <<>>
    /\ bound => client.socket /\ ~client.reconnectInProgress /\ conn.socket # "none"
    /\ bound /\ link = "open" => conn.socket = "up"
    /\ client.reconnectInProgress =>
          /\ \A i \in DOMAIN toServer : toServer[i].kind # "signIn"
          /\ \A i \in DOMAIN toClient : toClient[i].kind = "version"

\* A state is being declared.
Declares(q) == \E i \in DOMAIN q : q[i].kind = "stateChange"

\* The last state declared, if one is, is s.
LastDeclared(q, s) ==
    \A i \in DOMAIN q :
        /\ q[i].kind = "stateChange"
        /\ \A j \in DOMAIN q : j > i => q[j].kind # "stateChange"
        => q[i].state = s

\* The message m is in q.
Holds(q, m) == \E i \in DOMAIN q : q[i] = m

\* What the server has of the agent's state.
ServerState == AgentState(conn.online, trusted)

\* The inductive invariant behind StatesAgree.  The client's state is the last it
\* has declared; and unless a declaration is on its way, the server has that state,
\* or has sent a snapshot of the one it has, which the client will adopt.
StateInv ==
    /\ LastDeclared(toServer, client.state)
    /\ bound /\ link = "open" /\ ~Declares(toServer) =>
          \/ client.state = ServerState
          \/ Holds(toClient, NotifyPlayerAdded(ServerState))

\* A request is in q; and the last in q is r.
Asks(q) == \E i \in DOMAIN q : q[i].kind = "request"

AsksLast(q, r) ==
    \E i \in DOMAIN q :
        /\ q[i] = Request(r)
        /\ \A j \in DOMAIN q : j > i => q[j].kind # "request"

\* An answer to r is in q.
Answered(q, r) ==
    \E i \in DOMAIN q : q[i].kind \in {"reply", "giveUp"} /\ q[i].request = r

\* It is in front of the player of c, who plays.
Shows(c, r) == c.currentRequest = r /\ "managed" \notin c.state

\* It is on its way to the player, or back, or in front of one who plays and to
\* whom no other is on its way.
Waiting(r) ==
    \/ AsksLast(toClient, r)
    \/ Answered(toServer, r)
    \/ Shows(client, r) /\ ~Asks(toClient)

\* Nobody declares a player offline, and no snapshot tells one that it is managed.
DeclaresOnline(q) ==
    \A i \in DOMAIN q : q[i].kind = "stateChange" => "online" \in q[i].state

TellsOnline(q) ==
    \A i \in DOMAIN q : q[i].kind = "playerAdded" => q[i].state = {"online"}

SaysOnline ==
    "online" \in client.state /\ DeclaresOnline(toServer) /\ TellsOnline(toClient)

\* So a seat is found only once its connection is lost, and what it was asked has been
\* answered or has its zero timer.
SeatIsKept ==
    /\ conn.online <=> conn.socket # "none"
    /\ trusted => conn.online
    /\ conn.socket = "none" /\ conn.zeroTimers = 0 => conn.currentRequest = Invalid

\* From then on a request is waited for in one of the places it can be.
IsWaiting ==
    bound /\ link = "open" /\ conn.zeroTimers = 0 /\ conn.currentRequest # Invalid =>
        Waiting(conn.currentRequest)

\* The inductive invariant behind ManagedIsAnsweredFor, of a player who has its state
\* before it acts.
ManagedInv == SaysOnline /\ SeatIsKept /\ IsWaiting

-----------------------------------------------------------------------------
(* The client's handlers. *)

\* A client between two handlers, on either side of its connection.
Resting(c) == c \in Client!Clients /\ c.out = <<>> /\ Reaching(c)

\* What a handler leaves of a client that stays on its connection: what it sends
\* greets nobody while an attempt is under way, and declares its state if that has
\* changed.
Relays(c, d) ==
    /\ d \in Client!Clients /\ d.socket /\ Reaching(d)
    /\ d.reconnectInProgress =>
          /\ c.reconnectInProgress
          /\ \A i \in DOMAIN d.out : d.out[i].kind # "signIn"
    /\ \A i \in DOMAIN d.out :
          d.out[i].kind = "stateChange" => d.out[i].state = d.state
    /\ d.state = c.state \/ Declares(d.out)

\* What it leaves of any client.
Leaves(c, d) ==
    d \in Client!Clients /\ Reaching(d) /\ (d.socket => Relays(c, d))

\* The flags of its state that the handler keeps, and what was asked of a player who
\* plays: it still is, or is answered.
Plays(c, d) ==
    /\ "online" \in c.state => "online" \in d.state
    /\ \A r \in RequestIds : Shows(c, r) => Shows(d, r) \/ Answered(d.out, r)

\* What it sends to the server is of the types.
LEMMA Messages ==
    /\ \A n \in Nat : Client!SignIn(n) \in Client!ToServer
    /\ \A r \in RequestIds : /\ Client!Reply(r) \in Client!ToServer
                             /\ Client!GiveUp(r) \in Client!ToServer
    /\ \A s \in SUBSET Client!StateMasks : Client!StateChange(s) \in Client!ToServer
    /\ Client!Requests = RequestIds /\ Client!NoRequest = Invalid
    /\ Invalid \notin RequestIds
  BY DEF Client!SignIn, Client!Reply, Client!GiveUp, Client!StateChange,
         Client!ToServer, Client!Requests, Client!NoRequest, RequestIds, Invalid

\* Sending adds to what is sent, and changes nothing else.
LEMMA Sends ==
    ASSUME NEW c \in Client!Clients, NEW m \in Client!ToServer
    PROVE  LET d == Client!Sending(c, m) IN
           /\ d \in Client!Clients
           /\ d.out = IF c.socket THEN Append(c.out, m) ELSE c.out
           /\ d.socket = c.socket /\ d.state = c.state /\ d.pings = c.pings
           /\ d.reconnectTimer = c.reconnectTimer
           /\ d.reconnectInProgress = c.reconnectInProgress
           /\ d.currentRequest = c.currentRequest
  <1>1. Append(c.out, m) \in Seq(Client!ToServer)
    BY DEF Client!Clients
  <1> DEFINE o == Append(c.out, m)
  <1> HIDE DEF o
  <1>2. [c EXCEPT !.out = o] \in Client!Clients
    BY <1>1 DEF Client!Clients, o
  <1>3. Client!Sending(c, m) = IF c.socket THEN [c EXCEPT !.out = o] ELSE c
    BY DEF Client!Sending, o
  <1> QED
    BY <1>2, <1>3 DEF Client!Clients, o

\* The connection is over, and the next attempt, if there is one, scheduled.
LEMMA GoneLeaves ==
    ASSUME NEW c \in Client!Clients, Reaching(c)
    PROVE  /\ Leaves(c, Client!HandleSocketGone(c))
           /\ ~Client!HandleSocketGone(c).socket
           /\ Client!HandleSocketGone(c).state = c.state
           /\ Client!HandleSocketGone(c).out = c.out
           /\ Client!HandleSocketGone(c).currentRequest = c.currentRequest
  <1>1. MaxReconnectAttempts \in Nat
    BY BoundsAssumption
  <1>2. CASE ~c.socket
    BY <1>2 DEF Client!HandleSocketGone, Leaves
  <1>3. CASE c.socket
    <2> DEFINE n == IF c.reconnectInProgress THEN c.reconnectAttempts ELSE 0
               lost == [c EXCEPT !.socket = FALSE, !.pings = 0,
                                 !.reconnectInProgress = TRUE,
                                 !.reconnectAttempts = n]
               d == IF n >= MaxReconnectAttempts
                    THEN [lost EXCEPT !.reconnectInProgress = FALSE,
                                      !.reconnectTimer = FALSE]
                    ELSE [lost EXCEPT !.reconnectTimer = TRUE]
    <2>1. Client!HandleSocketGone(c) = d
      BY <1>3 DEF Client!HandleSocketGone, Client!ScheduleReconnect, Client!Clients
    <2>5. n \in Nat
      BY DEF Client!Clients
    <2> HIDE DEF n
    <2>6. 0 \in 0..2
      OBVIOUS
    <2>2. lost \in Client!Clients
      BY <2>5, <2>6, ZenonT(30) DEF Client!Clients
    <2>3. /\ ~lost.socket /\ lost.reconnectInProgress /\ lost.state = c.state
          /\ lost.out = c.out /\ lost.currentRequest = c.currentRequest
      BY DEF Client!Clients
    <2> HIDE DEF lost
    <2>4. /\ d \in Client!Clients /\ ~d.socket /\ d.state = c.state
          /\ d.out = c.out /\ d.currentRequest = c.currentRequest /\ Reaching(d)
      BY <2>2, <2>3, <2>5, <1>1 DEF Client!Clients, Reaching
    <2> QED
      BY <2>1, <2>4 DEF Leaves
  <1> QED
    BY <1>2, <1>3

\* Agent::setState.
LEMMA SetStateRelays ==
    ASSUME NEW c, Resting(c), NEW s \in SUBSET Client!StateMasks
    PROVE  LET d == Client!SetState(c, s) IN
           /\ Leaves(c, d)
           /\ d \in Client!Clients /\ d.socket = c.socket
           /\ d.state = s /\ d.currentRequest = c.currentRequest
           /\ d.out = <<>> \/ d.out = <<Client!StateChange(s)>>
           /\ d.reconnectInProgress = c.reconnectInProgress
           /\ d.reconnectTimer = c.reconnectTimer
  <1> DEFINE d == Client!SetState(c, s)
             e == [c EXCEPT !.state = s]
  <1>1. CASE c.state = s
    <2>1. d = c
      BY <1>1 DEF Client!SetState
    <2> QED
      BY <1>1, <2>1 DEF Resting, Relays, Leaves
  <1>2. CASE c.state # s
    <2>1. /\ e \in Client!Clients /\ e.socket = c.socket /\ e.state = s
          /\ e.currentRequest = c.currentRequest /\ e.out = <<>>
          /\ e.reconnectInProgress = c.reconnectInProgress
          /\ e.reconnectTimer = c.reconnectTimer
      BY DEF Resting, Client!Clients
    <2>2. d = Client!Sending(e, Client!StateChange(s))
      BY <1>2 DEF Client!SetState
    <2> HIDE DEF e, d
    <2>7. Client!StateChange(s) \in Client!ToServer
      BY Messages
    <2> DEFINE f == Client!Sending(e, Client!StateChange(s))
    <2>8. /\ f \in Client!Clients
          /\ f.out = IF e.socket THEN Append(e.out, Client!StateChange(s)) ELSE e.out
          /\ f.socket = e.socket /\ f.state = e.state
          /\ f.reconnectTimer = e.reconnectTimer
          /\ f.reconnectInProgress = e.reconnectInProgress
          /\ f.currentRequest = e.currentRequest
      BY <2>1, <2>7, Sends
    <2> HIDE DEF f
    <2>3. /\ d \in Client!Clients /\ d.socket = c.socket /\ d.state = s
          /\ d.currentRequest = c.currentRequest
          /\ d.out = IF c.socket THEN Append(<<>>, Client!StateChange(s)) ELSE <<>>
          /\ d.reconnectInProgress = c.reconnectInProgress
          /\ d.reconnectTimer = c.reconnectTimer
      BY <2>1, <2>2, <2>8 DEF f
    <2>4. c.socket => d.out = <<Client!StateChange(s)>>
      BY <2>3
    <2>5. Reaching(d)
      BY <2>3 DEF Reaching, Resting
    <2>6. ASSUME c.socket PROVE Relays(c, d)
      <3> DEFINE m == Client!StateChange(s)
      <3>1. d.out = <<m>> /\ m.kind = "stateChange" /\ m.state = s
        BY <2>4, <2>6 DEF Client!StateChange
      <3> HIDE DEF m
      <3>2. /\ \A i \in DOMAIN d.out : d.out[i] = m
            /\ 1 \in DOMAIN d.out
        BY <3>1
      <3> QED
        BY <2>3, <2>5, <2>6, <3>1, <3>2 DEF Relays, Declares
    <2> QED
      BY <2>3, <2>4, <2>5, <2>6 DEF d, Leaves
  <1> QED
    BY <1>1, <1>2


\* A handler that leaves the connection and the state alone, and declares nothing.
LEMMA AsideLeaves ==
    ASSUME NEW c, Resting(c), NEW d \in Client!Clients,
           d.socket = c.socket, d.state = c.state,
           d.reconnectInProgress = c.reconnectInProgress,
           d.reconnectTimer = c.reconnectTimer,
           \A i \in DOMAIN d.out : d.out[i].kind \in {"reply", "giveUp"}
    PROVE  Leaves(c, d)
  BY DEF Leaves, Relays, Resting, Reaching

\* The player's answer, a reply or none.
Answering(c, k) ==
    IF c.currentRequest = Client!NoRequest \/ ~c.socket THEN c
    ELSE Client!Sending([c EXCEPT !.currentRequest = Client!NoRequest],
                        [kind |-> k, request |-> c.currentRequest])

LEMMA Answers ==
    /\ \A c : Client!SendReply(c) = Answering(c, "reply")
    /\ \A c : Client!SendRequestGivenUp(c) = Answering(c, "giveUp")
  BY DEF Answering, Client!SendReply, Client!SendRequestGivenUp, Client!Reply,
         Client!GiveUp

LEMMA AnswerLeaves ==
    ASSUME NEW c, c \in Client!Clients, Reaching(c), NEW k \in {"reply", "giveUp"}, NEW d, d = Answering(c, k)
    PROVE  /\ d \in Client!Clients /\ d.socket = c.socket /\ d.state = c.state
           /\ d.reconnectInProgress = c.reconnectInProgress
           /\ d.reconnectTimer = c.reconnectTimer
           /\ \/ /\ c.currentRequest = Client!NoRequest \/ ~c.socket
                 /\ d = c
              \/ /\ c.socket /\ c.currentRequest \in RequestIds
                 /\ d.currentRequest = Client!NoRequest
                 /\ d.out = Append(c.out, [kind |-> k, request |-> c.currentRequest])
  <1>1. CASE c.currentRequest = Client!NoRequest \/ ~c.socket
    BY <1>1 DEF Answering
  <1>2. CASE ~(c.currentRequest = Client!NoRequest \/ ~c.socket)
    <2> DEFINE r == c.currentRequest
               m == [kind |-> k, request |-> r]
               e == [c EXCEPT !.currentRequest = Client!NoRequest]
               f == Client!Sending(e, m)
    <2>1. c.socket /\ r \in RequestIds
      BY <1>2, Messages DEF Client!Clients
    <2>2. m \in Client!ToServer
      BY <2>1, Messages DEF Client!ToServer
    <2>3. /\ e \in Client!Clients /\ e.socket /\ e.state = c.state
          /\ e.reconnectInProgress = c.reconnectInProgress
          /\ e.reconnectTimer = c.reconnectTimer /\ e.out = c.out
          /\ e.currentRequest = Client!NoRequest
      BY <2>1 DEF Client!Clients
    <2> HIDE DEF e, m
    <2>4. /\ f \in Client!Clients
          /\ f.out = IF e.socket THEN Append(e.out, m) ELSE e.out
          /\ f.socket = e.socket /\ f.state = e.state
          /\ f.reconnectTimer = e.reconnectTimer
          /\ f.reconnectInProgress = e.reconnectInProgress
          /\ f.currentRequest = e.currentRequest
      BY <2>2, <2>3, Sends
    <2>5. d = f
      BY <1>2 DEF e, m, Answering
    <2> HIDE DEF f
    <2>6. /\ d \in Client!Clients /\ d.socket = c.socket /\ d.state = c.state
          /\ d.reconnectInProgress = c.reconnectInProgress
          /\ d.reconnectTimer = c.reconnectTimer
          /\ d.currentRequest = Client!NoRequest
          /\ d.out = Append(c.out, m)
      BY <2>1, <2>3, <2>4, <2>5
    <2> QED
      BY <2>1, <2>6 DEF m
  <1> QED
    BY <1>1, <1>2


\* The player answers, or has the request given up.
LEMMA ReplyLeaves ==
    ASSUME NEW c, Resting(c),
           NEW d \in {Client!SendReply(c), Client!SendRequestGivenUp(c)}
    PROVE  Leaves(c, d) /\ Plays(c, d) /\ d.state = c.state
  <1>1. PICK k \in {"reply", "giveUp"} : d = Answering(c, k)
    BY Answers
  <1> DEFINE m == [kind |-> k, request |-> c.currentRequest]
  <1>6. c \in Client!Clients /\ Reaching(c) /\ c.out = <<>>
    BY DEF Resting
  <1>7. /\ d \in Client!Clients /\ d.socket = c.socket /\ d.state = c.state
        /\ d.reconnectInProgress = c.reconnectInProgress
        /\ d.reconnectTimer = c.reconnectTimer
        /\ \/ d = c
           \/ c.currentRequest \in RequestIds /\ d.out = Append(c.out, m)
    BY <1>1, <1>6, AnswerLeaves
  <1>2. /\ d \in Client!Clients /\ d.socket = c.socket /\ d.state = c.state
        /\ d.reconnectInProgress = c.reconnectInProgress
        /\ d.reconnectTimer = c.reconnectTimer
        /\ \/ d = c
           \/ c.currentRequest \in RequestIds /\ d.out = Append(<<>>, m)
    BY <1>6, <1>7
  <1>3. m.kind \in {"reply", "giveUp"} /\ m.request = c.currentRequest
    OBVIOUS
  <1> HIDE DEF m
  <1>4. CASE d = c
    <2>1. Leaves(c, c)
      BY AsideLeaves DEF Resting
    <2> QED
      BY <1>4, <2>1 DEF Plays
  <1>5. CASE d.out = Append(<<>>, m)
    <2>1. 1 \in DOMAIN d.out /\ \A i \in DOMAIN d.out : d.out[i] = m
      BY <1>5
    <2>2. Leaves(c, d)
      BY <1>2, <1>3, <2>1, AsideLeaves
    <2>3. Answered(d.out, c.currentRequest)
      BY <1>3, <2>1 DEF Answered
    <2> QED
      BY <1>2, <2>2, <2>3 DEF Plays, Shows
  <1> QED
    BY <1>2, <1>4, <1>5

\* A request that comes is shown, or given up for a player who has handed over.
LEMMA RequestLeaves ==
    ASSUME NEW c, Resting(c), c.socket, NEW r \in RequestIds
    PROVE  LET d == Client!RequestReceived(c, r) IN
           Leaves(c, d) /\ d.state = c.state /\ (Shows(d, r) \/ Answered(d.out, r))
  <1> DEFINE e == [c EXCEPT !.currentRequest = r]
             d == Client!RequestReceived(c, r)
  <1>1. /\ e \in Client!Clients /\ e.socket = c.socket /\ e.state = c.state
        /\ e.reconnectInProgress = c.reconnectInProgress
        /\ e.reconnectTimer = c.reconnectTimer
        /\ e.currentRequest = r /\ e.out = <<>>
    BY Messages DEF Resting, Client!Clients
  <1>2. d = IF "managed" \in c.state THEN Client!SendRequestGivenUp(e) ELSE e
    BY DEF Client!RequestReceived, Client!Requested
  <1> HIDE DEF e, d
  <1>6. \A i \in DOMAIN e.out : e.out[i].kind \in {"reply", "giveUp"}
    BY <1>1
  <1>3. Leaves(c, e)
    BY <1>1, <1>6, AsideLeaves
  <1>4. CASE "managed" \notin c.state
    BY <1>1, <1>2, <1>3, <1>4 DEF Shows, d
  <1>5. CASE "managed" \in c.state
    <2> DEFINE m == [kind |-> "giveUp", request |-> e.currentRequest]
    <2>1. Reaching(e)
      BY <1>1 DEF Resting, Reaching
    <2>2. d = Answering(e, "giveUp")
      BY <1>2, <1>5, Answers
    <2>3. e.currentRequest # Client!NoRequest /\ e.socket
      BY <1>1, Messages
    <2>4. /\ d \in Client!Clients /\ d.socket = c.socket /\ d.state = c.state
          /\ d.reconnectInProgress = c.reconnectInProgress
          /\ d.reconnectTimer = c.reconnectTimer
          /\ d.out = Append(<<>>, m)
      <3>1. /\ d \in Client!Clients /\ d.socket = e.socket /\ d.state = e.state
            /\ d.reconnectInProgress = e.reconnectInProgress
            /\ d.reconnectTimer = e.reconnectTimer
            /\ \/ /\ e.currentRequest = Client!NoRequest \/ ~e.socket
                  /\ d = e
               \/ d.out = Append(e.out, m)
        <4>1. e \in Client!Clients
          BY <1>1
        <4> QED
          BY <2>1, <2>2, <4>1, AnswerLeaves DEF m
      <3> HIDE DEF m
      <3>2. d.out = Append(e.out, m)
        BY <2>3, <3>1
      <3> QED
        BY <1>1, <3>1, <3>2
    <2>5. m.kind = "giveUp" /\ m.request = r
      BY <1>1
    <2> HIDE DEF m
    <2>6. 1 \in DOMAIN d.out /\ \A i \in DOMAIN d.out : d.out[i] = m
      BY <2>4
    <2>7. Leaves(c, d)
      BY <2>4, <2>5, <2>6, AsideLeaves
    <2> QED
      BY <2>4, <2>5, <2>6, <2>7 DEF Answered, d
  <1> QED
    BY <1>4, <1>5

\* The player hands over, and what was asked is given up; or takes the play back.
LEMMA ManagedLeaves ==
    ASSUME NEW c, Resting(c), NEW managed \in BOOLEAN
    PROVE  LET d == Client!SetManaged(c, managed) IN
           /\ Leaves(c, d) /\ d.socket = c.socket
           /\ "online" \in c.state => "online" \in d.state
           /\ c.socket => Plays(c, d)
  <1> DEFINE s == IF managed THEN c.state \cup {"managed"} ELSE c.state \ {"managed"}
             e == Client!SetState(c, s)
             d == Client!SetManaged(c, managed)
             m == [kind |-> "giveUp", request |-> e.currentRequest]
  <1>1. s \in SUBSET Client!StateMasks /\ ("online" \in c.state => "online" \in s)
        /\ (~managed => "managed" \notin s)
    BY DEF Resting, Client!Clients, Client!StateMasks
  <1>2. d = IF managed THEN Client!SendRequestGivenUp(e) ELSE e
    BY DEF Client!SetManaged
  <1> HIDE DEF s
  <1>3. /\ e \in Client!Clients /\ Leaves(c, e) /\ e.socket = c.socket
        /\ e.state = s /\ e.currentRequest = c.currentRequest
        /\ e.out = <<>> \/ e.out = <<Client!StateChange(s)>>
        /\ e.reconnectInProgress = c.reconnectInProgress
        /\ e.reconnectTimer = c.reconnectTimer
    BY <1>1, SetStateRelays
  <1> HIDE DEF e
  <1>4. /\ d \in Client!Clients /\ d.socket = c.socket /\ d.state = s
        /\ d.reconnectInProgress = c.reconnectInProgress
        /\ d.reconnectTimer = c.reconnectTimer
        /\ \/ /\ d = e
              /\ ~managed \/ c.currentRequest = Client!NoRequest \/ ~c.socket
           \/ d.out = Append(e.out, m)
    <2>1. CASE ~managed
      BY <1>2, <1>3, <2>1
    <2>2. CASE managed
      <3>1. Reaching(e)
        BY <1>3 DEF Leaves
      <3>2. d = Answering(e, "giveUp")
        BY <1>2, <2>2, Answers
      <3> HIDE DEF d, m
      <3>3. /\ d \in Client!Clients /\ d.socket = e.socket /\ d.state = e.state
            /\ d.reconnectInProgress = e.reconnectInProgress
            /\ d.reconnectTimer = e.reconnectTimer
            /\ \/ /\ e.currentRequest = Client!NoRequest \/ ~e.socket
                  /\ d = e
               \/ d.out = Append(e.out, m)
        <4>1. e \in Client!Clients
          BY <1>3
        <4> QED
          BY <3>1, <3>2, <4>1, AnswerLeaves DEF m
      <3> QED
        BY <1>3, <3>3
    <2> QED
      BY <2>1, <2>2
  <1>5. m.kind = "giveUp" /\ m.request = c.currentRequest
    BY <1>3
  <1> HIDE DEF d, m
  <1>6. CASE d = e /\ (~managed \/ c.currentRequest = Client!NoRequest \/ ~c.socket)
    BY <1>1, <1>3, <1>6, Messages DEF Plays, Shows, d
  <1>7. CASE d.out = Append(e.out, m)
    <2> DEFINE n == Client!StateChange(s)
    <2>1. n.kind = "stateChange" /\ n.state = s
      BY DEF Client!StateChange
    <2> HIDE DEF n
    <2>2. /\ e.out \in Seq({m, n}) /\ \A i \in DOMAIN e.out : e.out[i] = n
          /\ Len(e.out) \in Nat /\ DOMAIN e.out = 1..Len(e.out)
      <3>1. e.out = <<>> \/ e.out = <<n>>
        BY <1>3 DEF n
      <3>2. CASE e.out = <<>>
        BY <3>2
      <3>3. CASE e.out = <<n>>
        BY <3>3
      <3> QED
        BY <3>1, <3>2, <3>3
    <2>3. /\ \A i \in DOMAIN d.out : d.out[i] = m \/ d.out[i] = n
          /\ \E i \in DOMAIN d.out : d.out[i] = m
          /\ (\E i \in DOMAIN e.out : TRUE) => \E i \in DOMAIN d.out : d.out[i] = n
      <3> DEFINE q == e.out
      <3>1. /\ q \in Seq({m, n}) /\ \A i \in DOMAIN q : q[i] = n
            /\ d.out = Append(q, m)
        BY <1>7, <2>2
      <3> HIDE DEF q
      <3>2. /\ DOMAIN d.out = 1..(Len(q) + 1) /\ Len(q) \in Nat
            /\ d.out[Len(q) + 1] = m
            /\ \A i \in 1..Len(q) : d.out[i] = q[i] /\ i \in DOMAIN q
            /\ DOMAIN q = 1..Len(q)
        BY <3>1
      <3>3. \A i \in 1..(Len(q) + 1) : i \in 1..Len(q) \/ i = Len(q) + 1
        BY <3>2
      <3>4. (\E i \in DOMAIN q : TRUE) => \E i \in DOMAIN d.out : d.out[i] = n
        BY <3>1, <3>2
      <3> QED
        BY <3>1, <3>2, <3>3, <3>4 DEF q
    <2>4. Answered(d.out, c.currentRequest)
      BY <1>5, <2>3 DEF Answered
    <2>5. Reaching(d)
      BY <1>4 DEF Reaching, Resting
    <2>6. s = c.state \/ ~c.socket \/ Declares(d.out)
      <3>1. s = c.state \/ ~c.socket \/ Declares(e.out)
        BY <1>3 DEF Leaves, Relays
      <3> QED
        BY <2>1, <2>3, <3>1 DEF Declares
    <2>7. Leaves(c, d)
      BY <1>4, <1>5, <2>1, <2>3, <2>5, <2>6 DEF Leaves, Relays
    <2> QED
      BY <1>1, <1>4, <2>4, <2>7 DEF Plays, Shows, d
  <1> QED
    BY <1>4, <1>6, <1>7


\* What a handler leaves that took the message m.
Took(c, m, d) ==
    /\ Leaves(c, d)
    /\ IF m.kind = "playerAdded"
       THEN d.state = m.state /\ d.currentRequest = c.currentRequest
       ELSE d.state = c.state
    /\ m.kind = "request" => Shows(d, m.request) \/ Answered(d.out, m.request)
    /\ d.socket /\ m.kind \notin {"playerAdded", "request"} => Plays(c, d)

\* A handler that sends nothing, and leaves the connection and the player alone.
LEMMA QuietLeaves ==
    ASSUME NEW c, Resting(c), NEW d \in Client!Clients, d.socket = c.socket,
           d.state = c.state, d.reconnectInProgress = c.reconnectInProgress,
           d.reconnectTimer = c.reconnectTimer, d.out = <<>>,
           d.currentRequest = c.currentRequest
    PROVE  Leaves(c, d) /\ Plays(c, d)
  <1>1. \A i \in DOMAIN d.out : d.out[i].kind \in {"reply", "giveUp"}
    OBVIOUS
  <1>2. Leaves(c, d)
    BY <1>1, AsideLeaves
  <1> QED
    BY <1>2 DEF Plays, Shows

\* The server's greeting.
LEMMA VersionLeaves ==
    ASSUME NEW c, Resting(c), c.socket, NEW compatible \in BOOLEAN
    PROVE  LET d == Client!NotifyVersion(c, compatible) IN
           Leaves(c, d) /\ d.state = c.state /\ (d.socket => Plays(c, d))
  <1> DEFINE d == Client!NotifyVersion(c, compatible)
             gone == Client!DisconnectFromHost(c)
             b == c.reconnectTimer /\ ~c.reconnectInProgress
             e == [c EXCEPT !.reconnectTimer = b, !.reconnectInProgress = FALSE]
             m == Client!SignIn(c.lastRoundEventSeq)
             f == Client!Sending(e, m)
  <1>1. d = IF ~compatible THEN gone ELSE f
    BY DEF Client!NotifyVersion, Client!Clients, Resting
  <1>2. CASE ~compatible
    <2>1. 0 \in 0..2 /\ Client!NoRequest \in Client!Requests \cup {Client!NoRequest}
      OBVIOUS
    <2>2. gone \in Client!Clients
      BY <2>1, ZenonT(30) DEF Client!Clients, Client!DisconnectFromHost, Resting
    <2>3. ~gone.socket /\ gone.state = c.state /\ Reaching(gone)
      BY DEF Client!Clients, Client!DisconnectFromHost, Resting, Reaching
    <2> QED
      BY <1>1, <1>2, <2>2, <2>3 DEF Leaves, d
  <1>3. CASE compatible
    <2>1. b = FALSE
      BY DEF Resting, Reaching
    <2>2. m \in Client!ToServer /\ m.kind = "signIn"
      <3>1. c.lastRoundEventSeq \in Nat
        BY DEF Resting, Client!Clients
      <3> QED
        BY <3>1, Messages DEF Client!SignIn
    <2> HIDE DEF b, m
    <2>3. /\ e \in Client!Clients /\ e.socket /\ e.state = c.state /\ e.out = <<>>
          /\ ~e.reconnectInProgress /\ ~e.reconnectTimer
          /\ e.currentRequest = c.currentRequest
      BY <2>1 DEF Client!Clients, Resting
    <2> HIDE DEF e
    <2>4. /\ f \in Client!Clients
          /\ f.out = IF e.socket THEN Append(e.out, m) ELSE e.out
          /\ f.socket = e.socket /\ f.state = e.state
          /\ f.reconnectTimer = e.reconnectTimer
          /\ f.reconnectInProgress = e.reconnectInProgress
          /\ f.currentRequest = e.currentRequest
      <3>1. m \in Client!ToServer
        BY <2>2
      <3>2. e \in Client!Clients
        BY <2>3
      <3> QED
        BY <3>1, <3>2, Sends
    <2> HIDE DEF f
    <2>5. f.out = Append(<<>>, m)
      BY <2>3, <2>4
    <2>6. \A i \in DOMAIN f.out : f.out[i] = m
      BY <2>5
    <2>7. Leaves(c, f)
      BY <2>2, <2>3, <2>4, <2>6 DEF Leaves, Relays, Reaching
    <2>8. Plays(c, f)
      BY <2>3, <2>4 DEF Plays, Shows
    <2>9. d = f /\ f.state = c.state
      BY <1>1, <1>3, <2>3, <2>4
    <2> QED
      BY <2>7, <2>8, <2>9 DEF d
  <1> QED
    BY <1>2, <1>3

\* A round event, applied or refused.
LEMMA EventLeaves ==
    ASSUME NEW c, Resting(c), NEW event \in Client!RoundEvents, NEW applies \in BOOLEAN
    PROVE  LET d == Client!NotifyRoundEvent(c, event, applies) IN
           Leaves(c, d) /\ d.state = c.state /\ Plays(c, d)
  <1> DEFINE d == Client!NotifyRoundEvent(c, event, applies)
             n == c.lastRoundEventSeq + 1
             q == Append(c.mirror, event)
             e == [c EXCEPT !.lastRoundEventSeq = n]
             f == [e EXCEPT !.mirror = q]
  <1>1. n \in Nat /\ q \in Seq(Client!Changes)
    BY DEF Resting, Client!Clients, Client!Changes
  <1>2. d = IF applies THEN f ELSE Client!HandleSocketGone(e)
    BY DEF Client!NotifyRoundEvent, Resting, Client!Clients
  <1> HIDE DEF n, q
  <1>3. /\ e \in Client!Clients /\ e.socket = c.socket /\ e.state = c.state
        /\ e.reconnectInProgress = c.reconnectInProgress
        /\ e.reconnectTimer = c.reconnectTimer /\ e.out = <<>>
        /\ e.currentRequest = c.currentRequest
    BY <1>1 DEF Resting, Client!Clients
  <1> HIDE DEF e
  <1>4. /\ f \in Client!Clients /\ f.socket = e.socket /\ f.state = e.state
        /\ f.reconnectInProgress = e.reconnectInProgress
        /\ f.reconnectTimer = e.reconnectTimer /\ f.out = <<>>
        /\ f.currentRequest = e.currentRequest
    BY <1>1, <1>3 DEF Client!Clients
  <1> HIDE DEF f, d
  <1>5. CASE applies
    <2>1. Leaves(c, f) /\ Plays(c, f)
      BY <1>3, <1>4, QuietLeaves
    <2> QED
      BY <1>2, <1>3, <1>4, <1>5, <2>1 DEF d
  <1>6. CASE ~applies
    <2> DEFINE g == Client!HandleSocketGone(e)
    <2>1. Reaching(e)
      BY <1>3 DEF Resting, Reaching
    <2>2. /\ Leaves(e, g) /\ ~g.socket /\ g.state = e.state
          /\ g.currentRequest = e.currentRequest
      BY <1>3, <2>1, GoneLeaves
    <2> HIDE DEF g
    <2>3. Leaves(c, g) /\ Plays(c, g) /\ g.state = c.state
      BY <1>3, <2>2 DEF Leaves, Plays, Shows
    <2>4. d = g
      BY <1>2, <1>6 DEF g
    <2> QED
      BY <2>3, <2>4 DEF d
  <1> QED
    BY <1>5, <1>6

\* What the client takes; a client that is attempting to get its connection back is
\* told of the server only.
LEMMA TakesLeaves ==
    ASSUME Resting(client), client.socket, NEW m \in ToClient,
           client.reconnectInProgress => m.kind = "version", NEW d \in Takes(m)
    PROVE  Took(client, m, d)
  <1> DEFINE c == client
  <1> USE DEF Takes
  <1>1. CASE m.kind = "version"
    <2>1. m.compatible \in BOOLEAN /\ d = Client!NotifyVersion(c, m.compatible)
      BY <1>1 DEF ToClient
    <2>2. Leaves(c, d) /\ d.state = c.state /\ (d.socket => Plays(c, d))
      BY <2>1, VersionLeaves
    <2> QED
      BY <1>1, <2>2 DEF Took
  <1>2. CASE m.kind = "roundStart"
    <2> DEFINE q == Append(c.mirror, "roundStart")
    <2>1. q \in Seq(Client!Changes)
      BY DEF Resting, Client!Clients, Client!Changes
    <2>2. d = [c EXCEPT !.mirror = q, !.lastRoundEventSeq = 0]
      BY <1>2 DEF Client!NotifyRoundStart
    <2> HIDE DEF q
    <2>3. /\ d \in Client!Clients /\ d.socket = c.socket /\ d.state = c.state
          /\ d.reconnectInProgress = c.reconnectInProgress
          /\ d.reconnectTimer = c.reconnectTimer /\ d.out = <<>>
          /\ d.currentRequest = c.currentRequest
      BY <2>1, <2>2 DEF Resting, Client!Clients
    <2>4. Leaves(c, d) /\ Plays(c, d)
      BY <2>3, QuietLeaves
    <2> QED
      BY <1>2, <2>3, <2>4 DEF Took
  <1>3. CASE m.kind = "gameOver"
    <2>1. d = [c EXCEPT !.socket = FALSE, !.pings = 0]
      BY <1>3 DEF Client!NotifyGameOver
    <2>2. 0 \in 0..2 /\ ~c.reconnectInProgress
      BY <1>3
    <2>3. d \in Client!Clients
      BY <2>1, <2>2 DEF Resting, Client!Clients
    <2>4. ~d.socket /\ d.state = c.state /\ Reaching(d)
      BY <2>1, <2>2 DEF Resting, Client!Clients, Reaching
    <2> QED
      BY <1>3, <2>3, <2>4 DEF Took, Leaves
  <1>4. CASE m.kind = "playerAdded"
    <2>1. m.state \in SUBSET Client!StateMasks /\ d = Client!SetState(c, m.state)
      BY <1>4 DEF ToClient, Client!NotifyPlayerAdded
    <2>2. /\ Leaves(c, d) /\ d.state = m.state /\ d.currentRequest = c.currentRequest
      BY <2>1, SetStateRelays
    <2> QED
      BY <1>4, <2>2 DEF Took
  <1>5. CASE m.kind \in {"peerAdded", "agentStateChanged"}
    <2>1. m.state \in Client!Peers
      BY <1>5 DEF ToClient, Client!Peers
    <2>2. d = c \/ d = [c EXCEPT !.peer = m.state]
      BY <1>5 DEF Client!NotifyPeerAdded, Client!NotifyAgentStateChanged
    <2>3. /\ d \in Client!Clients /\ d.socket = c.socket /\ d.state = c.state
          /\ d.reconnectInProgress = c.reconnectInProgress
          /\ d.reconnectTimer = c.reconnectTimer /\ d.out = <<>>
          /\ d.currentRequest = c.currentRequest
      BY <2>1, <2>2 DEF Resting, Client!Clients
    <2>4. Leaves(c, d) /\ Plays(c, d)
      BY <2>3, QuietLeaves
    <2> QED
      BY <1>5, <2>3, <2>4 DEF Took
  <1>6. CASE m.kind = "request"
    <2>1. m.request \in RequestIds /\ d = Client!RequestReceived(c, m.request)
      BY <1>6 DEF ToClient
    <2>2. Leaves(c, d) /\ d.state = c.state
          /\ (Shows(d, m.request) \/ Answered(d.out, m.request))
      BY <2>1, RequestLeaves
    <2> QED
      BY <1>6, <2>2 DEF Took
  <1>7. CASE m.kind = "event"
    <2>1. /\ m.event \in Client!RoundEvents
          /\ \E applies \in BOOLEAN : d = Client!NotifyRoundEvent(c, m.event, applies)
      BY <1>7 DEF ToClient
    <2>2. Leaves(c, d) /\ d.state = c.state /\ Plays(c, d)
      BY <2>1, EventLeaves
    <2> QED
      BY <1>7, <2>2 DEF Took
  <1> QED
    BY <1>1, <1>2, <1>3, <1>4, <1>5, <1>6, <1>7 DEF ToClient


-----------------------------------------------------------------------------
(* The wires. *)

\* Where the elements of two sequences are that are put one behind the other.
LEMMA Behind ==
    ASSUME NEW S, NEW q \in Seq(S), NEW p \in Seq(S)
    PROVE  /\ \A i \in DOMAIN q : i \in DOMAIN (q \o p) /\ (q \o p)[i] = q[i]
           /\ \A i \in DOMAIN p : /\ i + Len(q) \in DOMAIN (q \o p)
                                  /\ (q \o p)[i + Len(q)] = p[i]
           /\ \A i \in DOMAIN (q \o p) :
                 IF i <= Len(q) THEN i \in DOMAIN q ELSE i - Len(q) \in DOMAIN p
           /\ DOMAIN q \subseteq Nat /\ DOMAIN p \subseteq Nat
           /\ DOMAIN (q \o p) \subseteq Nat
           /\ Len(q) \in Nat /\ \A i \in DOMAIN q : i <= Len(q)
           /\ \A i \in DOMAIN p : i > 0
  OBVIOUS

\* Where the elements of a sequence are once its head is gone.
LEMMA Remain ==
    ASSUME NEW S, NEW q \in Seq(S), q # <<>>
    PROVE  /\ 1 \in DOMAIN q /\ q[1] = Head(q)
           /\ \A i \in DOMAIN Tail(q) : i + 1 \in DOMAIN q /\ Tail(q)[i] = q[i + 1]
           /\ \A i \in DOMAIN q : i # 1 => i - 1 \in DOMAIN Tail(q) /\ Tail(q)[i - 1] = q[i]
           /\ DOMAIN q \subseteq Nat /\ DOMAIN Tail(q) \subseteq Nat
           /\ \A i \in DOMAIN q : i > 0
  OBVIOUS

\* What is declared in a sequence that goes on.
LEMMA DeclaredBehind ==
    ASSUME NEW S, NEW q \in Seq(S), NEW p \in Seq(S), NEW s, NEW t
    PROVE  /\ Declares(q \o p) <=> Declares(q) \/ Declares(p)
           /\ LastDeclared(q, s) /\ ~Declares(p) => LastDeclared(q \o p, s)
           /\ Declares(p)
              /\ (\A i \in DOMAIN p : p[i].kind = "stateChange" => p[i].state = t)
              => LastDeclared(q \o p, t)
  <1> DEFINE a == q \o p
             n == Len(q)
  <1>1. /\ \A i \in DOMAIN q : i \in DOMAIN a /\ a[i] = q[i]
        /\ \A i \in DOMAIN p : i + n \in DOMAIN a /\ a[i + n] = p[i]
        /\ \A i \in DOMAIN a : IF i <= n THEN i \in DOMAIN q ELSE i - n \in DOMAIN p
        /\ DOMAIN q \subseteq Nat /\ DOMAIN p \subseteq Nat /\ DOMAIN a \subseteq Nat
        /\ n \in Nat /\ \A i \in DOMAIN q : i <= n
        /\ \A i \in DOMAIN p : i > 0
    BY Behind
  <1> HIDE DEF a, n
  <1>2. \A i \in DOMAIN a : \/ i \in DOMAIN q /\ a[i] = q[i]
                            \/ \E k \in DOMAIN p : i = k + n /\ a[i] = p[k]
    <2> SUFFICES ASSUME NEW i \in DOMAIN a
                 PROVE  \/ i \in DOMAIN q /\ a[i] = q[i]
                        \/ \E k \in DOMAIN p : i = k + n /\ a[i] = p[k]
      OBVIOUS
    <2>1. CASE i <= n
      BY <1>1, <2>1
    <2>2. CASE ~(i <= n)
      <3>1. i - n \in DOMAIN p /\ i = (i - n) + n
        BY <1>1, <2>2
      <3>2. a[(i - n) + n] = p[i - n]
        BY <1>1, <3>1
      <3> QED
        BY <3>1, <3>2
    <2> QED
      BY <2>1, <2>2
  <1>3. Declares(a) <=> Declares(q) \/ Declares(p)
    BY <1>1, <1>2 DEF Declares
  <1>4. ASSUME LastDeclared(q, s), ~Declares(p) PROVE LastDeclared(a, s)
    <2> SUFFICES ASSUME NEW i \in DOMAIN a, a[i].kind = "stateChange",
                        \A j \in DOMAIN a : j > i => a[j].kind # "stateChange"
                 PROVE  a[i].state = s
      BY DEF LastDeclared
    <2>1. i \in DOMAIN q /\ a[i] = q[i]
      BY <1>2, <1>4 DEF Declares
    <2>2. \A j \in DOMAIN q : j > i => q[j].kind # "stateChange"
      BY <1>1
    <2> QED
      BY <1>4, <2>1, <2>2 DEF LastDeclared
  <1>5. ASSUME Declares(p),
               \A i \in DOMAIN p : p[i].kind = "stateChange" => p[i].state = t
        PROVE  LastDeclared(a, t)
    <2>1. PICK k \in DOMAIN p : p[k].kind = "stateChange"
      BY <1>5 DEF Declares
    <2>2. SUFFICES ASSUME NEW i \in DOMAIN a, a[i].kind = "stateChange",
                          \A j \in DOMAIN a : j > i => a[j].kind # "stateChange"
                   PROVE  a[i].state = t
      BY DEF LastDeclared
    <2>3. k + n \in DOMAIN a /\ a[k + n].kind = "stateChange"
      BY <1>1, <2>1
    <2>4. ~(k + n > i)
      BY <2>2, <2>3
    <2>5. i \notin DOMAIN q
      BY <1>1, <2>4
    <2> QED
      BY <1>2, <1>5, <2>2, <2>5
  <1> QED
    BY <1>3, <1>4, <1>5 DEF a

\* And in one whose head is gone.
LEMMA DeclaredRemain ==
    ASSUME NEW S, NEW q \in Seq(S), q # <<>>, NEW s
    PROVE  /\ Declares(Tail(q)) => Declares(q)
           /\ Declares(q) => Declares(Tail(q)) \/ Head(q).kind = "stateChange"
           /\ LastDeclared(q, s) => LastDeclared(Tail(q), s)
           /\ LastDeclared(q, s) /\ Head(q).kind = "stateChange"
              /\ ~Declares(Tail(q)) => Head(q).state = s
  <1> DEFINE a == Tail(q)
             h == Head(q)
  <1>1. /\ 1 \in DOMAIN q /\ q[1] = h
        /\ \A i \in DOMAIN a : i + 1 \in DOMAIN q /\ a[i] = q[i + 1]
        /\ \A i \in DOMAIN q : i # 1 => i - 1 \in DOMAIN a /\ a[i - 1] = q[i]
        /\ DOMAIN q \subseteq Nat /\ DOMAIN a \subseteq Nat
        /\ \A i \in DOMAIN q : i > 0
    BY Remain
  <1> HIDE DEF a, h
  <1>2. Declares(a) => Declares(q)
    BY <1>1 DEF Declares
  <1>3. Declares(q) => Declares(a) \/ h.kind = "stateChange"
    <2> SUFFICES ASSUME NEW i \in DOMAIN q, q[i].kind = "stateChange"
                 PROVE  Declares(a) \/ h.kind = "stateChange"
      BY DEF Declares
    <2> QED
      BY <1>1 DEF Declares
  <1>4. ASSUME LastDeclared(q, s) PROVE LastDeclared(a, s)
    <2> SUFFICES ASSUME NEW i \in DOMAIN a, a[i].kind = "stateChange",
                        \A j \in DOMAIN a : j > i => a[j].kind # "stateChange"
                 PROVE  a[i].state = s
      BY DEF LastDeclared
    <2>1. ASSUME NEW j \in DOMAIN q, j > i + 1 PROVE q[j].kind # "stateChange"
      <3>1. j \in Nat /\ i \in Nat /\ j # 1
        BY <1>1, <2>1
      <3>2. j - 1 \in DOMAIN a /\ a[j - 1] = q[j] /\ j - 1 > i
        BY <1>1, <2>1, <3>1
      <3> QED
        BY <3>2
    <2>2. i + 1 \in DOMAIN q /\ a[i] = q[i + 1]
      BY <1>1
    <2> QED
      BY <1>4, <2>1, <2>2 DEF LastDeclared
  <1>5. ASSUME LastDeclared(q, s), h.kind = "stateChange", ~Declares(a)
        PROVE  h.state = s
    <2>1. ASSUME NEW j \in DOMAIN q, j > 1 PROVE q[j].kind # "stateChange"
      <3>1. j - 1 \in DOMAIN a /\ a[j - 1] = q[j]
        BY <1>1, <2>1
      <3> QED
        BY <1>5, <3>1 DEF Declares
    <2> QED
      BY <1>1, <1>5, <2>1 DEF LastDeclared
  <1> QED
    BY <1>2, <1>3, <1>4, <1>5 DEF a, h

\* Answers, in a sequence that goes on and in one whose head is gone.
LEMMA AnsweredBehind ==
    ASSUME NEW S, NEW q \in Seq(S), NEW p \in Seq(S), NEW r
    PROVE  /\ Answered(q, r) \/ Answered(p, r) => Answered(q \o p, r)
           /\ q # <<>> /\ Answered(q, r) =>
                 Answered(Tail(q), r) \/ Head(q).kind \in {"reply", "giveUp"}
  <1>1. Answered(q, r) \/ Answered(p, r) => Answered(q \o p, r)
    <2> DEFINE a == q \o p
               n == Len(q)
    <2>1. /\ \A i \in DOMAIN q : i \in DOMAIN a /\ a[i] = q[i]
          /\ \A i \in DOMAIN p : i + n \in DOMAIN a /\ a[i + n] = p[i]
      BY Behind
    <2> HIDE DEF a, n
    <2>2. Answered(q, r) \/ Answered(p, r) => Answered(a, r)
      BY <2>1 DEF Answered
    <2> QED
      BY <2>2 DEF a
  <1>2. ASSUME q # <<>>, Answered(q, r)
        PROVE  Answered(Tail(q), r) \/ Head(q).kind \in {"reply", "giveUp"}
    <2> DEFINE a == Tail(q)
               h == Head(q)
    <2>1. /\ q[1] = h
          /\ \A i \in DOMAIN q : i # 1 => i - 1 \in DOMAIN a /\ a[i - 1] = q[i]
      BY <1>2, Remain
    <2> HIDE DEF a, h
    <2>2. Answered(a, r) \/ h.kind \in {"reply", "giveUp"}
      BY <1>2, <2>1 DEF Answered
    <2> QED
      BY <2>2 DEF a, h
  <1> QED
    BY <1>1, <1>2

\* Requests, in a sequence that goes on.
LEMMA AsksBehind ==
    ASSUME NEW S, NEW q \in Seq(S), NEW p \in Seq(S), NEW r
    PROVE  /\ Asks(q \o p) => Asks(q) \/ Asks(p)
           /\ AsksLast(q, r) /\ ~Asks(p) => AsksLast(q \o p, r)
           /\ p = <<Request(r)>> => AsksLast(q \o p, r)
  <1> DEFINE a == q \o p
             n == Len(q)
  <1>1. /\ \A i \in DOMAIN q : i \in DOMAIN a /\ a[i] = q[i]
        /\ \A i \in DOMAIN p : i + n \in DOMAIN a /\ a[i + n] = p[i]
        /\ \A i \in DOMAIN a : IF i <= n THEN i \in DOMAIN q ELSE i - n \in DOMAIN p
        /\ DOMAIN q \subseteq Nat /\ DOMAIN p \subseteq Nat /\ DOMAIN a \subseteq Nat
        /\ n \in Nat /\ \A i \in DOMAIN q : i <= n
    BY Behind
  <1> HIDE DEF a, n
  <1>2. \A i \in DOMAIN a : \/ i \in DOMAIN q /\ a[i] = q[i]
                            \/ \E k \in DOMAIN p : i = k + n /\ a[i] = p[k]
    <2> SUFFICES ASSUME NEW i \in DOMAIN a
                 PROVE  \/ i \in DOMAIN q /\ a[i] = q[i]
                        \/ \E k \in DOMAIN p : i = k + n /\ a[i] = p[k]
      OBVIOUS
    <2>1. CASE i <= n
      BY <1>1, <2>1
    <2>2. CASE ~(i <= n)
      <3>1. i - n \in DOMAIN p /\ i = (i - n) + n
        BY <1>1, <2>2
      <3>2. a[(i - n) + n] = p[i - n]
        BY <1>1, <3>1
      <3> QED
        BY <3>1, <3>2
    <2> QED
      BY <2>1, <2>2
  <1>3. Asks(a) => Asks(q) \/ Asks(p)
    BY <1>2 DEF Asks
  <1>4. ASSUME AsksLast(q, r), ~Asks(p) PROVE AsksLast(a, r)
    BY <1>1, <1>2, <1>4 DEF AsksLast, Asks
  <1>5. ASSUME p = <<Request(r)>> PROVE AsksLast(a, r)
    <2>1. DOMAIN p = {1} /\ p[1] = Request(r)
      BY <1>5
    <2>2. /\ 1 + n \in DOMAIN a /\ a[1 + n] = Request(r)
          /\ \A j \in DOMAIN a : ~(j > 1 + n)
      BY <1>1, <1>2, <2>1
    <2> QED
      BY <2>2 DEF AsksLast
  <1> QED
    BY <1>3, <1>4, <1>5 DEF a

\* And in one whose head is gone.
LEMMA AsksRemain ==
    ASSUME NEW S, NEW q \in Seq(S), q # <<>>, NEW r
    PROVE  /\ Asks(Tail(q)) => Asks(q)
           /\ Asks(q) <=> Asks(Tail(q)) \/ Head(q).kind = "request"
           /\ AsksLast(q, r) => \/ AsksLast(Tail(q), r)
                                \/ Head(q) = Request(r) /\ ~Asks(Tail(q))
  <1> DEFINE a == Tail(q)
             h == Head(q)
  <1>1. /\ 1 \in DOMAIN q /\ q[1] = h
        /\ \A i \in DOMAIN a : i + 1 \in DOMAIN q /\ a[i] = q[i + 1]
        /\ \A i \in DOMAIN q : i # 1 => i - 1 \in DOMAIN a /\ a[i - 1] = q[i]
        /\ DOMAIN q \subseteq Nat /\ DOMAIN a \subseteq Nat
        /\ \A i \in DOMAIN q : i > 0
    BY Remain
  <1> HIDE DEF a, h
  <1>2. Asks(q) <=> Asks(a) \/ h.kind = "request"
    BY <1>1 DEF Asks
  <1>3. ASSUME AsksLast(q, r)
        PROVE  AsksLast(a, r) \/ (h = Request(r) /\ ~Asks(a))
    <2>1. PICK i \in DOMAIN q :
             /\ q[i] = Request(r)
             /\ \A j \in DOMAIN q : j > i => q[j].kind # "request"
      BY <1>3 DEF AsksLast
    <2>2. ASSUME NEW j \in DOMAIN a, j + 1 > i PROVE a[j].kind # "request"
      BY <1>1, <2>1, <2>2
    <2>3. CASE i = 1
      <3>1. \A j \in DOMAIN a : j + 1 > i
        BY <1>1, <2>3
      <3>2. ~Asks(a)
        BY <2>2, <3>1 DEF Asks
      <3> QED
        BY <1>1, <2>1, <2>3, <3>2
    <2>4. CASE i # 1
      <3>1. i - 1 \in DOMAIN a /\ a[i - 1] = Request(r)
        BY <1>1, <2>1, <2>4
      <3>2. ASSUME NEW j \in DOMAIN a, j > i - 1 PROVE a[j].kind # "request"
        <4>1. j + 1 > i
          BY <1>1, <3>2
        <4> QED
          BY <2>2, <4>1
      <3> DEFINE k == i - 1
      <3> HIDE DEF k
      <3>3. /\ k \in DOMAIN a /\ a[k] = Request(r)
            /\ \A j \in DOMAIN a : j > k => a[j].kind # "request"
        BY <3>1, <3>2 DEF k
      <3> QED
        BY <3>3 DEF AsksLast
    <2> QED
      BY <2>3, <2>4
  <1> QED
    BY <1>2, <1>3 DEF a, h


-----------------------------------------------------------------------------
(* What the client does. *)

\* One of its handlers has left d, which took what has left toClient at `coming`.
Steps(d, coming) ==
    /\ Leaves(client, d)
    /\ \/ /\ coming = toClient
          /\ "online" \in client.state => "online" \in d.state
          /\ d.socket => Plays(client, d)
       \/ /\ toClient # <<>> /\ coming = Tail(toClient)
          /\ Took(client, Head(toClient), d)
    /\ ClientBecomes(d, coming)
    /\ UNCHANGED <<roomVars, conn, trusted, roundEventLog>>

\* What it has sent is all that is left out of the client it becomes.
LEMMA SilentKeeps ==
    ASSUME NEW d \in Client!Clients
    PROVE  LET e == Client!Silent(d) IN
           /\ e \in Client!Clients /\ e.out = <<>> /\ e.socket = d.socket
           /\ e.state = d.state /\ e.reconnectInProgress = d.reconnectInProgress
           /\ e.reconnectTimer = d.reconnectTimer
           /\ e.currentRequest = d.currentRequest
           /\ Reaching(d) => Reaching(e)
  <1>1. <<>> \in Seq(Client!ToServer)
    OBVIOUS
  <1> DEFINE o == <<>>
             e == [d EXCEPT !.out = o]
  <1>2. o \in Seq(Client!ToServer)
    BY <1>1
  <1> HIDE DEF o
  <1>3. /\ e \in Client!Clients /\ e.out = o /\ e.socket = d.socket
        /\ e.state = d.state /\ e.reconnectInProgress = d.reconnectInProgress
        /\ e.reconnectTimer = d.reconnectTimer
        /\ e.currentRequest = d.currentRequest
    BY <1>2 DEF Client!Clients
  <1>4. Client!Silent(d) = e
    BY DEF Client!Silent, o
  <1> HIDE DEF e
  <1> QED
    BY <1>3, <1>4 DEF Reaching, o

LEMMA LinkResting ==
    ASSUME LinkInv
    PROVE  /\ Resting(client)
           /\ toClient # <<>> =>
                 /\ link = "open" /\ client.socket /\ Head(toClient) \in ToClient
                 /\ client.reconnectInProgress => Head(toClient).kind = "version"
  <1>1. Resting(client)
    BY DEF LinkInv, TypeOK, Resting
  <1>2. ASSUME toClient # <<>>
        PROVE  /\ link = "open" /\ client.socket /\ Head(toClient) \in ToClient
               /\ client.reconnectInProgress => Head(toClient).kind = "version"
    <2>1. toClient \in Seq(ToClient) /\ link \in Links
      BY DEF LinkInv, TypeOK
    <2>2. 1 \in DOMAIN toClient /\ toClient[1] = Head(toClient) /\ toClient[1] \in ToClient
      BY <1>2, <2>1
    <2> QED
      BY <1>2, <2>1, <2>2 DEF LinkInv, Links
  <1> QED
    BY <1>1, <1>2

\* The pings of a window change nothing else.
LEMMA PingsLeave ==
    ASSUME NEW c, Resting(c), NEW n \in 0..2
    PROVE  LET d == [c EXCEPT !.pings = n] IN
           /\ Leaves(c, d) /\ Plays(c, d) /\ d \in Client!Clients
           /\ d.socket = c.socket /\ d.state = c.state /\ d.out = <<>>
           /\ d.reconnectInProgress = c.reconnectInProgress
           /\ d.reconnectTimer = c.reconnectTimer
           /\ d.currentRequest = c.currentRequest
  <1> DEFINE d == [c EXCEPT !.pings = n]
  <1>1. /\ d \in Client!Clients /\ d.socket = c.socket /\ d.state = c.state
        /\ d.reconnectInProgress = c.reconnectInProgress
        /\ d.reconnectTimer = c.reconnectTimer /\ d.out = <<>>
        /\ d.currentRequest = c.currentRequest
    BY DEF Resting, Client!Clients
  <1> HIDE DEF d
  <1>2. Leaves(c, d) /\ Plays(c, d)
    BY <1>1, QuietLeaves
  <1> QED
    BY <1>1, <1>2 DEF d

\* The client's handlers on the connection it has, and the loss of it.
LEMMA ClientActs ==
    ASSUME LinkInv,
           \/ ClientTakes \/ SocketGone \/ Heartbeat
           \/ PongDeadline /\ ~client'.socket
           \/ PlayerReplies \/ PlayerManaged
    PROVE  /\ \E d, coming : Steps(d, coming)
           /\ losses' \in 0..MaxLosses /\ toggles' \in 0..MaxToggles
  <1> USE DEF ClientDoes
  <1>0. Resting(client) /\ client \in Client!Clients /\ Reaching(client)
    BY LinkResting DEF Resting
  <1>9. /\ losses \in 0..MaxLosses /\ toggles \in 0..MaxToggles
        /\ MaxToggles \in Nat
    BY BoundsAssumption DEF LinkInv, TypeOK
  <1>1. CASE ClientTakes
    <2>1. PICK d \in Takes(Head(toClient)) : ClientBecomes(d, Tail(toClient))
      BY <1>1 DEF ClientTakes
    <2>2. toClient # <<>>
      BY <1>1 DEF ClientTakes
    <2>3. /\ client.socket /\ Head(toClient) \in ToClient
          /\ client.reconnectInProgress => Head(toClient).kind = "version"
      BY <2>2, LinkResting
    <2>4. Took(client, Head(toClient), d)
      BY <1>0, <2>1, <2>3, TakesLeaves
    <2>5. UNCHANGED <<roomVars, conn, trusted, roundEventLog, counters>>
      BY <1>1 DEF ClientTakes
    <2>6. Leaves(client, d)
      BY <2>4 DEF Took
    <2>7. Steps(d, Tail(toClient))
      BY <2>1, <2>2, <2>4, <2>5, <2>6 DEF Steps
    <2> QED
      BY <1>9, <2>5, <2>7 DEF counters
  <1>2. CASE SocketGone
    <2> DEFINE d == Client!HandleSocketGone(client)
               e == Client!HandleSocketGone(d)
    <2>1. /\ Leaves(client, d) /\ ~d.socket /\ d.state = client.state
      BY <1>0, GoneLeaves
    <2>2. e = d
      BY <2>1 DEF Client!HandleSocketGone
    <2>3. /\ ClientBecomes(e, toClient)
          /\ UNCHANGED <<roomVars, conn, trusted, roundEventLog, counters>>
      BY <1>2 DEF SocketGone
    <2> HIDE DEF d, e
    <2>4. Steps(e, toClient)
      BY <2>1, <2>2, <2>3 DEF Steps
    <2> QED
      BY <1>9, <2>3, <2>4 DEF counters
  <1>3. CASE Heartbeat
    <2> DEFINE asked == Client!HeartbeatTimeout(client)
               d == IF link = "open" THEN Client!NotifyPongServer(asked) ELSE asked
    <2>1. \E n \in 0..2 : d = [client EXCEPT !.pings = n]
      <3>1. asked = [client EXCEPT !.pings = 1] \/ asked = [client EXCEPT !.pings = 2]
        BY <1>0 DEF Client!HeartbeatTimeout, Client!Clients
      <3>2. Client!NotifyPongServer(asked) = [client EXCEPT !.pings = 0]
        BY <1>0, <3>1 DEF Client!NotifyPongServer, Client!Clients
      <3> HIDE DEF asked
      <3> QED
        BY <3>1, <3>2
    <2>3. /\ ClientBecomes(d, toClient)
          /\ UNCHANGED <<roomVars, conn, trusted, roundEventLog, counters>>
      BY <1>3 DEF Heartbeat
    <2> HIDE DEF d
    <2>2. PICK n \in 0..2 : d = [client EXCEPT !.pings = n]
      BY <2>1
    <2>4. Leaves(client, d) /\ Plays(client, d)
      BY <1>0, <2>2, PingsLeave
    <2>5. Steps(d, toClient)
      BY <2>3, <2>4 DEF Steps, Plays
    <2> QED
      BY <1>9, <2>3, <2>5 DEF counters
  <1>4. CASE PongDeadline /\ ~client'.socket
    <2> DEFINE d == Client!PongDeadlinePassed(client)
    <2>1. \/ d = Client!HandleSocketGone(client)
          \/ d = [client EXCEPT !.pings = 0]
      BY DEF Client!PongDeadlinePassed
    <2> HIDE DEF d
    <2>2. 0 \in 0..2
      OBVIOUS
    <2>3. Leaves(client, d) /\ d.state = client.state
          /\ (d.socket => Plays(client, d))
      <3>1. CASE d = Client!HandleSocketGone(client)
        BY <1>0, <3>1, GoneLeaves
      <3>2. CASE d = [client EXCEPT !.pings = 0]
        BY <1>0, <2>2, <3>2, PingsLeave
      <3> QED
        BY <2>1, <3>1, <3>2
    <2>4. /\ \/ ~d.socket /\ ClientDoes(d)
             \/ d.socket /\ client' = d
          /\ UNCHANGED counters
      BY <1>4 DEF PongDeadline, d
    <2>5. ClientDoes(d)
      BY <1>4, <2>4
    <2>6. Steps(d, toClient)
      BY <2>3, <2>5 DEF Steps
    <2> QED
      BY <1>9, <2>4, <2>6 DEF counters
  <1>5. CASE PlayerReplies
    <2>1. PICK d \in {Client!SendReply(client), Client!SendRequestGivenUp(client)} :
             ClientDoes(d) /\ UNCHANGED counters
      BY <1>5 DEF PlayerReplies
    <2>2. Leaves(client, d) /\ Plays(client, d)
      BY <1>0, ReplyLeaves
    <2>3. Steps(d, toClient)
      BY <2>1, <2>2 DEF Steps, Plays
    <2> QED
      BY <1>9, <2>1, <2>3 DEF counters
  <1>6. CASE PlayerManaged
    <2>1. PICK managed \in BOOLEAN : ClientDoes(Client!SetManaged(client, managed))
      BY <1>6 DEF PlayerManaged
    <2> DEFINE d == Client!SetManaged(client, managed)
    <2>2. /\ Leaves(client, d) /\ d.socket = client.socket
          /\ "online" \in client.state => "online" \in d.state
          /\ client.socket => Plays(client, d)
      BY <1>0, ManagedLeaves
    <2> HIDE DEF d
    <2>3. Steps(d, toClient)
      BY <2>1, <2>2 DEF Steps, d
    <2>4. losses' = losses /\ toggles < MaxToggles /\ toggles' = toggles + 1
      BY <1>6 DEF PlayerManaged
    <2>5. toggles' \in 0..MaxToggles
      BY <1>9, <2>4
    <2> QED
      BY <1>9, <2>3, <2>4, <2>5
  <1> QED
    BY <1>1, <1>2, <1>3, <1>4, <1>5, <1>6


-----------------------------------------------------------------------------
(* The server's handlers, on a transport that is closed once the event loop runs. *)

\* What a handler that settles the request leaves of the connection c: it is still
\* the same side of its end, or its end has been reported.
Settles(c, d) ==
    /\ Quiet(d) \in Connections /\ Quiet(Quiet(d)) = Quiet(d)
    /\ d.currentRequest = Invalid
    /\ \/ /\ ~d.left /\ d.online = c.online
          /\ d.socket = "none" <=> c.socket = "none"
       \/ d.left /\ ~d.online /\ d.socket = "none"

\* What no handler of one event tells, the next does not either.
LEMMA QuietKeeps ==
    ASSUME NEW c \in Connections
    PROVE  /\ Quiet(c) \in Connections /\ Quiet(Quiet(c)) = Quiet(c)
           /\ Quiet(c).socket = c.socket /\ Quiet(c).online = c.online
           /\ Quiet(c).currentRequest = c.currentRequest
           /\ Quiet(c).zeroTimers = c.zeroTimers
           /\ ~Quiet(c).left
  <1>1. <<>> \in Seq(RequestIds)
    OBVIOUS
  <1> DEFINE o == <<>>
             q == [c EXCEPT !.replies = o, !.left = FALSE]
  <1>2. o \in Seq(RequestIds)
    BY <1>1
  <1>3. Quiet(c) = q
    BY DEF Quiet
  <1>4. Quiet(Quiet(c)) = [q EXCEPT !.replies = o, !.left = FALSE]
    BY DEF Quiet
  <1> HIDE DEF o
  <1>5. /\ q \in Connections /\ q.socket = c.socket /\ q.online = c.online
        /\ q.currentRequest = c.currentRequest /\ q.zeroTimers = c.zeroTimers
        /\ ~q.left /\ [q EXCEPT !.replies = o, !.left = FALSE] = q
    BY <1>2 DEF Connections
  <1> HIDE DEF q
  <1> QED
    BY <1>3, <1>4, <1>5

LEMMA DefaultReplySettles ==
    ASSUME NEW c \in Connections
    PROVE  LET d == ExecuteDefaultReply(c) IN
           /\ d \in Connections /\ d.currentRequest = Invalid
           /\ d.socket = c.socket /\ d.online = c.online /\ d.left = c.left
           /\ d.zeroTimers = c.zeroTimers
  <1>1. CASE c.currentRequest = Invalid
    BY <1>1 DEF ExecuteDefaultReply
  <1>2. CASE c.currentRequest # Invalid
    <2> DEFINE q == Append(c.replies, c.currentRequest)
               d == [c EXCEPT !.replies = q, !.currentRequest = Invalid]
    <2>1. q \in Seq(RequestIds)
      BY <1>2 DEF Connections
    <2>2. ExecuteDefaultReply(c) = d
      BY <1>2 DEF ExecuteDefaultReply
    <2> HIDE DEF q
    <2>3. /\ d \in Connections /\ d.currentRequest = Invalid
          /\ d.socket = c.socket /\ d.online = c.online /\ d.left = c.left
          /\ d.zeroTimers = c.zeroTimers
      BY <2>1 DEF Connections
    <2> HIDE DEF d
    <2> QED
      BY <2>2, <2>3
  <1> QED
    BY <1>1, <1>2

\* A handler that ends in the default reply, and one that does not.
LEMMA EndsInDefault ==
    ASSUME NEW c \in Connections, NEW d \in Connections,
           d.online = c.online, ~d.left, d.socket = "none" <=> c.socket = "none"
    PROVE  Settles(c, ExecuteDefaultReply(d))
  <1> DEFINE e == ExecuteDefaultReply(d)
  <1>1. /\ e \in Connections /\ e.currentRequest = Invalid
        /\ e.socket = d.socket /\ e.online = d.online /\ e.left = d.left
    BY DefaultReplySettles
  <1> HIDE DEF e
  <1>2. Quiet(e) \in Connections /\ Quiet(Quiet(e)) = Quiet(e)
    BY <1>1, QuietKeeps
  <1>3. Settles(c, e)
    BY <1>1, <1>2 DEF Settles
  <1> QED
    BY <1>3 DEF e

\* The transport is told to close.
LEMMA SetErrorCloses ==
    ASSUME NEW c \in Connections
    PROVE  LET d == SetError(c, FALSE) IN
           /\ d \in Connections /\ d.online = c.online /\ d.left = c.left
           /\ d.socket = "none" <=> c.socket = "none"
  <1>1. CASE c.socket = "none"
    BY <1>1 DEF SetError
  <1>2. CASE c.socket # "none"
    <2> DEFINE d == [c EXCEPT !.socket = "closing"]
    <2>1. SetError(c, FALSE) = d
      BY <1>2 DEF SetError
    <2>2. /\ d \in Connections /\ d.online = c.online /\ d.left = c.left
          /\ d.socket = "closing"
      BY DEF Connections, Sockets
    <2> HIDE DEF d
    <2> QED
      BY <1>2, <2>1, <2>2
  <1> QED
    BY <1>1, <1>2

\* The change of a timer, and any packet, leave the rest of a connection alone.
LEMMA Timers ==
    ASSUME NEW c \in Connections, NEW d, d \in
              {Heard(c), [Heard(c) EXCEPT !.requestTimer = FALSE],
               [c EXCEPT !.requestTimer = FALSE],
               [c EXCEPT !.heartbeatDeadline = FALSE]}
    PROVE  /\ d \in Connections /\ d.online = c.online /\ d.left = c.left
           /\ d.socket = c.socket /\ d.currentRequest = c.currentRequest
           /\ d.zeroTimers = c.zeroTimers /\ d.replies = c.replies
  <1>1. \E a, b \in BOOLEAN : \E n \in {c.zeroTimers} :
           d = [c EXCEPT !.heartbeatDeadline = a, !.requestTimer = b, !.zeroTimers = n]
    <2>1. c.heartbeatDeadline \in BOOLEAN /\ c.requestTimer \in BOOLEAN
      BY DEF Connections
    <2>2. CASE d = Heard(c)
      <3>1. d = [c EXCEPT !.heartbeatDeadline = TRUE, !.requestTimer = c.requestTimer,
                          !.zeroTimers = c.zeroTimers]
        BY <2>2 DEF Heard, Connections
      <3> QED
        BY <2>1, <3>1
    <2>3. CASE d = [Heard(c) EXCEPT !.requestTimer = FALSE]
      <3>1. d = [c EXCEPT !.heartbeatDeadline = TRUE, !.requestTimer = FALSE,
                          !.zeroTimers = c.zeroTimers]
        BY <2>3 DEF Heard, Connections
      <3> QED
        BY <2>1, <3>1
    <2>4. CASE d = [c EXCEPT !.requestTimer = FALSE]
      <3>1. d = [c EXCEPT !.heartbeatDeadline = c.heartbeatDeadline,
                          !.requestTimer = FALSE, !.zeroTimers = c.zeroTimers]
        BY <2>4 DEF Connections
      <3> QED
        BY <2>1, <3>1
    <2>5. CASE d = [c EXCEPT !.heartbeatDeadline = FALSE]
      <3>1. d = [c EXCEPT !.heartbeatDeadline = FALSE,
                          !.requestTimer = c.requestTimer, !.zeroTimers = c.zeroTimers]
        BY <2>5 DEF Connections
      <3> QED
        BY <2>1, <3>1
    <2> QED
      BY <2>2, <2>3, <2>4, <2>5
  <1>2. PICK a, b \in BOOLEAN :
           d = [c EXCEPT !.heartbeatDeadline = a, !.requestTimer = b,
                         !.zeroTimers = c.zeroTimers]
    BY <1>1
  <1> DEFINE n == c.zeroTimers
             e == [c EXCEPT !.heartbeatDeadline = a, !.requestTimer = b,
                            !.zeroTimers = n]
  <1>3. d = e
    BY <1>2
  <1>5. a \in BOOLEAN /\ b \in BOOLEAN
    BY <1>2
  <1>6. n \in Nat
    BY DEF Connections
  <1> HIDE DEF n
  <1>4. /\ e \in Connections /\ e.online = c.online /\ e.left = c.left
        /\ e.socket = c.socket /\ e.currentRequest = c.currentRequest
        /\ e.zeroTimers = n /\ e.replies = c.replies
    BY <1>5, <1>6 DEF Connections
  <1> HIDE DEF e
  <1> QED
    BY <1>3, <1>4 DEF n

\* Each handler of the server's end that settles the request.
LEMMA HandlersSettle ==
    ASSUME NEW c \in Connections, c = Quiet(c)
    PROVE  /\ c.currentRequest # Invalid =>
                 /\ Settles(c, Answer(c)) /\ Answer(c).socket = c.socket
           /\ Settles(c, Refusal(c)) /\ Refusal(c).socket = c.socket
           /\ Settles(c, AbnormalPacket(c, FALSE))
           /\ Settles(c, RequestTimedOut(c, FALSE))
           /\ Settles(c, PeerWentSilent(c, FALSE))
           /\ Settles(c, OnSocketDisconnected(c))
           /\ c.zeroTimers > 0 => /\ Settles(c, ZeroTimerFired(c))
                                  /\ ZeroTimerFired(c).socket = c.socket
  <1>0. ~c.left
    BY QuietKeeps
  <1> DEFINE h == Heard(c)
             g == [h EXCEPT !.requestTimer = FALSE]
             t == [c EXCEPT !.requestTimer = FALSE]
             b == [c EXCEPT !.heartbeatDeadline = FALSE]
  <1>h. /\ h \in Connections /\ h.online = c.online /\ h.left = c.left
        /\ h.socket = c.socket
    BY Timers
  <1>g. /\ g \in Connections /\ g.online = c.online /\ g.left = c.left
        /\ g.socket = c.socket /\ g.replies = c.replies
    BY Timers
  <1>t. /\ t \in Connections /\ t.online = c.online /\ t.left = c.left
        /\ t.socket = c.socket
    BY Timers
  <1>b. /\ b \in Connections /\ b.online = c.online /\ b.left = c.left
        /\ b.socket = c.socket
    BY Timers
  <1>1. ASSUME c.currentRequest # Invalid
        PROVE  Settles(c, Answer(c)) /\ Answer(c).socket = c.socket
    <2> DEFINE r == Replied(c)
               q == Append(r.replies, c.currentRequest)
               d == [r EXCEPT !.replies = q]
    <2>1. /\ r \in Connections /\ r.online = c.online /\ r.left = c.left
          /\ r.socket = c.socket /\ r.currentRequest = Invalid
          /\ r.replies = c.replies
      <3>1. r = [g EXCEPT !.currentRequest = Invalid]
        BY <1>h DEF Replied, Connections
      <3> HIDE DEF g, r
      <3> QED
        BY <1>g, <3>1 DEF Connections
    <2>2. Answer(c) = d
      BY DEF Answer
    <2> HIDE DEF r
    <2>3. q \in Seq(RequestIds)
      BY <1>1, <2>1 DEF Connections
    <2> HIDE DEF q
    <2>4. /\ d \in Connections /\ d.online = c.online /\ ~d.left
          /\ d.socket = c.socket /\ d.currentRequest = Invalid
      BY <1>0, <2>1, <2>3 DEF Connections
    <2> HIDE DEF d
    <2>5. Quiet(d) \in Connections /\ Quiet(Quiet(d)) = Quiet(d)
      BY <2>4, QuietKeeps
    <2> QED
      BY <2>2, <2>4, <2>5 DEF Settles
  <1>2. Settles(c, Refusal(c)) /\ Refusal(c).socket = c.socket
    <2> HIDE DEF g
    <2>1. Refusal(c) = ExecuteDefaultReply(g)
      BY DEF Refusal, g
    <2>2. Settles(c, ExecuteDefaultReply(g))
      BY <1>0, <1>g, EndsInDefault
    <2>3. ExecuteDefaultReply(g).socket = g.socket
      BY <1>g, DefaultReplySettles
    <2> QED
      BY <1>g, <2>1, <2>2, <2>3
  <1>3. Settles(c, AbnormalPacket(c, FALSE))
    <2> HIDE DEF h
    <2> DEFINE d == SetError(h, FALSE)
    <2>1. /\ d \in Connections /\ d.online = h.online /\ d.left = h.left
          /\ d.socket = "none" <=> h.socket = "none"
      BY <1>h, SetErrorCloses
    <2> HIDE DEF d
    <2>2. Settles(c, ExecuteDefaultReply(d))
      BY <1>0, <1>h, <2>1, EndsInDefault
    <2> QED
      BY <2>2 DEF AbnormalPacket, d, h
  <1>4. Settles(c, RequestTimedOut(c, FALSE))
    <2> HIDE DEF t
    <2> DEFINE d == SetError(t, FALSE)
    <2>1. /\ d \in Connections /\ d.online = t.online /\ d.left = t.left
          /\ d.socket = "none" <=> t.socket = "none"
      BY <1>t, SetErrorCloses
    <2> HIDE DEF d
    <2>2. Settles(c, ExecuteDefaultReply(d))
      BY <1>0, <1>t, <2>1, EndsInDefault
    <2> QED
      BY <2>2 DEF RequestTimedOut, d, t
  <1>5. Settles(c, PeerWentSilent(c, FALSE))
    <2> HIDE DEF b
    <2> DEFINE d == SetError(b, FALSE)
    <2>1. /\ d \in Connections /\ d.online = b.online /\ d.left = b.left
          /\ d.socket = "none" <=> b.socket = "none"
      BY <1>b, SetErrorCloses
    <2> HIDE DEF d
    <2>2. Settles(c, ExecuteDefaultReply(d))
      BY <1>0, <1>b, <2>1, EndsInDefault
    <2> QED
      BY <2>2 DEF PeerWentSilent, d, b
  <1>6. Settles(c, OnSocketDisconnected(c))
    <2> DEFINE d == [c EXCEPT !.socket = "none", !.heartbeatDeadline = FALSE,
                              !.online = FALSE]
               e == ExecuteDefaultReply(d)
               f == [e EXCEPT !.left = TRUE]
    <2>1. d \in Connections /\ ~d.online /\ d.socket = "none"
      BY DEF Connections, Sockets
    <2>2. OnSocketDisconnected(c) = f
      BY DEF OnSocketDisconnected
    <2> HIDE DEF d
    <2>3. /\ e \in Connections /\ e.currentRequest = Invalid
          /\ e.socket = d.socket /\ e.online = d.online
      BY <2>1, DefaultReplySettles
    <2> HIDE DEF e
    <2>4. /\ f \in Connections /\ f.currentRequest = Invalid
          /\ f.socket = "none" /\ ~f.online /\ f.left
      BY <2>1, <2>3 DEF Connections
    <2> HIDE DEF f
    <2>5. Quiet(f) \in Connections /\ Quiet(Quiet(f)) = Quiet(f)
      BY <2>4, QuietKeeps
    <2> QED
      BY <2>2, <2>4, <2>5 DEF Settles
  <1>7. ASSUME c.zeroTimers > 0
        PROVE  Settles(c, ZeroTimerFired(c)) /\ ZeroTimerFired(c).socket = c.socket
    <2> DEFINE n == c.zeroTimers - 1
               d == [c EXCEPT !.zeroTimers = n]
    <2>1. n \in Nat
      BY <1>7 DEF Connections
    <2>2. ZeroTimerFired(c) = ExecuteDefaultReply(d)
      BY DEF ZeroTimerFired, Connections
    <2> HIDE DEF n
    <2>3. /\ d \in Connections /\ d.online = c.online /\ d.left = c.left
          /\ d.socket = c.socket
      BY <2>1 DEF Connections
    <2> HIDE DEF d
    <2>4. Settles(c, ExecuteDefaultReply(d))
      BY <1>0, <2>3, EndsInDefault
    <2>5. ExecuteDefaultReply(d).socket = d.socket
      BY <2>3, DefaultReplySettles
    <2> QED
      BY <2>2, <2>3, <2>4, <2>5
  <1> QED
    BY <1>1, <1>2, <1>3, <1>4, <1>5, <1>6, <1>7


\* Nothing is being emitted.
LEMMA QuietMeans ==
    ASSUME NEW c \in Connections
    PROVE  c = Quiet(c) <=> c.replies = <<>> /\ ~c.left
  <1> DEFINE o == <<>>
             q == [c EXCEPT !.replies = o, !.left = FALSE]
  <1>1. Quiet(c) = q
    BY DEF Quiet
  <1> HIDE DEF o
  <1>2. c = q <=> c.replies = o /\ ~c.left
    BY DEF Connections
  <1> QED
    BY <1>1, <1>2 DEF o

\* The room asks.
LEMMA AddRequestAsks ==
    ASSUME NEW c \in Connections, c = Quiet(c), NEW r \in RequestIds
    PROVE  LET d == AddRequest(c, r, FALSE) IN
           /\ d \in Connections /\ d = Quiet(d) /\ d.socket = c.socket
           /\ d.online = c.online /\ d.currentRequest = r
           /\ d.zeroTimers = IF c.socket = "none" THEN c.zeroTimers + 1 ELSE c.zeroTimers
  <1> DEFINE n == c.zeroTimers + 1
             t == c.requestTimer \/ RequestTimeoutEnabled
             a == [c EXCEPT !.currentRequest = r]
             d == AddRequest(c, r, FALSE)
  <1>1. n \in Nat /\ t \in BOOLEAN
    BY TimeoutAssumption DEF Connections
  <1>2. d = IF c.socket = "none" THEN [a EXCEPT !.zeroTimers = n]
                                 ELSE [a EXCEPT !.requestTimer = t]
    BY DEF AddRequest, Connections
  <1>3. c.replies = <<>> /\ ~c.left
    BY QuietMeans
  <1> HIDE DEF n, t
  <1>4. /\ a \in Connections /\ a.socket = c.socket /\ a.online = c.online
        /\ a.currentRequest = r /\ a.zeroTimers = c.zeroTimers
        /\ a.replies = c.replies /\ a.left = c.left
    BY DEF Connections
  <1> HIDE DEF a, d
  <1>5. /\ d \in Connections /\ d.socket = c.socket /\ d.online = c.online
        /\ d.currentRequest = r /\ d.replies = c.replies /\ d.left = c.left
        /\ d.zeroTimers = IF c.socket = "none" THEN n ELSE c.zeroTimers
    <2>1. CASE c.socket = "none"
      BY <1>1, <1>2, <1>4, <2>1 DEF Connections
    <2>2. CASE c.socket # "none"
      BY <1>1, <1>2, <1>4, <2>2 DEF Connections
    <2> QED
      BY <2>1, <2>2
  <1>6. d = Quiet(d)
    BY <1>3, <1>5, QuietMeans
  <1> QED
    BY <1>5, <1>6 DEF n, d

\* The seat of a player is taken.
LEMMA SeatTaken ==
    ASSUME conn \in Connections, conn = Quiet(conn), NEW seq, SeatFound(seq)
    PROVE  /\ conn' \in Connections /\ conn' = Quiet(conn') /\ conn'.online
           /\ conn'.socket = "up" /\ conn'.currentRequest = conn.currentRequest
           /\ conn'.zeroTimers = conn.zeroTimers
  <1> DEFINE s == SetSocket(conn)
  <1>0. conn.replies = <<>> /\ ~conn.left
    BY QuietMeans
  <1>1. /\ s \in Connections /\ s.replies = conn.replies /\ s.left = conn.left
        /\ s.currentRequest = conn.currentRequest /\ s.zeroTimers = conn.zeroTimers
        /\ s.socket = "up"
    BY DEF SetSocket, Connections, Sockets
  <1>2. conn' = [s EXCEPT !.online = TRUE]
    BY DEF SeatFound
  <1> HIDE DEF s
  <1>3. /\ conn' \in Connections /\ conn'.online /\ conn'.socket = s.socket
        /\ conn'.currentRequest = s.currentRequest /\ conn'.left = s.left
        /\ conn'.zeroTimers = s.zeroTimers /\ conn'.replies = s.replies
    BY <1>1, <1>2 DEF Connections
  <1>4. conn' = Quiet(conn')
    BY <1>0, <1>1, <1>3, QuietMeans
  <1> QED
    BY <1>1, <1>3, <1>4

\* The state of a player is declared.
LEMMA StateTaken ==
    ASSUME conn \in Connections, conn = Quiet(conn), NEW m, TakeStateChange(m)
    PROVE  /\ conn' \in Connections /\ conn' = Quiet(conn')
           /\ conn'.online <=> "online" \in m.state
           /\ conn'.socket = conn.socket /\ conn'.currentRequest = conn.currentRequest
           /\ conn'.zeroTimers = conn.zeroTimers
  <1> DEFINE s == OtherPacket(conn)
             b == "online" \in m.state
  <1>0. conn.replies = <<>> /\ ~conn.left
    BY QuietMeans
  <1>1. /\ s \in Connections /\ s.replies = conn.replies /\ s.left = conn.left
        /\ s.currentRequest = conn.currentRequest /\ s.zeroTimers = conn.zeroTimers
        /\ s.socket = conn.socket
    BY DEF OtherPacket, Heard, Connections
  <1>2. conn' = [s EXCEPT !.online = b]
    BY DEF TakeStateChange
  <1>5. b \in BOOLEAN
    OBVIOUS
  <1> HIDE DEF s
  <1>3. /\ conn' \in Connections /\ (conn'.online <=> b) /\ conn'.socket = s.socket
        /\ conn'.currentRequest = s.currentRequest /\ conn'.left = s.left
        /\ conn'.zeroTimers = s.zeroTimers /\ conn'.replies = s.replies
    BY <1>1, <1>2, <1>5 DEF Connections
  <1>4. conn' = Quiet(conn')
    BY <1>0, <1>1, <1>3, QuietMeans
  <1> QED
    BY <1>1, <1>3, <1>4

\* The room's connection, after a handler that settles the request.
LEMMA Becomes ==
    ASSUME LinkInv, NEW d, Settles(conn, d), ConnBecomes(d)
    PROVE  /\ conn' \in Connections /\ conn' = Quiet(conn')
           /\ trusted' \in BOOLEAN /\ bound' \in BOOLEAN
           /\ conn'.currentRequest = Invalid /\ conn'.socket = d.socket
           /\ bound' => bound /\ conn'.socket # "none"
           /\ \/ /\ conn'.online = conn.online /\ trusted' = trusted
                 /\ bound' = bound
                 /\ conn'.socket = "none" <=> conn.socket = "none"
              \/ ~conn'.online /\ ~trusted' /\ conn'.socket = "none" /\ ~bound'
  <1>1. /\ conn' = Quiet(d) /\ trusted' = (trusted /\ ~d.left)
        /\ bound' = (bound /\ d.socket # "none")
    BY DEF ConnBecomes
  <1>2. /\ Quiet(d).socket = d.socket /\ Quiet(d).online = d.online
        /\ Quiet(d).currentRequest = d.currentRequest
    <2>1. Quiet(d) \in Connections
      BY DEF Settles
    <2> QED
      BY <2>1 DEF Quiet, Connections
  <1>3. trusted \in BOOLEAN /\ bound \in BOOLEAN /\ (bound => conn.socket # "none")
    BY DEF LinkInv, TypeOK
  <1> QED
    BY <1>1, <1>2, <1>3 DEF Settles

\* What the room sends goes to a client that is not attempting anything.
LEMMA SentTo ==
    ASSUME LinkInv, NEW packets \in Seq(ToClient)
    PROVE  /\ Sent(packets) \in Seq(ToClient)
           /\ link = "cut" => Sent(packets) = <<>>
           /\ client.reconnectInProgress => Sent(packets) = toClient
           /\ Sent(packets) = toClient \/ Sent(packets) = toClient \o packets
           /\ bound /\ link = "open" => Sent(packets) = toClient \o packets
  <1>1. toClient \in Seq(ToClient) /\ toClient \o packets \in Seq(ToClient)
    BY DEF LinkInv
  <1> QED
    BY <1>1 DEF LinkInv, Sent


-----------------------------------------------------------------------------
(* Types, and the client's way back. *)

\* Every message of a sequence, in one that goes on and in one whose head is gone.
LEMMA EachKind ==
    ASSUME NEW S, NEW q \in Seq(S), NEW p \in Seq(S), NEW k
    PROVE  /\ (\A i \in DOMAIN q : q[i].kind # k) /\ (\A i \in DOMAIN p : p[i].kind # k)
              => \A i \in DOMAIN (q \o p) : (q \o p)[i].kind # k
           /\ q # <<>> =>
                 /\ Tail(q) \in Seq(S)
                 /\ (\A i \in DOMAIN q : q[i].kind # k)
                       => \A i \in DOMAIN Tail(q) : Tail(q)[i].kind # k
                 /\ (\A i \in DOMAIN q : q[i].kind = k)
                       => \A i \in DOMAIN Tail(q) : Tail(q)[i].kind = k
  <1> DEFINE a == q \o p
             t == Tail(q)
  <1>1. /\ \A i \in DOMAIN a : \/ \E j \in DOMAIN q : a[i] = q[j]
                               \/ \E j \in DOMAIN p : a[i] = p[j]
        /\ q # <<>> => \A i \in DOMAIN t : \E j \in DOMAIN q : t[i] = q[j]
    BY HitsParts
  <1>2. q # <<>> => t \in Seq(S)
    OBVIOUS
  <1> HIDE DEF a, t
  <1>3. (\A i \in DOMAIN q : q[i].kind # k) /\ (\A i \in DOMAIN p : p[i].kind # k)
              => \A i \in DOMAIN a : a[i].kind # k
    BY <1>1
  <1>4. q # <<>> =>
           /\ (\A i \in DOMAIN q : q[i].kind # k) => \A i \in DOMAIN t : t[i].kind # k
           /\ (\A i \in DOMAIN q : q[i].kind = k) => \A i \in DOMAIN t : t[i].kind = k
    BY <1>1
  <1> QED
    BY <1>2, <1>3, <1>4 DEF a, t

LEMMA NothingOnTheWires ==
    \A q : q = <<>> => q \in Seq(Client!ToServer) /\ q \in Seq(ToClient)
  OBVIOUS

\* What a handler of the client leaves on its connection, or of it.
LEMMA LinkSteps ==
    ASSUME LinkInv, NEW d, NEW coming, Steps(d, coming),
           losses' \in 0..MaxLosses, toggles' \in 0..MaxToggles
    PROVE  LinkInv'
  <1>1. /\ Leaves(client, d) /\ ClientBecomes(d, coming)
        /\ UNCHANGED <<roomVars, conn, trusted, roundEventLog>>
        /\ coming = toClient \/ (toClient # <<>> /\ coming = Tail(toClient))
    BY DEF Steps
  <1>2. d \in Client!Clients /\ Reaching(d)
    BY <1>1 DEF Leaves
  <1>3. /\ client' \in Client!Clients /\ client'.out = <<>>
        /\ client'.socket = d.socket
        /\ client'.reconnectInProgress = d.reconnectInProgress
        /\ Reaching(client')
    BY <1>1, <1>2, SilentKeeps DEF ClientBecomes
  <1>4. MaxStalls \in Nat
    BY BoundsAssumption
  <1>5. coming \in Seq(ToClient)
        /\ ((\A i \in DOMAIN toClient : toClient[i].kind = "version")
            => \A i \in DOMAIN coming : coming[i].kind = "version")
        /\ (toClient = <<>> => coming = <<>>)
    <2>1. toClient \in Seq(ToClient)
      BY DEF LinkInv
    <2>2. CASE coming = toClient
      BY <2>1, <2>2
    <2>3. CASE toClient # <<>> /\ coming = Tail(toClient)
      BY <2>1, <2>3, EachKind
    <2> QED
      BY <1>1, <2>2, <2>3
  <1>6. CASE d.socket
    <2>1. /\ toServer' = IF link = "open" THEN toServer \o d.out ELSE <<>>
          /\ toClient' = coming
          /\ UNCHANGED <<link, bound, stalls>>
      BY <1>1, <1>6 DEF ClientBecomes
    <2>2. Relays(client, d)
      BY <1>1, <1>6 DEF Leaves
    <2>3. toServer \in Seq(Client!ToServer) /\ d.out \in Seq(Client!ToServer)
      BY <1>2 DEF LinkInv, TypeOK, Client!Clients
    <2>4. toServer' \in Seq(Client!ToServer)
      BY <2>1, <2>3
    <2>5. d.reconnectInProgress =>
             /\ client.reconnectInProgress
             /\ \A i \in DOMAIN toServer' : toServer'[i].kind # "signIn"
      <3> SUFFICES ASSUME d.reconnectInProgress
                   PROVE  /\ client.reconnectInProgress
                          /\ \A i \in DOMAIN toServer' : toServer'[i].kind # "signIn"
        OBVIOUS
      <3>1. /\ client.reconnectInProgress
            /\ \A i \in DOMAIN d.out : d.out[i].kind # "signIn"
        BY <2>2 DEF Relays
      <3>2. \A i \in DOMAIN toServer : toServer[i].kind # "signIn"
        BY <3>1 DEF LinkInv
      <3>3. CASE link = "open"
        BY <2>1, <2>3, <3>1, <3>2, <3>3, EachKind
      <3>4. CASE link # "open"
        BY <2>1, <3>1, <3>4
      <3> QED
        BY <3>3, <3>4
    <2>6. /\ TypeOK'
          /\ link' = "cut" => toClient' = <<>> /\ toServer' = <<>>
          /\ ~client'.socket => link' = "cut"
      BY <1>1, <1>3, <1>5, <1>6, <2>1, <2>4 DEF LinkInv, TypeOK, roomVars
    <2>7. /\ bound' => client'.socket /\ ~client'.reconnectInProgress /\ conn'.socket # "none"
          /\ bound' /\ link' = "open" => conn'.socket = "up"
      BY <1>1, <1>3, <1>6, <2>1, <2>5 DEF LinkInv
    <2>8. client'.reconnectInProgress =>
             /\ \A i \in DOMAIN toServer' : toServer'[i].kind # "signIn"
             /\ \A i \in DOMAIN toClient' : toClient'[i].kind = "version"
      BY <1>3, <1>5, <2>1, <2>5 DEF LinkInv
    <2> QED
      BY <1>3, <1>5, <2>1, <2>6, <2>7, <2>8 DEF LinkInv
  <1>7. CASE ~d.socket
    <2>1. /\ link' = "cut" /\ toClient' = <<>> /\ toServer' = <<>>
          /\ bound' = FALSE /\ stalls' = 0
      BY <1>1, <1>7 DEF ClientBecomes, Lost
    <2>2. /\ toServer' \in Seq(Client!ToServer) /\ link' \in Links
          /\ stalls' \in 0..MaxStalls /\ bound' \in BOOLEAN
      <3>1. toServer' \in Seq(Client!ToServer)
        BY <2>1, NothingOnTheWires
      <3>2. stalls' \in 0..MaxStalls
        BY <1>4, <2>1
      <3> QED
        BY <2>1, <3>1, <3>2 DEF Links
    <2>3. TypeOK'
      BY <1>1, <1>3, <2>2 DEF LinkInv, TypeOK, roomVars
    <2> QED
      BY <1>3, <2>1, <2>3 DEF LinkInv
  <1> QED
    BY <1>6, <1>7

\* A window of pings that begins anew changes nothing else.
LEMMA StandingWindow ==
    ASSUME LinkInv, PongDeadline, client'.socket
    PROVE  /\ client' \in Client!Clients /\ Reaching(client')
           /\ client'.out = <<>> /\ client'.socket = client.socket
           /\ client'.state = client.state
           /\ client'.reconnectInProgress = client.reconnectInProgress
           /\ client'.currentRequest = client.currentRequest
           /\ stalls' \in 0..MaxStalls
           /\ UNCHANGED <<roomVars, serverVars, link, wires, counters>>
  <1> DEFINE d == Client!PongDeadlinePassed(client)
             e == [client EXCEPT !.pings = 0]
  <1>0. /\ Resting(client) /\ client \in Client!Clients /\ Reaching(client)
    BY LinkResting DEF Resting
  <1>1. \/ d = Client!HandleSocketGone(client)
        \/ d = e
    BY DEF Client!PongDeadlinePassed
  <1>2. d = Client!HandleSocketGone(client) => ~d.socket
    BY <1>0, GoneLeaves
  <1> HIDE DEF d
  <1>3. /\ \/ ~d.socket /\ ClientDoes(d)
           \/ /\ d.socket /\ client' = d /\ stalls < MaxStalls
              /\ stalls' = stalls + 1
              /\ UNCHANGED <<roomVars, serverVars, link, wires>>
        /\ UNCHANGED counters
    BY DEF PongDeadline, d
  <1>4. ~(~d.socket /\ ClientDoes(d))
    <2> SUFFICES ASSUME ~d.socket, ClientDoes(d) PROVE FALSE
      OBVIOUS
    <2>1. client' = Client!Silent(d)
      BY DEF ClientDoes, ClientBecomes
    <2>2. d \in Client!Clients
      <3>1. d = Client!HandleSocketGone(client) => d \in Client!Clients
        BY <1>0, GoneLeaves DEF Leaves
      <3>2. 0 \in 0..2
        OBVIOUS
      <3>3. e \in Client!Clients
        BY <1>0, <3>2, PingsLeave
      <3> QED
        BY <1>1, <3>1, <3>3
    <2>3. ~client'.socket
      BY <2>1, <2>2, SilentKeeps
    <2> QED
      BY <2>3
  <1>5. /\ client' = e
        /\ stalls < MaxStalls /\ stalls' = stalls + 1
        /\ UNCHANGED <<roomVars, serverVars, link, wires, counters>>
    BY <1>1, <1>2, <1>3, <1>4
  <1>6. 0 \in 0..2
    OBVIOUS
  <1>7. /\ Leaves(client, e) /\ e \in Client!Clients
        /\ e.socket = client.socket /\ e.out = <<>> /\ e.state = client.state
        /\ e.reconnectInProgress = client.reconnectInProgress
        /\ e.currentRequest = client.currentRequest
    BY <1>0, <1>6, PingsLeave
  <1> HIDE DEF e
  <1>8. Reaching(e)
    BY <1>7 DEF Leaves
  <1>9. stalls' \in 0..MaxStalls
    <2>1. MaxStalls \in Nat /\ stalls \in 0..MaxStalls
      BY BoundsAssumption DEF LinkInv, TypeOK
    <2> QED
      BY <1>5, <2>1
  <1> QED
    BY <1>5, <1>7, <1>8, <1>9

\* An attempt, and a window that begins anew.
LEMMA LinkAttempts ==
    ASSUME LinkInv, ReconnectTimer \/ (PongDeadline /\ client'.socket)
    PROVE  LinkInv'
  <1>0. /\ Resting(client) /\ client \in Client!Clients /\ Reaching(client)
        /\ client.out = <<>>
    BY LinkResting DEF Resting
  <1>1. CASE ReconnectTimer
    <2> DEFINE n == client.reconnectAttempts + 1
               e == [client EXCEPT !.reconnectTimer = FALSE, !.reconnectAttempts = n]
               d == [e EXCEPT !.socket = TRUE, !.pings = 0]
    <2>1. /\ client.reconnectTimer /\ client' = d /\ bound' = FALSE
          /\ UNCHANGED <<roomVars, conn, trusted, roundEventLog, stalls, counters>>
      BY <1>0, <1>1 DEF ReconnectTimer, ConnectionAttempt, Client!ReconnectTimeout,
                        Client!ConnectSocket, Client!Clients
    <2>2. n \in Nat /\ 0 \in 0..2
      BY <1>0 DEF Client!Clients
    <2> HIDE DEF n
    <2>3. /\ e \in Client!Clients /\ ~e.reconnectTimer /\ e.out = <<>>
          /\ e.reconnectInProgress = client.reconnectInProgress
      BY <1>0, <2>2 DEF Client!Clients
    <2> HIDE DEF e
    <2>4. /\ d \in Client!Clients /\ ~d.reconnectTimer /\ d.out = <<>> /\ d.socket
          /\ d.reconnectInProgress = client.reconnectInProgress
      BY <2>2, <2>3 DEF Client!Clients
    <2> HIDE DEF d
    <2>5. client.reconnectInProgress
      BY <1>0, <2>1 DEF Reaching
    <2>6. Reaching(d)
      BY <2>4, <2>5 DEF Reaching
    <2>7. /\ toServer' = <<>>
          /\ \/ link' = "cut" /\ toClient' = <<>>
             \/ /\ link' = "open"
                /\ \E compatible \in BOOLEAN : toClient' = <<Version(compatible)>>
      BY <1>1 DEF ReconnectTimer, ConnectionAttempt, Lost
    <2>8. /\ toClient' \in Seq(ToClient)
          /\ \A i \in DOMAIN toClient' : toClient'[i].kind = "version"
      <3>1. CASE toClient' = <<>>
        BY <3>1
      <3>2. CASE \E compatible \in BOOLEAN : toClient' = <<Version(compatible)>>
        <4>1. PICK compatible \in BOOLEAN : toClient' = <<Version(compatible)>>
          BY <3>2
        <4> DEFINE m == Version(compatible)
        <4>2. m \in ToClient /\ m.kind = "version" /\ toClient' = <<m>>
          BY <4>1 DEF Version, ToClient
        <4> HIDE DEF m
        <4> QED
          BY <4>2
      <3> QED
        BY <2>7, <3>1, <3>2
    <2>10. /\ toServer' \in Seq(Client!ToServer) /\ link' \in Links
           /\ bound' \in BOOLEAN /\ UNCHANGED <<losses, toggles>>
      <3>1. toServer' \in Seq(Client!ToServer)
        BY <2>7, NothingOnTheWires
      <3> QED
        BY <2>1, <2>7, <3>1 DEF Links, counters
    <2>9. TypeOK'
      BY <2>1, <2>4, <2>10 DEF LinkInv, TypeOK, roomVars
    <2> QED
      BY <2>1, <2>4, <2>6, <2>7, <2>8, <2>9 DEF LinkInv
  <1>2. CASE PongDeadline /\ client'.socket
    <2>1. /\ client' \in Client!Clients /\ Reaching(client')
          /\ client'.out = <<>> /\ client'.socket = client.socket
          /\ client'.reconnectInProgress = client.reconnectInProgress
          /\ stalls' \in 0..MaxStalls
          /\ UNCHANGED <<roomVars, serverVars, link, wires, counters>>
      BY <1>2, StandingWindow
    <2> QED
      BY <2>1 DEF LinkInv, TypeOK, roomVars, serverVars, wires, counters
  <1> QED
    BY <1>1, <1>2


\* What the room and the server's end send.
LEMMA Sendable ==
    /\ \A r \in RequestIds : Request(r) \in ToClient
    /\ \A e \in Client!RoundEvents : Event(e) \in ToClient
    /\ NotifyRoundStart \in ToClient /\ NotifyGameOver \in ToClient
    /\ \A s \in {"online", "away"} : /\ NotifyPeerAdded(s) \in ToClient
                                     /\ NotifyAgentStateChanged(s) \in ToClient
    /\ \A s \in SUBSET Client!StateMasks : NotifyPlayerAdded(s) \in ToClient
    /\ "result" \in Client!RoundEvents /\ "upgrade" \in Client!RoundEvents
    /\ {"result", "upgrade", "roundStart"} \subseteq Client!Changes
    /\ {} \in SUBSET Client!StateMasks /\ {"online"} \in SUBSET Client!StateMasks
    /\ \A online, managed : AgentState(online, managed) \in SUBSET Client!StateMasks
  BY DEF Request, Event, NotifyRoundStart, NotifyGameOver, NotifyPeerAdded,
         NotifyAgentStateChanged, NotifyPlayerAdded, ToClient, Client!RoundEvents,
         Client!Changes, Client!StateMasks, AgentState

\* Sequences of one, two and three.
LEMMA Few ==
    ASSUME NEW S
    PROVE  /\ \A m \in S : <<m>> \in Seq(S) /\ DOMAIN <<m>> = {1} /\ <<m>>[1] = m
           /\ \A m, n \in S : /\ <<m, n>> \in Seq(S) /\ DOMAIN <<m, n>> = {1, 2}
                              /\ <<m, n>>[1] = m /\ <<m, n>>[2] = n
           /\ \A m, n, l \in S : <<m, n, l>> \in Seq(S)
  OBVIOUS

\* The replay is of round events only.
LEMMA ReplayType ==
    ASSUME LinkInv, NEW seq \in Nat
    PROVE  LET replay == ReplayMissedRoundEvents(seq)
           IN  /\ replay \in Seq(ToClient)
               /\ \A i \in DOMAIN replay : replay[i].kind = "event"
  <1> DEFINE n == IF seq < Len(roundEventLog) THEN Len(roundEventLog) - seq ELSE 0
             replay == [i \in 1..n |-> Event(roundEventLog[seq + i])]
  <1>1. /\ roundEventLog \in Seq(Client!RoundEvents) /\ Len(roundEventLog) \in Nat
        /\ n \in Nat /\ \A i \in 1..n : seq + i \in DOMAIN roundEventLog
    BY DEF LinkInv, TypeOK
  <1> HIDE DEF n
  <1>2. \A i \in 1..n : /\ Event(roundEventLog[seq + i]) \in ToClient
                        /\ Event(roundEventLog[seq + i]).kind = "event"
    BY <1>1, Sendable DEF Event
  <1>3. replay \in [1..n -> ToClient]
    BY <1>2
  <1>4. ReplayMissedRoundEvents(seq) = replay
    BY DEF ReplayMissedRoundEvents, n
  <1>5. \A i \in DOMAIN replay : replay[i].kind = "event"
    BY <1>2
  <1> HIDE DEF replay
  <1>6. replay \in Seq(ToClient)
    BY <1>1, <1>3, TupleType
  <1> QED
    BY <1>4, <1>5, <1>6

\* The room sends to the client, or does not.
LEMMA LinkSends ==
    ASSUME LinkInv, NEW packets \in Seq(ToClient),
           toClient' = Sent(packets) \/ toClient' = toClient,
           UNCHANGED <<link, toServer, client>>, TypeOK',
           \/ bound' = bound /\ conn'.socket = conn.socket
           \/ bound' = FALSE
    PROVE  LinkInv'
  <1>1. /\ toClient' \in Seq(ToClient)
        /\ link = "cut" => toClient' = <<>>
        /\ client.reconnectInProgress => toClient' = toClient
    BY SentTo DEF LinkInv
  <1> QED
    BY <1>1 DEF LinkInv

\* What the room does.
LEMMA LinkRoom ==
    ASSUME LinkInv,
           \/ RoomAsks \/ RoomResult \/ RoundOver \/ UpgradeResult
           \/ AgentStateChanged
    PROVE  LinkInv'
  <1> USE DEF roomVars, serverVars, wires, counters
  <1>0. TypeOK
    BY DEF LinkInv
  <1>s. /\ \A m \in ToClient : <<m>> \in Seq(ToClient)
        /\ \A m, n \in ToClient : <<m, n>> \in Seq(ToClient)
        /\ <<>> \in Seq(ToClient)
    BY Few
  <1>1. CASE RoomAsks
    <2>1. PICK r \in RequestIds :
             /\ conn' = AddRequest(conn, r, FALSE)
             /\ toClient' = Sent(<<Request(r)>>)
      BY <1>1, BoundsAssumption DEF RoomAsks, RequestIds
    <2>2. conn \in Connections /\ conn = Quiet(conn)
      BY <1>0 DEF TypeOK
    <2>3. conn' \in Connections /\ conn' = Quiet(conn') /\ conn'.socket = conn.socket
      BY <2>1, <2>2, AddRequestAsks
    <2>4. UNCHANGED <<phase, history, peer, trusted, roundEventLog, bound, link,
                      toServer, client, stalls, losses, toggles>>
      BY <1>1 DEF RoomAsks
    <2>5. TypeOK'
      BY <1>0, <2>3, <2>4 DEF TypeOK
    <2>6. <<Request(r)>> \in Seq(ToClient)
      BY <1>s, Sendable
    <2> QED
      BY <2>1, <2>3, <2>4, <2>5, <2>6, LinkSends
  <1>2. CASE RoomResult
    <2>1. /\ history' = Append(history, "result")
          /\ roundEventLog' = Append(roundEventLog, "result")
          /\ toClient' = Sent(<<Event("result")>>)
          /\ UNCHANGED <<phase, peer, conn, trusted, bound, link, toServer,
                         client, stalls, losses, toggles>>
      BY <1>2 DEF RoomResult
    <2>2. /\ history' \in Seq(Client!Changes)
          /\ roundEventLog' \in Seq(Client!RoundEvents)
      BY <1>0, <2>1, Sendable DEF TypeOK
    <2>3. TypeOK'
      BY <1>0, <2>1, <2>2 DEF TypeOK
    <2>4. <<Event("result")>> \in Seq(ToClient)
      BY <1>s, Sendable
    <2> QED
      BY <2>1, <2>3, <2>4, LinkSends
  <1>3. CASE RoundOver
    <2>1. /\ phase' = "upgrading" /\ roundEventLog' = <<>>
          /\ UNCHANGED <<history, peer, conn, trusted, bound, link, toClient, toServer,
                         client, stalls, losses, toggles>>
      BY <1>3 DEF RoundOver
    <2>2. roundEventLog' \in Seq(Client!RoundEvents)
      BY <2>1
    <2>3. TypeOK'
      BY <1>0, <2>1, <2>2 DEF TypeOK
    <2> QED
      BY <1>s, <2>1, <2>3, LinkSends
  <1>4. CASE UpgradeResult
    <2>1. CASE NextRound
      <3>1. /\ phase' = "playing"
            /\ history' = history \o <<"upgrade", "roundStart">>
            /\ toClient' = Sent(<<Event("upgrade"), NotifyRoundStart>>)
            /\ roundEventLog' = <<>>
            /\ UNCHANGED <<peer, conn, trusted, bound, link, toServer, client, stalls,
                           losses, toggles>>
        BY <2>1 DEF NextRound
      <3>2. <<"upgrade", "roundStart">> \in Seq(Client!Changes)
        BY Few, Sendable
      <3>3. history' \in Seq(Client!Changes) /\ roundEventLog' \in Seq(Client!RoundEvents)
        BY <1>0, <3>1, <3>2 DEF TypeOK
      <3>4. TypeOK'
        BY <1>0, <3>1, <3>3 DEF TypeOK
      <3>5. <<Event("upgrade"), NotifyRoundStart>> \in Seq(ToClient)
        BY <1>s, Sendable
      <3> QED
        BY <3>1, <3>4, <3>5, LinkSends
    <2>2. CASE GameOver
      <3>1. /\ phase' = "over" /\ conn' = NoConnection /\ trusted' = FALSE
            /\ roundEventLog' = <<>> /\ bound' = FALSE
            /\ toClient' = Sent(<<NotifyGameOver>>)
            /\ UNCHANGED <<history, peer, link, toServer, client, stalls,
                           losses, toggles>>
        BY <2>2 DEF GameOver
      <3>2. NoConnection \in Connections /\ NoConnection = Quiet(NoConnection)
        <4>1. <<>> \in Seq(RequestIds)
          OBVIOUS
        <4>2. NoConnection \in Connections
          BY <4>1 DEF NoConnection, Connections, Sockets
        <4>3. NoConnection.replies = <<>> /\ ~NoConnection.left
          BY DEF NoConnection
        <4> QED
          BY <4>2, <4>3, QuietMeans
      <3>3. roundEventLog' \in Seq(Client!RoundEvents)
        BY <3>1
      <3>4. TypeOK'
        BY <1>0, <3>1, <3>2, <3>3 DEF TypeOK
      <3>5. <<NotifyGameOver>> \in Seq(ToClient)
        BY <1>s, Sendable
      <3> QED
        BY <3>1, <3>4, <3>5, LinkSends
    <2> QED
      BY <1>4, <2>1, <2>2 DEF UpgradeResult
  <1>5. CASE AgentStateChanged
    <2>1. /\ toggles < MaxToggles /\ toggles' = toggles + 1
          /\ peer' = IF peer = "online" THEN "away" ELSE "online"
          /\ toClient' = Sent(<<NotifyAgentStateChanged(peer')>>)
          /\ UNCHANGED <<phase, history, conn, trusted, roundEventLog, bound, link,
                         toServer, client, stalls, losses>>
      BY <1>5 DEF AgentStateChanged
    <2>2. toggles' \in 0..MaxToggles
      <3>1. MaxToggles \in Nat /\ toggles \in 0..MaxToggles
        BY <1>0, BoundsAssumption DEF TypeOK
      <3> QED
        BY <2>1, <3>1
    <2>3. peer' \in {"online", "away"}
      BY <2>1
    <2>4. TypeOK'
      BY <1>0, <2>1, <2>2, <2>3 DEF TypeOK
    <2>5. <<NotifyAgentStateChanged(peer')>> \in Seq(ToClient)
      BY <1>s, <2>3, Sendable
    <2> QED
      BY <2>1, <2>4, <2>5, LinkSends
  <1> QED
    BY <1>1, <1>2, <1>3, <1>4, <1>5


\* The connection is lost, and what the server's end has become is known.
LEMMA LinkLost ==
    ASSUME LinkInv, Lost, TypeOK', UNCHANGED client,
           bound' => bound /\ conn'.socket # "none"
    PROVE  LinkInv'
  <1>1. link' = "cut" /\ toClient' = <<>> /\ toServer' = <<>>
    BY DEF Lost
  <1>2. toClient' \in Seq(ToClient)
    BY <1>1, NothingOnTheWires
  <1> QED
    BY <1>1, <1>2 DEF LinkInv

\* The server takes a message, and sends nothing.
LEMMA LinkTaken ==
    ASSUME LinkInv, toServer # <<>>, toServer' = Tail(toServer), TypeOK',
           UNCHANGED <<client, link, toClient>>,
           bound' => bound /\ conn'.socket # "none",
           bound' /\ link = "open" => conn'.socket = "up"
    PROVE  LinkInv'
  <1>1. toServer \in Seq(Client!ToServer)
    BY DEF LinkInv, TypeOK
  <1>2. (\A i \in DOMAIN toServer : toServer[i].kind # "signIn")
        => \A i \in DOMAIN toServer' : toServer'[i].kind # "signIn"
    BY <1>1, EachKind
  <1> QED
    BY <1>2 DEF LinkInv

\* What is taken is at the head of a wire that carries.
LEMMA HeadOfServer ==
    ASSUME LinkInv, toServer # <<>>
    PROVE  /\ link = "open" /\ client.socket
           /\ Head(toServer) \in Client!ToServer /\ Tail(toServer) \in Seq(Client!ToServer)
           /\ Head(toServer).kind = "signIn" => ~client.reconnectInProgress
  <1>1. toServer \in Seq(Client!ToServer) /\ link \in Links
    BY DEF LinkInv, TypeOK
  <1>2. /\ Head(toServer) \in Client!ToServer /\ Tail(toServer) \in Seq(Client!ToServer)
        /\ 1 \in DOMAIN toServer /\ toServer[1] = Head(toServer)
    BY <1>1
  <1> QED
    BY <1>1, <1>2 DEF LinkInv, Links

\* A seat that is found.
LEMMA LinkSeat ==
    ASSUME LinkInv, toServer # <<>>, Head(toServer).kind = "signIn",
           SeatFound(Head(toServer).seq),
           UNCHANGED <<roomVars, roundEventLog, client, stalls, counters>>
    PROVE  LinkInv'
  <1> DEFINE seq == Head(toServer).seq
             replay == ReplayMissedRoundEvents(seq)
             shot == <<NotifyPlayerAdded(AgentState(TRUE, trusted)),
                       NotifyPeerAdded(peer)>>
  <1>0. TypeOK
    BY DEF LinkInv
  <1>1. /\ link = "open" /\ client.socket /\ ~client.reconnectInProgress
        /\ Head(toServer) \in Client!ToServer /\ Tail(toServer) \in Seq(Client!ToServer)
    BY HeadOfServer
  <1>2. seq \in Nat
    BY <1>1 DEF Client!ToServer
  <1>3. /\ conn' = [SetSocket(conn) EXCEPT !.online = TRUE]
        /\ trusted' = trusted /\ bound' = TRUE
        /\ toClient' = toClient \o replay \o shot
        /\ toServer' = Tail(toServer) /\ UNCHANGED link
    BY DEF SeatFound
  <1> HIDE DEF seq
  <1>4. conn \in Connections /\ conn = Quiet(conn)
    BY <1>0 DEF TypeOK
  <1>5. conn' \in Connections /\ conn' = Quiet(conn') /\ conn'.socket = "up"
    BY <1>4, SeatTaken
  <1>6. replay \in Seq(ToClient)
    BY <1>2, ReplayType
  <1>7. shot \in Seq(ToClient)
    BY <1>0, Few, Sendable DEF TypeOK
  <1>8. toClient' \in Seq(ToClient)
    <2> HIDE DEF replay, shot
    <2>1. toClient \in Seq(ToClient)
      BY DEF LinkInv
    <2> QED
      BY <1>3, <1>6, <1>7, <2>1
  <1>9. TypeOK'
    BY <1>0, <1>1, <1>3, <1>5 DEF TypeOK, roomVars, counters
  <1>10. link' = "open"
    BY <1>1, <1>3
  <1> QED
    BY <1>1, <1>3, <1>5, <1>8, <1>9, <1>10 DEF LinkInv

\* What the server takes.
LEMMA LinkServer ==
    ASSUME LinkInv, ServerTakes
    PROVE  LinkInv'
  <1> USE DEF roomVars, serverVars, wires, counters
  <1> DEFINE m == Head(toServer)
  <1>0. TypeOK /\ conn \in Connections /\ conn = Quiet(conn)
    BY DEF LinkInv, TypeOK
  <1>1. /\ toServer # <<>>
        /\ UNCHANGED <<phase, history, peer, roundEventLog, client, stalls,
                       losses, toggles>>
    BY DEF ServerTakes
  <1>2. /\ link = "open" /\ client.socket /\ m \in Client!ToServer
        /\ Tail(toServer) \in Seq(Client!ToServer)
        /\ bound => conn.socket = "up"
    BY <1>1, HeadOfServer DEF LinkInv
  <1> HIDE DEF m
  <1>3. CASE TakeSignIn(m)
    <2>1. m.kind = "signIn" /\ (SeatFound(m.seq) \/ SeatNotFound)
      BY <1>3 DEF TakeSignIn
    <2>2. CASE SeatFound(m.seq)
      BY <1>1, <2>1, <2>2, LinkSeat DEF m
    <2>3. CASE SeatNotFound
      <3>1. Lost /\ UNCHANGED <<conn, trusted, bound>>
        BY <2>3 DEF SeatNotFound
      <3>2. toServer' \in Seq(Client!ToServer) /\ link' \in Links
        BY <3>1, NothingOnTheWires DEF Lost, Links
      <3>3. TypeOK'
        BY <1>0, <1>1, <3>1, <3>2 DEF TypeOK
      <3>4. bound' => bound /\ conn'.socket # "none"
        BY <3>1 DEF LinkInv
      <3> QED
        BY <1>1, <3>1, <3>3, <3>4, LinkLost
    <2> QED
      BY <2>1, <2>2, <2>3
  <1>4. CASE TakeTooEarly(m)
    <2>1. ~bound /\ UNCHANGED <<conn, trusted, bound>>
      BY <1>4 DEF TakeTooEarly
    <2>2. CASE Lost
      <3>2. toServer' \in Seq(Client!ToServer) /\ link' \in Links
        BY <2>2, NothingOnTheWires DEF Lost, Links
      <3>3. TypeOK'
        BY <1>0, <1>1, <2>1, <3>2 DEF TypeOK
      <3> QED
        BY <1>1, <2>1, <2>2, <3>3, LinkLost
    <2>3. CASE toServer' = Tail(toServer) /\ UNCHANGED <<link, toClient>>
      <3>1. TypeOK'
        BY <1>0, <1>1, <1>2, <2>1, <2>3 DEF TypeOK
      <3> QED
        BY <1>1, <2>1, <2>3, <3>1, LinkTaken
    <2> QED
      BY <1>4, <2>2, <2>3 DEF TakeTooEarly
  <1>5. CASE TakeReply(m)
    <2>0. bound /\ m.request \in RequestIds
      BY <1>2, <1>5, Messages DEF TakeReply, ForConnection, Client!ToServer
    <2>1. CASE m.request = conn.currentRequest
      <3>1. conn.currentRequest # Invalid
        BY <2>0, <2>1, Messages
      <3>2. PICK d \in {Answer(conn), Refusal(conn)} : ConnBecomes(d)
        BY <1>5, <2>1 DEF TakeReply
      <3>3. Settles(conn, d) /\ d.socket = conn.socket
        BY <1>0, <3>1, HandlersSettle
      <3>4. /\ conn' \in Connections /\ conn' = Quiet(conn')
            /\ trusted' \in BOOLEAN /\ bound' \in BOOLEAN
            /\ conn'.socket = d.socket /\ (bound' => bound)
        BY <3>2, <3>3, Becomes
      <3>5. toServer' = Tail(toServer) /\ UNCHANGED <<link, toClient>>
        BY <1>5, <2>1 DEF TakeReply
      <3>6. TypeOK'
        BY <1>0, <1>1, <1>2, <3>4, <3>5 DEF TypeOK
      <3>7. conn'.socket = "up"
        BY <1>2, <2>0, <3>3, <3>4
      <3> QED
        BY <1>1, <2>0, <3>4, <3>5, <3>6, <3>7, LinkTaken
    <2>2. CASE m.request # conn.currentRequest
      <3>1. ConnBecomes(AbnormalPacket(conn, FALSE)) /\ Lost
        BY <1>5, <2>2 DEF TakeReply
      <3>2. Settles(conn, AbnormalPacket(conn, FALSE))
        BY <1>0, HandlersSettle
      <3>3. /\ conn' \in Connections /\ conn' = Quiet(conn')
            /\ trusted' \in BOOLEAN /\ bound' \in BOOLEAN
            /\ bound' => bound /\ conn'.socket # "none"
        BY <3>1, <3>2, Becomes
      <3>4. toServer' \in Seq(Client!ToServer) /\ link' \in Links
        BY <3>1, NothingOnTheWires DEF Lost, Links
      <3>5. TypeOK'
        BY <1>0, <1>1, <3>3, <3>4 DEF TypeOK
      <3> QED
        BY <1>1, <3>1, <3>3, <3>5, LinkLost
    <2> QED
      BY <2>1, <2>2
  <1>6. CASE TakeStateChange(m)
    <2>1. /\ bound /\ trusted' = ("managed" \in m.state) /\ toServer' = Tail(toServer)
          /\ UNCHANGED <<bound, link, toClient>>
      BY <1>6 DEF TakeStateChange
    <2>3. conn' \in Connections /\ conn' = Quiet(conn') /\ conn'.socket = conn.socket
      BY <1>0, <1>6, StateTaken
    <2>4. TypeOK'
      BY <1>0, <1>1, <1>2, <2>1, <2>3 DEF TypeOK
    <2>5. conn'.socket = "up"
      BY <1>2, <2>1, <2>3
    <2> QED
      BY <1>1, <2>1, <2>4, <2>5, LinkTaken
  <1> QED
    BY <1>3, <1>4, <1>5, <1>6 DEF ServerTakes, m

\* The end of a connection, the deadlines and the timers.
LEMMA LinkTimers ==
    ASSUME LinkInv,
           \/ SocketDisconnected \/ RequestTimer \/ HeartbeatDeadline \/ ZeroTimer
           \/ Cut \/ SignInDeadline
    PROVE  LinkInv'
  <1> USE DEF roomVars, serverVars, wires, counters
  <1>0. /\ TypeOK /\ conn \in Connections /\ conn = Quiet(conn)
        /\ losses \in 0..MaxLosses /\ stalls \in 0..MaxStalls
        /\ MaxLosses \in Nat /\ MaxStalls \in Nat
    BY BoundsAssumption DEF LinkInv, TypeOK
  <1>1. CASE SocketDisconnected
    <2>1. /\ ConnBecomes(OnSocketDisconnected(conn)) /\ (bound => link # "open")
          /\ UNCHANGED <<phase, history, peer, roundEventLog, link, toClient, toServer,
                         client, stalls, losses, toggles>>
      BY <1>1 DEF SocketDisconnected
    <2>2. Settles(conn, OnSocketDisconnected(conn))
      BY <1>0, HandlersSettle
    <2>3. /\ conn' \in Connections /\ conn' = Quiet(conn')
          /\ trusted' \in BOOLEAN /\ bound' \in BOOLEAN
          /\ bound' => bound /\ conn'.socket # "none"
      BY <2>1, <2>2, Becomes
    <2>4. TypeOK'
      BY <1>0, <2>1, <2>3 DEF TypeOK
    <2> QED
      BY <2>1, <2>3, <2>4 DEF LinkInv
  <1>2. CASE RequestTimer \/ HeartbeatDeadline \/ ZeroTimer
    <2>1. PICK d : GivesUp(d) /\ Settles(conn, d)
      <3>1. CASE RequestTimer
        BY <1>0, <3>1, HandlersSettle DEF RequestTimer
      <3>2. CASE HeartbeatDeadline
        BY <1>0, <3>2, HandlersSettle DEF HeartbeatDeadline
      <3>3. CASE ZeroTimer
        BY <1>0, <3>3, HandlersSettle DEF ZeroTimer
      <3> QED
        BY <1>2, <3>1, <3>2, <3>3
    <2>2. /\ ConnBecomes(d)
          /\ UNCHANGED <<phase, history, peer, roundEventLog, client, stalls, toggles>>
      BY <2>1 DEF GivesUp
    <2>3. /\ conn' \in Connections /\ conn' = Quiet(conn')
          /\ trusted' \in BOOLEAN /\ bound' \in BOOLEAN
          /\ conn'.socket = d.socket
          /\ bound' => bound /\ conn'.socket # "none"
      BY <2>1, <2>2, Becomes
    <2>4. CASE bound /\ link = "open" /\ d.socket # "up"
      <3>1. losses < MaxLosses /\ losses' = losses + 1 /\ Lost
        BY <2>1, <2>4 DEF GivesUp
      <3>2. losses' \in 0..MaxLosses
        BY <1>0, <3>1
      <3>3. toServer' \in Seq(Client!ToServer) /\ link' \in Links
        BY <3>1, NothingOnTheWires DEF Lost, Links
      <3>4. TypeOK'
        BY <1>0, <2>2, <2>3, <3>2, <3>3 DEF TypeOK
      <3> QED
        BY <2>2, <2>3, <3>1, <3>4, LinkLost
    <2>5. CASE ~(bound /\ link = "open" /\ d.socket # "up")
      <3>1. UNCHANGED <<losses, link, toClient, toServer>>
        BY <2>1, <2>5 DEF GivesUp
      <3>2. TypeOK'
        BY <1>0, <2>2, <2>3, <3>1 DEF TypeOK
      <3> QED
        BY <2>2, <2>3, <2>5, <3>1, <3>2 DEF LinkInv
    <2> QED
      BY <2>4, <2>5
  <1>3. CASE Cut
    <2>1. /\ losses < MaxLosses /\ losses' = losses + 1 /\ Lost
          /\ UNCHANGED <<phase, history, peer, conn, trusted, roundEventLog, bound,
                         client, stalls, toggles>>
      BY <1>3 DEF Cut
    <2>2. losses' \in 0..MaxLosses
      BY <1>0, <2>1
    <2>3. toServer' \in Seq(Client!ToServer) /\ link' \in Links
      BY <2>1, NothingOnTheWires DEF Lost, Links
    <2>4. TypeOK'
      BY <1>0, <2>1, <2>2, <2>3 DEF TypeOK
    <2>5. bound' => bound /\ conn'.socket # "none"
      BY <2>1 DEF LinkInv
    <2> QED
      BY <2>1, <2>4, <2>5, LinkLost
  <1>4. CASE SignInDeadline
    <2>1. /\ stalls < MaxStalls /\ stalls' = stalls + 1 /\ Lost
          /\ UNCHANGED <<phase, history, peer, conn, trusted, roundEventLog, bound,
                         client, losses, toggles>>
      BY <1>4 DEF SignInDeadline
    <2>2. stalls' \in 0..MaxStalls
      BY <1>0, <2>1
    <2>3. toServer' \in Seq(Client!ToServer) /\ link' \in Links
      BY <2>1, NothingOnTheWires DEF Lost, Links
    <2>4. TypeOK'
      BY <1>0, <2>1, <2>2, <2>3 DEF TypeOK
    <2>5. bound' => bound /\ conn'.socket # "none"
      BY <2>1 DEF LinkInv
    <2> QED
      BY <2>1, <2>4, <2>5, LinkLost
  <1> QED
    BY <1>1, <1>2, <1>3, <1>4


\* The room has just been filled.
LEMMA Starts ==
    ASSUME Init
    PROVE  /\ conn \in Connections /\ conn = Quiet(conn) /\ conn.socket = "up"
           /\ conn.online /\ conn.currentRequest = Invalid /\ conn.zeroTimers = 0
           /\ client \in Client!Clients /\ client.out = <<>> /\ Reaching(client)
           /\ client.socket /\ ~client.reconnectInProgress
           /\ StateKnown => client.state = {"online"}
  <1>1. NoConnection \in Connections /\ NoConnection.replies = <<>> /\ ~NoConnection.left
        /\ NoConnection.currentRequest = Invalid /\ NoConnection.zeroTimers = 0
    <2>1. <<>> \in Seq(RequestIds)
      OBVIOUS
    <2> QED
      BY <2>1 DEF NoConnection, Connections, Sockets
  <1> DEFINE s == SetSocket(NoConnection)
  <1>2. /\ s \in Connections /\ s.replies = <<>> /\ ~s.left /\ s.socket = "up"
        /\ s.currentRequest = Invalid /\ s.zeroTimers = 0
    BY <1>1 DEF SetSocket, Connections, Sockets
  <1>3. conn = [s EXCEPT !.online = TRUE]
    BY DEF Init
  <1> HIDE DEF s
  <1>4. /\ conn \in Connections /\ conn.socket = "up" /\ conn.online
        /\ conn.replies = <<>> /\ ~conn.left
        /\ conn.currentRequest = Invalid /\ conn.zeroTimers = 0
    BY <1>2, <1>3 DEF Connections
  <1>5. conn = Quiet(conn)
    BY <1>4, QuietMeans
  <1> DEFINE n == Client!ConnectToHost(Client!NewClient)
  <1>6. /\ n \in Client!Clients /\ n.out = <<>> /\ n.socket
        /\ ~n.reconnectInProgress /\ ~n.reconnectTimer
    <2>1. <<>> \in Seq(Client!ToServer) /\ <<>> \in Seq(Client!Changes)
      OBVIOUS
    <2>2. 0 \in 0..2 /\ "unknown" \in Client!Peers /\ {} \in SUBSET Client!StateMasks
      BY DEF Client!Peers
    <2> DEFINE z == Client!NewClient
               e == [z EXCEPT !.reconnectTimer = FALSE, !.reconnectInProgress = FALSE,
                              !.reconnectAttempts = 0]
    <2>3. n = [e EXCEPT !.socket = TRUE, !.pings = 0]
      BY DEF Client!ConnectToHost, Client!ConnectSocket
    <2>4. z \in Client!Clients /\ z.out = <<>>
      BY <2>1, <2>2 DEF Client!NewClient, Client!Clients
    <2> HIDE DEF n, z
    <2>5. /\ e \in Client!Clients /\ e.out = <<>> /\ ~e.reconnectInProgress
          /\ ~e.reconnectTimer
      BY <2>4 DEF Client!Clients
    <2> HIDE DEF e
    <2> QED
      BY <2>2, <2>3, <2>5 DEF Client!Clients
  <1>7. client = IF StateKnown
                 THEN [n EXCEPT !.state = {"online"}, !.peer = "online"] ELSE n
    BY DEF Init
  <1> HIDE DEF n
  <1>8. {"online"} \in SUBSET Client!StateMasks /\ "online" \in Client!Peers
    BY DEF Client!StateMasks, Client!Peers
  <1>9. /\ client \in Client!Clients /\ client.out = <<>> /\ client.socket
        /\ ~client.reconnectInProgress /\ ~client.reconnectTimer
        /\ StateKnown => client.state = {"online"}
    <2>1. CASE StateKnown
      <3> DEFINE a == {"online"}
      <3>1. client = [n EXCEPT !.state = a, !.peer = "online"]
        BY <1>7, <2>1
      <3>2. a \in SUBSET Client!StateMasks
        BY <1>8
      <3> HIDE DEF a
      <3>3. /\ client \in Client!Clients /\ client.out = <<>> /\ client.socket
            /\ ~client.reconnectInProgress /\ ~client.reconnectTimer
            /\ client.state = a
        BY <1>6, <1>8, <3>1, <3>2 DEF Client!Clients
      <3> QED
        BY <3>3 DEF a
    <2>2. CASE ~StateKnown
      BY <1>6, <1>7, <2>2
    <2> QED
      BY <2>1, <2>2
  <1> QED
    BY <1>4, <1>5, <1>9 DEF Reaching

LEMMA LinkInit == Init => LinkInv
  <1> SUFFICES ASSUME Init PROVE LinkInv
    OBVIOUS
  <1>1. /\ conn \in Connections /\ conn = Quiet(conn) /\ conn.socket = "up"
        /\ client \in Client!Clients /\ client.out = <<>> /\ Reaching(client)
        /\ client.socket /\ ~client.reconnectInProgress
    BY Starts
  <1>2. <<"roundStart">> \in Seq(Client!Changes)
    BY Few, Sendable
  <1>3. {MaxLosses, MaxStalls, MaxToggles} \subseteq Nat
    BY BoundsAssumption
  <1>4. <<>> \in Seq(Client!RoundEvents) /\ <<>> \in Seq(Client!ToServer)
    OBVIOUS
  <1>5. 0 \in 0..MaxLosses /\ 0 \in 0..MaxStalls /\ 0 \in 0..MaxToggles
    BY <1>3
  <1>6. TypeOK
    BY <1>1, <1>2, <1>4, <1>5 DEF Init, TypeOK, Links
  <1>7. toClient \in Seq(ToClient)
    <2>1. <<NotifyRoundStart>> \in Seq(ToClient)
      BY Few, Sendable
    <2>2. <<NotifyPlayerAdded({"online"}), NotifyPeerAdded("online"), NotifyRoundStart>>
            \in Seq(ToClient)
      BY Few, Sendable
    <2> QED
      BY <2>1, <2>2 DEF Init
  <1> QED
    BY <1>1, <1>6, <1>7 DEF Init, LinkInv

LEMMA LinkStep == LinkInv /\ [Next]_vars => LinkInv'
  <1> SUFFICES ASSUME LinkInv, [Next]_vars PROVE LinkInv'
    OBVIOUS
  <1>1. CASE RoomAsks \/ RoomResult \/ RoundOver \/ UpgradeResult \/ AgentStateChanged
    BY <1>1, LinkRoom
  <1>2. CASE ServerTakes
    BY <1>2, LinkServer
  <1>3. CASE \/ SocketDisconnected \/ RequestTimer \/ HeartbeatDeadline \/ ZeroTimer
             \/ Cut \/ SignInDeadline
    BY <1>3, LinkTimers
  <1>4. CASE \/ ClientTakes \/ SocketGone \/ Heartbeat
             \/ PongDeadline /\ ~client'.socket
             \/ PlayerReplies \/ PlayerManaged
    <2>1. /\ \E d, coming : Steps(d, coming)
          /\ losses' \in 0..MaxLosses /\ toggles' \in 0..MaxToggles
      BY <1>4, ClientActs
    <2> QED
      BY <2>1, LinkSteps
  <1>5. CASE ReconnectTimer \/ (PongDeadline /\ client'.socket)
    BY <1>5, LinkAttempts
  <1>6. CASE UNCHANGED vars
    BY <1>6 DEF vars, roomVars, serverVars, wires, counters, LinkInv, TypeOK
  <1> QED
    BY <1>1, <1>2, <1>3, <1>4, <1>5, <1>6 DEF Next

\* The state of the session is typed, its counters are within their bounds, and what
\* is between two handlers is at rest: nothing is being emitted on either side.
THEOREM SessionTypeOK == Spec => []TypeOK
  <1>1. LinkInv => TypeOK
    BY DEF LinkInv
  <1> QED
    BY <1>1, LinkInit, LinkStep, PTL DEF Spec

\* ClientP: of the reconnect timer and a connection exactly one is going while a lost
\* connection is being got back, whatever order losses, greetings, refusals and the
\* attempts' own failures come in; and no attempt is scheduled otherwise.
THEOREM SessionNeverStranded == Spec => []NeverStranded
  <1>1. LinkInv => NeverStranded
    BY DEF LinkInv, Reaching, NeverStranded
  <1> QED
    BY <1>1, LinkInit, LinkStep, PTL DEF Spec

\* Every packet that is ever on a wire is parsed where it arrives, and exactly one of
\* the slots there takes it.
THEOREM SessionPacketsHaveOneTaker == Spec => []PacketsHaveOneTaker
  <1>1. LinkInv => PacketsHaveOneTaker
    <2> SUFFICES ASSUME LinkInv PROVE PacketsHaveOneTaker
      OBVIOUS
    <2>1. \A i \in DOMAIN toServer : toServer[i] \in Client!ToServer
      BY DEF LinkInv, TypeOK
    <2>2. \A i \in DOMAIN toClient : toClient[i] \in ToClient
      BY DEF LinkInv
    <2> QED
      BY <2>1, <2>2, PacketsTaken DEF PacketsHaveOneTaker
  <1> QED
    BY <1>1, LinkInit, LinkStep, PTL DEF Spec


-----------------------------------------------------------------------------
(* The state of the agent, on both ends. *)

\* A message, in a sequence that goes on and in one whose head is gone.
LEMMA HoldsBehind ==
    ASSUME NEW S, NEW q \in Seq(S), NEW p \in Seq(S), NEW m
    PROVE  /\ Holds(q, m) \/ Holds(p, m) => Holds(q \o p, m)
           /\ q # <<>> /\ Holds(q, m) => Holds(Tail(q), m) \/ Head(q) = m
  <1>1. Holds(q, m) \/ Holds(p, m) => Holds(q \o p, m)
    <2> DEFINE a == q \o p
               n == Len(q)
    <2>1. /\ \A i \in DOMAIN q : i \in DOMAIN a /\ a[i] = q[i]
          /\ \A i \in DOMAIN p : i + n \in DOMAIN a /\ a[i + n] = p[i]
      BY Behind
    <2> HIDE DEF a, n
    <2>2. Holds(q, m) \/ Holds(p, m) => Holds(a, m)
      BY <2>1 DEF Holds
    <2> QED
      BY <2>2 DEF a
  <1>2. ASSUME q # <<>>, Holds(q, m) PROVE Holds(Tail(q), m) \/ Head(q) = m
    <2> DEFINE a == Tail(q)
               h == Head(q)
    <2>1. /\ q[1] = h
          /\ \A i \in DOMAIN q : i # 1 => i - 1 \in DOMAIN a /\ a[i - 1] = q[i]
      BY <1>2, Remain
    <2> HIDE DEF a, h
    <2>2. Holds(a, m) \/ h = m
      BY <1>2, <2>1 DEF Holds
    <2> QED
      BY <2>2 DEF a, h
  <1> QED
    BY <1>1, <1>2

\* The flags of a state that is declared are the state.
LEMMA StateOfFlags ==
    \A s \in SUBSET Client!StateMasks :
        AgentState("online" \in s, "managed" \in s) = s
  BY DEF AgentState, Client!StateMasks

LEMMA StateInit == Init => StateInv
  <1> SUFFICES ASSUME Init PROVE StateInv
    OBVIOUS
  <1>1. conn.online /\ (StateKnown => client.state = {"online"})
    BY Starts
  <1>2. toServer = <<>> /\ trusted = FALSE
    BY DEF Init
  <1>3. ServerState = {"online"}
    BY <1>1, <1>2 DEF ServerState, AgentState
  <1>4. CASE StateKnown
    BY <1>1, <1>2, <1>3, <1>4 DEF StateInv, LastDeclared
  <1>5. CASE ~StateKnown
    <2> DEFINE m == NotifyPlayerAdded({"online"})
               n == NotifyPeerAdded("online")
               l == NotifyRoundStart
    <2>1. toClient = <<m, n, l>>
      BY <1>5 DEF Init
    <2> HIDE DEF m, n, l
    <2>2. 1 \in DOMAIN toClient /\ toClient[1] = m
      BY <2>1
    <2>3. Holds(toClient, NotifyPlayerAdded(ServerState))
      BY <1>3, <2>2 DEF Holds, m
    <2> QED
      BY <1>2, <2>3 DEF StateInv, LastDeclared
  <1> QED
    BY <1>4, <1>5

\* What the client does.
LEMMA StateSteps ==
    ASSUME LinkInv, StateInv, NEW d, NEW coming, Steps(d, coming)
    PROVE  StateInv'
  <1>1. /\ Leaves(client, d) /\ ClientBecomes(d, coming)
        /\ UNCHANGED <<conn, trusted>>
        /\ \/ coming = toClient
           \/ /\ toClient # <<>> /\ coming = Tail(toClient)
              /\ Took(client, Head(toClient), d)
    BY DEF Steps
  <1>2. d \in Client!Clients
    BY <1>1 DEF Leaves
  <1>3. client' = Client!Silent(d)
    BY <1>1 DEF ClientBecomes
  <1>4. client'.state = d.state
    BY <1>2, <1>3, SilentKeeps
  <1>5. ServerState' = ServerState
    BY <1>1 DEF ServerState
  <1>6. toClient \in Seq(ToClient) /\ toServer \in Seq(Client!ToServer)
        /\ d.out \in Seq(Client!ToServer)
    BY <1>2 DEF LinkInv, TypeOK, Client!Clients
  <1>7. CASE ~d.socket
    <2>1. toServer' = <<>> /\ ~bound'
      BY <1>1, <1>7 DEF ClientBecomes, Lost
    <2> QED
      BY <2>1 DEF StateInv, LastDeclared
  <1>8. CASE d.socket
    <2>1. /\ toServer' = IF link = "open" THEN toServer \o d.out ELSE <<>>
          /\ toClient' = coming /\ UNCHANGED <<link, bound>>
      BY <1>1, <1>8 DEF ClientBecomes
    <2>2. Relays(client, d)
      BY <1>1, <1>8 DEF Leaves
    <2>3. CASE link # "open"
      BY <2>1, <2>3 DEF StateInv, LastDeclared
    <2>4. CASE link = "open"
      <3>1. /\ toServer' = toServer \o d.out
            /\ \A i \in DOMAIN d.out :
                  d.out[i].kind = "stateChange" => d.out[i].state = d.state
        BY <2>1, <2>2, <2>4 DEF Relays
      <3>2. CASE Declares(d.out)
        <4>1. LastDeclared(toServer', client'.state) /\ Declares(toServer')
          BY <1>4, <1>6, <3>1, <3>2, DeclaredBehind
        <4> QED
          BY <4>1 DEF StateInv
      <3>3. CASE ~Declares(d.out)
        <4>1. d.state = client.state
          BY <2>2, <3>3 DEF Relays
        <4>2. /\ LastDeclared(toServer', client'.state)
              /\ Declares(toServer') <=> Declares(toServer)
          <5>1. LastDeclared(toServer, client.state)
            BY DEF StateInv
          <5>2. LastDeclared(toServer', client.state)
            BY <1>6, <3>1, <3>3, <5>1, DeclaredBehind
          <5>3. Declares(toServer') <=> Declares(toServer)
            BY <1>6, <3>1, <3>3, DeclaredBehind
          <5> QED
            BY <1>4, <4>1, <5>2, <5>3
        <4> DEFINE m == NotifyPlayerAdded(ServerState)
        <4>3. ASSUME bound', ~Declares(toServer')
              PROVE  client'.state = ServerState \/ Holds(toClient', m)
          <5> SUFFICES ASSUME client.state # ServerState
                       PROVE  client'.state = ServerState \/ Holds(toClient', m)
            BY <1>4, <4>1
          <5>1. Holds(toClient, m)
            BY <2>1, <2>4, <4>2, <4>3 DEF StateInv
          <5>2. CASE coming = toClient
            BY <2>1, <5>1, <5>2
          <5>3. CASE /\ toClient # <<>> /\ coming = Tail(toClient)
                     /\ Took(client, Head(toClient), d)
            <6>1. Holds(coming, m) \/ Head(toClient) = m
              BY <1>6, <5>1, <5>3, HoldsBehind
            <6>2. m.kind = "playerAdded" /\ m.state = ServerState
              BY DEF NotifyPlayerAdded
            <6> HIDE DEF m
            <6> QED
              BY <1>4, <2>1, <5>3, <6>1, <6>2 DEF Took
          <5> QED
            BY <1>1, <5>2, <5>3
        <4> QED
          BY <1>5, <4>2, <4>3 DEF StateInv
      <3> QED
        BY <3>2, <3>3
    <2> QED
      BY <2>3, <2>4
  <1> QED
    BY <1>7, <1>8

\* The wires are lost, or stay but for what is taken, which is no declaration, and
\* what is sent; and the server has the state it had.
LEMMA StateFrame ==
    ASSUME LinkInv, StateInv, client'.state = client.state,
           \/ toServer' = <<>> /\ (~bound' \/ link' # "open")
           \/ /\ \/ UNCHANGED toServer
                 \/ /\ toServer # <<>> /\ toServer' = Tail(toServer)
                    /\ Head(toServer).kind # "stateChange"
              /\ \/ ~bound'
                 \/ /\ bound /\ UNCHANGED link
                    /\ conn'.online = conn.online /\ trusted' = trusted
                    /\ \/ UNCHANGED toClient
                       \/ \E p \in Seq(ToClient) : toClient' = toClient \o p
    PROVE  StateInv'
  <1>1. toClient \in Seq(ToClient) /\ toServer \in Seq(Client!ToServer)
    BY DEF LinkInv, TypeOK
  <1>2. CASE toServer' = <<>> /\ (~bound' \/ link' # "open")
    BY <1>2 DEF StateInv, LastDeclared
  <1>3. CASE /\ \/ UNCHANGED toServer
                \/ /\ toServer # <<>> /\ toServer' = Tail(toServer)
                   /\ Head(toServer).kind # "stateChange"
             /\ \/ ~bound'
                \/ /\ bound /\ UNCHANGED link
                   /\ conn'.online = conn.online /\ trusted' = trusted
                   /\ \/ UNCHANGED toClient
                      \/ \E p \in Seq(ToClient) : toClient' = toClient \o p
    <2>1. /\ LastDeclared(toServer', client'.state)
          /\ Declares(toServer) => Declares(toServer')
      <3>1. LastDeclared(toServer, client.state)
        BY DEF StateInv
      <3>2. CASE UNCHANGED toServer
        BY <3>1, <3>2
      <3>3. CASE /\ toServer # <<>> /\ toServer' = Tail(toServer)
                 /\ Head(toServer).kind # "stateChange"
        BY <1>1, <3>1, <3>3, DeclaredRemain
      <3> QED
        BY <1>3, <3>2, <3>3
    <2>2. ASSUME bound', link' = "open", ~Declares(toServer')
          PROVE  \/ client'.state = ServerState'
                 \/ Holds(toClient', NotifyPlayerAdded(ServerState'))
      <3>1. /\ bound /\ UNCHANGED link
            /\ conn'.online = conn.online /\ trusted' = trusted
            /\ \/ UNCHANGED toClient
               \/ \E p \in Seq(ToClient) : toClient' = toClient \o p
        BY <1>3, <2>2
      <3>2. ServerState' = ServerState
        BY <3>1 DEF ServerState
      <3> DEFINE m == NotifyPlayerAdded(ServerState)
      <3>3. client.state = ServerState \/ Holds(toClient, m)
        BY <2>1, <2>2, <3>1 DEF StateInv
      <3> HIDE DEF m
      <3>4. Holds(toClient, m) => Holds(toClient', m)
        BY <1>1, <3>1, HoldsBehind
      <3>5. client'.state = ServerState \/ Holds(toClient', m)
        BY <3>3, <3>4
      <3> QED
        BY <3>2, <3>5 DEF m
    <2> QED
      BY <2>1, <2>2 DEF StateInv
  <1> QED
    BY <1>2, <1>3

\* A seat is found: the snapshot tells the client what the server has.
LEMMA StateSeat ==
    ASSUME LinkInv, StateInv, toServer # <<>>, UNCHANGED client,
           Head(toServer).kind = "signIn", SeatFound(Head(toServer).seq)
    PROVE  StateInv'
  <1> DEFINE seq == Head(toServer).seq
             replay == ReplayMissedRoundEvents(seq)
             m == NotifyPlayerAdded(AgentState(TRUE, trusted))
             shot == <<m, NotifyPeerAdded(peer)>>
  <1>0. TypeOK
    BY DEF LinkInv
  <1>1. Head(toServer) \in Client!ToServer /\ toServer \in Seq(Client!ToServer)
    BY <1>0, HeadOfServer DEF TypeOK
  <1>2. seq \in Nat
    BY <1>1 DEF Client!ToServer
  <1>3. /\ trusted' = trusted /\ toClient' = toClient \o replay \o shot
        /\ toServer' = Tail(toServer)
    BY DEF SeatFound
  <1>4. conn'.online
    BY <1>0, SeatTaken DEF TypeOK
  <1> HIDE DEF seq
  <1>6. replay \in Seq(ToClient) /\ toClient \in Seq(ToClient)
    BY <1>2, ReplayType DEF LinkInv
  <1>7. m \in ToClient /\ NotifyPeerAdded(peer) \in ToClient
    BY <1>0, Sendable DEF TypeOK
  <1>8. ServerState' = AgentState(TRUE, trusted)
    BY <1>3, <1>4 DEF ServerState, AgentState
  <1>9. Holds(toClient', m)
    <2> HIDE DEF m, replay
    <2>1. shot \in Seq(ToClient) /\ 1 \in DOMAIN shot /\ shot[1] = m
      BY <1>7, Few
    <2> DEFINE before == toClient \o replay
    <2>2. before \in Seq(ToClient)
      BY <1>6
    <2> HIDE DEF shot, before
    <2>3. Holds(shot, m)
      BY <2>1 DEF Holds
    <2>4. Holds(before \o shot, m)
      BY <2>1, <2>2, <2>3, HoldsBehind
    <2> QED
      BY <1>3, <2>4 DEF before
  <1>10. LastDeclared(toServer, client.state)
    BY DEF StateInv
  <1>11. LastDeclared(toServer', client'.state)
    BY <1>1, <1>3, <1>10, DeclaredRemain
  <1> QED
    BY <1>8, <1>9, <1>11 DEF StateInv

\* A declaration is taken: if it was the last, it is the client's state.
LEMMA StateDeclared ==
    ASSUME LinkInv, StateInv, toServer # <<>>, UNCHANGED client,
           TakeStateChange(Head(toServer))
    PROVE  StateInv'
  <1> DEFINE m == Head(toServer)
  <1>0. TypeOK
    BY DEF LinkInv
  <1>1. m \in Client!ToServer /\ toServer \in Seq(Client!ToServer)
    BY <1>0, HeadOfServer DEF TypeOK
  <1>2. /\ m.kind = "stateChange" /\ trusted' = ("managed" \in m.state)
        /\ toServer' = Tail(toServer)
    BY DEF TakeStateChange
  <1>3. conn'.online <=> "online" \in m.state
    BY <1>0, StateTaken DEF TypeOK
  <1>4. m.state \in SUBSET Client!StateMasks
    BY <1>1, <1>2 DEF Client!ToServer
  <1>5. ServerState' = m.state
    <2>1. ServerState' = AgentState("online" \in m.state, "managed" \in m.state)
      BY <1>2, <1>3 DEF ServerState, AgentState
    <2> QED
      BY <1>4, <2>1, StateOfFlags
  <1>6. LastDeclared(toServer, client.state)
    BY DEF StateInv
  <1>7. /\ LastDeclared(toServer', client.state)
        /\ ~Declares(toServer') => m.state = client.state
    BY <1>1, <1>2, <1>6, DeclaredRemain
  <1> QED
    BY <1>5, <1>7 DEF StateInv

LEMMA StateStep == LinkInv /\ StateInv /\ [Next]_vars => StateInv'
  <1> SUFFICES ASSUME LinkInv, StateInv, [Next]_vars PROVE StateInv'
    OBVIOUS
  <1> USE DEF roomVars, serverVars, wires, counters
  <1>0. /\ conn \in Connections /\ conn = Quiet(conn)
        /\ bound => link # "open" \/ conn.socket = "up"
    BY DEF LinkInv, TypeOK
  <1>s. /\ \A m \in ToClient : <<m>> \in Seq(ToClient)
        /\ \A m, n \in ToClient : <<m, n>> \in Seq(ToClient)
    BY Few
  <1>t. ASSUME NEW p \in Seq(ToClient), toClient' = Sent(p)
        PROVE  toClient' = toClient \/ toClient' = toClient \o p
    BY <1>t, SentTo
  <1>1. CASE RoomAsks
    <2>1. PICK r \in RequestIds :
             /\ conn' = AddRequest(conn, r, FALSE)
             /\ toClient' = Sent(<<Request(r)>>)
      BY <1>1, BoundsAssumption DEF RoomAsks, RequestIds
    <2>2. conn'.online = conn.online
      BY <1>0, <2>1, AddRequestAsks
    <2>3. <<Request(r)>> \in Seq(ToClient)
      BY <1>s, Sendable
    <2>4. \/ UNCHANGED toClient
          \/ \E p \in Seq(ToClient) : toClient' = toClient \o p
      BY <1>t, <2>1, <2>3
    <2>5. UNCHANGED <<trusted, bound, link, toServer, client>>
      BY <1>1 DEF RoomAsks
    <2> QED
      BY <2>2, <2>4, <2>5, StateFrame
  <1>2. CASE RoomResult \/ RoundOver \/ (UpgradeResult /\ NextRound) \/ AgentStateChanged
    <2>1. UNCHANGED <<conn, trusted, bound, link, toServer, client>>
      BY <1>2 DEF RoomResult, RoundOver, NextRound, AgentStateChanged
    <2>2. \/ UNCHANGED toClient
          \/ \E p \in Seq(ToClient) : toClient' = toClient \o p
      <3>1. CASE RoomResult
        <4>1. <<Event("result")>> \in Seq(ToClient)
          BY <1>s, Sendable
        <4> QED
          BY <1>t, <3>1, <4>1 DEF RoomResult
      <3>2. CASE RoundOver
        BY <3>2 DEF RoundOver
      <3>3. CASE NextRound
        <4>1. <<Event("upgrade"), NotifyRoundStart>> \in Seq(ToClient)
          BY <1>s, Sendable
        <4> QED
          BY <1>t, <3>3, <4>1 DEF NextRound
      <3>4. CASE AgentStateChanged
        <4>1. peer' \in {"online", "away"}
          BY <3>4 DEF AgentStateChanged
        <4>2. <<NotifyAgentStateChanged(peer')>> \in Seq(ToClient)
          BY <1>s, <4>1, Sendable
        <4> QED
          BY <1>t, <3>4, <4>2 DEF AgentStateChanged
      <3> QED
        BY <1>2, <3>1, <3>2, <3>3, <3>4
    <2> QED
      BY <2>1, <2>2, StateFrame
  <1>3. CASE UpgradeResult /\ GameOver
    <2>1. ~bound' /\ UNCHANGED <<toServer, client>>
      BY <1>3 DEF GameOver
    <2> QED
      BY <2>1, StateFrame
  <1>4. CASE Cut \/ SignInDeadline
    <2>1. /\ UNCHANGED <<client>> /\ toServer' = <<>> /\ link' = "cut"
      BY <1>4 DEF Cut, SignInDeadline, Lost
    <2> QED
      BY <2>1, StateFrame
  <1>5. CASE ServerTakes
    <2> DEFINE m == Head(toServer)
    <2>1. toServer # <<>> /\ UNCHANGED client
      BY <1>5 DEF ServerTakes
    <2> HIDE DEF m
    <2>2. CASE TakeSignIn(m)
      <3>1. m.kind = "signIn" /\ (SeatFound(m.seq) \/ SeatNotFound)
        BY <2>2 DEF TakeSignIn
      <3>2. CASE SeatFound(m.seq)
        BY <2>1, <3>1, <3>2, StateSeat DEF m
      <3>3. CASE SeatNotFound
        <4>1. toServer' = <<>> /\ link' = "cut"
          BY <3>3 DEF SeatNotFound, Lost
        <4> QED
          BY <2>1, <4>1, StateFrame
      <3> QED
        BY <3>1, <3>2, <3>3
    <2>3. CASE TakeTooEarly(m)
      <3>1. ~bound' /\ (toServer' = <<>> \/ toServer' = Tail(toServer))
        BY <2>3 DEF TakeTooEarly, Lost
      <3>2. LastDeclared(toServer, client.state) /\ toServer \in Seq(Client!ToServer)
        BY DEF StateInv, LinkInv, TypeOK
      <3>3. LastDeclared(Tail(toServer), client.state)
        BY <2>1, <3>2, DeclaredRemain
      <3>4. LastDeclared(toServer', client'.state)
        <4>1. CASE toServer' = <<>>
          BY <4>1 DEF LastDeclared
        <4>2. CASE toServer' = Tail(toServer)
          BY <2>1, <3>3, <4>2
        <4> QED
          BY <3>1, <4>1, <4>2
      <3> QED
        BY <3>1, <3>4 DEF StateInv
    <2>4. CASE TakeReply(m)
      <3>1. m.kind # "stateChange" /\ bound
        BY <2>4 DEF TakeReply, ForConnection
      <3>2. CASE Lost
        <4>1. toServer' = <<>> /\ link' = "cut"
          BY <3>2 DEF Lost
        <4> QED
          BY <2>1, <4>1, StateFrame
      <3>3. CASE ~Lost
        <4>1. PICK d \in {Answer(conn), Refusal(conn)} : ConnBecomes(d)
          BY <2>4, <3>3 DEF TakeReply
        <4>2. m.request = conn.currentRequest /\ m.request \in RequestIds
          <5>1. m \in Client!ToServer
            BY <2>1, HeadOfServer DEF m
          <5> QED
            BY <2>4, <3>3, <5>1, Messages DEF TakeReply, Client!ToServer
        <4>3. conn.currentRequest # Invalid
          BY <4>2, Messages
        <4>4. Settles(conn, d)
          BY <1>0, <4>3, HandlersSettle
        <4>5. ~bound' \/ (conn'.online = conn.online /\ trusted' = trusted)
          BY <4>1, <4>4, Becomes
        <4>6. toServer' = Tail(toServer) /\ UNCHANGED <<link, toClient>>
          BY <2>4, <3>3 DEF TakeReply
        <4> QED
          BY <2>1, <3>1, <4>5, <4>6, StateFrame DEF m
      <3> QED
        BY <3>2, <3>3
    <2>5. CASE TakeStateChange(m)
      BY <2>1, <2>5, StateDeclared DEF m
    <2> QED
      BY <1>5, <2>2, <2>3, <2>4, <2>5 DEF ServerTakes, m
  <1>6. CASE SocketDisconnected \/ RequestTimer \/ HeartbeatDeadline \/ ZeroTimer
    <2>1. PICK d : Settles(conn, d) /\ ConnBecomes(d) /\ UNCHANGED client
                   /\ (UNCHANGED <<link, toClient, toServer>> \/ Lost)
      <3>1. CASE SocketDisconnected
        BY <1>0, <3>1, HandlersSettle DEF SocketDisconnected
      <3>2. CASE RequestTimer
        BY <1>0, <3>2, HandlersSettle DEF RequestTimer, GivesUp
      <3>3. CASE HeartbeatDeadline
        BY <1>0, <3>3, HandlersSettle DEF HeartbeatDeadline, GivesUp
      <3>4. CASE ZeroTimer
        BY <1>0, <3>4, HandlersSettle DEF ZeroTimer, GivesUp
      <3> QED
        BY <1>6, <3>1, <3>2, <3>3, <3>4
    <2>2. /\ ~bound' \/ (conn'.online = conn.online /\ trusted' = trusted)
          /\ bound' => bound
      BY <2>1, Becomes
    <2>3. CASE Lost
      <3>1. toServer' = <<>> /\ link' = "cut"
        BY <2>3 DEF Lost
      <3> QED
        BY <2>1, <3>1, StateFrame
    <2>4. CASE UNCHANGED <<link, toClient, toServer>>
      BY <2>1, <2>2, <2>4, StateFrame
    <2> QED
      BY <2>1, <2>3, <2>4
  <1>7. CASE \/ ClientTakes \/ SocketGone \/ Heartbeat
             \/ PongDeadline /\ ~client'.socket
             \/ PlayerReplies \/ PlayerManaged
    <2>1. \E d, coming : Steps(d, coming)
      BY <1>7, ClientActs
    <2> QED
      BY <2>1, StateSteps
  <1>8. CASE ReconnectTimer
    <2>1. ~bound' /\ toServer' = <<>>
      BY <1>8 DEF ReconnectTimer, ConnectionAttempt, Lost
    <2> QED
      BY <2>1 DEF StateInv, LastDeclared
  <1>9. CASE PongDeadline /\ client'.socket
    <2>1. client'.state = client.state /\ UNCHANGED <<conn, trusted, bound, link, toClient, toServer>>
      BY <1>9, StandingWindow
    <2>2. \/ UNCHANGED toClient
          \/ \E p \in Seq(ToClient) : toClient' = toClient \o p
      BY <2>1
    <2>3. ~bound' \/ (bound /\ UNCHANGED link)
      BY <2>1
    <2> QED
      BY <2>1, <2>2, <2>3, StateFrame
  <1>10. CASE UNCHANGED vars
    <2>1. UNCHANGED <<conn, trusted, bound, link, toClient, toServer, client>>
      BY <1>10 DEF vars
    <2> QED
      BY <2>1 DEF StateInv, ServerState
  <1> QED
    BY <1>1, <1>2, <1>3, <1>4, <1>5, <1>6, <1>7, <1>8, <1>9, <1>10
       DEF Next, UpgradeResult

\* Once nothing is on its way between the two ends, they have the same state of the
\* agent, whatever losses, declarations and snapshots crossed before, and whether or
\* not the player acted before it had its state.
THEOREM SessionStatesAgree == Spec => []StatesAgree
  <1>1. LinkInv /\ StateInv => StatesAgree
    <2> SUFFICES ASSUME StateInv, Settled PROVE client.state = AgentState(conn.online, trusted)
      BY DEF StatesAgree
    <2>1. bound /\ link = "open" /\ toClient = <<>> /\ toServer = <<>>
      BY DEF Settled
    <2>2. ~Declares(toServer) /\ ~Holds(toClient, NotifyPlayerAdded(ServerState))
      BY <2>1 DEF Declares, Holds
    <2> QED
      BY <2>1, <2>2 DEF StateInv, ServerState
  <1>2. Init => LinkInv /\ StateInv
    BY LinkInit, StateInit
  <1>3. LinkInv /\ StateInv /\ [Next]_vars => (LinkInv /\ StateInv)'
    BY LinkStep, StateStep
  <1> QED
    BY <1>1, <1>2, <1>3, PTL DEF Spec


-----------------------------------------------------------------------------
(* The player who has handed over. *)

\* What is declared and what is told, in a sequence that goes on and in one whose head
\* is gone.
LEMMA OnlineBehind ==
    ASSUME NEW S, NEW q \in Seq(S), NEW p \in Seq(S)
    PROVE  /\ DeclaresOnline(q) /\ DeclaresOnline(p) => DeclaresOnline(q \o p)
           /\ TellsOnline(q) /\ TellsOnline(p) => TellsOnline(q \o p)
           /\ q # <<>> /\ DeclaresOnline(q) => DeclaresOnline(Tail(q))
           /\ q # <<>> /\ TellsOnline(q) => TellsOnline(Tail(q))
           /\ DeclaresOnline(<<>>) /\ TellsOnline(<<>>)
  <1> DEFINE a == q \o p
             t == Tail(q)
  <1>1. /\ \A i \in DOMAIN a : \/ \E j \in DOMAIN q : a[i] = q[j]
                               \/ \E j \in DOMAIN p : a[i] = p[j]
        /\ q # <<>> => \A i \in DOMAIN t : \E j \in DOMAIN q : t[i] = q[j]
    BY HitsParts
  <1> HIDE DEF a, t
  <1>2. /\ DeclaresOnline(q) /\ DeclaresOnline(p) => DeclaresOnline(a)
        /\ q # <<>> /\ DeclaresOnline(q) => DeclaresOnline(t)
    BY <1>1 DEF DeclaresOnline
  <1>3. /\ TellsOnline(q) /\ TellsOnline(p) => TellsOnline(a)
        /\ q # <<>> /\ TellsOnline(q) => TellsOnline(t)
    BY <1>1 DEF TellsOnline
  <1>4. DeclaresOnline(<<>>) /\ TellsOnline(<<>>)
    BY DEF DeclaresOnline, TellsOnline
  <1> QED
    BY <1>2, <1>3, <1>4 DEF a, t

\* What the client does.
LEMMA ManagedSteps ==
    ASSUME LinkInv, ManagedInv, NEW d, NEW coming, Steps(d, coming)
    PROVE  ManagedInv'
  <1>1. /\ Leaves(client, d) /\ ClientBecomes(d, coming)
        /\ UNCHANGED <<conn, trusted>>
        /\ \/ /\ coming = toClient
              /\ "online" \in client.state => "online" \in d.state
              /\ d.socket => Plays(client, d)
           \/ /\ toClient # <<>> /\ coming = Tail(toClient)
              /\ Took(client, Head(toClient), d)
    BY DEF Steps
  <1>2. d \in Client!Clients
    BY <1>1 DEF Leaves
  <1>3. client' = Client!Silent(d)
    BY <1>1 DEF ClientBecomes
  <1>4. client'.state = d.state /\ client'.currentRequest = d.currentRequest
    BY <1>2, <1>3, SilentKeeps
  <1>5. /\ toClient \in Seq(ToClient) /\ toServer \in Seq(Client!ToServer)
        /\ d.out \in Seq(Client!ToServer) /\ conn \in Connections
    BY <1>2 DEF LinkInv, TypeOK, Client!Clients
  <1>6. ASSUME toClient # <<>>, Head(toClient).kind = "playerAdded"
        PROVE  Head(toClient).state = {"online"}
    <2>1. 1 \in DOMAIN toClient /\ toClient[1] = Head(toClient)
      BY <1>5, <1>6
    <2> QED
      BY <1>6, <2>1 DEF ManagedInv, SaysOnline, TellsOnline
  <1>7. "online" \in d.state
    <2>1. CASE coming = toClient /\ ("online" \in client.state => "online" \in d.state)
      BY <2>1 DEF ManagedInv, SaysOnline
    <2>2. CASE toClient # <<>> /\ Took(client, Head(toClient), d)
      BY <1>6, <2>2 DEF ManagedInv, SaysOnline, Took
    <2> QED
      BY <1>1, <2>1, <2>2
  <1>8. SeatIsKept'
    BY <1>1 DEF ManagedInv, SeatIsKept
  <1>9. CASE ~d.socket
    <2>1. toServer' = <<>> /\ toClient' = <<>> /\ ~bound'
      BY <1>1, <1>9 DEF ClientBecomes, Lost
    <2>2. SaysOnline'
      BY <1>4, <1>7, <2>1 DEF SaysOnline, DeclaresOnline, TellsOnline
    <2> QED
      BY <1>8, <2>1, <2>2 DEF ManagedInv, IsWaiting
  <1>10. CASE d.socket
    <2>1. /\ toServer' = IF link = "open" THEN toServer \o d.out ELSE <<>>
          /\ toClient' = coming /\ UNCHANGED <<link, bound>>
      BY <1>1, <1>10 DEF ClientBecomes
    <2>2. DeclaresOnline(d.out)
      BY <1>1, <1>7, <1>10 DEF Leaves, Relays, DeclaresOnline
    <2>3. SaysOnline'
      <3>1. DeclaresOnline(toServer) /\ TellsOnline(toClient)
        BY DEF ManagedInv, SaysOnline
      <3>2. DeclaresOnline(toServer \o d.out) /\ DeclaresOnline(<<>>)
        BY <1>5, <2>2, <3>1, OnlineBehind
      <3>3. TellsOnline(coming)
        <4>1. CASE coming = toClient
          BY <3>1, <4>1
        <4>2. CASE toClient # <<>> /\ coming = Tail(toClient)
          BY <1>5, <3>1, <4>2, OnlineBehind
        <4> QED
          BY <1>1, <4>1, <4>2
      <3>4. DeclaresOnline(toServer')
        <4>1. CASE link = "open"
          BY <2>1, <3>2, <4>1
        <4>2. CASE link # "open"
          BY <2>1, <3>2, <4>2
        <4> QED
          BY <4>1, <4>2
      <3> QED
        BY <1>4, <1>7, <2>1, <3>3, <3>4 DEF SaysOnline
    <2>4. IsWaiting'
      <3> SUFFICES ASSUME bound', link' = "open", conn'.zeroTimers = 0,
                          conn'.currentRequest # Invalid
                   PROVE  \/ AsksLast(toClient', conn'.currentRequest)
                          \/ Answered(toServer', conn'.currentRequest)
                          \/ /\ Shows(client', conn'.currentRequest)
                             /\ ~Asks(toClient')
        BY DEF IsWaiting, Waiting
      <3> DEFINE r == conn.currentRequest
                 goal == \/ AsksLast(coming, r) \/ Answered(toServer', r)
                         \/ Shows(d, r) /\ ~Asks(coming)
      <3>1. bound /\ link = "open" /\ conn.zeroTimers = 0 /\ r # Invalid
            /\ conn'.currentRequest = r
        BY <1>1, <2>1
      <3>2. r \in RequestIds
        BY <1>5, <3>1 DEF Connections
      <3>3. Waiting(r)
        BY <3>1 DEF ManagedInv, IsWaiting
      <3>4. toServer' = toServer \o d.out
        BY <2>1, <3>1
      <3> HIDE DEF r
      <3>5. Answered(toServer, r) \/ Answered(d.out, r) => Answered(toServer', r)
        BY <1>5, <3>4, AnsweredBehind
      <3>6. ASSUME coming = toClient, Plays(client, d) PROVE goal
        <4>1. Shows(client, r) => Shows(d, r) \/ Answered(d.out, r)
          BY <3>2, <3>6 DEF Plays
        <4> QED
          BY <3>3, <3>5, <3>6, <4>1 DEF Waiting
      <3>7. ASSUME toClient # <<>>, coming = Tail(toClient),
                   Took(client, Head(toClient), d)
            PROVE  goal
        <4> DEFINE h == Head(toClient)
        <4>1. /\ Asks(toClient) <=> Asks(coming) \/ h.kind = "request"
              /\ AsksLast(toClient, r) => \/ AsksLast(coming, r)
                                          \/ h = Request(r) /\ ~Asks(coming)
          BY <1>5, <3>7, AsksRemain
        <4>2. Request(r).kind = "request" /\ Request(r).request = r
          BY DEF Request
        <4> HIDE DEF h
        <4>3. CASE AsksLast(toClient, r)
          <5>1. CASE h = Request(r) /\ ~Asks(coming)
            <6>1. Shows(d, r) \/ Answered(d.out, r)
              BY <3>7, <4>2, <5>1 DEF Took, h
            <6> QED
              BY <3>5, <5>1, <6>1
          <5> QED
            BY <4>1, <4>3, <5>1
        <4>4. CASE Answered(toServer, r)
          BY <3>5, <4>4
        <4>5. CASE Shows(client, r) /\ ~Asks(toClient)
          <5>1. h.kind # "request" /\ ~Asks(coming)
            BY <4>1, <4>5
          <5>2. Shows(d, r) \/ Answered(d.out, r)
            <6>1. CASE h.kind = "playerAdded"
              <7>1. d.state = {"online"} /\ d.currentRequest = client.currentRequest
                BY <1>6, <3>7, <6>1 DEF Took, h
              <7> QED
                BY <4>5, <7>1 DEF Shows
            <6>2. CASE h.kind # "playerAdded"
              <7>1. Plays(client, d)
                BY <1>10, <3>7, <5>1, <6>2 DEF Took, h
              <7> QED
                BY <3>2, <4>5, <7>1 DEF Plays
            <6> QED
              BY <6>1, <6>2
          <5> QED
            BY <3>5, <5>1, <5>2
        <4> QED
          BY <3>3, <4>3, <4>4, <4>5 DEF Waiting
      <3>8. goal
        BY <1>1, <1>10, <3>6, <3>7
      <3>9. Shows(d, r) => Shows(client', r)
        BY <1>4 DEF Shows
      <3> QED
        BY <2>1, <3>1, <3>8, <3>9
    <2> QED
      BY <1>8, <2>3, <2>4 DEF ManagedInv
  <1> QED
    BY <1>9, <1>10


\* Messages that neither ask anything nor tell the client its own state.
Plain(p) == ~Asks(p) /\ TellsOnline(p)

LEMMA PlainMessages ==
    /\ Plain(<<Event("result")>>) /\ Plain(<<Event("upgrade"), NotifyRoundStart>>)
    /\ \A s : Plain(<<NotifyAgentStateChanged(s)>>)
    /\ ~Asks(<<>>) /\ TellsOnline(<<>>)
    /\ \A r : TellsOnline(<<Request(r)>>)
    /\ Plain(<<NotifyRoundStart>>)
  <1>1. /\ Event("result").kind = "event" /\ Event("upgrade").kind = "event"
        /\ NotifyRoundStart.kind = "roundStart"
        /\ \A s : NotifyAgentStateChanged(s).kind = "agentStateChanged"
        /\ \A r : Request(r).kind = "request"
    BY DEF Event, NotifyRoundStart, NotifyAgentStateChanged, Request
  <1>2. /\ \A m : DOMAIN <<m>> = {1} /\ <<m>>[1] = m
        /\ \A m, n : DOMAIN <<m, n>> = {1, 2} /\ <<m, n>>[1] = m /\ <<m, n>>[2] = n
    OBVIOUS
  <1>3. \A m : /\ m.kind # "request" => ~Asks(<<m>>)
               /\ m.kind # "playerAdded" => TellsOnline(<<m>>)
    BY <1>2 DEF Asks, TellsOnline
  <1>4. \A m, n : m.kind \notin {"request", "playerAdded"}
                  /\ n.kind \notin {"request", "playerAdded"} => Plain(<<m, n>>)
    BY <1>2 DEF Plain, Asks, TellsOnline
  <1>5. ~Asks(<<>>) /\ TellsOnline(<<>>)
    BY DEF Asks, TellsOnline
  <1>6. \A m : m.kind \notin {"request", "playerAdded"} => Plain(<<m>>)
    BY <1>3 DEF Plain
  <1>7. Plain(<<Event("result")>>) /\ Plain(<<Event("upgrade"), NotifyRoundStart>>)
    BY <1>1, <1>4, <1>6
  <1>8. \A s : Plain(<<NotifyAgentStateChanged(s)>>)
    BY <1>1, <1>6
  <1>9. \A r : TellsOnline(<<Request(r)>>)
    BY <1>1, <1>3
  <1>10. Plain(<<NotifyRoundStart>>)
    BY <1>1, <1>6
  <1> QED
    BY <1>5, <1>7, <1>8, <1>9, <1>10

\* What is waited for stays so while nothing of it is taken away.
LEMMA WaitingKeeps ==
    ASSUME IsWaiting, conn'.currentRequest = conn.currentRequest,
           conn'.zeroTimers = conn.zeroTimers, UNCHANGED link, bound' => bound,
           client'.currentRequest = client.currentRequest, client'.state = client.state,
           NEW r, r = conn.currentRequest,
           Answered(toServer, r) => Answered(toServer', r),
           AsksLast(toClient, r) => AsksLast(toClient', r),
           Asks(toClient') => Asks(toClient)
    PROVE  IsWaiting'
  <1>1. Shows(client, r) => Shows(client', r)
    BY DEF Shows
  <1> QED
    BY <1>1 DEF IsWaiting, Waiting

\* The room sends something else than a request.
LEMMA ManagedSends ==
    ASSUME LinkInv, ManagedInv, NEW p \in Seq(ToClient), Plain(p),
           toClient' = toClient \/ toClient' = Sent(p),
           UNCHANGED <<conn, trusted, bound, link, toServer, client>>
    PROVE  ManagedInv'
  <1>1. toClient \in Seq(ToClient)
    BY DEF LinkInv
  <1>2. toClient' = toClient \/ toClient' = toClient \o p
    BY SentTo
  <1>3. TellsOnline(toClient)
    BY DEF ManagedInv, SaysOnline
  <1>4. TellsOnline(toClient \o p)
    BY <1>1, <1>3, OnlineBehind DEF Plain
  <1>5. TellsOnline(toClient')
    BY <1>2, <1>3, <1>4
  <1>6. SaysOnline'
    BY <1>5 DEF ManagedInv, SaysOnline
  <1> DEFINE r == conn.currentRequest
  <1>7. /\ Asks(toClient \o p) => Asks(toClient)
        /\ AsksLast(toClient, r) => AsksLast(toClient \o p, r)
    BY <1>1, AsksBehind DEF Plain
  <1>8. /\ Asks(toClient') => Asks(toClient)
        /\ AsksLast(toClient, r) => AsksLast(toClient', r)
    BY <1>2, <1>7
  <1>9. Answered(toServer, r) => Answered(toServer', r)
    OBVIOUS
  <1>10. IsWaiting /\ SeatIsKept
    BY DEF ManagedInv
  <1>11. IsWaiting'
    BY <1>8, <1>9, <1>10, WaitingKeeps
  <1>12. SeatIsKept'
    BY <1>10 DEF SeatIsKept
  <1> QED
    BY <1>6, <1>11, <1>12 DEF ManagedInv

\* The room asks.
LEMMA ManagedAsks ==
    ASSUME LinkInv, ManagedInv, RoomAsks
    PROVE  ManagedInv'
  <1>0. /\ conn \in Connections /\ conn = Quiet(conn) /\ toClient \in Seq(ToClient)
    BY DEF LinkInv, TypeOK
  <1>1. PICK r \in RequestIds :
           /\ conn' = AddRequest(conn, r, FALSE)
           /\ toClient' = Sent(<<Request(r)>>)
    BY BoundsAssumption DEF RoomAsks, RequestIds
  <1>2. UNCHANGED <<trusted, bound, link, toServer, client>>
    BY DEF RoomAsks
  <1>3. /\ conn'.socket = conn.socket /\ conn'.online = conn.online
        /\ conn'.currentRequest = r
        /\ conn'.zeroTimers = IF conn.socket = "none" THEN conn.zeroTimers + 1
                                                      ELSE conn.zeroTimers
    BY <1>0, <1>1, AddRequestAsks
  <1>4. conn.zeroTimers = 0
    BY DEF RoomAsks
  <1>5. SeatIsKept'
    BY <1>2, <1>3, <1>4 DEF ManagedInv, SeatIsKept
  <1>6. <<Request(r)>> \in Seq(ToClient)
    BY <1>1, Few, Sendable
  <1> DEFINE p == <<Request(r)>>
  <1>7. p = <<Request(r)>>
    OBVIOUS
  <1> HIDE DEF p
  <1>8. AsksLast(toClient \o p, r)
    BY <1>0, <1>6, <1>7, AsksBehind
  <1>9. TellsOnline(toClient \o p)
    <2>1. TellsOnline(p)
      BY <1>7, PlainMessages
    <2>2. TellsOnline(toClient)
      BY DEF ManagedInv, SaysOnline
    <2> QED
      BY <1>0, <1>6, <1>7, <2>1, <2>2, OnlineBehind
  <1>10. /\ toClient' = toClient \/ toClient' = toClient \o p
         /\ bound /\ link = "open" => toClient' = toClient \o p
    BY <1>1, <1>6, <1>7, SentTo
  <1>11. SaysOnline'
    <2>1. TellsOnline(toClient')
      BY <1>9, <1>10 DEF ManagedInv, SaysOnline
    <2> QED
      BY <1>2, <2>1 DEF ManagedInv, SaysOnline
  <1>12. IsWaiting'
    <2>1. bound /\ link = "open" => AsksLast(toClient', r)
      BY <1>8, <1>10
    <2> QED
      BY <1>2, <1>3, <2>1 DEF IsWaiting, Waiting
  <1> QED
    BY <1>5, <1>11, <1>12 DEF ManagedInv

\* The end of a request, and maybe of the connection.
LEMMA ManagedBecomes ==
    ASSUME LinkInv, ManagedInv, NEW d, Settles(conn, d), ConnBecomes(d)
    PROVE  SeatIsKept' /\ IsWaiting'
  <1>1. /\ conn'.currentRequest = Invalid
        /\ \/ /\ conn'.online = conn.online /\ trusted' = trusted
              /\ conn'.socket = "none" <=> conn.socket = "none"
           \/ ~conn'.online /\ ~trusted' /\ conn'.socket = "none"
    BY Becomes
  <1> QED
    BY <1>1 DEF ManagedInv, SeatIsKept, IsWaiting

\* What is left on the wires.
LEMMA OnlineLeft ==
    ASSUME LinkInv, ManagedInv, UNCHANGED client,
           \/ Lost
           \/ /\ UNCHANGED toClient
              /\ \/ UNCHANGED toServer
                 \/ toServer # <<>> /\ toServer' = Tail(toServer)
    PROVE  SaysOnline'
  <1>1. toClient \in Seq(ToClient) /\ toServer \in Seq(Client!ToServer)
    BY DEF LinkInv, TypeOK
  <1>2. DeclaresOnline(toServer) /\ TellsOnline(toClient) /\ "online" \in client.state
    BY DEF ManagedInv, SaysOnline
  <1>3. /\ DeclaresOnline(<<>>) /\ TellsOnline(<<>>)
        /\ toServer # <<>> => DeclaresOnline(Tail(toServer))
    BY <1>1, <1>2, OnlineBehind
  <1>4. CASE Lost
    BY <1>2, <1>3, <1>4 DEF Lost, SaysOnline
  <1>5. CASE /\ UNCHANGED toClient
             /\ \/ UNCHANGED toServer
                \/ toServer # <<>> /\ toServer' = Tail(toServer)
    BY <1>2, <1>3, <1>5 DEF SaysOnline
  <1> QED
    BY <1>4, <1>5

\* A seat is found.
LEMMA ManagedSeat ==
    ASSUME LinkInv, ManagedInv, toServer # <<>>, UNCHANGED client, ~conn.online,
           Head(toServer).kind = "signIn", SeatFound(Head(toServer).seq)
    PROVE  ManagedInv'
  <1> DEFINE seq == Head(toServer).seq
             replay == ReplayMissedRoundEvents(seq)
             m == NotifyPlayerAdded(AgentState(TRUE, trusted))
             n == NotifyPeerAdded(peer)
             shot == <<m, n>>
  <1>0. TypeOK
    BY DEF LinkInv
  <1>1. Head(toServer) \in Client!ToServer /\ toServer \in Seq(Client!ToServer)
        /\ toClient \in Seq(ToClient)
    BY <1>0, HeadOfServer DEF TypeOK, LinkInv
  <1>2. seq \in Nat
    BY <1>1 DEF Client!ToServer
  <1>3. /\ trusted' = trusted /\ toClient' = toClient \o replay \o shot
        /\ toServer' = Tail(toServer)
    BY DEF SeatFound
  <1>4. /\ conn'.online /\ conn'.socket = "up"
        /\ conn'.currentRequest = conn.currentRequest
        /\ conn'.zeroTimers = conn.zeroTimers
    BY <1>0, SeatTaken DEF TypeOK
  <1>5. conn.socket = "none" /\ ~trusted
    BY DEF ManagedInv, SeatIsKept
  <1>6. SeatIsKept' /\ IsWaiting'
    BY <1>3, <1>4, <1>5 DEF ManagedInv, SeatIsKept, IsWaiting
  <1> HIDE DEF seq
  <1>7. /\ replay \in Seq(ToClient)
        /\ \A i \in DOMAIN replay : replay[i].kind = "event"
    BY <1>2, ReplayType
  <1>8. m \in ToClient /\ n \in ToClient
    BY <1>0, Sendable DEF TypeOK
  <1>9. m.kind = "playerAdded" /\ m.state = {"online"} /\ n.kind = "peerAdded"
    BY <1>5 DEF NotifyPlayerAdded, NotifyPeerAdded, AgentState
  <1> HIDE DEF replay, m, n
  <1>10. /\ shot \in Seq(ToClient) /\ DOMAIN shot = {1, 2}
         /\ shot[1] = m /\ shot[2] = n
    BY <1>8, Few
  <1> HIDE DEF shot
  <1>11. TellsOnline(shot)
    BY <1>9, <1>10 DEF TellsOnline
  <1>12. TellsOnline(replay)
    BY <1>7 DEF TellsOnline
  <1>13. TellsOnline(toClient) /\ DeclaresOnline(toServer)
    BY DEF ManagedInv, SaysOnline
  <1> DEFINE before == toClient \o replay
  <1>14. before \in Seq(ToClient) /\ TellsOnline(before)
    BY <1>1, <1>7, <1>12, <1>13, OnlineBehind
  <1> HIDE DEF before
  <1>15. TellsOnline(before \o shot)
    BY <1>10, <1>11, <1>14, OnlineBehind
  <1>16. DeclaresOnline(Tail(toServer))
    BY <1>1, <1>13, OnlineBehind
  <1>17. SaysOnline'
    BY <1>3, <1>15, <1>16 DEF ManagedInv, SaysOnline, before
  <1> QED
    BY <1>6, <1>17 DEF ManagedInv

\* A declaration is taken.
LEMMA ManagedDeclared ==
    ASSUME LinkInv, ManagedInv, toServer # <<>>, UNCHANGED client,
           TakeStateChange(Head(toServer))
    PROVE  ManagedInv'
  <1> DEFINE m == Head(toServer)
  <1>0. TypeOK
    BY DEF LinkInv
  <1>1. toServer \in Seq(Client!ToServer) /\ 1 \in DOMAIN toServer /\ toServer[1] = m
    BY <1>0 DEF TypeOK
  <1>2. /\ m.kind = "stateChange" /\ bound /\ toServer' = Tail(toServer)
        /\ UNCHANGED <<bound, link, toClient>>
    BY DEF TakeStateChange
  <1>3. /\ conn'.online <=> "online" \in m.state
        /\ conn'.socket = conn.socket /\ conn'.currentRequest = conn.currentRequest
        /\ conn'.zeroTimers = conn.zeroTimers
    BY <1>0, StateTaken DEF TypeOK
  <1> HIDE DEF m
  <1>4. "online" \in m.state
    BY <1>1, <1>2 DEF ManagedInv, SaysOnline, DeclaresOnline
  <1>5. conn.socket # "none"
    BY <1>2 DEF LinkInv
  <1>6. SeatIsKept'
    BY <1>3, <1>4, <1>5 DEF SeatIsKept
  <1> DEFINE r == conn.currentRequest
  <1>7. Answered(toServer, r) => Answered(Tail(toServer), r) \/ m.kind \in {"reply", "giveUp"}
    BY <1>1, AnsweredBehind DEF m
  <1>8. Answered(toServer, r) => Answered(toServer', r)
    BY <1>2, <1>7
  <1>9. IsWaiting
    BY DEF ManagedInv
  <1>12. /\ AsksLast(toClient, r) => AsksLast(toClient', r)
         /\ Asks(toClient') => Asks(toClient)
    BY <1>2
  <1>10. IsWaiting'
    BY <1>2, <1>3, <1>8, <1>9, <1>12, WaitingKeeps
  <1>11. SaysOnline'
    BY <1>2, OnlineLeft
  <1> QED
    BY <1>6, <1>10, <1>11 DEF ManagedInv


LEMMA ManagedInit == Init /\ StateKnown = TRUE => ManagedInv
  <1> SUFFICES ASSUME Init, StateKnown = TRUE PROVE ManagedInv
    OBVIOUS
  <1>1. /\ conn.socket = "up" /\ conn.online /\ conn.currentRequest = Invalid
        /\ client.state = {"online"}
    BY Starts
  <1>2. toServer = <<>> /\ trusted = FALSE /\ toClient = <<NotifyRoundStart>>
    BY DEF Init
  <1>3. DeclaresOnline(toServer)
    BY <1>2 DEF DeclaresOnline
  <1>4. TellsOnline(toClient)
    BY <1>2, PlainMessages DEF Plain
  <1> QED
    BY <1>1, <1>2, <1>3, <1>4 DEF ManagedInv, SaysOnline, SeatIsKept, IsWaiting

\* The connection to the client goes, what the server has stays.
LEMMA ManagedLost ==
    ASSUME LinkInv, ManagedInv, UNCHANGED <<conn, trusted, client>>,
           link' = "cut" \/ ~bound',
           \/ Lost
           \/ /\ UNCHANGED toClient
              /\ \/ UNCHANGED toServer
                 \/ toServer # <<>> /\ toServer' = Tail(toServer)
    PROVE  ManagedInv'
  <1>1. SaysOnline'
    BY OnlineLeft
  <1> QED
    BY <1>1 DEF ManagedInv, SeatIsKept, IsWaiting

LEMMA ManagedStep == LinkInv /\ ManagedInv /\ [Next]_vars => ManagedInv'
  <1> SUFFICES ASSUME LinkInv, ManagedInv, [Next]_vars PROVE ManagedInv'
    OBVIOUS
  <1> USE DEF roomVars, serverVars, wires, counters
  <1>0. /\ conn \in Connections /\ conn = Quiet(conn)
        /\ bound => link # "open" \/ conn.socket = "up"
    BY DEF LinkInv, TypeOK
  <1>s. /\ \A m \in ToClient : <<m>> \in Seq(ToClient)
        /\ \A m, n \in ToClient : <<m, n>> \in Seq(ToClient)
    BY Few
  <1>1. CASE RoomAsks
    BY <1>1, ManagedAsks
  <1>2. CASE RoomResult \/ RoundOver \/ (UpgradeResult /\ NextRound) \/ AgentStateChanged
    <2>1. UNCHANGED <<conn, trusted, bound, link, toServer, client>>
      BY <1>2 DEF RoomResult, RoundOver, NextRound, AgentStateChanged
    <2>2. PICK p \in Seq(ToClient) :
             Plain(p) /\ (toClient' = toClient \/ toClient' = Sent(p))
      <3>1. <<Event("result")>> \in Seq(ToClient) /\ Plain(<<Event("result")>>)
        BY <1>s, Sendable, PlainMessages
      <3>2. CASE RoomResult
        BY <3>1, <3>2 DEF RoomResult
      <3>3. CASE RoundOver
        BY <3>1, <3>3 DEF RoundOver
      <3>4. CASE NextRound
        <4>1. /\ <<Event("upgrade"), NotifyRoundStart>> \in Seq(ToClient)
              /\ Plain(<<Event("upgrade"), NotifyRoundStart>>)
          BY <1>s, Sendable, PlainMessages
        <4> QED
          BY <3>4, <4>1 DEF NextRound
      <3>5. CASE AgentStateChanged
        <4>1. peer' \in {"online", "away"}
          BY <3>5 DEF AgentStateChanged
        <4>2. /\ <<NotifyAgentStateChanged(peer')>> \in Seq(ToClient)
              /\ Plain(<<NotifyAgentStateChanged(peer')>>)
          BY <1>s, <4>1, Sendable, PlainMessages
        <4> QED
          BY <3>5, <4>2 DEF AgentStateChanged
      <3> QED
        BY <1>2, <3>2, <3>3, <3>4, <3>5
    <2> QED
      BY <2>1, <2>2, ManagedSends
  <1>3. CASE UpgradeResult /\ GameOver
    <2>1. /\ conn' = NoConnection /\ trusted' = FALSE /\ bound' = FALSE
          /\ toClient' = Sent(<<NotifyGameOver>>) /\ UNCHANGED <<toServer, client>>
      BY <1>3 DEF GameOver
    <2>2. /\ ~conn'.online /\ conn'.socket = "none" /\ conn'.currentRequest = Invalid
      BY <2>1 DEF NoConnection
    <2>3. <<NotifyGameOver>> \in Seq(ToClient)
      BY <1>s, Sendable
    <2> DEFINE p == <<NotifyGameOver>>
    <2>4. TellsOnline(p)
      <3>1. NotifyGameOver.kind # "playerAdded"
        BY DEF NotifyGameOver
      <3> HIDE DEF NotifyGameOver
      <3>2. \A i \in DOMAIN p : p[i] = NotifyGameOver
        OBVIOUS
      <3> HIDE DEF p
      <3> QED
        BY <3>1, <3>2 DEF TellsOnline
    <2>5. toClient \in Seq(ToClient) /\ SaysOnline
      BY DEF LinkInv, ManagedInv
    <2> HIDE DEF p
    <2>6. toClient' = toClient \/ toClient' = toClient \o p
      BY <2>1, <2>3, SentTo DEF p
    <2>7. TellsOnline(toClient \o p)
      BY <2>3, <2>4, <2>5, OnlineBehind DEF SaysOnline, p
    <2>8. TellsOnline(toClient')
      BY <2>5, <2>6, <2>7 DEF SaysOnline
    <2>9. SaysOnline'
      BY <2>1, <2>5, <2>8 DEF SaysOnline
    <2> QED
      BY <2>1, <2>2, <2>9 DEF ManagedInv, SeatIsKept, IsWaiting
  <1>4. CASE Cut \/ SignInDeadline
    <2>1. UNCHANGED <<conn, trusted, client>> /\ Lost /\ link' = "cut"
      BY <1>4 DEF Cut, SignInDeadline, Lost
    <2> QED
      BY <2>1, ManagedLost
  <1>5. CASE ServerTakes
    <2> DEFINE m == Head(toServer)
    <2>1. toServer # <<>> /\ UNCHANGED client
      BY <1>5 DEF ServerTakes
    <2> HIDE DEF m
    <2>2. CASE TakeSignIn(m)
      <3>1. m.kind = "signIn" /\ ((~conn.online /\ SeatFound(m.seq)) \/ SeatNotFound)
        BY <2>2 DEF TakeSignIn
      <3>2. CASE ~conn.online /\ SeatFound(m.seq)
        BY <2>1, <3>1, <3>2, ManagedSeat DEF m
      <3>3. CASE SeatNotFound
        <4>1. Lost /\ link' = "cut" /\ UNCHANGED <<conn, trusted>>
          BY <3>3 DEF SeatNotFound, Lost
        <4> QED
          BY <2>1, <4>1, ManagedLost
      <3> QED
        BY <3>1, <3>2, <3>3
    <2>3. CASE TakeTooEarly(m)
      <3>1. /\ ~bound' /\ UNCHANGED <<conn, trusted>>
            /\ Lost \/ (UNCHANGED toClient /\ toServer' = Tail(toServer))
        BY <2>3 DEF TakeTooEarly
      <3> QED
        BY <2>1, <3>1, ManagedLost
    <2>4. CASE TakeReply(m)
      <3>1. PICK d : /\ Settles(conn, d) /\ ConnBecomes(d)
                     /\ Lost \/ (toServer' = Tail(toServer) /\ UNCHANGED toClient)
        <4>1. CASE m.request # conn.currentRequest
          <5>1. ConnBecomes(AbnormalPacket(conn, FALSE)) /\ Lost
            BY <2>4, <4>1 DEF TakeReply
          <5>2. Settles(conn, AbnormalPacket(conn, FALSE))
            BY <1>0, HandlersSettle
          <5> QED
            BY <5>1, <5>2
        <4>2. CASE m.request = conn.currentRequest
          <5>1. PICK d \in {Answer(conn), Refusal(conn)} : ConnBecomes(d)
            BY <2>4, <4>2 DEF TakeReply
          <5>2. m.request \in RequestIds
            <6>1. m \in Client!ToServer
              BY <2>1, HeadOfServer DEF m
            <6> QED
              BY <2>4, <6>1, Messages DEF TakeReply, Client!ToServer
          <5>3. conn.currentRequest # Invalid
            BY <4>2, <5>2, Messages
          <5>4. Settles(conn, d)
            BY <1>0, <5>3, HandlersSettle
          <5>5. toServer' = Tail(toServer) /\ UNCHANGED <<link, toClient>>
            BY <2>4, <4>2 DEF TakeReply
          <5> QED
            BY <5>1, <5>4, <5>5
        <4> QED
          BY <4>1, <4>2
      <3>2. SeatIsKept' /\ IsWaiting'
        BY <3>1, ManagedBecomes
      <3>3. SaysOnline'
        BY <2>1, <3>1, OnlineLeft
      <3> QED
        BY <3>2, <3>3 DEF ManagedInv
    <2>5. CASE TakeStateChange(m)
      BY <2>1, <2>5, ManagedDeclared DEF m
    <2> QED
      BY <1>5, <2>2, <2>3, <2>4, <2>5 DEF ServerTakes, m
  <1>6. CASE SocketDisconnected \/ RequestTimer \/ HeartbeatDeadline \/ ZeroTimer
    <2>1. PICK d : Settles(conn, d) /\ ConnBecomes(d) /\ UNCHANGED client
                   /\ (UNCHANGED <<link, toClient, toServer>> \/ Lost)
      <3>1. CASE SocketDisconnected
        BY <1>0, <3>1, HandlersSettle DEF SocketDisconnected
      <3>2. CASE RequestTimer
        BY <1>0, <3>2, HandlersSettle DEF RequestTimer, GivesUp
      <3>3. CASE HeartbeatDeadline
        BY <1>0, <3>3, HandlersSettle DEF HeartbeatDeadline, GivesUp
      <3>4. CASE ZeroTimer
        BY <1>0, <3>4, HandlersSettle DEF ZeroTimer, GivesUp
      <3> QED
        BY <1>6, <3>1, <3>2, <3>3, <3>4
    <2>2. SeatIsKept' /\ IsWaiting'
      BY <2>1, ManagedBecomes
    <2>3. SaysOnline'
      BY <2>1, OnlineLeft
    <2> QED
      BY <2>2, <2>3 DEF ManagedInv
  <1>7. CASE \/ ClientTakes \/ SocketGone \/ Heartbeat
             \/ PongDeadline /\ ~client'.socket
             \/ PlayerReplies \/ PlayerManaged
    <2>1. \E d, coming : Steps(d, coming)
      BY <1>7, ClientActs
    <2> QED
      BY <2>1, ManagedSteps
  <1>8. CASE ReconnectTimer
    <2>1. /\ ~bound' /\ toServer' = <<>> /\ UNCHANGED <<conn, trusted>>
          /\ \/ toClient' = <<>>
             \/ \E compatible \in BOOLEAN : toClient' = <<Version(compatible)>>
      BY <1>8 DEF ReconnectTimer, ConnectionAttempt, Lost
    <2>2. client'.state = client.state
      BY <1>8 DEF ReconnectTimer, ConnectionAttempt, Client!ReconnectTimeout,
                  Client!ConnectSocket, LinkInv, TypeOK, Client!Clients
    <2>3. TellsOnline(toClient')
      <3>1. CASE toClient' = <<>>
        BY <3>1 DEF TellsOnline
      <3>2. CASE \E compatible \in BOOLEAN : toClient' = <<Version(compatible)>>
        <4>1. PICK compatible \in BOOLEAN : toClient' = <<Version(compatible)>>
          BY <3>2
        <4> DEFINE v == Version(compatible)
        <4>2. v.kind # "playerAdded" /\ toClient' = <<v>>
          BY <4>1 DEF Version
        <4> HIDE DEF v
        <4>3. \A i \in DOMAIN <<v>> : <<v>>[i] = v
          OBVIOUS
        <4> QED
          BY <4>2, <4>3 DEF TellsOnline
      <3> QED
        BY <2>1, <3>1, <3>2
    <2>4. SaysOnline'
      BY <2>1, <2>2, <2>3 DEF ManagedInv, SaysOnline, DeclaresOnline
    <2> QED
      BY <2>1, <2>4 DEF ManagedInv, SeatIsKept, IsWaiting
  <1>9. CASE PongDeadline /\ client'.socket
    <2>1. /\ client'.state = client.state /\ client'.currentRequest = client.currentRequest
          /\ UNCHANGED <<conn, trusted, bound, link, toClient, toServer>>
      BY <1>9, StandingWindow
    <2>2. \A r : Shows(client, r) => Shows(client', r)
      BY <2>1 DEF Shows
    <2> QED
      BY <2>1, <2>2 DEF ManagedInv, SaysOnline, SeatIsKept, IsWaiting, Waiting
  <1>10. CASE UNCHANGED vars
    <2>1. UNCHANGED <<conn, trusted, bound, link, toClient, toServer, client>>
      BY <1>10 DEF vars
    <2> QED
      BY <2>1 DEF ManagedInv, SaysOnline, SeatIsKept, IsWaiting, Waiting
  <1> QED
    BY <1>1, <1>2, <1>3, <1>4, <1>5, <1>6, <1>7, <1>8, <1>9, <1>10
       DEF Next, UpgradeResult

\* A player who has handed over is never waited for, once nothing is on its way
\* between the two ends: a request that was there before the hand-over, or that came
\* while the declaration was on its way, is given up, whatever connections were lost
\* and taken up again in between.  A client that starts without its own state does not
\* know whether it has handed over, and is not spoken of.
THEOREM SessionManagedIsAnsweredFor ==
    ASSUME StateKnown = TRUE
    PROVE  Spec => []ManagedIsAnsweredFor
  <1>1. LinkInv /\ ManagedInv => ManagedIsAnsweredFor
    <2> SUFFICES ASSUME ManagedInv, Settled, "managed" \in client.state,
                        conn.zeroTimers = 0, conn.currentRequest # Invalid
                 PROVE  FALSE
      BY DEF ManagedIsAnsweredFor
    <2>1. bound /\ link = "open" /\ toClient = <<>> /\ toServer = <<>>
      BY DEF Settled
    <2>2. Waiting(conn.currentRequest)
      BY <2>1 DEF ManagedInv, IsWaiting
    <2> QED
      BY <2>1, <2>2 DEF Waiting, AsksLast, Answered, Shows
  <1>2. Init => LinkInv /\ ManagedInv
    BY LinkInit, ManagedInit
  <1>3. LinkInv /\ ManagedInv /\ [Next]_vars => (LinkInv /\ ManagedInv)'
    BY LinkStep, ManagedStep
  <1> QED
    BY <1>1, <1>2, <1>3, PTL DEF Spec

-----------------------------------------------------------------------------
(* What a player who comes back has missed: the changes on a wire. *)

\* The first i messages of q, and those that are changes.
Upto(q, i) == [j \in 1..i |-> q[j]]

Changing == {m \in ToClient : IsChange(m)}

\* The changes among the first messages, as hits.
LEMMA ChangesAsHits ==
    ASSUME NEW q \in Seq(ToClient), NEW i \in 0..Len(q)
    PROVE  /\ Upto(q, i) \in Seq(ToClient)
           /\ ChangesIn(q, i) = HitCount(Upto(q, i), Changing)
  <1> DEFINE u == Upto(q, i)
  <1>1. i \in Nat /\ \A j \in 1..i : q[j] \in ToClient
    OBVIOUS
  <1>2. u \in [1..i -> ToClient]
    BY <1>1 DEF Upto
  <1>3. u \in Seq(ToClient) /\ DOMAIN u = 1..i /\ \A j \in 1..i : u[j] = q[j]
    BY <1>1, <1>2, TupleType DEF Upto
  <1> HIDE DEF u
  <1>4. Hits(u, Changing) = {j \in 1..i : IsChange(q[j])}
    BY <1>1, <1>3 DEF Hits, Changing
  <1> QED
    BY <1>3, <1>4 DEF HitCount, ChangesIn, u

\* They are no more than the messages, and no fewer than among fewer.
LEMMA ChangesType ==
    ASSUME NEW q \in Seq(ToClient)
    PROVE  /\ ChangesIn(q, 0) = 0
           /\ \A i \in 0..Len(q) : ChangesIn(q, i) \in 0..i
           /\ \A i \in 0..Len(q), k \in 0..Len(q) :
                 i <= k => ChangesIn(q, i) <= ChangesIn(q, k)
           /\ \A i \in 1..Len(q) : IsChange(q[i]) => ChangesIn(q, i) >= 1
  <1> DEFINE C(i) == {j \in 1..i : IsChange(q[j])}
  <1>1. \A i \in Nat : /\ IsFiniteSet(C(i)) /\ Cardinality(C(i)) \in Nat
                       /\ Cardinality(C(i)) <= i
    <2> SUFFICES ASSUME NEW i \in Nat
                 PROVE  /\ IsFiniteSet(C(i)) /\ Cardinality(C(i)) \in Nat
                        /\ Cardinality(C(i)) <= i
      OBVIOUS
    <2>1. IsFiniteSet(1..i) /\ Cardinality(1..i) = i
      BY FS_Interval
    <2>2. C(i) \in SUBSET (1..i)
      OBVIOUS
    <2> HIDE DEF C
    <2> QED
      BY <2>1, <2>2, FS_Subset, FS_CardinalityType
  <1>2. ASSUME NEW i \in Nat, NEW k \in Nat, i <= k
        PROVE  Cardinality(C(i)) <= Cardinality(C(k))
    <2>1. C(i) \in SUBSET C(k)
      BY <1>2
    <2> HIDE DEF C
    <2> QED
      BY <1>1, <2>1, FS_Subset
  <1>3. ASSUME NEW i \in Nat \ {0}, IsChange(q[i]) PROVE Cardinality(C(i)) >= 1
    <2>1. i \in C(i)
      BY <1>3
    <2> HIDE DEF C
    <2> QED
      BY <1>1, <2>1, FS_EmptySet
  <1>4. Cardinality(C(0)) = 0
    <2>1. C(0) = {}
      OBVIOUS
    <2> QED
      BY <2>1, FS_EmptySet
  <1>5. Len(q) \in Nat
    OBVIOUS
  <1> QED
    BY <1>1, <1>2, <1>3, <1>4, <1>5 DEF ChangesIn

\* What is behind q adds to what is in it.
LEMMA ChangesBehind ==
    ASSUME NEW q \in Seq(ToClient), NEW p \in Seq(ToClient)
    PROVE  /\ \A i \in 0..Len(q) : ChangesIn(q \o p, i) = ChangesIn(q, i)
           /\ \A i \in 0..Len(p) :
                 ChangesIn(q \o p, Len(q) + i)
                    = ChangesIn(q, Len(q)) + ChangesIn(p, i)
  <1> DEFINE a == q \o p
             n == Len(q)
  <1>1. /\ a \in Seq(ToClient) /\ Len(a) = n + Len(p) /\ n \in Nat /\ Len(p) \in Nat
        /\ \A j \in 1..n : a[j] = q[j]
        /\ \A j \in 1..Len(p) : a[n + j] = p[j]
    OBVIOUS
  <1> HIDE DEF a, n
  <1>2. ASSUME NEW i \in 0..n PROVE ChangesIn(a, i) = ChangesIn(q, i)
    <2>1. {j \in 1..i : IsChange(a[j])} = {j \in 1..i : IsChange(q[j])}
      BY <1>1
    <2> QED
      BY <2>1 DEF ChangesIn
  <1>3. ASSUME NEW i \in 0..Len(p)
        PROVE  ChangesIn(a, n + i) = ChangesIn(q, n) + ChangesIn(p, i)
    <2>1. /\ n \in 0..Len(q) /\ n + i \in 0..Len(a)
      BY <1>1 DEF n
    <2>2. /\ Upto(q, n) \in Seq(ToClient) /\ ChangesIn(q, n) = HitCount(Upto(q, n), Changing)
      BY <2>1, ChangesAsHits
    <2>3. /\ Upto(p, i) \in Seq(ToClient) /\ ChangesIn(p, i) = HitCount(Upto(p, i), Changing)
      BY ChangesAsHits
    <2>4. ChangesIn(a, n + i) = HitCount(Upto(a, n + i), Changing)
      BY <1>1, <2>1, ChangesAsHits
    <2>5. Upto(a, n + i) = Upto(q, n) \o Upto(p, i)
      <3> DEFINE u == Upto(q, n)
                 v == Upto(p, i)
                 w == u \o v
                 x == Upto(a, n + i)
      <3>1. /\ DOMAIN u = 1..n /\ DOMAIN v = 1..i /\ DOMAIN x = 1..(n + i)
            /\ \A j \in 1..n : u[j] = q[j]
            /\ \A j \in 1..i : v[j] = p[j]
            /\ \A j \in 1..(n + i) : x[j] = a[j]
        BY DEF Upto
      <3>2. u \in Seq(ToClient) /\ v \in Seq(ToClient) /\ x \in Seq(ToClient)
        BY <1>1, <2>1, <2>2, <2>3, ChangesAsHits
      <3>3. Len(u) = n /\ Len(v) = i /\ Len(x) = n + i
        <4> HIDE DEF u, v, x
        <4> QED
          BY <1>1, <3>1, <3>2
      <3> HIDE DEF u, v, x
      <3>4. /\ w \in Seq(ToClient) /\ Len(w) = n + i
            /\ \A j \in 1..n : w[j] = u[j]
            /\ \A j \in 1..i : w[n + j] = v[j]
        <4>1. /\ w \in Seq(ToClient) /\ Len(w) = Len(u) + Len(v)
              /\ DOMAIN u = 1..Len(u) /\ DOMAIN v = 1..Len(v)
          BY <3>2
        <4>2. /\ \A j \in DOMAIN u : w[j] = u[j]
              /\ \A j \in DOMAIN v : w[j + Len(u)] = v[j]
          BY <3>2, Behind
        <4> HIDE DEF w
        <4>3. \A j \in 1..i : j + n = n + j
          BY <1>1
        <4> QED
          BY <3>3, <4>1, <4>2, <4>3
      <3> HIDE DEF w
      <3>5. ASSUME NEW j \in 1..(n + i) PROVE w[j] = x[j]
        <4>1. CASE j \in 1..n
          BY <1>1, <3>1, <3>4, <4>1
        <4>2. CASE j \notin 1..n
          <5>1. j - n \in 1..i /\ n + (j - n) = j /\ j - n \in 1..Len(p)
            BY <1>1, <4>2
          <5>2. PICK k \in 1..i : j = n + k /\ k \in 1..Len(p)
            BY <5>1
          <5>3. w[n + k] = p[k]
            BY <3>1, <3>4
          <5>4. x[j] = a[n + k]
            BY <3>1, <5>2
          <5> QED
            BY <1>1, <5>2, <5>3, <5>4
        <4> QED
          BY <4>1, <4>2
      <3>6. w = x
        <4>1. w \in Seq(ToClient) /\ x \in Seq(ToClient) /\ Len(w) = Len(x)
          BY <3>2, <3>3, <3>4
        <4>2. \A j \in 1..Len(w) : w[j] = x[j]
          BY <3>4, <3>5
        <4> QED
          BY <4>1, <4>2
      <3> QED
        BY <3>6 DEF u, v, w, x
    <2>6. HitCount(Upto(q, n) \o Upto(p, i), Changing)
            = HitCount(Upto(q, n), Changing) + HitCount(Upto(p, i), Changing)
      BY <2>2, <2>3, HitsConcat
    <2> QED
      BY <2>2, <2>3, <2>4, <2>5, <2>6
  <1> QED
    BY <1>2, <1>3 DEF a, n

\* Once its head is taken, each of the others is one place further on.
LEMMA ChangesRemain ==
    ASSUME NEW q \in Seq(ToClient), q # <<>>
    PROVE  LET one == IF IsChange(Head(q)) THEN 1 ELSE 0 IN
           /\ Tail(q) \in Seq(ToClient) /\ Len(q) = Len(Tail(q)) + 1
           /\ \A i \in 0..Len(Tail(q)) :
                 ChangesIn(q, i + 1) = one + ChangesIn(Tail(q), i)
  <1> DEFINE h == <<Head(q)>>
             t == Tail(q)
  <1>1. /\ h \in Seq(ToClient) /\ t \in Seq(ToClient) /\ Len(h) = 1
        /\ h[1] = Head(q) /\ q = h \o t /\ Len(q) = Len(t) + 1 /\ Len(t) \in Nat
    OBVIOUS
  <1> HIDE DEF h, t
  <1>2. ChangesIn(h, 1) = IF IsChange(Head(q)) THEN 1 ELSE 0
    <2>1. {j \in 1..1 : IsChange(h[j])} = IF IsChange(Head(q)) THEN {1} ELSE {}
      BY <1>1
    <2> QED
      BY <2>1, FS_Singleton, FS_EmptySet DEF ChangesIn
  <1>3. ASSUME NEW i \in 0..Len(t)
        PROVE  ChangesIn(q, i + 1) = ChangesIn(h, 1) + ChangesIn(t, i)
    <2>1. ChangesIn(h \o t, Len(h) + i) = ChangesIn(h, Len(h)) + ChangesIn(t, i)
      BY <1>1, ChangesBehind
    <2>2. Len(h) + i = i + 1
      BY <1>1
    <2> QED
      BY <1>1, <2>1, <2>2
  <1> QED
    BY <1>1, <1>2, <1>3 DEF t

\* Messages of which none is a change, and of which all are.
LEMMA ChangesOfOneKind ==
    ASSUME NEW p \in Seq(ToClient)
    PROVE  /\ (\A i \in DOMAIN p : ~IsChange(p[i]))
                 => \A i \in 0..Len(p) : ChangesIn(p, i) = 0
           /\ (\A i \in DOMAIN p : IsChange(p[i]))
                 => \A i \in 0..Len(p) : ChangesIn(p, i) = i
  <1>1. DOMAIN p = 1..Len(p) /\ Len(p) \in Nat
    OBVIOUS
  <1>2. ASSUME \A i \in DOMAIN p : ~IsChange(p[i]), NEW i \in 0..Len(p)
        PROVE  ChangesIn(p, i) = 0
    <2>1. {j \in 1..i : IsChange(p[j])} = {}
      BY <1>1, <1>2
    <2> QED
      BY <2>1, FS_EmptySet DEF ChangesIn
  <1>3. ASSUME \A i \in DOMAIN p : IsChange(p[i]), NEW i \in 0..Len(p)
        PROVE  ChangesIn(p, i) = i
    <2>1. {j \in 1..i : IsChange(p[j])} = 1..i
      BY <1>1, <1>3
    <2>2. Cardinality(1..i) = i
      BY <1>1, FS_Interval
    <2> QED
      BY <2>1, <2>2 DEF ChangesIn
  <1> QED
    BY <1>2, <1>3

\* A prefix, element by element.
LEMMA PrefixMeans ==
    ASSUME NEW S, NEW s \in Seq(S), NEW t \in Seq(S)
    PROVE  IsPrefix(s, t) <=> /\ Len(s) <= Len(t)
                              /\ \A i \in DOMAIN s : s[i] = t[i]
  <1> DEFINE n == Len(s)
             a == SubSeq(s, 1, n)
             b == SubSeq(t, 1, n)
  <1>1. /\ n \in Nat /\ Len(t) \in Nat /\ DOMAIN s = 1..n
        /\ \A i \in 1..n : s[i] \in S
        /\ n <= Len(t) => \A i \in 1..n : t[i] \in S
    OBVIOUS
  <1>2. /\ a \in Seq(S) /\ Len(a) = n /\ \A i \in 1..n : a[i] = s[i]
    BY <1>1
  <1>3. ASSUME n <= Len(t)
        PROVE  /\ b \in Seq(S) /\ Len(b) = n /\ \A i \in 1..n : b[i] = t[i]
    BY <1>1, <1>3
  <1>4. IsPrefix(s, t) <=> n <= Len(t) /\ a = b
    BY DEF IsPrefix
  <1> HIDE DEF a, b, n
  <1>5. n <= Len(t) => (a = b <=> \A i \in 1..n : s[i] = t[i])
    BY <1>1, <1>2, <1>3
  <1> QED
    BY <1>1, <1>4, <1>5 DEF n

-----------------------------------------------------------------------------
(* What a player who comes back has missed: the mirror, the wire and the room. *)

\* The mirror m of a client that counts n, with the wire q to it, of a room with the
\* history h and the log l: the client is told of no more than there was, and counts
\* from no later round than the room's.
NeverAhead(m, n, q, h, l) ==
    /\ Len(m) + ChangesIn(q, Len(q)) <= Len(h)
    /\ Len(m) + Len(l) <= Len(h) + n
    /\ \A i \in DOMAIN q : q[i].kind = "roundStart" =>
          Len(m) + ChangesIn(q, i) + Len(l) <= Len(h)

\* A mirror that misses nothing before its end counts the events of its last round.
CountsItsRound(m, n, h) ==
    m # <<>> /\ IsPrefix(m, h) =>
       LET start == Len(m) - n IN
       /\ start \in DOMAIN m /\ m[start] = "roundStart"
       /\ \A i \in DOMAIN m : i > start => m[i] # "roundStart"

\* The log is what the room has been through since the round it plays began.
LogIsTheRound(h, l) ==
    LET start == Len(h) - Len(l) IN
    /\ start \in DOMAIN h /\ h[start] = "roundStart"
    /\ \A k \in DOMAIN l : h[start + k] = l[k]

\* The mirror, with what is on the wire, is the history: Caught.
Follows(m, q, h) ==
    /\ IsPrefix(m, h)
    /\ Len(h) = Len(m) + ChangesIn(q, Len(q))
    /\ \A i \in DOMAIN q : IsChange(q[i]) =>
          ChangeOf(q[i]) = h[Len(m) + ChangesIn(q, i)]

\* What is on a wire that goes on.
LEMMA WireGoesOn ==
    ASSUME NEW q \in Seq(ToClient), NEW p \in Seq(ToClient)
    PROVE  LET a == q \o p
               c == ChangesIn(q, Len(q)) IN
           /\ a \in Seq(ToClient) /\ c \in Nat
           /\ ChangesIn(a, Len(a)) = c + ChangesIn(p, Len(p))
           /\ \A i \in DOMAIN q : /\ i \in DOMAIN a /\ a[i] = q[i]
                                  /\ ChangesIn(a, i) = ChangesIn(q, i)
                                  /\ ChangesIn(q, i) \in 0..c
                                  /\ IsChange(q[i]) => ChangesIn(q, i) >= 1
           /\ \A i \in DOMAIN a :
                 \/ i \in DOMAIN q
                 \/ \E k \in DOMAIN p : /\ a[i] = p[k]
                                        /\ ChangesIn(a, i) = c + ChangesIn(p, k)
  <1> DEFINE a == q \o p
             n == Len(q)
             c == ChangesIn(q, n)
  <1>1. /\ a \in Seq(ToClient) /\ Len(a) = n + Len(p) /\ n \in Nat /\ Len(p) \in Nat
        /\ DOMAIN q = 1..n /\ DOMAIN p = 1..Len(p) /\ DOMAIN a = 1..(n + Len(p))
    OBVIOUS
  <1>2. /\ \A i \in DOMAIN q : i \in DOMAIN a /\ a[i] = q[i]
        /\ \A i \in DOMAIN p : i + n \in DOMAIN a /\ a[i + n] = p[i]
    BY Behind
  <1>3. /\ \A i \in 0..n : ChangesIn(a, i) = ChangesIn(q, i)
        /\ \A i \in 0..Len(p) : ChangesIn(a, n + i) = c + ChangesIn(p, i)
    BY ChangesBehind
  <1>4. /\ \A i \in 0..n : ChangesIn(q, i) \in 0..i /\ ChangesIn(q, i) <= c
        /\ \A i \in 1..n : IsChange(q[i]) => ChangesIn(q, i) >= 1
    BY <1>1, ChangesType
  <1> HIDE DEF a, n, c
  <1>5. c \in Nat
    BY <1>1, <1>4 DEF c
  <1>6. ASSUME NEW i \in DOMAIN q
        PROVE  /\ i \in DOMAIN a /\ a[i] = q[i] /\ ChangesIn(a, i) = ChangesIn(q, i)
               /\ ChangesIn(q, i) \in 0..c
               /\ IsChange(q[i]) => ChangesIn(q, i) >= 1
    BY <1>1, <1>2, <1>3, <1>4, <1>5
  <1>7. ASSUME NEW i \in DOMAIN a, i \notin DOMAIN q
        PROVE  \E k \in DOMAIN p : a[i] = p[k] /\ ChangesIn(a, i) = c + ChangesIn(p, k)
    <2>1. PICK k \in DOMAIN p : i = n + k /\ i = k + n /\ k \in 0..Len(p)
      <3>1. i - n \in DOMAIN p /\ i = n + (i - n) /\ i = (i - n) + n /\ i - n \in 0..Len(p)
        BY <1>1, <1>7
      <3> QED
        BY <3>1
    <2> QED
      BY <1>2, <1>3, <2>1
  <1>8. ChangesIn(a, Len(a)) = c + ChangesIn(p, Len(p))
    BY <1>1, <1>3
  <1> QED
    BY <1>1, <1>5, <1>6, <1>7, <1>8 DEF a, n, c

\* The sequences of the lemmas below.
Told(m, n, q, h, l) ==
    /\ m \in Seq(Client!Changes) /\ h \in Seq(Client!Changes) /\ n \in Nat
    /\ l \in Seq(Client!RoundEvents) /\ q \in Seq(ToClient)

\* What is no change is sent.
LEMMA OthersSent ==
    ASSUME NEW m, NEW n, NEW q, NEW h, NEW l, Told(m, n, q, h, l),
           NEW p \in Seq(ToClient), \A i \in DOMAIN p : ~IsChange(p[i])
    PROVE  /\ NeverAhead(m, n, q, h, l) => NeverAhead(m, n, q \o p, h, l)
           /\ Follows(m, q, h) => Follows(m, q \o p, h)
  <1> DEFINE a == q \o p
             c == ChangesIn(q, Len(q))
  <1>0. /\ q \in Seq(ToClient) /\ Len(m) \in Nat /\ Len(h) \in Nat /\ Len(l) \in Nat
        /\ Len(p) \in Nat /\ DOMAIN p = 1..Len(p)
    BY DEF Told
  <1>1. \A i \in 0..Len(p) : ChangesIn(p, i) = 0
    BY ChangesOfOneKind
  <1>2. /\ a \in Seq(ToClient) /\ c \in Nat
        /\ ChangesIn(a, Len(a)) = c + ChangesIn(p, Len(p))
        /\ \A i \in DOMAIN q : /\ i \in DOMAIN a /\ a[i] = q[i]
                               /\ ChangesIn(a, i) = ChangesIn(q, i)
        /\ \A i \in DOMAIN a :
              \/ i \in DOMAIN q
              \/ \E k \in DOMAIN p : /\ a[i] = p[k]
                                     /\ ChangesIn(a, i) = c + ChangesIn(p, k)
    BY <1>0, WireGoesOn
  <1> HIDE DEF a, c
  <1>3. ChangesIn(a, Len(a)) = ChangesIn(q, Len(q))
    <2>1. ChangesIn(p, Len(p)) = 0
      BY <1>0, <1>1
    <2> QED
      BY <1>2, <2>1 DEF c
  <1>4. \A i \in DOMAIN a : IsChange(a[i]) =>
           i \in DOMAIN q /\ a[i] = q[i] /\ ChangesIn(a, i) = ChangesIn(q, i)
    BY <1>2
  <1>5. \A i \in DOMAIN a : a[i].kind = "roundStart" => IsChange(a[i])
    BY DEF IsChange
  <1>6. ASSUME NeverAhead(m, n, q, h, l) PROVE NeverAhead(m, n, a, h, l)
    BY <1>3, <1>4, <1>5, <1>6 DEF NeverAhead
  <1>7. ASSUME Follows(m, q, h) PROVE Follows(m, a, h)
    BY <1>3, <1>4, <1>7 DEF Follows
  <1> QED
    BY <1>6, <1>7 DEF a

\* What is on the wire is lost.
LEMMA WireLost ==
    ASSUME NEW m, NEW n, NEW q, NEW h, NEW l, Told(m, n, q, h, l),
           NeverAhead(m, n, q, h, l)
    PROVE  NeverAhead(m, n, <<>>, h, l)
  <1> DEFINE e == <<>>
  <1>1. e \in Seq(ToClient) /\ Len(e) = 0 /\ DOMAIN e = {}
    OBVIOUS
  <1> HIDE DEF e
  <1>2. ChangesIn(e, Len(e)) = 0
    BY <1>1, ChangesType
  <1>3. ChangesIn(q, Len(q)) \in Nat /\ Len(m) \in Nat /\ Len(h) \in Nat
    <2>1. q \in Seq(ToClient) /\ Len(q) \in 0..Len(q)
      BY DEF Told
    <2> QED
      BY <2>1, ChangesType DEF Told
  <1>4. Len(m) <= Len(h) /\ Len(m) + Len(l) <= Len(h) + n
    BY <1>3 DEF NeverAhead
  <1>5. Len(m) + ChangesIn(e, Len(e)) <= Len(h)
    BY <1>2, <1>3, <1>4
  <1>6. NeverAhead(m, n, e, h, l)
    BY <1>1, <1>4, <1>5 DEF NeverAhead
  <1> QED
    BY <1>6 DEF e

\* The log is dropped.
LEMMA LogDropped ==
    ASSUME NEW m, NEW n, NEW q, NEW h, NEW l, Told(m, n, q, h, l),
           NeverAhead(m, n, q, h, l)
    PROVE  NeverAhead(m, n, q, h, <<>>)
  <1> DEFINE e == <<>>
  <1>1. Len(e) = 0
    OBVIOUS
  <1> HIDE DEF e
  <1>2. /\ q \in Seq(ToClient) /\ Len(m) \in Nat /\ Len(h) \in Nat /\ Len(l) \in Nat
        /\ n \in Nat /\ Len(q) \in Nat /\ DOMAIN q = 1..Len(q)
    BY DEF Told
  <1>3. \A i \in DOMAIN q : ChangesIn(q, i) \in Nat
    BY <1>2, ChangesType
  <1>4. Len(m) + Len(e) <= Len(h) + n
    BY <1>1, <1>2 DEF NeverAhead
  <1>5. ASSUME NEW i \in DOMAIN q, q[i].kind = "roundStart"
        PROVE  Len(m) + ChangesIn(q, i) + Len(e) <= Len(h)
    <2>1. Len(m) + ChangesIn(q, i) + Len(l) <= Len(h)
      BY <1>5 DEF NeverAhead
    <2> QED
      BY <1>1, <1>2, <1>3, <2>1
  <1>6. NeverAhead(m, n, q, h, e)
    BY <1>4, <1>5 DEF NeverAhead
  <1> QED
    BY <1>6 DEF e

\* A prefix of a history that goes on is one of what it was, or longer than that.
LEMMA HistoryGrows ==
    ASSUME NEW m \in Seq(Client!Changes), NEW h \in Seq(Client!Changes),
           NEW e \in Seq(Client!Changes)
    PROVE  /\ h \o e \in Seq(Client!Changes) /\ Len(h \o e) = Len(h) + Len(e)
           /\ \A i \in DOMAIN h : (h \o e)[i] = h[i]
           /\ \A i \in DOMAIN e : (h \o e)[Len(h) + i] = e[i]
           /\ IsPrefix(m, h) => IsPrefix(m, h \o e)
           /\ Len(m) <= Len(h) =>
                 \A n : CountsItsRound(m, n, h) => CountsItsRound(m, n, h \o e)
  <1> DEFINE g == h \o e
  <1>1. /\ g \in Seq(Client!Changes) /\ Len(g) = Len(h) + Len(e)
        /\ Len(h) \in Nat /\ Len(e) \in Nat /\ Len(m) \in Nat
        /\ DOMAIN m = 1..Len(m) /\ DOMAIN h = 1..Len(h)
        /\ \A i \in DOMAIN h : g[i] = h[i]
        /\ \A i \in DOMAIN e : i \in Nat /\ Len(h) + i = i + Len(h)
    OBVIOUS
  <1>2. \A i \in DOMAIN e : g[Len(h) + i] = e[i]
    BY <1>1, Behind
  <1> HIDE DEF g
  <1>3. Len(m) <= Len(h) => (IsPrefix(m, h) <=> IsPrefix(m, g))
    <2>1. ASSUME Len(m) <= Len(h)
          PROVE  Len(m) <= Len(g) /\ \A i \in DOMAIN m : g[i] = h[i]
      BY <1>1, <2>1
    <2> QED
      BY <1>1, <2>1, PrefixMeans
  <1>4. IsPrefix(m, h) => Len(m) <= Len(h)
    BY PrefixMeans
  <1> QED
    BY <1>1, <1>2, <1>3, <1>4 DEF CountsItsRound, g

\* The room goes through e, which is sent as p, or to nobody; and has the log k then.
LEMMA ChangesSent ==
    ASSUME NEW m, NEW n, NEW q, NEW h, NEW l, Told(m, n, q, h, l),
           NEW p \in Seq(ToClient), NEW e \in Seq(Client!Changes),
           Len(p) = Len(e),
           \A i \in DOMAIN p : IsChange(p[i]) /\ ChangeOf(p[i]) = e[i],
           NEW k \in Seq(Client!RoundEvents), Len(k) <= Len(l) + Len(e),
           \A i \in DOMAIN p :
              p[i].kind = "roundStart" => i + Len(k) <= Len(e)
    PROVE  /\ NeverAhead(m, n, q, h, l) =>
                 /\ NeverAhead(m, n, q, h \o e, k)
                 /\ NeverAhead(m, n, q \o p, h \o e, k)
           /\ Follows(m, q, h) => Follows(m, q \o p, h \o e)
  <1> DEFINE a == q \o p
             g == h \o e
             c == ChangesIn(q, Len(q))
  <1>0. /\ q \in Seq(ToClient) /\ Len(m) \in Nat /\ Len(h) \in Nat /\ Len(l) \in Nat
        /\ Len(p) \in Nat /\ DOMAIN p = 1..Len(p) /\ n \in Nat /\ Len(e) \in Nat
        /\ Len(k) \in Nat /\ h \in Seq(Client!Changes) /\ m \in Seq(Client!Changes)
        /\ DOMAIN h = 1..Len(h) /\ DOMAIN e = 1..Len(e)
    BY DEF Told
  <1>1. \A i \in 0..Len(p) : ChangesIn(p, i) = i
    BY ChangesOfOneKind
  <1>2. /\ a \in Seq(ToClient) /\ c \in Nat
        /\ ChangesIn(a, Len(a)) = c + ChangesIn(p, Len(p))
        /\ \A i \in DOMAIN q : /\ i \in DOMAIN a /\ a[i] = q[i]
                               /\ ChangesIn(a, i) = ChangesIn(q, i)
                               /\ ChangesIn(q, i) \in 0..c
                               /\ IsChange(q[i]) => ChangesIn(q, i) >= 1
        /\ \A i \in DOMAIN a :
              \/ i \in DOMAIN q
              \/ \E j \in DOMAIN p : /\ a[i] = p[j]
                                     /\ ChangesIn(a, i) = c + ChangesIn(p, j)
    BY <1>0, WireGoesOn
  <1>3. /\ g \in Seq(Client!Changes) /\ Len(g) = Len(h) + Len(e)
        /\ \A i \in DOMAIN h : g[i] = h[i]
        /\ \A i \in DOMAIN e : g[Len(h) + i] = e[i]
        /\ IsPrefix(m, h) => IsPrefix(m, g)
        /\ Len(m) <= Len(h) =>
              \A x : CountsItsRound(m, x, h) => CountsItsRound(m, x, g)
    BY <1>0, HistoryGrows
  <1> HIDE DEF a, g
  <1>4. ChangesIn(a, Len(a)) = c + Len(e)
    <2>1. Len(p) \in 0..Len(p)
      BY <1>0
    <2>2. ChangesIn(p, Len(p)) = Len(e)
      BY <1>1, <2>1
    <2> QED
      BY <1>2, <2>2
  <1>5. ASSUME NEW i \in DOMAIN a, i \notin DOMAIN q
        PROVE  \E j \in DOMAIN p : a[i] = p[j] /\ ChangesIn(a, i) = c + j
    BY <1>0, <1>1, <1>2, <1>5
  <1> HIDE DEF c
  <1>6. ASSUME NeverAhead(m, n, q, h, l)
        PROVE  NeverAhead(m, n, q, g, k) /\ NeverAhead(m, n, a, g, k)
    <2>1. Len(m) + c <= Len(h) /\ Len(m) + Len(l) <= Len(h) + n
      BY <1>6 DEF NeverAhead, c
    <2>2. Len(m) + c <= Len(g) /\ Len(m) + ChangesIn(a, Len(a)) <= Len(g)
      BY <1>0, <1>2, <1>3, <1>4, <2>1
    <2>3. Len(m) + Len(k) <= Len(g) + n
      BY <1>0, <1>3, <2>1
    <2>4. ASSUME NEW i \in DOMAIN q, q[i].kind = "roundStart"
          PROVE  Len(m) + ChangesIn(q, i) + Len(k) <= Len(g)
      <3>1. Len(m) + ChangesIn(q, i) + Len(l) <= Len(h) /\ ChangesIn(q, i) \in Nat
        BY <1>2, <1>6, <2>4 DEF NeverAhead
      <3> QED
        BY <1>0, <1>3, <3>1
    <2>5. ASSUME NEW i \in DOMAIN a, a[i].kind = "roundStart"
          PROVE  Len(m) + ChangesIn(a, i) + Len(k) <= Len(g)
      <3>1. CASE i \in DOMAIN q
        BY <1>2, <2>4, <2>5, <3>1
      <3>2. CASE i \notin DOMAIN q
        <4>1. PICK j \in DOMAIN p : a[i] = p[j] /\ ChangesIn(a, i) = c + j
          BY <1>5, <3>2
        <4>2. j + Len(k) <= Len(e) /\ j \in Nat
          BY <1>0, <2>5, <4>1
        <4>3. /\ Len(m) \in Nat /\ Len(h) \in Nat /\ Len(e) \in Nat
              /\ Len(k) \in Nat /\ c \in Nat /\ Len(g) = Len(h) + Len(e)
          BY <1>0, <1>2, <1>3
        <4>4. Len(m) + (c + j) + Len(k) <= Len(g)
          BY <2>1, <4>2, <4>3
        <4> QED
          BY <4>1, <4>4
      <3> QED
        BY <3>1, <3>2
    <2> QED
      BY <2>2, <2>3, <2>4, <2>5 DEF NeverAhead, c
  <1>7. ASSUME Follows(m, q, h) PROVE Follows(m, a, g)
    <2>1. IsPrefix(m, g) /\ Len(h) = Len(m) + c
      BY <1>3, <1>7 DEF Follows, c
    <2>2. Len(g) = Len(m) + ChangesIn(a, Len(a))
      BY <1>0, <1>2, <1>3, <1>4, <2>1
    <2>3. ASSUME NEW i \in DOMAIN a, IsChange(a[i])
          PROVE  ChangeOf(a[i]) = g[Len(m) + ChangesIn(a, i)]
      <3>1. CASE i \in DOMAIN q
        <4>1. /\ a[i] = q[i] /\ ChangesIn(a, i) = ChangesIn(q, i)
              /\ ChangesIn(q, i) \in 0..c /\ ChangesIn(q, i) >= 1
          BY <1>2, <2>3, <3>1
        <4>2. ChangeOf(q[i]) = h[Len(m) + ChangesIn(q, i)]
          BY <1>7, <2>3, <3>1, <4>1 DEF Follows
        <4>3. Len(m) + ChangesIn(q, i) \in DOMAIN h
          BY <1>0, <1>2, <2>1, <4>1
        <4> QED
          BY <1>3, <4>1, <4>2, <4>3
      <3>2. CASE i \notin DOMAIN q
        <4>1. PICK j \in DOMAIN p : a[i] = p[j] /\ ChangesIn(a, i) = c + j
          BY <1>5, <3>2
        <4>2. j \in DOMAIN e /\ j \in Nat
          BY <1>0
        <4>3. Len(m) + ChangesIn(a, i) = Len(h) + j
          BY <1>0, <1>2, <2>1, <4>1, <4>2
        <4>4. g[Len(h) + j] = e[j]
          BY <1>3, <4>2
        <4>5. ChangeOf(a[i]) = e[j]
          BY <4>1
        <4> QED
          BY <4>3, <4>4, <4>5
      <3> QED
        BY <3>1, <3>2
    <2> QED
      BY <2>1, <2>2, <2>3 DEF Follows
  <1> QED
    BY <1>6, <1>7 DEF a, g

\* The mirror of a client that takes a change, and its count.
LEMMA MirrorGrows ==
    ASSUME NEW m \in Seq(Client!Changes), NEW h \in Seq(Client!Changes),
           NEW x \in Client!Changes, NEW n \in Nat,
           h # <<>>, h[1] = "roundStart", CountsItsRound(m, n, h)
    PROVE  /\ Append(m, x) \in Seq(Client!Changes) /\ Len(Append(m, x)) = Len(m) + 1
           /\ IsPrefix(Append(m, x), h)
                <=> IsPrefix(m, h) /\ Len(m) < Len(h) /\ h[Len(m) + 1] = x
           /\ CountsItsRound(Append(m, x),
                             IF x = "roundStart" THEN 0 ELSE n + 1, h)
  <1> DEFINE a == Append(m, x)
             c == IF x = "roundStart" THEN 0 ELSE n + 1
  <1>1. /\ a \in Seq(Client!Changes) /\ Len(a) = Len(m) + 1 /\ a # <<>>
        /\ DOMAIN m = 1..Len(m) /\ DOMAIN a = 1..(Len(m) + 1)
        /\ Len(m) \in Nat /\ Len(h) \in Nat
        /\ \A i \in DOMAIN m : a[i] = m[i]
        /\ a[Len(m) + 1] = x
        /\ m = <<>> <=> Len(m) = 0
    OBVIOUS
  <1> HIDE DEF a
  <1>2. IsPrefix(a, h) <=> IsPrefix(m, h) /\ Len(m) < Len(h) /\ h[Len(m) + 1] = x
    <2>0. IsPrefix(m, h) <=> /\ Len(m) <= Len(h)
                             /\ \A i \in DOMAIN m : m[i] = h[i]
      BY PrefixMeans
    <2>1. IsPrefix(a, h) <=> /\ Len(a) <= Len(h)
                             /\ \A i \in DOMAIN a : a[i] = h[i]
      BY <1>1, PrefixMeans
    <2>2. Len(a) <= Len(h) <=> Len(m) < Len(h)
      BY <1>1
    <2>3. (\A i \in DOMAIN a : a[i] = h[i])
            <=> (\A i \in DOMAIN m : m[i] = h[i]) /\ h[Len(m) + 1] = x
      <3>1. \A i \in DOMAIN a : i \in DOMAIN m \/ i = Len(m) + 1
        BY <1>1
      <3>2. \A i \in DOMAIN m : i \in DOMAIN a
        BY <1>1
      <3>3. Len(m) + 1 \in DOMAIN a
        BY <1>1
      <3> QED
        BY <1>1, <3>1, <3>2, <3>3
    <2> QED
      BY <1>1, <2>0, <2>1, <2>2, <2>3
  <1>3. ASSUME IsPrefix(a, h)
        PROVE  /\ Len(a) - c \in DOMAIN a /\ a[Len(a) - c] = "roundStart"
               /\ \A i \in DOMAIN a : i > Len(a) - c => a[i] # "roundStart"
    <2>1. CASE x = "roundStart"
      BY <1>1, <2>1
    <2>2. CASE x # "roundStart"
      <3>1. m # <<>>
        BY <1>1, <1>2, <1>3, <2>2
      <3> DEFINE start == Len(m) - n
      <3>2. /\ start \in DOMAIN m /\ m[start] = "roundStart"
            /\ \A i \in DOMAIN m : i > start => m[i] # "roundStart"
        BY <1>2, <1>3, <3>1 DEF CountsItsRound
      <3>3. Len(a) - c = start
        BY <1>1, <2>2
      <3> HIDE DEF start
      <3>4. start \in DOMAIN a /\ a[start] = "roundStart"
        BY <1>1, <3>2
      <3>5. ASSUME NEW i \in DOMAIN a, i > start PROVE a[i] # "roundStart"
        <4>1. i \in DOMAIN m \/ i = Len(m) + 1
          BY <1>1
        <4> QED
          BY <1>1, <2>2, <3>2, <3>5, <4>1
      <3> QED
        BY <3>3, <3>4, <3>5
    <2> QED
      BY <2>1, <2>2
  <1>4. CountsItsRound(a, c, h)
    BY <1>3 DEF CountsItsRound
  <1> QED
    BY <1>1, <1>2, <1>4 DEF a

\* A message is read: a change is applied and counted, another changes no mirror.
LEMMA WireRead ==
    ASSUME NEW m, NEW n, NEW q, NEW h, NEW l, Told(m, n, q, h, l), q # <<>>
    PROVE  LET x == Head(q)
               t == Tail(q)
               y == ChangeOf(x)
               k == IF y = "roundStart" THEN 0 ELSE n + 1 IN
           /\ x \in ToClient /\ t \in Seq(ToClient)
           /\ ~IsChange(x) =>
                 /\ NeverAhead(m, n, q, h, l) => NeverAhead(m, n, t, h, l)
                 /\ Follows(m, q, h) => Follows(m, t, h)
           /\ IsChange(x) =>
                 /\ y \in Client!Changes
                 /\ x.kind = "roundStart" <=> y = "roundStart"
                 /\ NeverAhead(m, n, q, h, l)
                       => NeverAhead(Append(m, y), k, t, h, l)
                 /\ h # <<>> /\ h[1] = "roundStart" /\ Follows(m, q, h)
                       => Follows(Append(m, y), t, h)
  <1> DEFINE x == Head(q)
             t == Tail(q)
             y == ChangeOf(x)
             k == IF y = "roundStart" THEN 0 ELSE n + 1
             a == Append(m, y)
             one == IF IsChange(x) THEN 1 ELSE 0
  <1>0. /\ q \in Seq(ToClient) /\ Len(m) \in Nat /\ Len(h) \in Nat /\ Len(l) \in Nat
        /\ n \in Nat /\ h \in Seq(Client!Changes) /\ m \in Seq(Client!Changes)
    BY DEF Told
  <1>1. x \in ToClient
    BY <1>0
  <1>2. /\ t \in Seq(ToClient) /\ Len(q) = Len(t) + 1
        /\ \A i \in 0..Len(t) : ChangesIn(q, i + 1) = one + ChangesIn(t, i)
    BY <1>0, ChangesRemain
  <1>3. /\ 1 \in DOMAIN q /\ q[1] = x
        /\ \A i \in DOMAIN t : i + 1 \in DOMAIN q /\ t[i] = q[i + 1]
    BY <1>0, Remain
  <1>4. /\ DOMAIN t = 1..Len(t) /\ Len(t) \in Nat
    BY <1>2
  <1> HIDE DEF x, t
  <1>5. /\ ChangesIn(t, 0) = 0 /\ \A i \in 0..Len(t) : ChangesIn(t, i) \in Nat
    <2>1. ChangesIn(t, 0) = 0 /\ \A i \in 0..Len(t) : ChangesIn(t, i) \in 0..i
      BY <1>2, ChangesType
    <2> QED
      BY <1>4, <2>1
  <1>6. /\ ChangesIn(q, 1) = one /\ ChangesIn(q, Len(q)) = one + ChangesIn(t, Len(t))
        /\ ChangesIn(t, Len(t)) \in Nat
    <2>1. 0 \in 0..Len(t) /\ Len(t) \in 0..Len(t) /\ 0 + 1 = 1
      BY <1>4
    <2>2. ChangesIn(q, 0 + 1) = one + ChangesIn(t, 0)
      BY <1>2, <2>1
    <2>3. ChangesIn(q, Len(q)) = one + ChangesIn(t, Len(t))
      BY <1>2, <2>1
    <2> QED
      BY <1>5, <2>1, <2>2, <2>3
  <1>7. \A i \in DOMAIN t : /\ i + 1 \in DOMAIN q /\ t[i] = q[i + 1]
                            /\ ChangesIn(q, i + 1) = one + ChangesIn(t, i)
                            /\ ChangesIn(t, i) \in Nat
    BY <1>2, <1>3, <1>4, <1>5
  <1>8. ASSUME ~IsChange(x), NeverAhead(m, n, q, h, l)
        PROVE  NeverAhead(m, n, t, h, l)
    <2>1. Len(m) + ChangesIn(t, Len(t)) <= Len(h)
      BY <1>0, <1>6, <1>8 DEF NeverAhead
    <2>2. Len(m) + Len(l) <= Len(h) + n
      BY <1>8 DEF NeverAhead
    <2>3. ASSUME NEW i \in DOMAIN t, t[i].kind = "roundStart"
          PROVE  Len(m) + ChangesIn(t, i) + Len(l) <= Len(h)
      <3>1. ChangesIn(q, i + 1) = ChangesIn(t, i)
        BY <1>7, <1>8
      <3>2. Len(m) + ChangesIn(q, i + 1) + Len(l) <= Len(h)
        BY <1>7, <1>8, <2>3 DEF NeverAhead
      <3> QED
        BY <3>1, <3>2
    <2> QED
      BY <2>1, <2>2, <2>3 DEF NeverAhead
  <1>9. ASSUME ~IsChange(x), Follows(m, q, h) PROVE Follows(m, t, h)
    <2>1. ChangesIn(q, Len(q)) = ChangesIn(t, Len(t))
      BY <1>6, <1>9
    <2>2. ASSUME NEW i \in DOMAIN t, IsChange(t[i])
          PROVE  ChangeOf(t[i]) = h[Len(m) + ChangesIn(t, i)]
      <3>1. ChangesIn(q, i + 1) = ChangesIn(t, i)
        BY <1>7, <1>9
      <3>2. ChangeOf(q[i + 1]) = h[Len(m) + ChangesIn(q, i + 1)]
        BY <1>7, <1>9, <2>2 DEF Follows
      <3> QED
        BY <1>7, <3>1, <3>2
    <2> QED
      BY <1>9, <2>1, <2>2 DEF Follows
  <1>10. ASSUME IsChange(x)
         PROVE  /\ y \in Client!Changes
                /\ x.kind = "roundStart" <=> y = "roundStart"
    BY <1>1, <1>10 DEF IsChange, ChangeOf, ToClient, Client!Changes, Client!RoundEvents
  <1> HIDE DEF y
  <1>11. IsChange(x) => a \in Seq(Client!Changes) /\ Len(a) = Len(m) + 1
    BY <1>0, <1>10
  <1> HIDE DEF a
  <1>12. ASSUME IsChange(x), NEW i \in Nat
         PROVE  Len(a) + i = Len(m) + (one + i)
    BY <1>0, <1>11, <1>12
  <1>13. ASSUME IsChange(x), NeverAhead(m, n, q, h, l)
         PROVE  NeverAhead(a, k, t, h, l)
    <2>1. Len(a) + ChangesIn(t, Len(t)) <= Len(h)
      BY <1>6, <1>12, <1>13 DEF NeverAhead
    <2>2. Len(a) + Len(l) <= Len(h) + k
      <3>1. CASE y = "roundStart"
        <4>1. x.kind = "roundStart"
          BY <1>10, <1>13, <3>1
        <4>2. Len(m) + ChangesIn(q, 1) + Len(l) <= Len(h)
          BY <1>3, <1>13, <4>1 DEF NeverAhead
        <4> QED
          BY <1>0, <1>6, <1>11, <1>13, <3>1, <4>2
      <3>2. CASE y # "roundStart"
        <4>1. Len(m) + Len(l) <= Len(h) + n
          BY <1>13 DEF NeverAhead
        <4> QED
          BY <1>0, <1>11, <1>13, <3>2, <4>1
      <3> QED
        BY <3>1, <3>2
    <2>3. ASSUME NEW i \in DOMAIN t, t[i].kind = "roundStart"
          PROVE  Len(a) + ChangesIn(t, i) + Len(l) <= Len(h)
      <3>1. Len(a) + ChangesIn(t, i) = Len(m) + ChangesIn(q, i + 1)
        BY <1>7, <1>12, <1>13
      <3>2. Len(m) + ChangesIn(q, i + 1) + Len(l) <= Len(h)
        BY <1>7, <1>13, <2>3 DEF NeverAhead
      <3> QED
        BY <3>1, <3>2
    <2> QED
      BY <2>1, <2>2, <2>3 DEF NeverAhead
  <1>14. ASSUME IsChange(x), h # <<>>, h[1] = "roundStart", Follows(m, q, h)
         PROVE  Follows(a, t, h)
    <2>1. Len(h) = Len(a) + ChangesIn(t, Len(t))
      BY <1>6, <1>12, <1>14 DEF Follows
    <2>2. IsPrefix(a, h)
      <3>1. y = h[Len(m) + 1] /\ IsPrefix(m, h)
        BY <1>3, <1>6, <1>14 DEF Follows, y
      <3>2. Len(m) < Len(h)
        BY <1>0, <1>6, <1>11, <1>14, <2>1
      <3>3. /\ Len(m) <= Len(h) /\ \A i \in DOMAIN m : m[i] = h[i]
        BY <1>0, <3>1, PrefixMeans
      <3>4. /\ Len(a) <= Len(h) /\ a \in Seq(Client!Changes)
        BY <1>0, <1>11, <1>14, <3>2
      <3>5. ASSUME NEW i \in DOMAIN a PROVE a[i] = h[i]
        <4>1. (i \in DOMAIN m /\ a[i] = m[i]) \/ (i = Len(m) + 1 /\ a[i] = y)
          BY <1>0, <1>10, <1>14 DEF a
        <4> QED
          BY <3>1, <3>3, <4>1
      <3> QED
        BY <1>0, <3>4, <3>5, PrefixMeans
    <2>3. ASSUME NEW i \in DOMAIN t, IsChange(t[i])
          PROVE  ChangeOf(t[i]) = h[Len(a) + ChangesIn(t, i)]
      <3>1. Len(a) + ChangesIn(t, i) = Len(m) + ChangesIn(q, i + 1)
        BY <1>7, <1>12, <1>14
      <3>2. ChangeOf(q[i + 1]) = h[Len(m) + ChangesIn(q, i + 1)]
        BY <1>7, <1>14, <2>3 DEF Follows
      <3> QED
        BY <1>7, <3>1, <3>2
    <2> QED
      BY <2>1, <2>2, <2>3 DEF Follows
  <1> HIDE DEF k
  <1> QED
    BY <1>1, <1>2, <1>8, <1>9, <1>10, <1>13, <1>14 DEF x, t, y, k, a

\* As many rounds have begun in a prefix as in the history: it ends in the last.
LEMMA SameRound ==
    ASSUME NEW m \in Seq(Client!Changes), NEW h \in Seq(Client!Changes), NEW n \in Nat,
           NEW l \in Seq(Client!RoundEvents),
           LogIsTheRound(h, l), CountsItsRound(m, n, h), IsPrefix(m, h),
           RoundsOf(m) = RoundsOf(h)
    PROVE  Len(m) - n = Len(h) - Len(l)
  <1> DEFINE start == Len(h) - Len(l)
             M == {i \in DOMAIN m : m[i] = "roundStart"}
             H == {i \in DOMAIN h : h[i] = "roundStart"}
  <1>1. /\ Len(m) \in Nat /\ Len(h) \in Nat /\ Len(l) \in Nat
        /\ DOMAIN m = 1..Len(m) /\ DOMAIN h = 1..Len(h) /\ DOMAIN l = 1..Len(l)
        /\ \A j \in DOMAIN l : l[j] \in Client!RoundEvents
    OBVIOUS
  <1>2. /\ Len(m) <= Len(h) /\ \A i \in DOMAIN m : m[i] = h[i]
    BY PrefixMeans
  <1>3. /\ start \in DOMAIN h /\ h[start] = "roundStart"
        /\ \A j \in DOMAIN l : h[start + j] = l[j]
    BY DEF LogIsTheRound
  <1>4. ASSUME NEW i \in DOMAIN h, i > start PROVE h[i] # "roundStart"
    <2>1. i - start \in DOMAIN l /\ start + (i - start) = i
      BY <1>1, <1>4
    <2>2. h[i] \in Client!RoundEvents
      BY <1>1, <1>3, <2>1
    <2> QED
      BY <2>2 DEF Client!RoundEvents
  <1>5. start \in DOMAIN m
    <2>1. IsFiniteSet(H) /\ M \subseteq H
      <3>1. IsFiniteSet(1..Len(h))
        BY <1>1, FS_Interval
      <3>2. H \in SUBSET (1..Len(h)) /\ M \subseteq H
        BY <1>1, <1>2
      <3> QED
        BY <3>1, <3>2, FS_Subset
    <2>2. Cardinality(M) = Cardinality(H)
      BY DEF RoundsOf
    <2>3. start \in H
      BY <1>3
    <2> HIDE DEF M, H
    <2>4. M = H
      BY <2>1, <2>2, FS_Subset
    <2> QED
      BY <2>3, <2>4 DEF M
  <1>6. m # <<>>
    BY <1>5
  <1>7. /\ Len(m) - n \in DOMAIN m /\ m[Len(m) - n] = "roundStart"
        /\ \A i \in DOMAIN m : i > Len(m) - n => m[i] # "roundStart"
    BY <1>6 DEF CountsItsRound
  <1>8. ~(Len(m) - n > start)
    BY <1>1, <1>2, <1>4, <1>7
  <1>9. ~(start > Len(m) - n)
    BY <1>2, <1>3, <1>5, <1>7
  <1>10. Len(m) - n \in Int /\ start \in Int
    BY <1>1
  <1> HIDE DEF start
  <1>11. Len(m) - n = start
    BY <1>8, <1>9, <1>10
  <1> QED
    BY <1>11 DEF start

\* The missed events are sent to a client that nothing else is on its way to.
LEMMA Replayed ==
    ASSUME LinkInv, NEW m, NEW n, NEW h, Told(m, n, <<>>, h, roundEventLog),
           NeverAhead(m, n, <<>>, h, roundEventLog)
    PROVE  LET r == ReplayMissedRoundEvents(n) IN
           /\ NeverAhead(m, n, r, h, roundEventLog)
           /\ LogIsTheRound(h, roundEventLog) /\ CountsItsRound(m, n, h)
              /\ IsPrefix(m, h) /\ RoundsOf(m) = RoundsOf(h)
                 => Follows(m, r, h)
  <1> DEFINE l == roundEventLog
             r == ReplayMissedRoundEvents(n)
             k == IF n < Len(l) THEN Len(l) - n ELSE 0
             z == <<>>
  <1>0. /\ Len(m) \in Nat /\ Len(h) \in Nat /\ Len(l) \in Nat /\ n \in Nat
        /\ h \in Seq(Client!Changes) /\ m \in Seq(Client!Changes)
        /\ l \in Seq(Client!RoundEvents) /\ DOMAIN h = 1..Len(h)
        /\ DOMAIN l = 1..Len(l)
    BY DEF Told
  <1>1. r \in Seq(ToClient) /\ \A i \in DOMAIN r : r[i].kind = "event"
    BY <1>0, ReplayType
  <1>2. k \in Nat
    BY <1>0
  <1>3. DOMAIN r = 1..k /\ \A i \in 1..k : r[i] = Event(l[n + i])
    BY DEF ReplayMissedRoundEvents
  <1> HIDE DEF r
  <1>4. Len(r) = k
    BY <1>1, <1>2, <1>3
  <1>5. Len(m) <= Len(h) /\ Len(m) + Len(l) <= Len(h) + n
    <2>1. Len(z) = 0 /\ z \in Seq(ToClient)
      OBVIOUS
    <2>2. ChangesIn(z, Len(z)) = 0
      BY <2>1, ChangesType
    <2>3. NeverAhead(m, n, z, h, l)
      OBVIOUS
    <2> HIDE DEF z, l
    <2> QED
      BY <1>0, <2>2, <2>3 DEF NeverAhead
  <1> HIDE DEF z
  <1>6. \A i \in 0..k : ChangesIn(r, i) = i
    BY <1>1, <1>4, ChangesOfOneKind DEF IsChange
  <1>7. Len(m) + k <= Len(h)
    BY <1>0, <1>5
  <1>8. NeverAhead(m, n, r, h, l)
    <2>1. ChangesIn(r, Len(r)) = k
      BY <1>2, <1>4, <1>6
    <2> QED
      BY <1>1, <1>5, <1>7, <2>1 DEF NeverAhead
  <1>9. ASSUME LogIsTheRound(h, l), CountsItsRound(m, n, h), IsPrefix(m, h),
               RoundsOf(m) = RoundsOf(h)
        PROVE  Follows(m, r, h)
    <2>1. Len(m) - n = Len(h) - Len(l)
      BY <1>0, <1>9, SameRound
    <2>2. k = Len(h) - Len(m) /\ n + k = Len(l)
      <3> DEFINE a == Len(m)
                 b == Len(h)
                 c == Len(l)
      <3>1. a \in Nat /\ b \in Nat /\ c \in Nat /\ n \in Nat /\ a <= b
            /\ a - n = b - c
        BY <1>0, <1>5, <2>1
      <3>2. k = IF n < c THEN c - n ELSE 0
        OBVIOUS
      <3> HIDE DEF a, b, c, k
      <3>3. k = b - a /\ n + k = c
        BY <3>1, <3>2
      <3> QED
        BY <3>3 DEF a, b, c
    <2>3. Len(h) = Len(m) + ChangesIn(r, Len(r))
      <3>1. ChangesIn(r, Len(r)) = k
        BY <1>2, <1>4, <1>6
      <3> HIDE DEF k
      <3> QED
        BY <1>0, <2>2, <3>1
    <2>4. ASSUME NEW i \in 1..k
          PROVE  ChangeOf(r[i]) = h[Len(m) + ChangesIn(r, i)]
      <3>1. ChangesIn(r, i) = i
        BY <1>2, <1>6
      <3>2. ChangeOf(r[i]) = l[n + i]
        <4>1. r[i] = Event(l[n + i])
          BY <1>3
        <4> HIDE DEF k, l
        <4> QED
          BY <4>1 DEF ChangeOf, Event
      <3>3. n + i \in DOMAIN l
        <4>1. i \in 1..k /\ k \in Nat /\ n + k = Len(l) /\ n \in Nat
          BY <1>0, <1>2, <2>2
        <4> HIDE DEF k, l
        <4>2. n + i \in 1..Len(l)
          BY <4>1
        <4> QED
          BY <1>0, <4>2
      <3>4. h[(Len(h) - Len(l)) + (n + i)] = l[n + i]
        BY <1>9, <3>3 DEF LogIsTheRound
      <3>5. (Len(h) - Len(l)) + (n + i) = Len(m) + i
        BY <1>0, <1>2, <2>1
      <3> QED
        BY <3>1, <3>2, <3>4, <3>5
    <2> QED
      BY <1>3, <1>9, <2>3, <2>4 DEF Follows
  <1> QED
    BY <1>8, <1>9 DEF r

\* The client has been refused an event, or its connection is lost.
LEMMA CountRaised ==
    ASSUME NEW m, NEW n, NEW q, NEW h, NEW l, Told(m, n, q, h, l),
           NeverAhead(m, n, q, h, l)
    PROVE  NeverAhead(m, n + 1, <<>>, h, l)
  <1> DEFINE z == <<>>
  <1>1. NeverAhead(m, n, z, h, l)
    BY WireLost
  <1>2. Len(m) \in Nat /\ Len(h) \in Nat /\ Len(l) \in Nat /\ n \in Nat
    BY DEF Told
  <1> HIDE DEF z
  <1>3. Len(m) + Len(l) <= Len(h) + (n + 1)
    BY <1>1, <1>2 DEF NeverAhead
  <1>4. NeverAhead(m, n + 1, z, h, l)
    BY <1>1, <1>3 DEF NeverAhead
  <1> QED
    BY <1>4 DEF z

-----------------------------------------------------------------------------
(* What a player who comes back has missed: the client's handlers. *)

\* No greeting is answered in q.
GreetsNobody(q) == \A i \in DOMAIN q : q[i].kind # "signIn"

\* The handler leaves the mirror, the count and the peer alone.
Holding(c, d) ==
    /\ d.mirror = c.mirror /\ d.lastRoundEventSeq = c.lastRoundEventSeq
    /\ d.peer = c.peer

\* It does so, and answers no greeting.
Keeps(c, d) == Holding(c, d) /\ (GreetsNobody(c.out) => GreetsNobody(d.out))

LEMMA SendingKeeps ==
    ASSUME NEW c \in Client!Clients, NEW p \in Client!ToServer
    PROVE  /\ Holding(c, Client!Sending(c, p))
           /\ p.kind # "signIn" => Keeps(c, Client!Sending(c, p))
  <1> DEFINE d == Client!Sending(c, p)
             o == Append(c.out, p)
  <1>1. c.out \in Seq(Client!ToServer)
    BY DEF Client!Clients
  <1>2. \A i \in DOMAIN o : (\E j \in DOMAIN c.out : o[i] = c.out[j]) \/ o[i] = p
    BY <1>1, HitsAppend
  <1> HIDE DEF o
  <1>3. Holding(c, d)
    BY DEF Client!Sending, Client!Clients, Holding
  <1>4. d.out = c.out \/ d.out = o
    BY DEF Client!Sending, Client!Clients, o
  <1> HIDE DEF d
  <1>5. p.kind # "signIn" /\ GreetsNobody(c.out) => GreetsNobody(d.out)
    BY <1>2, <1>4 DEF GreetsNobody
  <1> QED
    BY <1>3, <1>5 DEF Keeps, d

LEMMA GoneKeeps ==
    ASSUME NEW c \in Client!Clients
    PROVE  Keeps(c, Client!HandleSocketGone(c))
  <1> DEFINE n == IF c.reconnectInProgress THEN c.reconnectAttempts ELSE 0
             lost == [c EXCEPT !.socket = FALSE, !.pings = 0,
                               !.reconnectInProgress = TRUE,
                               !.reconnectAttempts = n]
             d == IF n >= MaxReconnectAttempts
                  THEN [lost EXCEPT !.reconnectInProgress = FALSE,
                                    !.reconnectTimer = FALSE]
                  ELSE [lost EXCEPT !.reconnectTimer = TRUE]
  <1>1. CASE ~c.socket
    BY <1>1 DEF Client!HandleSocketGone, Keeps, Holding
  <1>2. CASE c.socket
    <2>1. Client!HandleSocketGone(c) = d
      BY <1>2 DEF Client!HandleSocketGone, Client!ScheduleReconnect, Client!Clients
    <2> HIDE DEF n
    <2>2. Holding(c, d) /\ d.out = c.out
      BY DEF Client!Clients, Holding
    <2> HIDE DEF d
    <2> QED
      BY <2>1, <2>2 DEF Keeps
  <1> QED
    BY <1>1, <1>2

LEMMA AnswerKeeps ==
    ASSUME NEW c \in Client!Clients,
           NEW d \in {Client!SendReply(c), Client!SendRequestGivenUp(c)}
    PROVE  Keeps(c, d)
  <1> DEFINE e == [c EXCEPT !.currentRequest = Client!NoRequest]
             r == c.currentRequest
  <1>1. CASE r = Client!NoRequest \/ ~c.socket
    <2>1. d = c
      BY <1>1 DEF Client!SendReply, Client!SendRequestGivenUp
    <2> QED
      BY <2>1 DEF Keeps, Holding
  <1>2. CASE ~(r = Client!NoRequest \/ ~c.socket)
    <2>1. d = Client!Sending(e, Client!Reply(r)) \/ d = Client!Sending(e, Client!GiveUp(r))
      BY <1>2 DEF Client!SendReply, Client!SendRequestGivenUp
    <2>2. /\ e \in Client!Clients /\ Holding(c, e) /\ e.out = c.out /\ r \in RequestIds
      BY <1>2, Messages DEF Client!Clients, Holding
    <2>3. /\ Client!Reply(r) \in Client!ToServer /\ Client!GiveUp(r) \in Client!ToServer
          /\ Client!Reply(r).kind # "signIn" /\ Client!GiveUp(r).kind # "signIn"
      BY <2>2, Messages DEF Client!Reply, Client!GiveUp
    <2> HIDE DEF e, r
    <2>4. Keeps(e, d)
      BY <2>1, <2>2, <2>3, SendingKeeps
    <2> QED
      BY <2>2, <2>4 DEF Keeps, Holding
  <1> QED
    BY <1>1, <1>2

LEMMA SetStateKeeps ==
    ASSUME NEW c \in Client!Clients, NEW s \in SUBSET Client!StateMasks
    PROVE  Keeps(c, Client!SetState(c, s)) /\ Client!SetState(c, s) \in Client!Clients
  <1> DEFINE e == [c EXCEPT !.state = s]
             m == Client!StateChange(s)
  <1>1. CASE c.state = s
    BY <1>1 DEF Client!SetState, Keeps, Holding
  <1>2. CASE c.state # s
    <2>1. Client!SetState(c, s) = Client!Sending(e, m)
      BY <1>2 DEF Client!SetState
    <2>2. e \in Client!Clients /\ Holding(c, e) /\ e.out = c.out
      BY DEF Client!Clients, Holding
    <2>3. m \in Client!ToServer /\ m.kind # "signIn"
      BY Messages DEF Client!StateChange
    <2> HIDE DEF e, m
    <2>4. Keeps(e, Client!Sending(e, m)) /\ Client!Sending(e, m) \in Client!Clients
      BY <2>2, <2>3, SendingKeeps, Sends
    <2> QED
      BY <2>1, <2>2, <2>4 DEF Keeps, Holding
  <1> QED
    BY <1>1, <1>2

LEMMA ManagedKeeps ==
    ASSUME NEW c \in Client!Clients, NEW managed \in BOOLEAN
    PROVE  Keeps(c, Client!SetManaged(c, managed))
  <1> DEFINE s == IF managed THEN c.state \cup {"managed"} ELSE c.state \ {"managed"}
             e == Client!SetState(c, s)
             d == Client!SetManaged(c, managed)
  <1>1. s \in SUBSET Client!StateMasks
    BY DEF Client!Clients, Client!StateMasks
  <1>2. d = IF managed THEN Client!SendRequestGivenUp(e) ELSE e
    BY DEF Client!SetManaged
  <1> HIDE DEF s
  <1>3. Keeps(c, e) /\ e \in Client!Clients
    BY <1>1, SetStateKeeps
  <1> HIDE DEF e, d
  <1>4. Keeps(e, d)
    <2>1. Keeps(e, e)
      BY DEF Keeps, Holding
    <2> QED
      BY <1>2, <1>3, <2>1, AnswerKeeps
  <1>5. Keeps(c, d)
    BY <1>3, <1>4 DEF Keeps, Holding
  <1> QED
    BY <1>5 DEF d

\* What a handler leaves that has read the message m.
Reads(c, m, d) ==
    /\ IF m.kind = "version"
       THEN d.socket => d.out = <<Client!SignIn(c.lastRoundEventSeq)>>
       ELSE GreetsNobody(d.out)
    /\ IF IsChange(m)
       THEN \/ /\ d.mirror = Append(c.mirror, ChangeOf(m))
               /\ d.lastRoundEventSeq = IF ChangeOf(m) = "roundStart" THEN 0
                                        ELSE c.lastRoundEventSeq + 1
            \/ /\ ~d.socket /\ ~IsPrefix(c.mirror, history)
               /\ d.mirror = c.mirror
               /\ d.lastRoundEventSeq = c.lastRoundEventSeq + 1
       ELSE d.mirror = c.mirror /\ d.lastRoundEventSeq = c.lastRoundEventSeq
    /\ IF m.kind = "agentStateChanged" THEN d.peer = m.state
       ELSE d.peer = c.peer \/ (m.kind = "peerAdded" /\ c.peer = "unknown")

LEMMA VersionReads ==
    ASSUME NEW c, Resting(c), NEW compatible \in BOOLEAN
    PROVE  LET d == Client!NotifyVersion(c, compatible) IN
           /\ Holding(c, d)
           /\ d.socket => d.out = <<Client!SignIn(c.lastRoundEventSeq)>>
  <1> DEFINE d == Client!NotifyVersion(c, compatible)
             gone == Client!DisconnectFromHost(c)
             b == c.reconnectTimer /\ ~c.reconnectInProgress
             e == [c EXCEPT !.reconnectTimer = b, !.reconnectInProgress = FALSE]
             m == Client!SignIn(c.lastRoundEventSeq)
             f == Client!Sending(e, m)
  <1>1. d = IF ~compatible THEN gone ELSE f
    BY DEF Client!NotifyVersion, Client!Clients, Resting
  <1>2. CASE ~compatible
    <2>1. Holding(c, gone) /\ ~gone.socket
      BY DEF Client!Clients, Client!DisconnectFromHost, Resting, Holding
    <2> QED
      BY <1>1, <1>2, <2>1
  <1>3. CASE compatible
    <2>1. b = FALSE
      BY DEF Resting, Reaching
    <2>2. m \in Client!ToServer
      <3>1. c.lastRoundEventSeq \in Nat
        BY DEF Resting, Client!Clients
      <3> QED
        BY <3>1, Messages
    <2> HIDE DEF b, m
    <2>3. e \in Client!Clients /\ e.socket = c.socket /\ e.out = <<>> /\ Holding(c, e)
      BY <2>1 DEF Client!Clients, Resting, Holding
    <2> HIDE DEF e
    <2>4. Holding(e, f)
      BY <2>2, <2>3, SendingKeeps
    <2>5. /\ f.out = IF e.socket THEN Append(e.out, m) ELSE e.out
          /\ f.socket = e.socket
      BY <2>2, <2>3, Sends
    <2> HIDE DEF f
    <2>6. f.socket => f.out = <<m>>
      BY <2>3, <2>5
    <2>7. Holding(c, f)
      BY <2>3, <2>4 DEF Holding
    <2> QED
      BY <1>1, <1>3, <2>6, <2>7 DEF m
  <1> QED
    BY <1>2, <1>3

LEMMA EventReads ==
    ASSUME NEW c, Resting(c), NEW event \in Client!RoundEvents, NEW applies \in BOOLEAN
    PROVE  LET d == Client!NotifyRoundEvent(c, event, applies) IN
           /\ d.lastRoundEventSeq = c.lastRoundEventSeq + 1 /\ d.peer = c.peer
           /\ GreetsNobody(d.out)
           /\ applies => d.mirror = Append(c.mirror, event)
           /\ ~applies => d.mirror = c.mirror /\ ~d.socket
  <1> DEFINE d == Client!NotifyRoundEvent(c, event, applies)
             n == c.lastRoundEventSeq + 1
             q == Append(c.mirror, event)
             e == [c EXCEPT !.lastRoundEventSeq = n]
             f == [e EXCEPT !.mirror = q]
             g == Client!HandleSocketGone(e)
  <1>1. n \in Nat
    BY DEF Resting, Client!Clients
  <1>2. d = IF applies THEN f ELSE g
    BY DEF Client!NotifyRoundEvent, Resting, Client!Clients
  <1> HIDE DEF n, q
  <1>3. /\ e \in Client!Clients /\ e.mirror = c.mirror /\ e.peer = c.peer
        /\ e.lastRoundEventSeq = n /\ e.out = <<>>
        /\ e.reconnectInProgress = c.reconnectInProgress
        /\ e.reconnectTimer = c.reconnectTimer /\ e.socket = c.socket
    BY <1>1 DEF Resting, Client!Clients
  <1> HIDE DEF e
  <1>4. /\ f.mirror = q /\ f.peer = e.peer /\ f.out = e.out
        /\ f.lastRoundEventSeq = e.lastRoundEventSeq
    BY <1>3 DEF Client!Clients
  <1>5. Reaching(e)
    BY <1>3 DEF Resting, Reaching
  <1>6. Keeps(e, g) /\ g.out = e.out /\ ~g.socket
    BY <1>3, <1>5, GoneKeeps, GoneLeaves
  <1> HIDE DEF f, g, d
  <1>7. \A i \in DOMAIN e.out : FALSE
    BY <1>3
  <1>8. GreetsNobody(d.out)
    BY <1>2, <1>4, <1>6, <1>7 DEF GreetsNobody
  <1>9. /\ d.lastRoundEventSeq = n /\ d.peer = c.peer
        /\ applies => d.mirror = q
        /\ ~applies => d.mirror = c.mirror /\ ~d.socket
    BY <1>2, <1>3, <1>4, <1>6 DEF Keeps, Holding
  <1> QED
    BY <1>8, <1>9 DEF n, q, d

\* What the client takes.
LEMMA TakesReads ==
    ASSUME Resting(client), NEW m \in ToClient, NEW d \in Takes(m)
    PROVE  Reads(client, m, d)
  <1> DEFINE c == client
  <1>0. c \in Client!Clients /\ c.out = <<>> /\ GreetsNobody(c.out)
    BY DEF Resting, GreetsNobody
  <1> USE DEF Takes
  <1>1. CASE m.kind = "version"
    <2>1. m.compatible \in BOOLEAN /\ d = Client!NotifyVersion(c, m.compatible)
      BY <1>1 DEF ToClient
    <2>2. Holding(c, d) /\ (d.socket => d.out = <<Client!SignIn(c.lastRoundEventSeq)>>)
      BY <2>1, VersionReads
    <2> QED
      BY <1>1, <2>2 DEF Reads, Holding, IsChange
  <1>2. CASE m.kind = "roundStart"
    <2> DEFINE q == Append(c.mirror, "roundStart")
    <2>1. d = [c EXCEPT !.mirror = q, !.lastRoundEventSeq = 0]
      BY <1>2 DEF Client!NotifyRoundStart
    <2> HIDE DEF q
    <2>2. /\ d.mirror = q /\ d.lastRoundEventSeq = 0 /\ d.peer = c.peer
          /\ d.out = c.out
      BY <2>1 DEF Resting, Client!Clients
    <2> QED
      BY <1>0, <1>2, <2>2 DEF Reads, IsChange, ChangeOf, q
  <1>3. CASE m.kind = "gameOver"
    <2>1. d = [c EXCEPT !.socket = FALSE, !.pings = 0]
      BY <1>3 DEF Client!NotifyGameOver
    <2>2. Holding(c, d) /\ d.out = c.out
      BY <2>1 DEF Resting, Client!Clients, Holding
    <2> QED
      BY <1>0, <1>3, <2>2 DEF Reads, IsChange, Holding
  <1>4. CASE m.kind = "playerAdded"
    <2>1. m.state \in SUBSET Client!StateMasks /\ d = Client!SetState(c, m.state)
      BY <1>4 DEF ToClient, Client!NotifyPlayerAdded
    <2>2. Keeps(c, d)
      BY <1>0, <2>1, SetStateKeeps
    <2> QED
      BY <1>0, <1>4, <2>2 DEF Reads, IsChange, Keeps, Holding
  <1>5. CASE m.kind = "peerAdded"
    <2>1. /\ d = Client!NotifyPeerAdded(c, m.state)
      BY <1>5
    <2>2. /\ d.mirror = c.mirror /\ d.lastRoundEventSeq = c.lastRoundEventSeq
          /\ d.out = c.out /\ (d.peer = c.peer \/ c.peer = "unknown")
      BY <2>1 DEF Client!NotifyPeerAdded, Resting, Client!Clients
    <2> QED
      BY <1>0, <1>5, <2>2 DEF Reads, IsChange
  <1>6. CASE m.kind = "agentStateChanged"
    <2>1. d = [c EXCEPT !.peer = m.state]
      BY <1>6 DEF Client!NotifyAgentStateChanged
    <2>2. /\ d.mirror = c.mirror /\ d.lastRoundEventSeq = c.lastRoundEventSeq
          /\ d.out = c.out /\ d.peer = m.state
      BY <2>1 DEF Resting, Client!Clients
    <2> QED
      BY <1>0, <1>6, <2>2 DEF Reads, IsChange
  <1>7. CASE m.kind = "request"
    <2> DEFINE r == m.request
               e == [c EXCEPT !.currentRequest = r]
    <2>1. r \in RequestIds /\ d = Client!RequestReceived(c, r)
      BY <1>7 DEF ToClient
    <2>2. e \in Client!Clients /\ Holding(c, e) /\ e.out = c.out
      BY <2>1, Messages DEF Resting, Client!Clients, Holding
    <2>3. d = IF "managed" \in c.state THEN Client!SendRequestGivenUp(e) ELSE e
      BY <2>1 DEF Client!RequestReceived, Client!Requested
    <2> HIDE DEF e
    <2>4. Keeps(e, d)
      <3>1. Keeps(e, e)
        BY DEF Keeps, Holding
      <3> QED
        BY <2>2, <2>3, <3>1, AnswerKeeps
    <2> QED
      BY <1>0, <1>7, <2>2, <2>4 DEF Reads, IsChange, Keeps, Holding
  <1>8. CASE m.kind = "event"
    <2>1. PICK applies \in BOOLEAN :
             /\ d = Client!NotifyRoundEvent(c, m.event, applies)
             /\ ~applies => ~IsPrefix(c.mirror, history)
      BY <1>8
    <2>2. m.event \in Client!RoundEvents
      BY <1>8 DEF ToClient
    <2>3. /\ d.lastRoundEventSeq = c.lastRoundEventSeq + 1 /\ d.peer = c.peer
          /\ GreetsNobody(d.out)
          /\ applies => d.mirror = Append(c.mirror, m.event)
          /\ ~applies => d.mirror = c.mirror /\ ~d.socket
      BY <2>1, <2>2, EventReads
    <2>4. ChangeOf(m) = m.event /\ m.event # "roundStart" /\ IsChange(m)
      BY <1>8, <2>2 DEF ChangeOf, IsChange, Client!RoundEvents
    <2> QED
      BY <1>8, <2>1, <2>3, <2>4 DEF Reads
  <1> QED
    BY <1>1, <1>2, <1>3, <1>4, <1>5, <1>6, <1>7, <1>8 DEF ToClient

\* What the client does of itself on the connection it has, or when that is lost.
Acts(d, coming) ==
    /\ d \in Client!Clients
    /\ ClientBecomes(d, coming)
    /\ UNCHANGED <<roomVars, conn, trusted, roundEventLog>>
    /\ \/ coming = toClient /\ Holding(client, d) /\ GreetsNobody(d.out)
       \/ /\ toClient # <<>> /\ coming = Tail(toClient)
          /\ Reads(client, Head(toClient), d)

LEMMA MirrorActs ==
    ASSUME LinkInv,
           \/ ClientTakes \/ SocketGone \/ Heartbeat
           \/ PongDeadline /\ ~client'.socket
           \/ PlayerReplies \/ PlayerManaged
    PROVE  \E d, coming : Acts(d, coming)
  <1> USE DEF ClientDoes
  <1>0. /\ Resting(client) /\ client \in Client!Clients /\ Reaching(client)
        /\ client.out = <<>> /\ GreetsNobody(client.out)
    BY LinkResting DEF Resting, GreetsNobody
  <1>k. ASSUME NEW d \in Client!Clients, Keeps(client, d), ClientBecomes(d, toClient),
               UNCHANGED <<roomVars, conn, trusted, roundEventLog>>
        PROVE  Acts(d, toClient)
    BY <1>0, <1>k DEF Acts, Keeps
  <1>p. ASSUME NEW n \in 0..2
        PROVE  /\ [client EXCEPT !.pings = n] \in Client!Clients
               /\ Keeps(client, [client EXCEPT !.pings = n])
    BY <1>0 DEF Client!Clients, Keeps, Holding
  <1>g. ASSUME NEW c \in Client!Clients, Reaching(c)
        PROVE  /\ Client!HandleSocketGone(c) \in Client!Clients
               /\ Keeps(c, Client!HandleSocketGone(c))
    BY <1>g, GoneLeaves, GoneKeeps DEF Leaves
  <1>1. CASE ClientTakes
    <2>1. PICK d \in Takes(Head(toClient)) : ClientBecomes(d, Tail(toClient))
      BY <1>1 DEF ClientTakes
    <2>2. toClient # <<>> /\ UNCHANGED <<roomVars, conn, trusted, roundEventLog>>
      BY <1>1 DEF ClientTakes
    <2>3. /\ client.socket /\ Head(toClient) \in ToClient
          /\ client.reconnectInProgress => Head(toClient).kind = "version"
      BY <2>2, LinkResting
    <2>4. Reads(client, Head(toClient), d)
      BY <1>0, <2>3, TakesReads
    <2>5. d \in Client!Clients
      BY <1>0, <2>3, TakesLeaves DEF Took, Leaves
    <2> QED
      BY <2>1, <2>2, <2>4, <2>5 DEF Acts
  <1>2. CASE SocketGone
    <2> DEFINE d == Client!HandleSocketGone(client)
               e == Client!HandleSocketGone(d)
    <2>1. d \in Client!Clients /\ Keeps(client, d) /\ ~d.socket
      BY <1>0, <1>g, GoneLeaves
    <2>2. e = d
      BY <2>1 DEF Client!HandleSocketGone
    <2>3. /\ ClientBecomes(e, toClient)
          /\ UNCHANGED <<roomVars, conn, trusted, roundEventLog>>
      BY <1>2 DEF SocketGone
    <2> HIDE DEF d, e
    <2> QED
      BY <1>k, <2>1, <2>2, <2>3
  <1>3. CASE Heartbeat
    <2> DEFINE asked == Client!HeartbeatTimeout(client)
               d == IF link = "open" THEN Client!NotifyPongServer(asked) ELSE asked
    <2>1. \E n \in 0..2 : d = [client EXCEPT !.pings = n]
      <3>1. asked = [client EXCEPT !.pings = 1] \/ asked = [client EXCEPT !.pings = 2]
        BY <1>0 DEF Client!HeartbeatTimeout, Client!Clients
      <3>2. Client!NotifyPongServer(asked) = [client EXCEPT !.pings = 0]
        BY <1>0, <3>1 DEF Client!NotifyPongServer, Client!Clients
      <3> HIDE DEF asked
      <3> QED
        BY <3>1, <3>2
    <2>2. /\ ClientBecomes(d, toClient)
          /\ UNCHANGED <<roomVars, conn, trusted, roundEventLog>>
      BY <1>3 DEF Heartbeat
    <2> HIDE DEF d
    <2>3. d \in Client!Clients /\ Keeps(client, d)
      BY <1>p, <2>1
    <2> QED
      BY <1>k, <2>2, <2>3
  <1>4. CASE PongDeadline /\ ~client'.socket
    <2> DEFINE d == Client!PongDeadlinePassed(client)
    <2>1. \/ d = Client!HandleSocketGone(client)
          \/ d = [client EXCEPT !.pings = 0]
      BY DEF Client!PongDeadlinePassed
    <2>2. /\ \/ ~d.socket /\ ClientDoes(d)
             \/ d.socket /\ client' = d
      BY <1>4 DEF PongDeadline
    <2> HIDE DEF d
    <2>3. ClientDoes(d)
      BY <1>4, <2>2
    <2>4. 0 \in 0..2
      OBVIOUS
    <2>5. d \in Client!Clients /\ Keeps(client, d)
      BY <1>0, <1>p, <1>g, <2>1, <2>4
    <2> QED
      BY <1>k, <2>3, <2>5
  <1>5. CASE PlayerReplies
    <2>1. PICK d \in {Client!SendReply(client), Client!SendRequestGivenUp(client)} :
             ClientDoes(d)
      BY <1>5 DEF PlayerReplies
    <2>2. d \in Client!Clients /\ Keeps(client, d)
      BY <1>0, AnswerKeeps, ReplyLeaves DEF Leaves
    <2> QED
      BY <1>k, <2>1, <2>2
  <1>6. CASE PlayerManaged
    <2>1. PICK managed \in BOOLEAN : ClientDoes(Client!SetManaged(client, managed))
      BY <1>6 DEF PlayerManaged
    <2> DEFINE d == Client!SetManaged(client, managed)
    <2>2. d \in Client!Clients /\ Keeps(client, d)
      BY <1>0, ManagedKeeps, ManagedLeaves DEF Leaves
    <2>3. ClientDoes(d)
      BY <2>1
    <2> HIDE DEF d
    <2> QED
      BY <1>k, <2>2, <2>3
  <1> QED
    BY <1>1, <1>2, <1>3, <1>4, <1>5, <1>6

-----------------------------------------------------------------------------
(* What a client knows of its peer. *)

\* What a client that holds p will, once it has read q.
LastNews(q, p) ==
    LET news == {i \in DOMAIN q : q[i].kind = "agentStateChanged"}
    IN  IF news = {} THEN p ELSE q[Max(news)].state

\* The news in a sequence: none, or the last there is.
LEMMA TheLastNews ==
    ASSUME NEW q \in Seq(ToClient)
    PROVE  /\ \/ \A i \in DOMAIN q : q[i].kind # "agentStateChanged"
              \/ \E i \in DOMAIN q :
                    /\ q[i].kind = "agentStateChanged"
                    /\ \A j \in DOMAIN q : j > i => q[j].kind # "agentStateChanged"
           /\ (\A i \in DOMAIN q : q[i].kind # "agentStateChanged")
                 => \A p : LastNews(q, p) = p
           /\ \A i \in DOMAIN q :
                 /\ q[i].kind = "agentStateChanged"
                 /\ \A j \in DOMAIN q : j > i => q[j].kind # "agentStateChanged"
                 => \A p : LastNews(q, p) = q[i].state
  <1> DEFINE n == Len(q)
             News(i) == q[i].kind = "agentStateChanged"
             news == {i \in DOMAIN q : News(i)}
  <1>1. n \in Nat /\ DOMAIN q = 1..n
    OBVIOUS
  <1> HIDE DEF n
  <1>2. ASSUME NEW k \in DOMAIN q, News(k)
        PROVE  \E i \in DOMAIN q : News(i) /\ \A j \in DOMAIN q : j > i => ~News(j)
    <2> DEFINE S == {x \in 0..n : n - x \in DOMAIN q /\ News(n - x)}
    <2>1. n - k \in S
      BY <1>1, <1>2
    <2>2. S \subseteq Nat /\ S # {}
      BY <1>1, <2>1
    <2>3. PICK x \in S : \A y \in S : x <= y
      <3> HIDE DEF S
      <3> QED
        BY <2>2, LeastNat
    <2>4. n - x \in DOMAIN q /\ News(n - x) /\ x \in 0..n
      BY <2>3
    <2>5. ASSUME NEW j \in DOMAIN q, j > n - x PROVE ~News(j)
      <3>1. SUFFICES ASSUME News(j) PROVE FALSE
        OBVIOUS
      <3>2. n - j \in 0..n /\ n - (n - j) = j
        BY <1>1
      <3>3. n - j \in S
        BY <3>1, <3>2
      <3>4. x <= n - j
        BY <2>3, <3>3
      <3> QED
        BY <1>1, <2>4, <2>5, <3>4
    <2> QED
      BY <2>4, <2>5
  <1>3. ASSUME NEW i \in DOMAIN q, News(i), \A j \in DOMAIN q : j > i => ~News(j), NEW p
        PROVE  LastNews(q, p) = q[i].state
    <2>1. i \in news /\ \A j \in news : i >= j
      BY <1>1, <1>3
    <2>2. Max(news) \in news /\ \A j \in news : Max(news) >= j
      <3> HIDE DEF news
      <3> QED
        BY <2>1 DEF Max
    <2> DEFINE x == Max(news)
    <2>4. x \in Nat /\ i \in Nat /\ i >= x /\ x >= i
      BY <1>1, <2>1, <2>2
    <2> HIDE DEF x
    <2>5. x = i
      BY <2>4
    <2>3. Max(news) = i
      BY <2>5 DEF x
    <2> QED
      BY <2>1, <2>3 DEF LastNews
  <1>4. ASSUME \A i \in DOMAIN q : ~News(i), NEW p PROVE LastNews(q, p) = p
    <2>1. news = {}
      BY <1>4
    <2> QED
      BY <2>1 DEF LastNews
  <1>5. \/ \A i \in DOMAIN q : ~News(i)
        \/ \E i \in DOMAIN q : News(i) /\ \A j \in DOMAIN q : j > i => ~News(j)
    BY <1>2
  <1> QED
    BY <1>3, <1>4, <1>5

\* The news in one that goes on: what is behind counts.
LEMMA NewsBehind ==
    ASSUME NEW q \in Seq(ToClient), NEW r \in Seq(ToClient), NEW p
    PROVE  /\ (\A i \in DOMAIN r : r[i].kind # "agentStateChanged")
                 => LastNews(q \o r, p) = LastNews(q, p)
           /\ \A m \in ToClient :
                 r = <<m>> /\ m.kind = "agentStateChanged"
                    => LastNews(q \o r, p) = m.state
  <1> DEFINE a == q \o r
             n == Len(q)
             News(s, i) == s[i].kind = "agentStateChanged"
  <1>1. /\ a \in Seq(ToClient) /\ n \in Nat /\ DOMAIN q = 1..n
        /\ DOMAIN r = 1..Len(r) /\ Len(r) \in Nat /\ DOMAIN a = 1..(n + Len(r))
        /\ \A i \in 1..n : a[i] = q[i]
        /\ \A i \in 1..Len(r) : a[n + i] = r[i]
    OBVIOUS
  <1> HIDE DEF a, n
  <1>2. \A i \in DOMAIN a : i \notin DOMAIN q => \E j \in DOMAIN r : i = n + j
    <2> SUFFICES ASSUME NEW i \in DOMAIN a, i \notin DOMAIN q
                 PROVE  \E j \in DOMAIN r : i = n + j
      OBVIOUS
    <2>1. i - n \in DOMAIN r /\ i = n + (i - n)
      BY <1>1
    <2> QED
      BY <2>1
  <1>5. /\ (\A i \in DOMAIN a : ~News(a, i)) => LastNews(a, p) = p
        /\ \A i \in DOMAIN a :
              News(a, i) /\ (\A j \in DOMAIN a : j > i => ~News(a, j))
                 => LastNews(a, p) = a[i].state
    BY <1>1, TheLastNews
  <1>6. /\ (\A i \in DOMAIN q : ~News(q, i)) => LastNews(q, p) = p
        /\ \A i \in DOMAIN q :
              News(q, i) /\ (\A j \in DOMAIN q : j > i => ~News(q, j))
                 => LastNews(q, p) = q[i].state
    BY TheLastNews
  <1>3. ASSUME \A i \in DOMAIN r : ~News(r, i) PROVE LastNews(a, p) = LastNews(q, p)
    <2>1. CASE \A i \in DOMAIN q : ~News(q, i)
      <3>1. \A i \in DOMAIN a : ~News(a, i)
        BY <1>1, <1>2, <1>3, <2>1
      <3> QED
        BY <1>5, <1>6, <2>1, <3>1
    <2>2. CASE \E i \in DOMAIN q : News(q, i) /\ \A j \in DOMAIN q : j > i => ~News(q, j)
      <3>1. PICK i \in DOMAIN q : News(q, i) /\ \A j \in DOMAIN q : j > i => ~News(q, j)
        BY <2>2
      <3>2. i \in DOMAIN a /\ News(a, i) /\ a[i] = q[i]
        BY <1>1, <3>1
      <3>3. \A j \in DOMAIN a : j > i => ~News(a, j)
        BY <1>1, <1>2, <1>3, <3>1
      <3>4. LastNews(a, p) = a[i].state
        BY <1>5, <3>2, <3>3
      <3>5. LastNews(q, p) = q[i].state
        BY <1>6, <3>1
      <3> QED
        BY <3>2, <3>4, <3>5
    <2> QED
      BY <2>1, <2>2, TheLastNews
  <1>4. ASSUME NEW m \in ToClient, r = <<m>>, m.kind = "agentStateChanged"
        PROVE  LastNews(a, p) = m.state
    <2>1. Len(r) = 1 /\ r[1] = m
      BY <1>4
    <2>2. n + 1 \in DOMAIN a /\ a[n + 1] = m /\ \A j \in DOMAIN a : ~(j > n + 1)
      BY <1>1, <2>1
    <2> QED
      BY <1>4, <1>5, <2>2
  <1> QED
    BY <1>3, <1>4 DEF a

\* The news once the head is read.
LEMMA NewsRemain ==
    ASSUME NEW q \in Seq(ToClient), q # <<>>, NEW p
    PROVE  /\ Tail(q) \in Seq(ToClient)
           /\ LastNews(q, p) =
                 LastNews(Tail(q), IF Head(q).kind = "agentStateChanged"
                                   THEN Head(q).state ELSE p)
           /\ \A x : \/ LastNews(q, p) = p /\ LastNews(q, x) = x
                     \/ LastNews(q, p) = LastNews(q, x)
  <1> DEFINE t == Tail(q)
             x == Head(q)
             y == IF x.kind = "agentStateChanged" THEN x.state ELSE p
             News(s, i) == s[i].kind = "agentStateChanged"
  <1>1. /\ t \in Seq(ToClient) /\ 1 \in DOMAIN q /\ q[1] = x
        /\ \A i \in DOMAIN t : i + 1 \in DOMAIN q /\ t[i] = q[i + 1]
        /\ \A i \in DOMAIN q : i # 1 => i - 1 \in DOMAIN t /\ t[i - 1] = q[i]
        /\ DOMAIN q \subseteq Nat /\ DOMAIN t \subseteq Nat
        /\ \A i \in DOMAIN q : i > 0
    <2>1. t \in Seq(ToClient)
      OBVIOUS
    <2> QED
      BY <2>1, Remain
  <1> HIDE DEF t, x
  <1>2. LastNews(q, p) = LastNews(t, y)
    <2>1. CASE \A i \in DOMAIN t : ~News(t, i)
      <3>1. ASSUME NEW i \in DOMAIN q, i > 1 PROVE ~News(q, i)
        <4>1. i - 1 \in DOMAIN t /\ t[i - 1] = q[i]
          BY <1>1, <3>1
        <4> QED
          BY <2>1, <4>1
      <3>2. LastNews(t, y) = y
        BY <1>1, <2>1, TheLastNews
      <3>3. LastNews(q, p) = y
        <4>1. CASE News(q, 1)
          <5>1. LastNews(q, p) = q[1].state
            BY <1>1, <3>1, <4>1, TheLastNews
          <5> QED
            BY <1>1, <4>1, <5>1
        <4>2. CASE ~News(q, 1)
          <5>1. \A i \in DOMAIN q : i = 1 \/ i > 1
            BY <1>1
          <5>2. \A i \in DOMAIN q : ~News(q, i)
            BY <3>1, <4>2, <5>1
          <5>3. LastNews(q, p) = p
            BY <5>2, TheLastNews
          <5> QED
            BY <1>1, <4>2, <5>3
        <4> QED
          BY <4>1, <4>2
      <3> QED
        BY <3>2, <3>3
    <2>2. CASE \E i \in DOMAIN t : News(t, i) /\ \A j \in DOMAIN t : j > i => ~News(t, j)
      <3>1. PICK i \in DOMAIN t : News(t, i) /\ \A j \in DOMAIN t : j > i => ~News(t, j)
        BY <2>2
      <3>2. i + 1 \in DOMAIN q /\ News(q, i + 1) /\ q[i + 1] = t[i] /\ i \in Nat
        BY <1>1, <3>1
      <3>3. ASSUME NEW j \in DOMAIN q, j > i + 1 PROVE ~News(q, j)
        <4>1. j # 1 /\ j \in Nat
          BY <1>1, <3>2, <3>3
        <4>2. j - 1 \in DOMAIN t /\ t[j - 1] = q[j] /\ j - 1 > i
          BY <1>1, <3>2, <3>3, <4>1
        <4> QED
          BY <3>1, <4>2
      <3>4. LastNews(q, p) = q[i + 1].state
        BY <3>2, <3>3, TheLastNews
      <3>5. LastNews(t, y) = t[i].state
        BY <1>1, <3>1, TheLastNews
      <3> QED
        BY <3>2, <3>4, <3>5
    <2> QED
      BY <1>1, <2>1, <2>2, TheLastNews
  <1>3. ASSUME NEW z
        PROVE  \/ LastNews(q, p) = p /\ LastNews(q, z) = z
               \/ LastNews(q, p) = LastNews(q, z)
    <2>1. CASE \A i \in DOMAIN q : ~News(q, i)
      BY <2>1, TheLastNews
    <2>2. CASE \E i \in DOMAIN q : News(q, i) /\ \A j \in DOMAIN q : j > i => ~News(q, j)
      BY <2>2, TheLastNews
    <2> QED
      BY <2>1, <2>2, TheLastNews
  <1> QED
    BY <1>1, <1>2, <1>3 DEF t, x

-----------------------------------------------------------------------------
(* What a player who comes back has missed: the invariant. *)

\* The greeting of a connection is the first thing on it, and is answered once, with
\* the client's count; nothing else is on the way until the answer is taken.
Greeted ==
    /\ ~bound => \A i \in DOMAIN toClient : i = 1 /\ toClient[i].kind = "version"
    /\ bound => \A i \in DOMAIN toClient : toClient[i].kind # "version"
    /\ \A i \in DOMAIN toServer : toServer[i].kind = "signIn" =>
          /\ ~bound /\ toClient = <<>>
          /\ toServer[i].seq = client.lastRoundEventSeq
          /\ \A j \in DOMAIN toServer : toServer[j].kind = "signIn" => j = i

\* What the client has been told and counts, on the wire q.
MirrorOn(q) ==
    /\ NeverAhead(client.mirror, client.lastRoundEventSeq, q, history, roundEventLog)
    /\ CountsItsRound(client.mirror, client.lastRoundEventSeq, history)

\* Every history begins with a round, and the log is the last one's.
HistoryOK ==
    /\ history # <<>> /\ history[1] = "roundStart"
    /\ phase = "playing" => LogIsTheRound(history, roundEventLog)

\* The inductive invariant behind CatchesUp, of a match that goes on.
MirrorInv ==
    /\ bound => phase # "over"
    /\ phase # "over" => Greeted /\ HistoryOK /\ MirrorOn(toClient)

\* The sequences there are.
ToldOn(q) ==
    Told(client.mirror, client.lastRoundEventSeq, q, history, roundEventLog)

LEMMA MirrorTold ==
    ASSUME LinkInv, NEW q \in Seq(ToClient)
    PROVE  ToldOn(q) /\ peer \in {"online", "away"}
  BY DEF ToldOn, Told, LinkInv, TypeOK, Client!Clients

\* What is to be shown of a step.
Goal == MirrorInv' /\ GetsWhatItMissed /\ StaysUpToDate

LEMMA CaughtUp ==
    /\ Caught <=> Follows(client.mirror, toClient, history)
    /\ PeerKnown = LastNews(toClient, client.peer)
    /\ Caught' <=> Follows(client'.mirror, toClient', history')
    /\ PeerKnown' = LastNews(toClient', client'.peer)
  BY DEF Caught, Follows, PeerKnown, LastNews

\* The server takes what changes nothing of this, or the wires are lost.
LEMMA MirrorFrame ==
    ASSUME LinkInv, MirrorInv, UNCHANGED <<phase, history, peer, roundEventLog, client>>,
           bound' => bound,
           \/ toClient' = <<>> /\ toServer' = <<>> /\ (~bound' \/ link' # "open")
           \/ /\ toClient' = toClient /\ bound' = bound
              /\ \/ toServer' = toServer
                 \/ toServer # <<>> /\ toServer' = Tail(toServer)
    PROVE  Goal
  <1>0. toClient \in Seq(ToClient) /\ toServer \in Seq(Client!ToServer)
    BY DEF LinkInv, TypeOK
  <1>1. GetsWhatItMissed
    BY DEF GetsWhatItMissed
  <1>2. CASE toClient' = <<>> /\ toServer' = <<>> /\ (~bound' \/ link' # "open")
    <2>1. StaysUpToDate
      BY <1>2 DEF StaysUpToDate
    <2>2. ASSUME phase # "over" PROVE MirrorOn(<<>>)
      <3>1. MirrorOn(toClient) /\ ToldOn(toClient)
        BY <1>0, <2>2, MirrorTold DEF MirrorInv
      <3> QED
        BY <3>1, WireLost DEF MirrorOn, ToldOn
    <2>3. phase' # "over" => MirrorOn(toClient)'
      BY <1>2, <2>2 DEF MirrorOn
    <2>4. Greeted'
      BY <1>2 DEF Greeted
    <2>5. HistoryOK' <=> HistoryOK
      BY DEF HistoryOK
    <2> QED
      BY <1>1, <2>1, <2>3, <2>4, <2>5 DEF Goal, MirrorInv
  <1>3. CASE /\ toClient' = toClient /\ bound' = bound
             /\ \/ toServer' = toServer
                \/ toServer # <<>> /\ toServer' = Tail(toServer)
    <2>1. StaysUpToDate
      <3>1. (Caught' <=> Caught) /\ PeerKnown' = PeerKnown
        BY <1>3, CaughtUp
      <3> QED
        BY <3>1 DEF StaysUpToDate
    <2>2. Greeted => Greeted'
      <3>1. CASE toServer' = toServer
        BY <1>3, <3>1 DEF Greeted
      <3>2. CASE toServer # <<>> /\ toServer' = Tail(toServer)
        <4> SUFFICES ASSUME Greeted PROVE Greeted'
          OBVIOUS
        <4>1. /\ \A i \in DOMAIN toServer' :
                    i + 1 \in DOMAIN toServer /\ toServer'[i] = toServer[i + 1]
              /\ DOMAIN toServer' \subseteq Nat
          BY <1>0, <3>2, Remain
        <4>2. ASSUME NEW i \in DOMAIN toServer', toServer'[i].kind = "signIn"
              PROVE  /\ ~bound /\ toClient = <<>>
                     /\ toServer'[i].seq = client.lastRoundEventSeq
                     /\ \A j \in DOMAIN toServer' : toServer'[j].kind = "signIn" => j = i
          <5>1. /\ ~bound /\ toClient = <<>>
                /\ toServer'[i].seq = client.lastRoundEventSeq
                /\ \A j \in DOMAIN toServer : toServer[j].kind = "signIn" => j = i + 1
            BY <4>1, <4>2 DEF Greeted
          <5>2. ASSUME NEW j \in DOMAIN toServer', toServer'[j].kind = "signIn"
                PROVE  j = i
            <6>1. j + 1 = i + 1 /\ i \in Nat /\ j \in Nat
              BY <4>1, <5>1, <5>2
            <6> QED
              BY <6>1
          <5> QED
            BY <5>1, <5>2
        <4>3. /\ ~bound => \A i \in DOMAIN toClient : i = 1 /\ toClient[i].kind = "version"
              /\ bound => \A i \in DOMAIN toClient : toClient[i].kind # "version"
          BY DEF Greeted
        <4> QED
          BY <1>3, <4>2, <4>3 DEF Greeted
      <3> QED
        BY <1>3, <3>1, <3>2
    <2>3. (HistoryOK' <=> HistoryOK) /\ (MirrorOn(toClient)' <=> MirrorOn(toClient))
      BY <1>3 DEF HistoryOK, MirrorOn
    <2> QED
      BY <1>1, <1>3, <2>1, <2>2, <2>3 DEF Goal, MirrorInv
  <1> QED
    BY <1>2, <1>3

\* The room sends what is no greeting.
LEMMA GreetedSends ==
    ASSUME LinkInv, Greeted, UNCHANGED <<bound, toServer, client>>,
           NEW p \in Seq(ToClient), \A i \in DOMAIN p : p[i].kind # "version",
           toClient' = Sent(p)
    PROVE  Greeted'
  <1>1. CASE ~bound
    <2>1. toClient' = toClient
      BY <1>1 DEF Sent
    <2> QED
      BY <2>1 DEF Greeted
  <1>2. CASE bound
    <2>1. /\ \A i \in DOMAIN toClient : toClient[i].kind # "version"
          /\ \A i \in DOMAIN toServer : toServer[i].kind # "signIn"
      BY <1>2 DEF Greeted
    <2>2. toClient' = toClient \/ toClient' = toClient \o p
      BY SentTo
    <2>3. toClient \in Seq(ToClient)
      BY DEF LinkInv
    <2> DEFINE a == toClient \o p
    <2>5. \A i \in DOMAIN a : a[i].kind # "version"
      BY <2>1, <2>3, EachKind
    <2>4. \A i \in DOMAIN toClient' : toClient'[i].kind # "version"
      BY <2>1, <2>2, <2>5
    <2> QED
      BY <1>2, <2>1, <2>4 DEF Greeted
  <1> QED
    BY <1>1, <1>2

\* The room does something, and sends p of it, which is or is not on its way then.
LEMMA MirrorSends ==
    ASSUME LinkInv, MirrorInv, phase # "over", phase' # "over",
           UNCHANGED <<bound, link, toServer, client>>,
           NEW p \in Seq(ToClient), \A i \in DOMAIN p : p[i].kind # "version",
           toClient' = Sent(p),
           HistoryOK',
           NeverAhead(client.mirror, client.lastRoundEventSeq, toClient,
                      history', roundEventLog'),
           NeverAhead(client.mirror, client.lastRoundEventSeq, toClient \o p,
                      history', roundEventLog'),
           CountsItsRound(client.mirror, client.lastRoundEventSeq, history'),
           Follows(client.mirror, toClient, history)
              => Follows(client.mirror, toClient \o p, history'),
           \/ peer' = peer /\ \A i \in DOMAIN p : p[i].kind # "agentStateChanged"
           \/ p = <<NotifyAgentStateChanged(peer')>> /\ peer' \in {"online", "away"}
    PROVE  Goal
  <1>1. Greeted'
    BY GreetedSends DEF MirrorInv
  <1>2. toClient' = toClient \/ toClient' = toClient \o p
    BY SentTo
  <1>3. MirrorOn(toClient)'
    BY <1>2 DEF MirrorOn
  <1>4. GetsWhatItMissed
    BY DEF GetsWhatItMissed
  <1>5. StaysUpToDate
    <2> SUFFICES ASSUME bound, link = "open"
                 PROVE  (Caught => Caught') /\ (PeerKnown = peer => (PeerKnown = peer)')
      BY DEF StaysUpToDate
    <2>1. toClient' = toClient \o p /\ toClient \in Seq(ToClient)
      BY SentTo DEF LinkInv
    <2>2. Caught => Caught'
      BY <2>1, CaughtUp
    <2>3. CASE peer' = peer /\ \A i \in DOMAIN p : p[i].kind # "agentStateChanged"
      <3>1. LastNews(toClient \o p, client.peer) = LastNews(toClient, client.peer)
        BY <2>1, <2>3, NewsBehind
      <3>2. PeerKnown' = PeerKnown
        BY <2>1, <3>1, CaughtUp
      <3> QED
        BY <2>2, <2>3, <3>2
    <2>4. CASE p = <<NotifyAgentStateChanged(peer')>> /\ peer' \in {"online", "away"}
      <3> DEFINE m == NotifyAgentStateChanged(peer')
      <3>1. m \in ToClient /\ m.kind = "agentStateChanged" /\ m.state = peer'
        BY <2>4, Sendable DEF NotifyAgentStateChanged
      <3> HIDE DEF m
      <3>2. LastNews(toClient \o p, client.peer) = m.state
        BY <2>1, <2>4, <3>1, NewsBehind DEF m
      <3>3. PeerKnown' = peer'
        BY <2>1, <3>1, <3>2, CaughtUp
      <3> QED
        BY <2>2, <3>3
    <2> QED
      BY <2>3, <2>4
  <1> QED
    BY <1>1, <1>3, <1>4, <1>5 DEF Goal, MirrorInv

\* What the room does: a request, a result, the end of a round, the next one, and
\* the state of another player's agent.
LEMMA MirrorRoom ==
    ASSUME LinkInv, MirrorInv,
           \/ RoomAsks \/ RoomResult \/ RoundOver
           \/ UpgradeResult \/ AgentStateChanged
    PROVE  Goal
  <1> DEFINE m == client.mirror
             n == client.lastRoundEventSeq
             q == toClient
             h == history
             l == roundEventLog
  <1> USE DEF roomVars, serverVars, wires, counters
  <1>0. toClient \in Seq(ToClient) /\ ToldOn(toClient) /\ peer \in {"online", "away"}
        /\ l \in Seq(Client!RoundEvents) /\ h \in Seq(Client!Changes)
        /\ m \in Seq(Client!Changes)
    BY MirrorTold DEF LinkInv, TypeOK, ToldOn, Told
  <1>t. Told(m, n, q, h, l)
    BY <1>0 DEF ToldOn
  <1>o. ASSUME phase # "over"
        PROVE  HistoryOK /\ NeverAhead(m, n, q, h, l) /\ CountsItsRound(m, n, h)
               /\ Len(m) <= Len(h)
    <2>1. HistoryOK /\ NeverAhead(m, n, q, h, l) /\ CountsItsRound(m, n, h)
      BY <1>o DEF MirrorInv, MirrorOn
    <2>2. ChangesIn(q, Len(q)) \in 0..Len(q)
      <3>1. Len(q) \in 0..Len(q)
        BY <1>0
      <3> QED
        BY <1>0, <3>1, ChangesType
    <2>3. Len(m) + ChangesIn(q, Len(q)) <= Len(h)
      BY <2>1 DEF NeverAhead
    <2>4. Len(m) \in Nat /\ Len(h) \in Nat /\ Len(q) \in Nat
      BY <1>0
    <2> HIDE DEF m, n, q, h, l
    <2> QED
      BY <2>1, <2>2, <2>3, <2>4
  <1>g. ASSUME NEW e \in Seq(Client!Changes)
        PROVE  /\ h \o e \in Seq(Client!Changes) /\ Len(h \o e) = Len(h) + Len(e)
               /\ \A i \in DOMAIN h : (h \o e)[i] = h[i]
               /\ \A i \in DOMAIN e : (h \o e)[Len(h) + i] = e[i]
    <2> HIDE DEF m, n, q, h, l
    <2> QED
      BY <1>0, HistoryGrows
  \* what is sent is no change
  <1>n. ASSUME phase # "over", phase' # "over",
               UNCHANGED <<history, bound, link, toServer, client>>,
               HistoryOK', roundEventLog' = l,
               NEW p \in Seq(ToClient), toClient' = Sent(p),
               \A i \in DOMAIN p : p[i].kind # "version" /\ ~IsChange(p[i]),
               \/ peer' = peer /\ \A i \in DOMAIN p : p[i].kind # "agentStateChanged"
               \/ p = <<NotifyAgentStateChanged(peer')>> /\ peer' \in {"online", "away"}
        PROVE  Goal
    <2>1. /\ NeverAhead(m, n, q \o p, h, l)
          /\ Follows(m, q, h) => Follows(m, q \o p, h)
      BY <1>n, <1>o, <1>t, OthersSent
    <2>2. NeverAhead(m, n, q, h, l) /\ CountsItsRound(m, n, h)
      BY <1>n, <1>o
    <2> QED
      BY <1>n, <2>1, <2>2, MirrorSends
  \* what is sent are the changes there were
  <1>c. ASSUME phase # "over", phase' # "over",
               UNCHANGED <<peer, bound, link, toServer, client>>,
               HistoryOK',
               NEW e \in Seq(Client!Changes), history' = h \o e,
               roundEventLog' \in Seq(Client!RoundEvents),
               Len(roundEventLog') <= Len(l) + Len(e),
               NEW p \in Seq(ToClient), toClient' = Sent(p), Len(p) = Len(e),
               \A i \in DOMAIN p :
                  /\ p[i].kind \in {"event", "roundStart"} /\ ChangeOf(p[i]) = e[i]
                  /\ p[i].kind = "roundStart" => i + Len(roundEventLog') <= Len(e)
        PROVE  Goal
    <2>1. \A i \in DOMAIN p : /\ IsChange(p[i]) /\ p[i].kind # "version"
                              /\ p[i].kind # "agentStateChanged"
      BY <1>c DEF IsChange
    <2> DEFINE k == roundEventLog'
    <2>2. /\ k \in Seq(Client!RoundEvents) /\ Len(k) <= Len(l) + Len(e)
          /\ \A i \in DOMAIN p : p[i].kind = "roundStart" => i + Len(k) <= Len(e)
          /\ \A i \in DOMAIN p : ChangeOf(p[i]) = e[i]
      BY <1>c
    <2>4. NeverAhead(m, n, q, h, l) /\ CountsItsRound(m, n, h) /\ Len(m) <= Len(h)
      BY <1>c, <1>o
    <2>5. /\ NeverAhead(m, n, q, h \o e, k)
          /\ NeverAhead(m, n, q \o p, h \o e, k)
          /\ Follows(m, q, h) => Follows(m, q \o p, h \o e)
      <3> HIDE DEF k
      <3> QED
        BY <1>c, <1>t, <2>1, <2>2, <2>4, ChangesSent
    <2>3. CountsItsRound(m, n, h \o e)
      BY <1>0, <1>c, <2>4, HistoryGrows
    <2> QED
      BY <1>c, <2>1, <2>3, <2>5, MirrorSends
  <1>s. /\ \A x \in ToClient : <<x>> \in Seq(ToClient) /\ DOMAIN <<x>> = {1} /\ <<x>>[1] = x
        /\ \A x, y \in ToClient : /\ <<x, y>> \in Seq(ToClient) /\ DOMAIN <<x, y>> = {1, 2}
                                  /\ <<x, y>>[1] = x /\ <<x, y>>[2] = y
    BY Few
  <1>1. CASE RoomAsks
    <2>1. PICK r \in RequestIds : toClient' = Sent(<<Request(r)>>)
      BY <1>1, BoundsAssumption DEF RoomAsks, RequestIds
    <2>2. Request(r) \in ToClient /\ Request(r).kind = "request"
      BY Sendable DEF Request
    <2>3. /\ phase # "over" /\ phase' # "over"
          /\ UNCHANGED <<history, bound, link, toServer, client>>
          /\ peer' = peer /\ phase' = phase /\ roundEventLog' = l
      BY <1>1 DEF RoomAsks
    <2>4. HistoryOK'
      BY <1>o, <2>3 DEF HistoryOK
    <2> DEFINE p == <<Request(r)>>
    <2>5. /\ p \in Seq(ToClient) /\ toClient' = Sent(p)
          /\ \A i \in DOMAIN p : p[i].kind = "request"
      BY <1>s, <2>1, <2>2
    <2> HIDE DEF p
    <2>6. \A i \in DOMAIN p : /\ p[i].kind # "version" /\ p[i].kind # "agentStateChanged"
                              /\ ~IsChange(p[i])
      BY <2>5 DEF IsChange
    <2> QED
      BY <1>n, <2>3, <2>4, <2>5, <2>6
  <1>2. CASE RoomResult
    <2> DEFINE e == <<"result">>
               p == <<Event("result")>>
    <2>1. /\ Event("result") \in ToClient /\ Event("result").kind = "event"
          /\ Event("result").event = "result"
      BY Sendable DEF Event
    <2>2. /\ phase = "playing" /\ phase' = phase /\ peer' = peer
          /\ history' = Append(h, "result") /\ roundEventLog' = Append(l, "result")
          /\ toClient' = Sent(p) /\ UNCHANGED <<bound, link, toServer, client>>
      BY <1>2 DEF RoomResult
    <2>3. /\ e \in Seq(Client!Changes) /\ Len(e) = 1 /\ e[1] = "result"
          /\ "result" \in Client!Changes /\ "result" \in Client!RoundEvents
      BY Sendable, Few
    <2>4. /\ p \in Seq(ToClient) /\ Len(p) = 1 /\ DOMAIN p = {1} /\ p[1] = Event("result")
      BY <1>s, <2>1
    <2>5. /\ Append(h, "result") = h \o e /\ Append(h, "result") \in Seq(Client!Changes)
      BY <1>0, <2>3, HitsAppend
    <2>6. /\ Append(l, "result") \in Seq(Client!RoundEvents)
          /\ Len(Append(l, "result")) = Len(l) + 1
          /\ Len(Append(h, "result")) = Len(h) + 1
          /\ Append(l, "result")[Len(l) + 1] = "result"
          /\ Append(h, "result")[Len(h) + 1] = "result"
          /\ \A i \in DOMAIN l : Append(l, "result")[i] = l[i]
          /\ \A i \in DOMAIN h : Append(h, "result")[i] = h[i]
          /\ DOMAIN Append(l, "result") = 1..(Len(l) + 1)
          /\ DOMAIN Append(h, "result") = 1..(Len(h) + 1)
          /\ DOMAIN l = 1..Len(l) /\ DOMAIN h = 1..Len(h)
          /\ Len(l) \in Nat /\ Len(h) \in Nat
      BY <1>0, <2>3
    <2>7. HistoryOK'
      <3>1. /\ h # <<>> /\ h[1] = "roundStart" /\ LogIsTheRound(h, l)
        BY <1>o, <2>2 DEF HistoryOK
      <3> DEFINE g == history'
                 k == roundEventLog'
                 start == Len(h) - Len(l)
      <3>2. /\ Len(g) = Len(h) + 1 /\ Len(k) = Len(l) + 1
            /\ k[Len(l) + 1] = "result" /\ g[Len(h) + 1] = "result"
            /\ \A i \in DOMAIN l : k[i] = l[i]
            /\ \A i \in DOMAIN h : g[i] = h[i]
            /\ DOMAIN k = 1..(Len(l) + 1) /\ DOMAIN g = 1..(Len(h) + 1)
            /\ DOMAIN l = 1..Len(l) /\ DOMAIN h = 1..Len(h)
            /\ Len(l) \in Nat /\ Len(h) \in Nat
        BY <2>2, <2>6
      <3>3. /\ start \in DOMAIN h /\ h[start] = "roundStart"
            /\ \A i \in DOMAIN l : h[start + i] = l[i]
        BY <3>1 DEF LogIsTheRound
      <3> HIDE DEF g, k
      <3>4. Len(g) - Len(k) = start
        BY <3>2
      <3>5. start \in DOMAIN g /\ g[start] = "roundStart"
        BY <3>2, <3>3
      <3>6. ASSUME NEW i \in DOMAIN k PROVE g[start + i] = k[i]
        <4>1. CASE i \in DOMAIN l
          <5>1. start + i \in DOMAIN h
            BY <3>2, <3>3, <4>1
          <5> QED
            BY <3>2, <3>3, <4>1, <5>1
        <4>2. CASE i \notin DOMAIN l
          <5>1. i = Len(l) + 1 /\ start + i = Len(h) + 1
            BY <3>2, <4>2
          <5> QED
            BY <3>2, <5>1
        <4> QED
          BY <4>1, <4>2
      <3>7. LogIsTheRound(g, k)
        BY <3>4, <3>5, <3>6 DEF LogIsTheRound
      <3>8. 1 \in DOMAIN h
        BY <3>2, <3>3
      <3>9. g # <<>> /\ g[1] = "roundStart"
        <4>1. DOMAIN g # {}
          BY <3>5
        <4> QED
          BY <3>1, <3>2, <3>8, <4>1
      <3> QED
        BY <3>7, <3>9 DEF HistoryOK, g, k
    <2>8. \A i \in DOMAIN p :
             /\ p[i].kind \in {"event", "roundStart"} /\ ChangeOf(p[i]) = e[i]
             /\ p[i].kind = "roundStart" => i + Len(roundEventLog') <= Len(e)
      BY <2>1, <2>3, <2>4 DEF ChangeOf
    <2>9. phase # "over" /\ phase' # "over"
      BY <2>2
    <2>10. /\ history' = h \o e /\ roundEventLog' \in Seq(Client!RoundEvents)
           /\ Len(roundEventLog') <= Len(l) + Len(e) /\ Len(p) = Len(e)
      BY <2>2, <2>3, <2>4, <2>5, <2>6
    <2> HIDE DEF p, e
    <2> QED
      BY <1>c, <2>2, <2>3, <2>4, <2>7, <2>8, <2>9, <2>10
  <1>3. CASE RoundOver
    <2>1. /\ phase = "playing" /\ phase' = "upgrading" /\ roundEventLog' = <<>>
          /\ UNCHANGED <<history, peer, bound, link, toClient, toServer, client>>
      BY <1>3 DEF RoundOver
    <2>2. HistoryOK'
      BY <1>o, <2>1 DEF HistoryOK
    <2>3. NeverAhead(m, n, q, h, <<>>)
      BY <1>o, <1>t, <2>1, LogDropped
    <2>4. MirrorOn(toClient)'
      BY <1>o, <2>1, <2>3 DEF MirrorOn
    <2>5. Greeted'
      BY <2>1 DEF MirrorInv, Greeted
    <2>6. (Caught' <=> Caught) /\ PeerKnown' = PeerKnown
      BY <2>1, CaughtUp
    <2> QED
      BY <2>1, <2>2, <2>4, <2>5, <2>6
         DEF Goal, MirrorInv, GetsWhatItMissed, StaysUpToDate
  <1>4. CASE UpgradeResult /\ NextRound
    <2> DEFINE e == <<"upgrade", "roundStart">>
               p == <<Event("upgrade"), NotifyRoundStart>>
               z == <<>>
    <2>1. /\ Event("upgrade") \in ToClient /\ Event("upgrade").kind = "event"
          /\ Event("upgrade").event = "upgrade"
          /\ NotifyRoundStart \in ToClient /\ NotifyRoundStart.kind = "roundStart"
      BY Sendable DEF Event, NotifyRoundStart
    <2>2. /\ phase = "upgrading" /\ phase' = "playing" /\ peer' = peer
          /\ history' = h \o e /\ roundEventLog' = z
          /\ toClient' = Sent(p) /\ UNCHANGED <<bound, link, toServer, client>>
      BY <1>4 DEF UpgradeResult, NextRound
    <2>3. /\ e \in Seq(Client!Changes) /\ Len(e) = 2 /\ e[1] = "upgrade"
          /\ e[2] = "roundStart" /\ DOMAIN e = {1, 2}
      <3>1. "upgrade" \in Client!Changes /\ "roundStart" \in Client!Changes
        BY Sendable
      <3> QED
        BY <3>1, Few
    <2>4. /\ p \in Seq(ToClient) /\ Len(p) = 2 /\ DOMAIN p = {1, 2}
          /\ p[1] = Event("upgrade") /\ p[2] = NotifyRoundStart
      BY <1>s, <2>1
    <2>5. z \in Seq(Client!RoundEvents) /\ Len(z) = 0 /\ DOMAIN z = {}
      OBVIOUS
    <2> HIDE DEF p, e, z
    <2>6. /\ h \o e \in Seq(Client!Changes) /\ Len(h \o e) = Len(h) + 2
          /\ \A i \in DOMAIN h : (h \o e)[i] = h[i]
          /\ (h \o e)[Len(h) + 2] = "roundStart"
          /\ Len(h) \in Nat
      <3>1. Len(h) \in Nat /\ 2 \in DOMAIN e
        BY <1>0, <2>3
      <3>2. /\ h \o e \in Seq(Client!Changes) /\ Len(h \o e) = Len(h) + Len(e)
            /\ \A i \in DOMAIN h : (h \o e)[i] = h[i]
            /\ \A i \in DOMAIN e : (h \o e)[Len(h) + i] = e[i]
        BY <1>g, <2>3
      <3> QED
        BY <2>3, <3>1, <3>2
    <2>7. HistoryOK'
      <3>1. /\ h # <<>> /\ h[1] = "roundStart"
        BY <1>o, <2>2 DEF HistoryOK
      <3> DEFINE g == h \o e
      <3>2. 1 \in DOMAIN h
        BY <1>0, <3>1
      <3>3. g \in Seq(Client!Changes) /\ Len(g) = Len(h) + 2 /\ g[1] = "roundStart"
            /\ g[Len(h) + 2] = "roundStart" /\ Len(h) \in Nat
        BY <2>6, <3>1, <3>2
      <3> HIDE DEF g
      <3>4. Len(g) - Len(z) \in DOMAIN g /\ g[Len(g) - Len(z)] = "roundStart"
        BY <2>5, <3>3
      <3>5. LogIsTheRound(g, z)
        BY <2>5, <3>4 DEF LogIsTheRound
      <3>6. g # <<>>
        BY <3>3
      <3> QED
        BY <2>2, <3>3, <3>5, <3>6 DEF HistoryOK, g
    <2>8. \A i \in DOMAIN p :
             /\ p[i].kind \in {"event", "roundStart"} /\ ChangeOf(p[i]) = e[i]
             /\ p[i].kind = "roundStart" => i + Len(roundEventLog') <= Len(e)
      <3>1. Len(roundEventLog') = 0
        BY <2>2, <2>5
      <3> QED
        BY <2>1, <2>3, <2>4, <3>1 DEF ChangeOf
    <2>9. /\ roundEventLog' \in Seq(Client!RoundEvents) /\ Len(p) = Len(e)
          /\ Len(roundEventLog') <= Len(l) + Len(e)
      <3>1. Len(l) \in Nat
        BY <1>0
      <3> HIDE DEF l
      <3> QED
        BY <2>2, <2>3, <2>4, <2>5, <3>1
    <2>10. phase # "over" /\ phase' # "over"
      BY <2>2
    <2> QED
      BY <1>c, <2>2, <2>3, <2>4, <2>7, <2>8, <2>9, <2>10
  <1>5. CASE UpgradeResult /\ GameOver
    <2>1. phase' = "over" /\ bound' = FALSE
      BY <1>5 DEF GameOver
    <2> QED
      BY <2>1 DEF Goal, MirrorInv, GetsWhatItMissed, StaysUpToDate
  <1>6. CASE AgentStateChanged
    <2> DEFINE x == NotifyAgentStateChanged(peer')
               p == <<x>>
    <2>1. /\ phase # "over" /\ phase' = phase /\ peer' \in {"online", "away"}
          /\ toClient' = Sent(p) /\ roundEventLog' = l
          /\ UNCHANGED <<history, bound, link, toServer, client>>
      BY <1>6 DEF AgentStateChanged
    <2>2. x \in ToClient /\ x.kind = "agentStateChanged"
      BY <2>1, Sendable DEF NotifyAgentStateChanged
    <2> HIDE DEF x
    <2>3. p \in Seq(ToClient) /\ \A i \in DOMAIN p : p[i].kind = "agentStateChanged"
      BY <1>s, <2>2
    <2>4. HistoryOK'
      BY <1>o, <2>1 DEF HistoryOK
    <2> HIDE DEF p
    <2>5. \A i \in DOMAIN p : p[i].kind # "version" /\ ~IsChange(p[i])
      BY <2>3 DEF IsChange
    <2>6. p = <<NotifyAgentStateChanged(peer')>>
      BY DEF p, x
    <2> QED
      BY <1>n, <2>1, <2>3, <2>4, <2>5, <2>6
  <1> QED
    BY <1>1, <1>2, <1>3, <1>4, <1>5, <1>6 DEF UpgradeResult

\* A sign-in that finds its seat, on a connection that is greeted: nothing else is on
\* the way, and the count is the client's.
LEMMA MirrorSeat ==
    ASSUME LinkInv, MirrorInv, toServer # <<>>, phase # "over",
           UNCHANGED <<phase, history, peer, roundEventLog, client>>,
           Head(toServer).kind = "signIn", SeatFound(Head(toServer).seq)
    PROVE  Goal
  <1> DEFINE m == client.mirror
             n == client.lastRoundEventSeq
             h == history
             l == roundEventLog
             r == ReplayMissedRoundEvents(n)
             a == NotifyPlayerAdded(AgentState(TRUE, trusted))
             b == NotifyPeerAdded(peer)
             s == <<a, b>>
             z == <<>>
  <1>0. toServer \in Seq(Client!ToServer) /\ z \in Seq(ToClient)
    BY DEF LinkInv, TypeOK
  <1>1. 1 \in DOMAIN toServer /\ toServer[1] = Head(toServer)
    BY <1>0, Remain
  <1>2. /\ ~bound /\ toClient = z /\ Head(toServer).seq = n
        /\ \A j \in DOMAIN toServer : toServer[j].kind = "signIn" => j = 1
    BY <1>1 DEF MirrorInv, Greeted
  <1>3. Told(m, n, z, h, l) /\ peer \in {"online", "away"} /\ n \in Nat
    BY <1>0, MirrorTold DEF ToldOn, Told
  <1>4. NeverAhead(m, n, z, h, l) /\ CountsItsRound(m, n, h) /\ HistoryOK
    BY <1>2 DEF MirrorInv, MirrorOn
  <1>5. /\ NeverAhead(m, n, r, h, l)
        /\ LogIsTheRound(h, l) /\ CountsItsRound(m, n, h)
           /\ IsPrefix(m, h) /\ RoundsOf(m) = RoundsOf(h) => Follows(m, r, h)
    BY <1>3, <1>4, Replayed
  <1>6. r \in Seq(ToClient) /\ \A i \in DOMAIN r : r[i].kind = "event"
    BY <1>3, ReplayType
  <1>7. /\ s \in Seq(ToClient)
        /\ \A i \in DOMAIN s : s[i].kind \in {"playerAdded", "peerAdded"}
    <2>1. /\ a \in ToClient /\ a.kind = "playerAdded"
          /\ b \in ToClient /\ b.kind = "peerAdded"
      BY <1>3, Sendable DEF NotifyPlayerAdded, NotifyPeerAdded
    <2> HIDE DEF a, b
    <2> QED
      BY <2>1, Few
  <1> HIDE DEF s
  <1>8. \A i \in DOMAIN s : s[i].kind # "version" /\ ~IsChange(s[i])
    BY <1>7 DEF IsChange
  <1>9. toClient' = r \o s /\ bound' /\ toServer' = Tail(toServer)
    <2>1. toClient' = toClient \o r \o s /\ bound' /\ toServer' = Tail(toServer)
      BY <1>2 DEF SeatFound, s
    <2> HIDE DEF r
    <2>2. toClient \o r = r
      BY <1>2, <1>6
    <2> QED
      BY <2>1, <2>2
  <1> HIDE DEF r
  <1>10. Told(m, n, r, h, l)
    BY <1>3, <1>6 DEF Told
  <1>11. /\ NeverAhead(m, n, r \o s, h, l)
         /\ Follows(m, r, h) => Follows(m, r \o s, h)
    BY <1>5, <1>7, <1>8, <1>10, OthersSent
  <1>12. MirrorOn(toClient)' /\ HistoryOK'
    BY <1>4, <1>9, <1>11 DEF MirrorOn, HistoryOK
  <1>13. Greeted'
    <2>1. ASSUME NEW i \in DOMAIN toServer' PROVE toServer'[i].kind # "signIn"
      <3>1. /\ i + 1 \in DOMAIN toServer /\ toServer'[i] = toServer[i + 1]
            /\ i \in Nat /\ i > 0
        <4>1. Tail(toServer) \in Seq(Client!ToServer)
          BY <1>0
        <4> QED
          BY <1>0, <1>9, <4>1, Remain
      <3> QED
        BY <1>2, <3>1
    <2>2. \A i \in DOMAIN (r \o s) : (r \o s)[i].kind # "version"
      <3>1. \A i \in DOMAIN r : r[i].kind # "version"
        BY <1>6
      <3> QED
        BY <1>6, <1>7, <1>8, <3>1, EachKind
    <2> QED
      BY <1>9, <2>1, <2>2 DEF Greeted
  <1>14. GetsWhatItMissed
    <2> SUFFICES ASSUME phase = "playing", IsPrefix(m, h), RoundsOf(m) = RoundsOf(h)
                 PROVE  Caught'
      BY DEF GetsWhatItMissed
    <2>1. Follows(m, r \o s, h)
      BY <1>4, <1>5, <1>11 DEF HistoryOK
    <2> QED
      BY <1>9, <2>1, CaughtUp
  <1>15. StaysUpToDate
    BY <1>2 DEF StaysUpToDate
  <1> QED
    BY <1>12, <1>13, <1>14, <1>15 DEF Goal, MirrorInv

\* What the server does.
LEMMA MirrorServer ==
    ASSUME LinkInv, MirrorInv,
           \/ ServerTakes \/ SocketDisconnected \/ RequestTimer \/ HeartbeatDeadline
           \/ ZeroTimer \/ Cut \/ SignInDeadline
    PROVE  Goal
  <1> USE DEF roomVars, serverVars, wires, counters
  <1>0. /\ conn \in Connections /\ conn = Quiet(conn)
        /\ bound => conn.socket # "none"
        /\ link = "cut" => toClient = <<>> /\ toServer = <<>>
        /\ link \in Links
    BY DEF LinkInv, TypeOK
  <1>1. CASE Cut \/ SignInDeadline
    <2>1. /\ UNCHANGED <<phase, history, peer, roundEventLog, client, bound>>
          /\ toClient' = <<>> /\ toServer' = <<>> /\ link' = "cut"
      BY <1>1 DEF Cut, SignInDeadline, Lost
    <2> QED
      BY <2>1, MirrorFrame
  <1>2. CASE ServerTakes
    <2> DEFINE m == Head(toServer)
    <2>1. toServer # <<>> /\ UNCHANGED <<phase, history, peer, roundEventLog, client>>
      BY <1>2 DEF ServerTakes
    <2>l. ASSUME Lost, bound' => bound PROVE Goal
      BY <2>1, <2>l, MirrorFrame DEF Lost
    <2> HIDE DEF m
    <2>2. CASE TakeSignIn(m)
      <3>1. /\ m.kind = "signIn"
            /\ \/ SeatFound(m.seq) /\ phase # "over"
               \/ SeatNotFound
        BY <2>2 DEF TakeSignIn
      <3>2. CASE SeatFound(m.seq) /\ phase # "over"
        BY <2>1, <3>1, <3>2, MirrorSeat DEF m
      <3>3. CASE SeatNotFound
        BY <2>l, <3>3 DEF SeatNotFound
      <3> QED
        BY <3>1, <3>2, <3>3
    <2>3. CASE TakeTooEarly(m)
      <3>1. bound' = bound
        BY <2>3 DEF TakeTooEarly
      <3>2. Lost \/ (toServer' = Tail(toServer) /\ toClient' = toClient)
        BY <2>3 DEF TakeTooEarly
      <3> QED
        BY <2>1, <2>l, <3>1, <3>2, MirrorFrame
    <2>4. CASE TakeReply(m)
      <3>1. PICK d : ConnBecomes(d) /\ (Lost \/ /\ d \in {Answer(conn), Refusal(conn)}
                                                /\ m.request = conn.currentRequest
                                                /\ toServer' = Tail(toServer)
                                                /\ toClient' = toClient)
        BY <2>4 DEF TakeReply
      <3>2. bound' = (bound /\ d.socket # "none")
        BY <3>1 DEF ConnBecomes
      <3>3. CASE Lost
        BY <2>l, <3>2, <3>3
      <3>4. CASE ~Lost
        <4>1. m.request = conn.currentRequest /\ m.request \in RequestIds
          <5>1. m \in Client!ToServer
            BY <2>1, HeadOfServer DEF m
          <5> QED
            BY <2>4, <3>1, <3>4, <5>1, Messages DEF TakeReply, Client!ToServer
        <4>2. conn.currentRequest # Invalid
          BY <4>1, Messages
        <4>3. d.socket = conn.socket
          BY <1>0, <3>1, <3>4, <4>2, HandlersSettle
        <4>4. bound \in BOOLEAN
          BY DEF LinkInv, TypeOK
        <4>5. bound' = bound
          BY <1>0, <3>2, <4>3, <4>4
        <4> QED
          BY <2>1, <3>1, <3>4, <4>5, MirrorFrame
      <3> QED
        BY <3>3, <3>4
    <2>5. CASE TakeStateChange(m)
      <3>1. bound' = bound /\ toServer' = Tail(toServer) /\ toClient' = toClient
        BY <2>5 DEF TakeStateChange
      <3> QED
        BY <2>1, <3>1, MirrorFrame
    <2> QED
      BY <1>2, <2>2, <2>3, <2>4, <2>5 DEF ServerTakes, m
  <1>3. CASE SocketDisconnected \/ RequestTimer \/ HeartbeatDeadline \/ ZeroTimer
    <2>1. PICK d : /\ ConnBecomes(d)
                   /\ UNCHANGED <<phase, history, peer, roundEventLog, client>>
                   /\ \/ Lost
                      \/ /\ UNCHANGED <<link, toClient, toServer>>
                         /\ bound /\ link = "open" => d.socket = "up"
      <3>1. CASE SocketDisconnected
        BY <3>1 DEF SocketDisconnected
      <3>2. CASE RequestTimer
        BY <3>2 DEF RequestTimer, GivesUp
      <3>3. CASE HeartbeatDeadline
        BY <3>3 DEF HeartbeatDeadline, GivesUp
      <3>4. CASE ZeroTimer
        BY <3>4 DEF ZeroTimer, GivesUp
      <3> QED
        BY <1>3, <3>1, <3>2, <3>3, <3>4
    <2>2. bound' = (bound /\ d.socket # "none") /\ bound \in BOOLEAN
      BY <2>1 DEF ConnBecomes, LinkInv, TypeOK
    <2>3. CASE Lost
      BY <2>1, <2>2, <2>3, MirrorFrame DEF Lost
    <2>4. CASE /\ UNCHANGED <<link, toClient, toServer>>
               /\ bound /\ link = "open" => d.socket = "up"
      <3>1. CASE bound' = bound
        BY <2>1, <2>4, <3>1, MirrorFrame
      <3>2. CASE bound' # bound
        <4>1. ~bound' /\ link # "open"
          BY <2>2, <2>4, <3>2
        <4>2. toClient' = <<>> /\ toServer' = <<>>
          BY <1>0, <2>4, <4>1 DEF Links
        <4> QED
          BY <2>1, <4>1, <4>2, MirrorFrame
      <3> QED
        BY <3>1, <3>2
    <2> QED
      BY <2>1, <2>3, <2>4
  <1> QED
    BY <1>1, <1>2, <1>3

\* How long two sequences are that are put one behind the other.
LEMMA PutBehind ==
    ASSUME NEW S, NEW q \in Seq(S), NEW p \in Seq(S)
    PROVE  /\ q \o p \in Seq(S) /\ Len(q \o p) = Len(q) + Len(p)
           /\ DOMAIN (q \o p) = 1..(Len(q) + Len(p))
           /\ DOMAIN q = 1..Len(q) /\ DOMAIN p = 1..Len(p)
           /\ Len(q) \in Nat /\ Len(p) \in Nat
  OBVIOUS

\* What it has sent is all that leaves it.
LEMMA SilentHolds ==
    ASSUME NEW d \in Client!Clients
    PROVE  Holding(d, Client!Silent(d)) /\ Client!Silent(d).socket = d.socket
  <1> DEFINE o == <<>>
  <1>1. Client!Silent(d) = [d EXCEPT !.out = o]
    BY DEF Client!Silent
  <1> HIDE DEF o
  <1> QED
    BY <1>1 DEF Client!Clients, Holding

\* The greeting and its answer, when the client goes on with its connection.
LEMMA GreetedActs ==
    ASSUME LinkInv, Greeted, NEW d, NEW coming, Acts(d, coming), d.socket
    PROVE  Greeted'
  <1>0. /\ toClient \in Seq(ToClient) /\ toServer \in Seq(Client!ToServer)
        /\ d.out \in Seq(Client!ToServer) /\ link \in Links
        /\ link = "cut" => toClient = <<>> /\ toServer = <<>>
    BY DEF LinkInv, TypeOK, Acts, Client!Clients
  <1>1. /\ toServer' = IF link = "open" THEN toServer \o d.out ELSE <<>>
        /\ toClient' = coming /\ bound' = bound /\ client' = Client!Silent(d)
    BY DEF Acts, ClientBecomes
  <1>2. client'.lastRoundEventSeq = d.lastRoundEventSeq
    BY <1>1, SilentHolds DEF Holding, Acts
  <1>a. \A i \in DOMAIN (toServer \o d.out) :
           \/ i \in DOMAIN toServer /\ (toServer \o d.out)[i] = toServer[i]
           \/ \E j \in DOMAIN d.out : (toServer \o d.out)[i] = d.out[j]
    BY <1>0, Behind
  <1>3. CASE coming = toClient /\ Holding(client, d) /\ GreetsNobody(d.out)
    <2>1. \A i \in DOMAIN toServer' : toServer'[i].kind = "signIn" =>
             i \in DOMAIN toServer /\ toServer'[i] = toServer[i]
      <3>1. CASE link = "open"
        BY <1>1, <1>3, <1>a, <3>1 DEF GreetsNobody
      <3>2. CASE link # "open"
        BY <1>1, <3>2
      <3> QED
        BY <3>1, <3>2
    <2> QED
      BY <1>1, <1>2, <1>3, <2>1 DEF Greeted, Holding
  <1>4. CASE toClient # <<>> /\ coming = Tail(toClient) /\ Reads(client, Head(toClient), d)
    <2> DEFINE m == Head(toClient)
    <2>0. /\ coming \in Seq(ToClient) /\ DOMAIN coming \subseteq Nat
          /\ 1 \in DOMAIN toClient /\ toClient[1] = m
          /\ \A i \in DOMAIN coming : /\ i + 1 \in DOMAIN toClient
                                      /\ coming[i] = toClient[i + 1] /\ i > 0
      <3>1. coming \in Seq(ToClient)
        BY <1>0, <1>4
      <3> QED
        BY <1>0, <1>4, <3>1, Remain
    <2>1. \A i \in DOMAIN toServer : toServer[i].kind # "signIn"
      BY <1>4 DEF Greeted
    <2>2. link = "open"
      BY <1>0, <1>4 DEF Links
    <2> HIDE DEF m
    <2>3. CASE bound
      <3>1. m.kind # "version" /\ \A i \in DOMAIN coming : coming[i].kind # "version"
        BY <2>0, <2>3 DEF Greeted
      <3>2. GreetsNobody(d.out)
        BY <1>4, <3>1 DEF Reads, m
      <3>3. \A i \in DOMAIN toServer' : toServer'[i].kind # "signIn"
        BY <1>1, <1>a, <2>1, <2>2, <3>2 DEF GreetsNobody
      <3> QED
        BY <1>1, <2>3, <3>1, <3>3 DEF Greeted
    <2>4. CASE ~bound
      <3>1. m.kind = "version" /\ \A i \in DOMAIN toClient : i = 1
        BY <2>0, <2>4 DEF Greeted
      <3>2. ASSUME NEW i \in DOMAIN coming PROVE FALSE
        <4>1. i + 1 = 1 /\ i \in Nat /\ i > 0
          BY <2>0, <3>1, <3>2
        <4> QED
          BY <4>1
      <3>3. coming = <<>>
        BY <2>0, <3>2
      <3> DEFINE x == Client!SignIn(client.lastRoundEventSeq)
      <3>4. /\ d.out = <<x>>
            /\ d.lastRoundEventSeq = client.lastRoundEventSeq
        BY <1>4, <3>1 DEF Reads, IsChange, m
      <3>5. x.kind = "signIn" /\ x.seq = client.lastRoundEventSeq
        BY DEF Client!SignIn
      <3>6. x \in Client!ToServer /\ Len(d.out) = 1 /\ DOMAIN d.out = {1} /\ d.out[1] = x
        BY <1>0, <3>4
      <3> HIDE DEF x
      <3>7. /\ toServer' = toServer \o d.out
            /\ Len(toServer) \in Nat /\ DOMAIN toServer' = 1..(Len(toServer) + 1)
            /\ DOMAIN toServer = 1..Len(toServer)
            /\ toServer'[Len(toServer) + 1] = x
            /\ \A i \in DOMAIN toServer : toServer'[i] = toServer[i]
        <4>1. /\ toServer' = toServer \o d.out
              /\ Len(toServer) \in Nat /\ DOMAIN toServer = 1..Len(toServer)
          BY <1>0, <1>1, <2>2
        <4>0. toServer \in Seq(Client!ToServer)
          BY <1>0
        <4> DEFINE o == d.out
        <4>2. o \in Seq(Client!ToServer) /\ Len(o) = 1 /\ o[1] = x /\ 1 \in DOMAIN o
          BY <1>0, <3>6
        <4> HIDE DEF o
        <4> DEFINE a == toServer \o o
        <4>3. /\ a \in Seq(Client!ToServer) /\ Len(a) = Len(toServer) + 1
              /\ DOMAIN a = 1..(Len(toServer) + 1)
              /\ \A i \in DOMAIN toServer : a[i] = toServer[i]
              /\ a[Len(toServer) + 1] = x
          <5>1. /\ a \in Seq(Client!ToServer) /\ Len(a) = Len(toServer) + Len(o)
            <6>1. o \in Seq(Client!ToServer)
              BY <4>2
            <6>2. a \in Seq(Client!ToServer)
              BY <4>0, <6>1, PutBehind
            <6>3. Len(a) = Len(toServer) + Len(o)
              BY <4>0, <6>1, PutBehind
            <6> QED
              BY <6>2, <6>3
          <5>2. /\ \A i \in DOMAIN toServer : a[i] = toServer[i]
                /\ a[1 + Len(toServer)] = o[1]
            BY <4>0, <4>2, Behind
          <5> HIDE DEF a
          <5> QED
            BY <4>1, <4>2, <5>1, <5>2
        <4> HIDE DEF a
        <4>4. toServer' = a
          BY <4>1 DEF a, o
        <4> QED
          BY <4>1, <4>3, <4>4 DEF o
      <3>8. \A i \in DOMAIN toServer' : toServer'[i].kind = "signIn" =>
               i = Len(toServer) + 1
        <4>1. \A i \in DOMAIN toServer' : i # Len(toServer) + 1 => i \in DOMAIN toServer
          BY <3>7
        <4> QED
          BY <2>1, <3>7, <4>1
      <3>9. \A i \in DOMAIN toServer' : toServer'[i].kind = "signIn" =>
               toServer'[i] = x
        BY <3>7, <3>8
      <3> QED
        BY <1>1, <1>2, <2>4, <3>3, <3>4, <3>5, <3>8, <3>9 DEF Greeted
    <2> QED
      BY <2>3, <2>4
  <1> QED
    BY <1>3, <1>4 DEF Acts

\* What the client does, on the connection it has or losing it.
LEMMA MirrorClient ==
    ASSUME LinkInv, MirrorInv, NEW d, NEW coming, Acts(d, coming)
    PROVE  Goal
  <1> DEFINE m == client.mirror
             n == client.lastRoundEventSeq
             q == toClient
             h == history
             l == roundEventLog
             m2 == client'.mirror
             n2 == client'.lastRoundEventSeq
  <1>0. /\ UNCHANGED <<phase, history, peer, roundEventLog>>
        /\ d \in Client!Clients /\ client' = Client!Silent(d)
        /\ \/ d.socket /\ toClient' = coming /\ UNCHANGED <<link, bound>>
           \/ ~d.socket /\ toClient' = <<>> /\ toServer' = <<>> /\ ~bound'
    BY DEF Acts, ClientBecomes, Lost, roomVars
  <1>1. Holding(d, client')
    BY <1>0, SilentHolds
  <1>2. q \in Seq(ToClient) /\ Told(m, n, q, h, l) /\ peer \in {"online", "away"}
    BY MirrorTold DEF LinkInv, ToldOn
  <1>3. GetsWhatItMissed
    BY <1>0 DEF GetsWhatItMissed
  <1>4. ASSUME phase # "over"
        PROVE  /\ NeverAhead(m, n, q, h, l) /\ CountsItsRound(m, n, h) /\ HistoryOK
    BY <1>4 DEF MirrorInv, MirrorOn
  <1>l. <<>> \in Seq(ToClient)
    OBVIOUS
  <1> HIDE DEF m, n, m2, n2
  \* what is shown in each case, of the wire that is left
  <1>5. ASSUME phase # "over" => NeverAhead(m2, n2, coming, h, l) /\ CountsItsRound(m2, n2, h),
               coming \in Seq(ToClient),
               d.socket /\ phase # "over" =>
                  /\ Follows(m, q, h) => Follows(m2, coming, h)
                  /\ LastNews(q, client.peer) = peer => LastNews(coming, client'.peer) = peer
        PROVE  Goal
    <2>1. HistoryOK' <=> HistoryOK
      BY <1>0 DEF HistoryOK
    <2>2. CASE d.socket
      <3>1. ASSUME phase # "over" PROVE Greeted' /\ HistoryOK' /\ MirrorOn(toClient)'
        <4>1. Greeted'
          BY <2>2, <3>1, GreetedActs DEF MirrorInv
        <4> QED
          BY <1>0, <1>4, <1>5, <2>1, <2>2, <3>1, <4>1 DEF MirrorOn, m2, n2
      <3>2. StaysUpToDate
        <4> SUFFICES ASSUME bound
                     PROVE  (Caught => Caught') /\ (PeerKnown = peer => (PeerKnown = peer)')
          BY DEF StaysUpToDate
        <4>1. phase # "over"
          BY DEF MirrorInv
        <4> QED
          BY <1>0, <1>5, <2>2, <4>1, CaughtUp DEF m, m2
      <3> QED
        BY <1>0, <1>3, <2>2, <3>1, <3>2 DEF Goal, MirrorInv
    <2>3. CASE ~d.socket
      <3>1. toClient' = <<>> /\ toServer' = <<>> /\ ~bound'
        BY <1>0, <2>3
      <3>2. ASSUME phase # "over" PROVE Greeted' /\ HistoryOK' /\ MirrorOn(toClient)'
        <4>1. Told(m2, n2, coming, h, l)
          BY <1>0, <1>1, <1>2, <1>5 DEF Told, Holding, m2, n2, Client!Clients
        <4>2. NeverAhead(m2, n2, <<>>, h, l)
          BY <1>5, <3>2, <4>1, WireLost
        <4>3. MirrorOn(toClient)'
          BY <1>0, <1>5, <3>1, <3>2, <4>2 DEF MirrorOn, m2, n2
        <4>4. Greeted'
          BY <3>1 DEF Greeted
        <4> QED
          BY <1>4, <2>1, <3>2, <4>3, <4>4
      <3> QED
        BY <1>3, <3>1, <3>2, <1>0 DEF Goal, MirrorInv, StaysUpToDate
    <2> QED
      BY <2>2, <2>3
  <1>6. CASE coming = toClient /\ Holding(client, d)
    <2>1. m2 = m /\ n2 = n /\ client'.peer = client.peer
      BY <1>1, <1>6 DEF Holding, m, n, m2, n2
    <2> QED
      BY <1>2, <1>4, <1>5, <1>6, <2>1
  <1>7. CASE toClient # <<>> /\ coming = Tail(toClient) /\ Reads(client, Head(toClient), d)
    <2> DEFINE x == Head(toClient)
               y == ChangeOf(x)
               k == IF y = "roundStart" THEN 0 ELSE n + 1
    <2>1. /\ x \in ToClient /\ coming \in Seq(ToClient)
          /\ ~IsChange(x) =>
                /\ NeverAhead(m, n, q, h, l) => NeverAhead(m, n, coming, h, l)
                /\ Follows(m, q, h) => Follows(m, coming, h)
          /\ IsChange(x) =>
                /\ y \in Client!Changes
                /\ NeverAhead(m, n, q, h, l) => NeverAhead(Append(m, y), k, coming, h, l)
                /\ h # <<>> /\ h[1] = "roundStart" /\ Follows(m, q, h)
                      => Follows(Append(m, y), coming, h)
      BY <1>2, <1>7, WireRead
    <2>2. /\ IF IsChange(x)
             THEN \/ m2 = Append(m, y) /\ n2 = k
                  \/ ~d.socket /\ ~IsPrefix(m, h) /\ m2 = m /\ n2 = n + 1
             ELSE m2 = m /\ n2 = n
          /\ IF x.kind = "agentStateChanged" THEN client'.peer = x.state
             ELSE \/ client'.peer = client.peer
                  \/ x.kind = "peerAdded" /\ client.peer = "unknown"
      BY <1>1, <1>7 DEF Reads, Holding, m, n, m2, n2
    <2> HIDE DEF x, y
    <2>3. ASSUME LastNews(q, client.peer) = peer
          PROVE  LastNews(coming, client'.peer) = peer
      <3>1. LastNews(q, client.peer)
              = LastNews(coming, IF x.kind = "agentStateChanged" THEN x.state
                                 ELSE client.peer)
        BY <1>2, <1>7, NewsRemain DEF x
      <3>2. CASE x.kind = "agentStateChanged" \/ client'.peer = client.peer
        BY <2>2, <2>3, <3>1, <3>2
      <3>3. CASE x.kind # "agentStateChanged" /\ client.peer = "unknown"
        <4>1. LastNews(coming, "unknown") = peer /\ peer # "unknown"
          BY <1>2, <2>3, <3>1, <3>3
        <4>2. \/ LastNews(coming, "unknown") = "unknown"
              \/ LastNews(coming, "unknown") = LastNews(coming, client'.peer)
          BY <2>1, TheLastNews
        <4> QED
          BY <4>1, <4>2
      <3> QED
        BY <2>2, <3>2, <3>3
    <2>4. CASE ~IsChange(x)
      BY <1>4, <1>5, <2>1, <2>2, <2>3, <2>4
    <2>5. CASE IsChange(x) /\ m2 = Append(m, y) /\ n2 = k
      <3>1. ASSUME phase # "over" PROVE CountsItsRound(m2, n2, h) /\ h # <<>> /\ h[1] = "roundStart"
        <4>1. /\ CountsItsRound(m, n, h) /\ h # <<>> /\ h[1] = "roundStart"
          BY <1>4, <3>1 DEF HistoryOK
        <4>2. m \in Seq(Client!Changes) /\ h \in Seq(Client!Changes) /\ n \in Nat
          BY <1>2 DEF Told
        <4>3. CountsItsRound(Append(m, y), IF y = "roundStart" THEN 0 ELSE n + 1, h)
          BY <2>1, <2>5, <4>1, <4>2, MirrorGrows
        <4> QED
          BY <2>5, <4>1, <4>3
      <3> HIDE DEF k
      <3> QED
        BY <1>4, <1>5, <2>1, <2>3, <2>5, <3>1
    <2>6. CASE IsChange(x) /\ ~d.socket /\ ~IsPrefix(m, h) /\ m2 = m /\ n2 = n + 1
      <3>1. ASSUME phase # "over" PROVE MirrorOn(toClient)'
        <4>1. NeverAhead(m, n + 1, <<>>, h, l)
          BY <1>2, <1>4, <3>1, CountRaised
        <4>2. CountsItsRound(m, n + 1, h)
          BY <2>6 DEF CountsItsRound
        <4> QED
          BY <1>0, <2>6, <4>1, <4>2 DEF MirrorOn, m2, n2
      <3>2. toClient' = <<>> /\ toServer' = <<>> /\ ~bound'
        BY <1>0, <2>6
      <3>3. Greeted' /\ (HistoryOK' <=> HistoryOK)
        BY <1>0, <3>2 DEF Greeted, HistoryOK
      <3> QED
        BY <1>0, <1>3, <1>4, <3>1, <3>2, <3>3 DEF Goal, MirrorInv, StaysUpToDate
    <2> QED
      BY <2>2, <2>4, <2>5, <2>6
  <1> QED
    BY <1>6, <1>7 DEF Acts

\* A connection is attempted: what was on the one before is lost.
LEMMA MirrorAttempts ==
    ASSUME LinkInv, MirrorInv, ReconnectTimer
    PROVE  Goal
  <1> DEFINE z == <<>>
  <1>0. client \in Client!Clients /\ toClient \in Seq(ToClient)
    BY DEF LinkInv, TypeOK
  <1>1. /\ UNCHANGED <<phase, history, peer, roundEventLog>> /\ ~bound' /\ toServer' = <<>>
        /\ client' = Client!ReconnectTimeout(client)
        /\ \/ toClient' = z
           \/ \E compatible \in BOOLEAN : toClient' = <<Version(compatible)>>
    BY DEF ReconnectTimer, ConnectionAttempt, Lost, roomVars
  <1>2. Holding(client, client')
    <2> DEFINE n == client.reconnectAttempts + 1
               e == [client EXCEPT !.reconnectTimer = FALSE, !.reconnectAttempts = n]
               d == [e EXCEPT !.socket = TRUE, !.pings = 0]
    <2>1. client' = d
      BY <1>0, <1>1 DEF Client!ReconnectTimeout, Client!ConnectSocket, Client!Clients
    <2> HIDE DEF n
    <2>2. Holding(client, d)
      BY <1>0 DEF Client!Clients, Holding
    <2> QED
      BY <2>1, <2>2
  <1>3. /\ toClient' \in Seq(ToClient)
        /\ \A i \in DOMAIN toClient' : i = 1 /\ toClient'[i].kind = "version"
    <2>1. CASE toClient' = z
      BY <2>1
    <2>2. CASE \E compatible \in BOOLEAN : toClient' = <<Version(compatible)>>
      <3>1. PICK compatible \in BOOLEAN : toClient' = <<Version(compatible)>>
        BY <2>2
      <3> DEFINE m == Version(compatible)
      <3>2. m \in ToClient /\ m.kind = "version" /\ toClient' = <<m>>
        BY <3>1 DEF Version, ToClient
      <3> HIDE DEF m
      <3> QED
        BY <3>2
    <2> QED
      BY <1>1, <2>1, <2>2
  <1>4. Greeted'
    BY <1>1, <1>3 DEF Greeted
  <1>5. HistoryOK' <=> HistoryOK
    BY <1>1 DEF HistoryOK
  <1> DEFINE m == client.mirror
             n == client.lastRoundEventSeq
             h == history
             l == roundEventLog
             p == toClient'
             e == z \o p
  <1>6. ASSUME phase # "over" PROVE MirrorOn(toClient)'
    <2>1. ToldOn(toClient) /\ ToldOn(z)
      <3>1. z \in Seq(ToClient)
        OBVIOUS
      <3> HIDE DEF z
      <3> QED
        BY <1>0, <3>1, MirrorTold
    <2>2. MirrorOn(toClient)
      BY <1>6 DEF MirrorInv
    <2>3. NeverAhead(m, n, z, h, l)
      BY <2>1, <2>2, WireLost DEF MirrorOn, ToldOn
    <2>4. Told(m, n, z, h, l)
      BY <2>1 DEF ToldOn
    <2>5. \A i \in DOMAIN p : ~IsChange(p[i])
      BY <1>3 DEF IsChange
    <2> HIDE DEF m, n, h, l
    <2>6. NeverAhead(m, n, z \o p, h, l)
      <3> HIDE DEF p, z
      <3>1. p \in Seq(ToClient)
        BY <1>3 DEF p
      <3> QED
        BY <2>3, <2>4, <2>5, <3>1, OthersSent
    <2>7. z \o p = p
      <3> HIDE DEF p
      <3>1. p \in Seq(ToClient)
        BY <1>3 DEF p
      <3> QED
        BY <3>1
    <2>8. NeverAhead(m, n, p, h, l)
      <3> HIDE DEF p, z
      <3> QED
        BY <2>6, <2>7
    <2> QED
      BY <1>1, <1>2, <2>2, <2>8 DEF MirrorOn, Holding, m, n, h, l
  <1> QED
    BY <1>1, <1>4, <1>5, <1>6 DEF Goal, MirrorInv, GetsWhatItMissed, StaysUpToDate

\* A window of pings that begins anew.
LEMMA MirrorStands ==
    ASSUME LinkInv, MirrorInv, PongDeadline, client'.socket
    PROVE  Goal
  <1> DEFINE d == Client!PongDeadlinePassed(client)
             e == [client EXCEPT !.pings = 0]
  <1>0. /\ Resting(client) /\ client \in Client!Clients /\ Reaching(client)
    BY LinkResting DEF Resting
  <1>1. UNCHANGED <<roomVars, serverVars, link, wires, counters>>
    BY StandingWindow
  <1>2. Holding(client, client')
    <2>1. \/ d = Client!HandleSocketGone(client)
          \/ d = e
      BY DEF Client!PongDeadlinePassed
    <2>2. d = Client!HandleSocketGone(client) => ~d.socket /\ d \in Client!Clients
      BY <1>0, GoneLeaves DEF Leaves
    <2>3. e \in Client!Clients /\ Holding(client, e)
      BY <1>0 DEF Client!Clients, Holding
    <2> HIDE DEF d, e
    <2>4. \/ ~d.socket /\ client' = Client!Silent(d)
          \/ d.socket /\ client' = d
      BY DEF PongDeadline, ClientDoes, ClientBecomes, d
    <2>5. d \in Client!Clients
      BY <2>1, <2>2, <2>3
    <2>6. Client!Silent(d).socket = d.socket
      BY <2>5, SilentHolds
    <2> QED
      BY <2>1, <2>2, <2>3, <2>4, <2>6
  <1>3. /\ UNCHANGED <<phase, history, peer, roundEventLog, bound, toClient, toServer>>
        /\ client'.mirror = client.mirror /\ client'.peer = client.peer
        /\ client'.lastRoundEventSeq = client.lastRoundEventSeq
    BY <1>1, <1>2 DEF roomVars, serverVars, wires, Holding
  <1>4. /\ (Greeted' <=> Greeted) /\ (HistoryOK' <=> HistoryOK)
        /\ (MirrorOn(toClient)' <=> MirrorOn(toClient))
    BY <1>3 DEF Greeted, HistoryOK, MirrorOn
  <1>5. (Caught' <=> Caught) /\ PeerKnown' = PeerKnown
    BY <1>3, CaughtUp
  <1> QED
    BY <1>3, <1>4, <1>5 DEF Goal, MirrorInv, GetsWhatItMissed, StaysUpToDate

\* The room has just been filled: the start of its first round is on the wire.
LEMMA MirrorInit == Init => MirrorInv
  <1> SUFFICES ASSUME Init PROVE MirrorInv
    OBVIOUS
  <1> DEFINE z == <<>>
             h == <<"roundStart">>
             a == NotifyPlayerAdded({"online"})
             b == NotifyPeerAdded("online")
             r == NotifyRoundStart
             p == IF StateKnown THEN z ELSE <<a, b>>
             s == <<r>>
  <1>1. /\ phase = "playing" /\ history = h /\ roundEventLog = z /\ bound = TRUE
        /\ toServer = z
    BY DEF Init
  <1>2. client.mirror = z /\ client.lastRoundEventSeq = 0
    <2> DEFINE n == Client!ConnectToHost(Client!NewClient)
               o == {"online"}
               c == Client!NewClient
               e == [c EXCEPT !.reconnectTimer = FALSE, !.reconnectInProgress = FALSE,
                              !.reconnectAttempts = 0]
    <2>3. <<>> \in Seq(Client!ToServer) /\ <<>> \in Seq(Client!Changes)
      OBVIOUS
    <2>4. 0 \in 0..2 /\ "unknown" \in Client!Peers /\ {} \in SUBSET Client!StateMasks
      BY DEF Client!Peers
    <2>5. c \in Client!Clients /\ c.mirror = z /\ c.lastRoundEventSeq = 0
      BY <2>3, <2>4 DEF Client!NewClient, Client!Clients
    <2>6. n = [e EXCEPT !.socket = TRUE, !.pings = 0]
      BY DEF Client!ConnectToHost, Client!ConnectSocket
    <2> HIDE DEF c, z, n
    <2>7. e \in Client!Clients /\ e.mirror = z /\ e.lastRoundEventSeq = 0
      BY <2>5 DEF Client!Clients
    <2> HIDE DEF e
    <2>1. n \in Client!Clients /\ n.mirror = z /\ n.lastRoundEventSeq = 0
      BY <2>4, <2>6, <2>7 DEF Client!Clients
    <2>2. client = n \/ client = [n EXCEPT !.state = o, !.peer = "online"]
      BY DEF Init, n
    <2> HIDE DEF o
    <2> QED
      BY <2>1, <2>2 DEF Client!Clients
  <1>3. /\ a \in ToClient /\ b \in ToClient /\ r \in ToClient
        /\ a.kind = "playerAdded" /\ b.kind = "peerAdded" /\ r.kind = "roundStart"
    BY Sendable DEF NotifyPlayerAdded, NotifyPeerAdded, NotifyRoundStart
  <1>4. /\ p \in Seq(ToClient) /\ s \in Seq(ToClient)
        /\ \A i \in DOMAIN p : p[i].kind # "version" /\ ~IsChange(p[i])
        /\ Len(s) = 1 /\ DOMAIN s = {1} /\ s[1] = r
    <2> HIDE DEF a, b, r
    <2>1. /\ z \in Seq(ToClient) /\ DOMAIN z = {}
      OBVIOUS
    <2> QED
      BY <1>3, <2>1, Few DEF IsChange
  <1>5. toClient = p \o s
    <2> DEFINE t == <<a, b, r>>
    <2>1. toClient = IF StateKnown THEN s ELSE t
      BY DEF Init
    <2> HIDE DEF a, b, r
    <2>2. z \o s = s
      BY <1>4
    <2>3. <<a, b>> \o s = t
      <3> DEFINE u == <<a, b>>
                 w == u \o s
      <3>1. u \in Seq(ToClient) /\ Len(u) = 2 /\ u[1] = a /\ u[2] = b
        BY <1>3
      <3>2. t \in Seq(ToClient) /\ Len(t) = 3 /\ t[1] = a /\ t[2] = b /\ t[3] = r
        BY <1>3
      <3> HIDE DEF u, t, s
      <3>3. /\ w \in Seq(ToClient) /\ Len(w) = 3 /\ w[1] = a /\ w[2] = b /\ w[3] = r
        <4>1. w \in Seq(ToClient) /\ Len(w) = Len(u) + Len(s) /\ DOMAIN u = 1..Len(u)
          BY <1>4, <3>1, PutBehind
        <4>2. /\ \A i \in DOMAIN u : w[i] = u[i]
              /\ \A i \in DOMAIN s : w[i + Len(u)] = s[i]
          BY <1>4, <3>1, Behind
        <4> HIDE DEF w
        <4>3. 1 \in DOMAIN u /\ 2 \in DOMAIN u /\ 1 \in DOMAIN s
              /\ 1 + Len(u) = 3 /\ Len(u) + Len(s) = 3
          BY <1>4, <3>1, <4>1
        <4>4. w[1 + Len(u)] = s[1]
          BY <4>2, <4>3
        <4> QED
          BY <1>4, <3>1, <4>1, <4>2, <4>3, <4>4
      <3> HIDE DEF w
      <3>4. w = t
        BY <3>2, <3>3
      <3> QED
        BY <3>4 DEF w, u
    <2> QED
      BY <2>1, <2>2, <2>3
  <1> HIDE DEF p
  <1>6. /\ h \in Seq(Client!Changes) /\ Len(h) = 1 /\ h[1] = "roundStart" /\ h # z
        /\ 1 \in DOMAIN h /\ DOMAIN h = {1}
    BY Few, Sendable
  <1>7. /\ z \in Seq(Client!Changes) /\ z \in Seq(Client!RoundEvents)
        /\ z \in Seq(ToClient) /\ Len(z) = 0 /\ DOMAIN z = {}
    OBVIOUS
  <1> HIDE DEF z, h, s, r
  <1>8. HistoryOK
    <2>1. Len(h) - Len(z) = 1
      BY <1>6, <1>7
    <2>2. LogIsTheRound(h, z)
      BY <1>6, <1>7, <2>1 DEF LogIsTheRound
    <2> QED
      BY <1>1, <1>6, <2>2 DEF HistoryOK, z
  <1>9. MirrorOn(toClient)
    <2>1. Told(z, 0, z, z, z)
      BY <1>7 DEF Told
    <2>2. NeverAhead(z, 0, z, z, z)
      <3>1. ChangesIn(z, Len(z)) = 0
        BY <1>7, ChangesType
      <3> QED
        BY <1>7, <3>1 DEF NeverAhead
    <2>3. NeverAhead(z, 0, z \o p, z, z)
      BY <1>4, <2>1, <2>2, OthersSent
    <2>4. z \o p = p /\ z \o h = h
      BY <1>4, <1>6 DEF z
    <2>5. NeverAhead(z, 0, p, z, z) /\ Told(z, 0, p, z, z)
      BY <1>4, <1>7, <2>3, <2>4 DEF Told
    <2>6. ChangeOf(r) = h[1] /\ IsChange(r)
      BY <1>3, <1>6 DEF ChangeOf, IsChange
    <2>7. NeverAhead(z, 0, p \o s, z \o h, z)
      <3>1. /\ Len(z) <= Len(z) + Len(h) /\ Len(s) = Len(h)
            /\ \A i \in DOMAIN s : IsChange(s[i]) /\ ChangeOf(s[i]) = h[i]
            /\ \A i \in DOMAIN s : s[i].kind = "roundStart" => i + Len(z) <= Len(h)
        BY <1>4, <1>6, <1>7, <2>6
      <3> QED
        BY <1>4, <1>6, <1>7, <2>5, <3>1, ChangesSent
    <2>8. CountsItsRound(z, 0, h)
      BY DEF CountsItsRound, z
    <2> QED
      BY <1>1, <1>2, <1>5, <2>4, <2>7, <2>8 DEF MirrorOn
  <1>10. Greeted
    <2>1. \A i \in DOMAIN (p \o s) : (p \o s)[i].kind # "version"
      <3>1. \A i \in DOMAIN s : s[i].kind # "version"
        BY <1>3, <1>4 DEF r
      <3>2. \A i \in DOMAIN p : p[i].kind # "version"
        BY <1>4
      <3>3. p \in Seq(ToClient) /\ s \in Seq(ToClient)
        BY <1>4
      <3> QED
        BY <3>1, <3>2, <3>3, EachKind
    <2> QED
      BY <1>1, <1>5, <1>7, <2>1 DEF Greeted
  <1> QED
    BY <1>1, <1>8, <1>9, <1>10 DEF MirrorInv

LEMMA MirrorStep == LinkInv /\ MirrorInv /\ [Next]_vars => Goal
  <1> SUFFICES ASSUME LinkInv, MirrorInv, [Next]_vars PROVE Goal
    OBVIOUS
  <1>1. CASE RoomAsks \/ RoomResult \/ RoundOver \/ UpgradeResult \/ AgentStateChanged
    BY <1>1, MirrorRoom
  <1>2. CASE \/ ServerTakes \/ SocketDisconnected \/ RequestTimer \/ HeartbeatDeadline
             \/ ZeroTimer \/ Cut \/ SignInDeadline
    BY <1>2, MirrorServer
  <1>3. CASE \/ ClientTakes \/ SocketGone \/ Heartbeat
             \/ PongDeadline /\ ~client'.socket
             \/ PlayerReplies \/ PlayerManaged
    <2>1. PICK d, coming : Acts(d, coming)
      BY <1>3, MirrorActs
    <2> QED
      BY <2>1, MirrorClient
  <1>4. CASE PongDeadline /\ client'.socket
    BY <1>4, MirrorStands
  <1>5. CASE ReconnectTimer
    BY <1>5, MirrorAttempts
  <1>6. CASE UNCHANGED vars
    BY <1>6, MirrorFrame DEF vars, roomVars, serverVars, wires
  <1> QED
    BY <1>1, <1>2, <1>3, <1>4, <1>5, <1>6 DEF Next

\* A player who comes back in the round it left gets exactly the round events it
\* missed, none lost and none twice, though all the server has to go by is the number
\* the client sends; and while a connection lasts, what the client has caught up with,
\* of the match and of its peer, it does not lose again.  For any number of losses,
\* attempts, events and rounds, whatever was on the wires when they went.
THEOREM SessionCatchesUp == Spec => CatchesUp
  <1>1. Init => LinkInv /\ MirrorInv
    BY LinkInit, MirrorInit
  <1>2. LinkInv /\ MirrorInv /\ [Next]_vars => (LinkInv /\ MirrorInv)'
    BY LinkStep, MirrorStep DEF Goal
  <1>3. LinkInv /\ MirrorInv /\ [Next]_vars => [GetsWhatItMissed /\ StaysUpToDate]_vars
    BY MirrorStep DEF Goal
  <1> QED
    BY <1>1, <1>2, <1>3, PTL DEF Spec, CatchesUp
=============================================================================

-------------------------------- MODULE Protocol --------------------------------
(***************************************************************************)
(* The packets of the wire: which of them a socket parses, and which slots *)
(* of the two ends take one.  A server's socket has two, ServerP's from    *)
(* the start and its connection's once it has signed in, and every packet  *)
(* goes to both.  An id stands for its number and the mask it was numbered *)
(* under; what a value holds is left out.                                  *)
(***************************************************************************)

RequestIds == {"RockPaperScissors", "ActionOrder", "Action", "Upgrade"}

\* The ids of notifications, by the mask over each.
FromServer == {"PongServer", "Version"}
FromAgent ==
    {"LogicConfiguration", "AgentStateChanged", "PlayerAdded", "PlayerRemoved",
     "GameStart", "RoundStart", "RockPaperScissors", "ActionOrder", "Action",
     "RoundOver", "Upgrade", "GameOver", "Spoken", "Operated"}
ToServer == {"PingServer", "SignIn", "Observe", "StateChange"}
ToAgent == {"Speak", "Operate"}
NotifyIds == FromServer \cup FromAgent \cup ToServer \cup ToAgent

Invalid == "Invalid"

\* What stands where a number is due and is none, is not whole, or is no id.
Unusable == "Unusable"

Packet(type, requestId, notifyId, value) ==
    [type |-> type, requestId |-> requestId, notifyId |-> notifyId,
     value |-> value]

Request(r) == Packet("Request", r, Invalid, "some")
Reply(r) == Packet("Reply", r, Invalid, "some")
GiveUp(r) == Packet("Reply", r, Invalid, "null")
Notify(id) == Packet("Notify", Invalid, id, "some")

\* What a line of the wire may hold in the places of a packet's members.
Lines ==
    [type: {Invalid, "Request", "Reply", "Notify", Unusable},
     requestId: RequestIds \cup {Invalid, Unusable},
     notifyId: NotifyIds \cup {Invalid, Unusable},
     value: {"absent", "null", "some"}]

\* fromJson: the ids there are fit the type, the one that names something and the
\* one that does not.
HasError(p) ==
    \/ Unusable \in {p.type, p.requestId, p.notifyId}
    \/ p.value = "absent"
    \/ (p.type \in {"Request", "Reply"}) # (p.requestId # Invalid)
    \/ (p.type = "Notify") # (p.notifyId # Invalid)

-----------------------------------------------------------------------------
\* What a slot does with a packet: it takes it, refuses it with a protocol error,
\* or leaves it alone.

\* ServerP's: a client that is no player yet may send anything but notifications.
ServerSlot(p) ==
    IF p.type # "Notify" \/ p.notifyId \notin ToServer THEN "leaves"
    ELSE IF p.notifyId = "Observe" THEN "refuses" ELSE "takes"

\* Mutant: the connection refuses what is not addressed to the agent.
ConnectionSlotOfTheAgent(p) ==
    IF p.type = "Reply" \/ (p.type = "Notify" /\ p.notifyId \in ToAgent)
    THEN "takes" ELSE "refuses"

\* ServerConnectionP's.  Whether a reply is the one that is due is seen later.
ConnectionSlot(p) ==
    IF p.type = "Reply" \/ (p.type = "Notify" /\ p.notifyId \in ToAgent)
    THEN "takes"
    ELSE IF p.type = "Notify" /\ p.notifyId \in ToServer THEN "leaves"
    ELSE "refuses"

\* ClientP's.
ClientSlot(p) ==
    IF \/ p.type = "Request"
       \/ p.type = "Notify" /\ p.notifyId \in FromServer \cup FromAgent
    THEN "takes" ELSE "refuses"
=============================================================================

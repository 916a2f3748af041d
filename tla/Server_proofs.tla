------------------------------ MODULE Server_proofs ------------------------------
(***************************************************************************)
(* Proofs about Server, for every set of names, size of room, limit of     *)
(* rooms and number of connections; and first about the configuration it   *)
(* starts with: whatever the options and the settings, it is one that      *)
(* every client accepts, and is read back as it was written.               *)
(***************************************************************************)
EXTENDS Server, FiniteSetTheorems, TLAPS

-----------------------------------------------------------------------------
(* Startup. *)

\* The items are these, those of the server and those of the logic apart.
LEMMA ItemNames ==
    /\ DOMAIN ServerDefaults =
         {"tcpEnabled", "tcpPort", "localEnabled", "websocketEnabled",
          "websocketPort", "controlPort", "playerNumPerRoom", "requestTimeout",
          "maximumPacketSize", "signInTimeout", "maximumRooms"}
    /\ LogicItems =
         {"initialKnifeDamage", "maximumKnifeDamage", "initialHorseDamage",
          "maximumHorseDamage", "initialMaxHp", "maximumMaxHp",
          "punishHpModifier", "punishHpRoundStrategy", "zeroHpAsDead",
          "enableLetMove", "canBuyOnlyInInitialCity"}
    /\ DOMAIN ServerValues = DOMAIN ServerDefaults
  <1>1. DOMAIN ServerDefaults =
         {"tcpEnabled", "tcpPort", "localEnabled", "websocketEnabled",
          "websocketPort", "controlPort", "playerNumPerRoom", "requestTimeout",
          "maximumPacketSize", "signInTimeout", "maximumRooms"}
    BY SMT DEF ServerDefaults
  <1>2. LogicItems =
         {"initialKnifeDamage", "maximumKnifeDamage", "initialHorseDamage",
          "maximumHorseDamage", "initialMaxHp", "maximumMaxHp",
          "punishHpModifier", "punishHpRoundStrategy", "zeroHpAsDead",
          "enableLetMove", "canBuyOnlyInInitialCity"}
    BY SMT DEF LogicItems, LogicDefaults
  <1>3. DOMAIN ServerValues = DOMAIN ServerDefaults
    BY SMT DEF ServerValues, ServerDefaults
  <1> QED
    BY <1>1, <1>2, <1>3

\* The values an item can have once it is parsed.
Values(item) ==
    IF item \in Switches THEN BOOLEAN
    ELSE IF item \in Ports THEN 0..MaxPort
    ELSE IF item = "punishHpRoundStrategy" THEN RoundStrategies
    ELSE MinInt..MaxInt

\* The bounds of the C++ types are on either side of every number here.
LEMMA Bounds ==
    /\ MinInt \in Int /\ MinInt <= 0
    /\ MaxInt \in Int /\ 1048576 <= MaxInt
    /\ MaxPort \in Int /\ 6367 <= MaxPort
  BY SMT DEF MinInt, MaxInt, MaxPort

\* The items by the kind of their values.
Numbers ==
    {"playerNumPerRoom", "requestTimeout", "maximumPacketSize", "signInTimeout",
     "maximumRooms", "initialKnifeDamage", "maximumKnifeDamage",
     "initialHorseDamage", "maximumHorseDamage", "initialMaxHp",
     "maximumMaxHp", "punishHpModifier"}

\* Every item has one kind, and its values are those of the kind.
LEMMA ItemKinds ==
    ASSUME NEW item \in Items
    PROVE  \/ item \in Switches /\ Values(item) = BOOLEAN
           \/ item \in Ports /\ Values(item) = 0..MaxPort
           \/ item = "punishHpRoundStrategy" /\ Values(item) = RoundStrategies
           \/ item \in Numbers /\ Values(item) = MinInt..MaxInt
  BY ItemNames DEF Items, Values, Switches, Ports, Numbers

\* A text that can be parsed is a value of its item.
LEMMA ParsedIsValue ==
    ASSUME NEW item, NEW text \in Texts(item)
    PROVE  Parsed(item, text) \in Values(item)
  <1>1. CASE item \in Switches
    <2>1. Parsed(item, text) \in BOOLEAN
      <3>1. Parsed(item, text) = (text \in TrueTexts)
        BY <1>1 DEF Parsed
      <3> QED
        BY <3>1
    <2> QED
      BY <1>1, <2>1 DEF Values
  <1>2. CASE item \notin Switches
    BY <1>2 DEF Texts, Parsed, Values
  <1> QED
    BY <1>1, <1>2

\* What gives every rule a value of its kind gives each of them one.
LEMMA RulesAreValues ==
    ASSUME NEW f,
           f["zeroHpAsDead"] \in BOOLEAN, f["enableLetMove"] \in BOOLEAN,
           f["canBuyOnlyInInitialCity"] \in BOOLEAN,
           f["punishHpRoundStrategy"] \in RoundStrategies,
           \A i \in LogicItems \cap Numbers : f[i] \in MinInt..MaxInt,
           NEW item \in LogicItems
    PROVE  f[item] \in Values(item)
  <1>1. CASE item \in Switches
    <2>1. item \in {"zeroHpAsDead", "enableLetMove", "canBuyOnlyInInitialCity"}
      BY <1>1, ItemNames DEF Switches
    <2>2. f[item] \in BOOLEAN
      BY <2>1
    <2> QED
      BY <1>1, <2>2 DEF Values
  <1>2. CASE item = "punishHpRoundStrategy"
    BY <1>2 DEF Values, Switches, Ports
  <1>3. CASE item \in Numbers
    <2>1. Values(item) = MinInt..MaxInt
      BY <1>3 DEF Values, Numbers, Switches, Ports
    <2> QED
      BY <1>3, <2>1
  <1> QED
    BY <1>1, <1>2, <1>3, ItemNames DEF Switches, Numbers

\* The presets are values.
LEMMA PresetIsValue ==
    ASSUME NEW item \in Items, NEW v1 \in BOOLEAN
    PROVE  Presets(v1, item) \in Values(item)
  <1>1. CASE item \in LogicItems
    <2>1. LogicV1[item] \in Values(item)
      <3>1. /\ LogicV1["zeroHpAsDead"] \in BOOLEAN
            /\ LogicV1["enableLetMove"] \in BOOLEAN
            /\ LogicV1["canBuyOnlyInInitialCity"] \in BOOLEAN
            /\ LogicV1["punishHpRoundStrategy"] \in RoundStrategies
        BY DEF LogicV1, RoundStrategies
      <3>2. \A i \in LogicItems \cap Numbers : LogicV1[i] \in 0..10
        BY ItemNames DEF LogicV1, Numbers
      <3>3. \A i \in LogicItems \cap Numbers : LogicV1[i] \in MinInt..MaxInt
        BY <3>2, Bounds, SMT
      <3> QED
        BY <1>1, <3>1, <3>3, RulesAreValues
    <2>2. LogicDefaults[item] \in Values(item)
      <3>1. /\ LogicDefaults["zeroHpAsDead"] \in BOOLEAN
            /\ LogicDefaults["enableLetMove"] \in BOOLEAN
            /\ LogicDefaults["canBuyOnlyInInitialCity"] \in BOOLEAN
            /\ LogicDefaults["punishHpRoundStrategy"] \in RoundStrategies
        BY DEF LogicDefaults, RoundStrategies
      <3>2. \A i \in LogicItems \cap Numbers : LogicDefaults[i] \in 0..20
        BY ItemNames DEF LogicDefaults, Numbers
      <3>3. \A i \in LogicItems \cap Numbers : LogicDefaults[i] \in MinInt..MaxInt
        BY <3>2, Bounds, SMT
      <3> QED
        BY <1>1, <3>1, <3>3, RulesAreValues
    <2> QED
      BY <1>1, <2>1, <2>2 DEF Presets
  <1>2. CASE item \notin LogicItems
    <2>1. item \in DOMAIN ServerDefaults
      BY <1>2 DEF Items
    <2>2. ServerDefaults[item] \in Values(item)
      <3>1. /\ ServerDefaults["tcpEnabled"] \in BOOLEAN
            /\ ServerDefaults["localEnabled"] \in BOOLEAN
            /\ ServerDefaults["websocketEnabled"] \in BOOLEAN
        BY SMT DEF ServerDefaults
      <3>2. /\ ServerDefaults["tcpPort"] \in 0..MaxPort
            /\ ServerDefaults["websocketPort"] \in 0..MaxPort
            /\ ServerDefaults["controlPort"] \in 0..MaxPort
        BY SMT, Bounds DEF ServerDefaults
      <3>3. /\ ServerDefaults["playerNumPerRoom"] \in MinInt..MaxInt
            /\ ServerDefaults["requestTimeout"] \in MinInt..MaxInt
            /\ ServerDefaults["maximumPacketSize"] \in MinInt..MaxInt
            /\ ServerDefaults["signInTimeout"] \in MinInt..MaxInt
            /\ ServerDefaults["maximumRooms"] \in MinInt..MaxInt
        BY SMT, Bounds DEF ServerDefaults
      <3> QED
        BY <2>1, <3>1, <3>2, <3>3, ItemKinds, ItemNames DEF Switches, Ports, Numbers
    <2> QED
      BY <1>2, <2>2 DEF Presets
  <1> QED
    BY <1>1, <1>2

\* Every item of a configuration a server starts with is a value.
LEMMA ResolvedIsValue ==
    ASSUME NEW options, NEW v1 \in BOOLEAN, NEW perUser, NEW global,
           Parses(options, v1, perUser, global), NEW item \in Items
    PROVE  Resolved(options, v1, perUser, global)[item] \in Values(item)
  <1>1. CASE item \in Given(options, v1, perUser, global)
    BY <1>1, ParsedIsValue DEF Parses, Resolved
  <1>2. CASE item \notin Given(options, v1, perUser, global)
    BY <1>2, PresetIsValue DEF Resolved
  <1> QED
    BY <1>1, <1>2

-----------------------------------------------------------------------------
\* What is printed can be parsed, and is parsed as the value it was.
LEMMA PrintedIsParsed ==
    ASSUME NEW item, NEW value \in Values(item)
    PROVE  /\ Printed(item, value) \in Texts(item)
           /\ Parsed(item, Printed(item, value)) = value
  <1>1. CASE item \in Switches
    <2>1. value \in BOOLEAN
      BY <1>1 DEF Values
    <2>2. CASE value = TRUE
      BY <1>1, <2>2 DEF Printed, Parsed, Texts, TrueTexts, FalseTexts
    <2>3. CASE value = FALSE
      <3>1. "off" \in FalseTexts /\ "off" \notin TrueTexts
        BY DEF FalseTexts, TrueTexts
      <3>2. Printed(item, value) = "off"
        BY <1>1, <2>3 DEF Printed
      <3>3. ("off" \in TrueTexts) = FALSE
        BY <3>1
      <3>4. Parsed(item, "off") = FALSE
        BY <1>1, <3>3 DEF Parsed
      <3> QED
        BY <1>1, <2>3, <3>1, <3>2, <3>4 DEF Texts
    <2> QED
      BY <2>1, <2>2, <2>3
  <1>2. CASE item \notin Switches
    BY <1>2 DEF Printed, Parsed, Texts, Values
  <1> QED
    BY <1>1, <1>2

\* Config::save_: what -c writes is complete and within the ranges a start checks,
\* so the next start without options is never refused because of it, and has the
\* very configuration that was saved, whatever the settings of the system say.
THEOREM SavedStartsAgain ==
    ASSUME NEW options, NEW v1 \in BOOLEAN, NEW perUser, NEW global,
           Starts(options, v1, perUser, global), NEW otherGlobal,
           DOMAIN otherGlobal \subseteq Items
    PROVE  LET c == Resolved(options, v1, perUser, global)
           IN  /\ Starts(NoOptions, FALSE, Saved(c), otherGlobal)
               /\ Resolved(NoOptions, FALSE, Saved(c), otherGlobal) = c
  <1> DEFINE c == Resolved(options, v1, perUser, global)
             Text(item) == TextOf(NoOptions, Saved(c), otherGlobal, item)
             again == Resolved(NoOptions, FALSE, Saved(c), otherGlobal)
  <1>1. \A item \in Items : c[item] \in Values(item)
    BY ResolvedIsValue DEF Starts
  <1>2. DOMAIN NoOptions = {} /\ DOMAIN Saved(c) = Items
    BY DEF NoOptions, Saved
  <1>3. c = [item \in Items |-> c[item]]
    BY DEF Resolved
  <1>4. WithinRanges(c)
    BY DEF Starts
  <1> HIDE DEF c
  <1>5. Given(NoOptions, FALSE, Saved(c), otherGlobal) = Items
    BY <1>2 DEF Given, Stored
  <1>6. ASSUME NEW item \in Items
        PROVE  Text(item) = Printed(item, c[item])
    BY <1>2 DEF TextOf, StoredText, Saved
  <1>7. ASSUME NEW item \in Items
        PROVE  Text(item) \in Texts(item) /\ Parsed(item, Text(item)) = c[item]
    BY <1>1, <1>6, PrintedIsParsed
  <1> HIDE DEF Text
  <1>8. Parses(NoOptions, FALSE, Saved(c), otherGlobal)
    BY <1>5, <1>7 DEF Parses, Text
  <1>9. again = [item \in Items |-> c[item]]
    BY <1>5, <1>7 DEF Resolved, Text
  <1> QED
    BY <1>3, <1>4, <1>8, <1>9 DEF Starts, c

\* Config::read_ and the two deserialize "tell the user the same story": the rules
\* of a server that started are accepted by every client it sends them to, and the
\* configuration of the server itself would be read from an object, unless one of
\* its transports has port 0, which the command line lets through.
THEOREM ResolvedIsDeserialized ==
    ASSUME NEW options, NEW v1 \in BOOLEAN, NEW perUser, NEW global,
           Starts(options, v1, perUser, global)
    PROVE  LET c == Resolved(options, v1, perUser, global)
           IN  /\ LogicDeserialized([item \in LogicItems |-> c[item]])
               /\ c.tcpPort # 0 /\ c.websocketPort # 0 => ServerDeserialized(c)
  <1> DEFINE c == Resolved(options, v1, perUser, global)
             rules == [item \in LogicItems |-> c[item]]
  <1>1. \A item \in Items : c[item] \in Values(item)
    BY ResolvedIsValue DEF Starts
  <1>2. WithinRanges(c) /\ DOMAIN c = Items
    BY DEF Starts, Resolved
  <1> HIDE DEF c
  <1>3. ASSUME NEW item \in LogicItems
        PROVE  c[item] \in LogicValues(item)
    <2>1. c[item] \in Values(item)
      BY <1>1, <1>3 DEF Items
    <2>2. CASE item \in Switches
      BY <2>1, <2>2 DEF Values, LogicValues
    <2>3. CASE item = "punishHpRoundStrategy"
      BY <2>1, <2>3 DEF Values, LogicValues, Switches, Ports
    <2>4. CASE item \in {"initialKnifeDamage", "maximumKnifeDamage",
                         "initialHorseDamage", "maximumHorseDamage",
                         "initialMaxHp", "maximumMaxHp", "punishHpModifier"}
      <3>1. c[item] \in MinInt..MaxInt
        BY <2>1, <2>4 DEF Values, Switches, Ports
      <3>2. c[item] >= 0
        BY SMT, <1>2, <2>4, <3>1, Bounds DEF WithinRanges
      <3> QED
        BY SMT, <2>4, <3>1, <3>2, Bounds DEF LogicValues, Switches
    <2> QED
      BY <1>3, <2>2, <2>3, <2>4, ItemNames DEF Switches
  <1>4. LogicDeserialized(rules)
    <2>1. DOMAIN rules = LogicItems /\ \A item \in LogicItems : rules[item] = c[item]
      OBVIOUS
    <2> HIDE DEF rules
    <2> QED
      BY <1>2, <1>3, <2>1, ItemNames DEF LogicDeserialized, WithinRanges
  <1>5. ASSUME c.tcpPort # 0, c.websocketPort # 0
        PROVE  ServerDeserialized(c)
    <2> SUFFICES ASSUME NEW item \in DOMAIN ServerDefaults
                 PROVE  c[item] \in ServerValues[item]
      BY ItemNames DEF ServerDeserialized
    <2>1. c[item] \in Values(item)
      BY <1>1 DEF Items
    <2>2. CASE item \in {"tcpEnabled", "localEnabled", "websocketEnabled"}
      BY SMT, <2>1, <2>2 DEF Values, ServerValues, Switches
    <2>3. CASE item \in Ports
      BY SMT, <1>5, <2>1, <2>3, Bounds DEF Values, ServerValues, Switches, Ports
    <2>4. CASE item \in {"playerNumPerRoom", "requestTimeout", "maximumPacketSize",
                         "signInTimeout", "maximumRooms"}
      <3>1. c[item] \in MinInt..MaxInt
        BY <2>1, <2>4 DEF Values, Switches, Ports
      <3>2. CASE item = "playerNumPerRoom"
        BY <1>2, <3>1, <3>2, Bounds, SMT DEF WithinRanges, ServerValues
      <3>3. CASE item = "requestTimeout"
        BY <1>2, <3>1, <3>3, Bounds, SMT DEF WithinRanges, ServerValues
      <3>4. CASE item = "maximumPacketSize"
        BY <1>2, <3>1, <3>4, Bounds, SMT DEF WithinRanges, ServerValues
      <3>5. CASE item = "signInTimeout"
        BY <1>2, <3>1, <3>5, Bounds, SMT DEF WithinRanges, ServerValues
      <3>6. CASE item = "maximumRooms"
        BY <1>2, <3>1, <3>6, Bounds, SMT DEF WithinRanges, ServerValues
      <3> QED
        BY <2>4, <3>2, <3>3, <3>4, <3>5, <3>6
    <2> QED
      BY <2>2, <2>3, <2>4, ItemNames DEF Ports
  <1> QED
    BY <1>4, <1>5 DEF c

-----------------------------------------------------------------------------
(* Server: what the handlers do. *)

\* No socket and no agent has the number of nobody.
LEMMA NobodyIsNoId == Nobody \notin Ids /\ Nobody \notin SocketIds
  BY DEF Nobody, Ids, SocketIds

\* There are finitely many numbers.
LEMMA IdsAreFinite == IsFiniteSet(Ids) /\ IsFiniteSet(SocketIds)
  BY FS_Interval, ServerAssumption DEF Ids, SocketIds

\* The types of what is not there.
LEMMA NothingIsTyped ==
    /\ NoRoom \in Rooms /\ NoRoom.status = "none"
    /\ NoRoom.agents = {} /\ NoRoom.strays = {}
    /\ NoAgent \in Agents /\ ~NoAgent.online /\ NoAgent.socket = Nobody
    /\ Gone \in Sockets /\ Gone.link = "down"
  BY DEF NoRoom, Rooms, NoAgent, Agents, Gone, Sockets, Links

\* A step of one socket: where it leaves the link, and that no sign-in is forgotten.
LEMMA SocketStep ==
    ASSUME TypeOK, NEW s \in SocketIds, NEW link \in Links,
           SocketBecomes(s, link) \/ SignedIn(s, link)
    PROVE  /\ sockets' \in [SocketIds -> Sockets]
           /\ \A t \in SocketIds \ {s} : sockets'[t] = sockets[t]
           /\ sockets'[s].link = link
           /\ sockets[s].signedIn \/ SignedIn(s, link) => sockets'[s].signedIn
  <1>1. sockets \in [SocketIds -> Sockets] /\ sockets[s].signedIn \in BOOLEAN
    BY DEF TypeOK, Sockets
  <1> DEFINE to(signedIn) == [link |-> link, signedIn |-> signedIn]
  <1>2. \A b \in BOOLEAN :
           to(b) \in Sockets /\ to(b).link = link /\ to(b).signedIn = b
    BY DEF Sockets
  <1>3. CASE SocketBecomes(s, link)
    <2>1. sockets' = [sockets EXCEPT ![s] = [sockets[s] EXCEPT !.link = link]]
      BY <1>1, <1>3 DEF SocketBecomes
    <2>2. [sockets[s] EXCEPT !.link = link] = to(sockets[s].signedIn)
      BY <1>1 DEF Sockets
    <2>3. sockets' = [sockets EXCEPT ![s] = to(sockets[s].signedIn)]
      BY <2>1, <2>2
    <2> HIDE DEF to
    <2>4. /\ sockets' \in [SocketIds -> Sockets]
          /\ \A t \in SocketIds \ {s} : sockets'[t] = sockets[t]
          /\ sockets'[s] = to(sockets[s].signedIn)
      BY <1>1, <1>2, <2>3
    <2>5. SignedIn(s, link) => sockets'[s].signedIn = TRUE
      BY <1>1 DEF SignedIn
    <2> QED
      BY <1>1, <1>2, <2>4, <2>5
  <1>4. CASE SignedIn(s, link)
    <2>1. sockets' = [sockets EXCEPT ![s] = to(TRUE)]
      BY <1>4 DEF SignedIn
    <2> HIDE DEF to
    <2> QED
      BY <1>1, <1>2, <2>1
  <1> QED
    BY <1>3, <1>4

\* The handlers that only move a socket: it is accepted, its peer goes, it is given
\* up, or a room too many is refused.
OnlyMoves(s) ==
    /\ sockets' \in [SocketIds -> Sockets]
    /\ \A t \in SocketIds \ {s} : sockets'[t] = sockets[t]
    /\ sockets'[s].link \in Speaking
    /\ sockets[s].signedIn => sockets'[s].signedIn
    /\ UNCHANGED <<agents, made, rooms, current>>

LEMMA MoveEffect ==
    ASSUME TypeOK, NEW s \in SocketIds,
           \/ Accept(s) \/ Refuse(s) \/ SignInDeadline(s) \/ Cut(s) \/ GiveUp(s)
           \/ SetError(s) /\ UNCHANGED <<agents, made, rooms, current>>
    PROVE  OnlyMoves(s)
  <1>1. \E link \in {"up", "cut", "closing"} :
           SocketBecomes(s, link) \/ SignedIn(s, link)
    BY DEF Accept, Refuse, SignInDeadline, Cut, GiveUp, SetError
  <1>2. UNCHANGED <<agents, made, rooms, current>>
    BY DEF Accept, Refuse, SignInDeadline, Cut, GiveUp
  <1>3. {"up", "cut", "closing"} \subseteq Links
    BY DEF Links
  <1> QED
    BY <1>1, <1>2, <1>3, SocketStep DEF OnlyMoves, Speaking

\* An agent takes socket s, and a socket it still had is deleted under everyone.
LEMMA BackEffect ==
    ASSUME TypeOK, NEW s \in SocketIds, NEW a \in Ids, Reconnect(s, a)
    PROVE  LET old == agents[a].socket
           IN  /\ UNCHANGED <<made, rooms, current>>
               /\ agents' \in [Ids -> Agents]
               /\ agents'[a].online
               /\ agents'[a].socket = IF s = old THEN Nobody ELSE s
               /\ \A b \in Ids \ {a} :
                     /\ agents'[b].online = agents[b].online
                     /\ agents'[b].socket = IF agents[b].socket = old THEN Nobody
                                            ELSE agents[b].socket
               /\ sockets' \in [SocketIds -> Sockets]
               /\ \A t \in SocketIds \ {old} :
                     /\ sockets'[t].link = sockets[t].link
                     /\ sockets'[t].signedIn = (sockets[t].signedIn \/ t = s)
  <1> DEFINE old == agents[a].socket
             taken == [agents[a] EXCEPT !.online = TRUE, !.socket = s]
             back == [agents EXCEPT ![a] = taken]
  <1>1. agents \in [Ids -> Agents] /\ sockets \in [SocketIds -> Sockets]
    BY DEF TypeOK
  <1>2. taken \in Agents /\ taken.online = TRUE /\ taken.socket = s
    BY <1>1 DEF Agents
  <1>3. agents' = [b \in Ids |-> IF back[b].socket = old
                                 THEN [back[b] EXCEPT !.socket = Nobody] ELSE back[b]]
    BY <1>1 DEF Reconnect
  <1> HIDE DEF taken
  <1>4. back[a] = taken /\ \A b \in Ids \ {a} : back[b] = agents[b]
    BY <1>1
  <1>5. \A b \in Ids : back[b] \in Agents
    BY <1>1, <1>2, <1>4
  <1> HIDE DEF back
  <1>6. \A ag \in Agents : LET off == [ag EXCEPT !.socket = Nobody]
                           IN  off \in Agents /\ off.socket = Nobody
                               /\ off.online = ag.online
    BY DEF Agents
  <1> HIDE DEF old
  <1>7. agents' \in [Ids -> Agents]
    BY <1>3, <1>5, <1>6
  <1>8. agents'[a].online /\ agents'[a].socket = IF s = old THEN Nobody ELSE s
    BY <1>2, <1>3, <1>4, <1>6
  <1>9. \A b \in Ids \ {a} :
           /\ agents'[b].online = agents[b].online
           /\ agents'[b].socket = IF agents[b].socket = old THEN Nobody
                                  ELSE agents[b].socket
    BY <1>1, <1>3, <1>4, <1>6
  <1> DEFINE read(t) == [sockets[t] EXCEPT !.signedIn = @ \/ t = s]
  <1>10. \A t \in SocketIds : /\ read(t) \in Sockets /\ read(t).link = sockets[t].link
                              /\ read(t).signedIn = (sockets[t].signedIn \/ t = s)
    BY <1>1 DEF Sockets
  <1>11. /\ sockets' \in [SocketIds -> Sockets]
         /\ \A t \in SocketIds \ {old} :
               /\ sockets'[t].link = sockets[t].link
               /\ sockets'[t].signedIn = (sockets[t].signedIn \/ t = s)
    <2>1. sockets' = [t \in SocketIds |-> IF t = old THEN Gone ELSE read(t)]
      BY DEF Reconnect, old
    <2> HIDE DEF read
    <2> QED
      BY <1>10, <2>1, NothingIsTyped
  <1> QED
    BY <1>7, <1>8, <1>9, <1>11 DEF Reconnect, old

\* An agent comes to room r, which is as `room` before: it gets a seat there, or
\* is a stray.
Comes(s, r, room, a) ==
    /\ made' = a /\ current' = r
    /\ agents' \in [Ids -> Agents] /\ agents'[a].socket = s
    /\ \A b \in Ids \ {a} : agents'[b] = agents[b]
    /\ rooms' \in [Ids -> Rooms] /\ rooms'[r].status = room.status
    /\ \A q \in Ids \ {r} : rooms'[q] = rooms[q]
    /\ \/ /\ rooms'[r].agents = room.agents
          /\ rooms'[r].strays = room.strays \cup {a}
       \/ /\ rooms'[r].agents = room.agents \cup {a}
          /\ rooms'[r].strays = room.strays
    /\ sockets' \in [SocketIds -> Sockets] /\ sockets'[s].signedIn
    /\ sockets'[s].link \in Speaking
    /\ \A t \in SocketIds \ {s} : sockets'[t] = sockets[t]

LEMMA ComesEffect ==
    ASSUME TypeOK, NEW s \in SocketIds, sockets[s].link \in Speaking, NEW r \in Ids,
           NEW room \in Rooms, NEW name \in Names, NEW online \in BOOLEAN,
           AddAgent(s, r, room, name, online)
    PROVE  made + 1 \in Ids /\ Comes(s, r, room, made + 1)
  <1> DEFINE a == made + 1
             agent == [name |-> name, online |-> online, socket |-> s]
             seated == [room EXCEPT !.agents = @ \cup {a}]
             stray == [room EXCEPT !.strays = @ \cup {a}]
  <1>1. a \in Ids
    BY ServerAssumption DEF AddAgent, TypeOK, Ids
  <1>2. agent \in Agents /\ agent.socket = s
    BY DEF Agents
  <1>3. /\ seated \in Rooms /\ seated.status = room.status
        /\ seated.agents = room.agents \cup {a} /\ seated.strays = room.strays
    BY <1>1 DEF Rooms
  <1>4. /\ stray \in Rooms /\ stray.status = room.status
        /\ stray.agents = room.agents /\ stray.strays = room.strays \cup {a}
    BY <1>1 DEF Rooms
  <1>5. /\ made' = a /\ current' = r /\ agents' = [agents EXCEPT ![a] = agent]
        /\ \/ rooms' = [rooms EXCEPT ![r] = seated] /\ SignedIn(s, sockets[s].link)
           \/ rooms' = [rooms EXCEPT ![r] = stray] /\ SignedIn(s, "closing")
    BY DEF AddAgent
  <1>6. agents \in [Ids -> Agents] /\ rooms \in [Ids -> Rooms]
    BY DEF TypeOK
  <1> HIDE DEF a, agent, seated, stray
  <1>7. /\ agents' \in [Ids -> Agents] /\ agents'[a].socket = s
        /\ \A b \in Ids \ {a} : agents'[b] = agents[b]
    BY <1>1, <1>2, <1>5, <1>6
  <1>8. /\ rooms' \in [Ids -> Rooms]
        /\ \A q \in Ids \ {r} : rooms'[q] = rooms[q]
        /\ rooms'[r] \in {seated, stray}
    BY <1>3, <1>4, <1>5, <1>6
  <1>9. \E link \in Links : link \in Speaking /\ SignedIn(s, link)
    BY <1>5 DEF Speaking, Links
  <1> QED
    BY <1>1, <1>3, <1>4, <1>5, <1>7, <1>8, <1>9, SocketStep DEF Comes, a

\* The rooms in over are over, and the current room is none of them.
LEMMA OverEffect ==
    ASSUME NEW over \in SUBSET Ids, NEW others \in [Ids -> Rooms],
           LogicRunnerGameOver(over, others)
    PROVE  /\ rooms' \in [Ids -> Rooms]
           /\ \A r \in Ids :
                 /\ rooms'[r].status = IF r \in over THEN "over" ELSE others[r].status
                 /\ rooms'[r].agents = others[r].agents
                 /\ rooms'[r].strays = others[r].strays
           /\ current' = IF current \in over THEN Nobody ELSE current
  <1> DEFINE ended(r) == [others[r] EXCEPT !.status = "over"]
  <1>1. \A r \in Ids : /\ ended(r) \in Rooms /\ ended(r).status = "over"
                       /\ ended(r).agents = others[r].agents
                       /\ ended(r).strays = others[r].strays
    BY DEF Rooms
  <1>2. rooms' = [r \in Ids |-> IF r \in over THEN ended(r) ELSE others[r]]
    BY DEF LogicRunnerGameOver
  <1> HIDE DEF ended
  <1> QED
    BY <1>1, <1>2 DEF LogicRunnerGameOver

\* Of a full room whose agents were on socket s, either somebody is left online or
\* the game is over; of a room that is not full they leave.
LEMMA GoneEffect ==
    ASSUME TypeOK, NEW s \in SocketIds, SocketDisconnected(s)
    PROVE  /\ sockets' \in [SocketIds -> Sockets]
           /\ \A t \in SocketIds \ {s} : sockets'[t] = sockets[t]
           /\ agents' \in [Ids -> Agents]
           /\ \A a \in Ids : IF agents[a].socket = s
                             THEN ~agents'[a].online /\ agents'[a].socket = Nobody
                             ELSE agents'[a] = agents[a]
           /\ rooms' \in [Ids -> Rooms] /\ made' = made
           /\ \A r \in Ids :
                 /\ rooms'[r].agents =
                      IF Full(r) THEN rooms[r].agents
                      ELSE rooms[r].agents \ {a \in Ids : agents[a].socket = s}
                 /\ rooms'[r].strays = rooms[r].strays
                 /\ \/ rooms'[r].status = rooms[r].status
                    \/ Full(r) /\ rooms'[r].status = "over"
                 /\ \/ rooms'[r].status = "over"
                    \/ ~Full(r)
                    \/ \A a \in rooms[r].agents : agents[a].socket # s
                    \/ \E a \in rooms[r].agents : agents'[a].online
                 /\ current = r /\ current' # r =>
                      Full(r) /\ rooms'[r].status = "over" /\ current' = Nobody
                 /\ current = r /\ current' = r =>
                      rooms'[r].status = rooms[r].status
           /\ current' \in {current, Nobody}
  <1> DEFINE gone == {a \in Ids : agents[a].socket = s}
             left(r) == [rooms[r] EXCEPT !.agents = @ \ gone]
             others == [r \in Ids |-> IF Full(r) THEN rooms[r] ELSE left(r)]
             over == {r \in Ids : /\ Full(r) /\ rooms[r].agents \cap gone # {}
                                  /\ \A b \in rooms[r].agents : ~agents'[b].online}
  <1>1. agents \in [Ids -> Agents] /\ rooms \in [Ids -> Rooms]
    BY DEF TypeOK
  <1>2. /\ sockets' \in [SocketIds -> Sockets]
        /\ \A t \in SocketIds \ {s} : sockets'[t] = sockets[t]
    BY NothingIsTyped DEF SocketDisconnected, TypeOK
  <1>3. \A ag \in Agents :
           LET off == [ag EXCEPT !.online = FALSE, !.socket = Nobody]
           IN  off \in Agents /\ ~off.online /\ off.socket = Nobody
    BY DEF Agents
  <1>4. /\ agents' \in [Ids -> Agents]
        /\ \A a \in Ids : IF agents[a].socket = s
                          THEN ~agents'[a].online /\ agents'[a].socket = Nobody
                          ELSE agents'[a] = agents[a]
    BY <1>1, <1>3 DEF SocketDisconnected, OnSocketDisconnected
  <1>5. \A r \in Ids : /\ left(r) \in Rooms /\ left(r).status = rooms[r].status
                       /\ left(r).agents = rooms[r].agents \ gone
                       /\ left(r).strays = rooms[r].strays
    BY <1>1 DEF Rooms
  <1>6. LogicRunnerGameOver(over, others) /\ made' = made
    BY DEF SocketDisconnected, AgentDisconnected
  <1> HIDE DEF left
  <1>7. /\ others \in [Ids -> Rooms]
        /\ \A r \in Ids : /\ others[r].status = rooms[r].status
                          /\ others[r].strays = rooms[r].strays
                          /\ others[r].agents = IF Full(r) THEN rooms[r].agents
                                                ELSE rooms[r].agents \ gone
    BY <1>1, <1>5
  <1>8. over \in SUBSET Ids /\ \A r \in over : Full(r)
    OBVIOUS
  <1>9. \A r \in Ids : \/ r \in over
                       \/ ~Full(r)
                       \/ \A a \in rooms[r].agents : agents[a].socket # s
                       \/ \E a \in rooms[r].agents : agents'[a].online
    <2>1. \A r \in Ids : rooms[r].agents \subseteq Ids
      BY <1>1 DEF Rooms
    <2> QED
      BY <2>1
  <1> HIDE DEF over, others
  <1>10. /\ rooms' \in [Ids -> Rooms]
         /\ \A r \in Ids :
               /\ rooms'[r].status = IF r \in over THEN "over" ELSE others[r].status
               /\ rooms'[r].agents = others[r].agents
               /\ rooms'[r].strays = others[r].strays
         /\ current' = IF current \in over THEN Nobody ELSE current
    BY <1>6, <1>7, <1>8, OverEffect
  <1>11. current \in Ids \cup {Nobody}
    BY DEF TypeOK
  <1> QED
    BY <1>2, <1>4, <1>6, <1>7, <1>8, <1>9, <1>10, <1>11, NobodyIsNoId
-----------------------------------------------------------------------------
(* Server: what holds whatever peers send. *)

\* Whoever came to room r, refused or not.
Members(r) == rooms[r].agents \cup rooms[r].strays

\* Who is online, or has a socket.
Present(a) == agents[a].online \/ agents[a].socket # Nobody

\* Where the agents are: a room that is not there has none, no agent is in two
\* rooms, one that is present is in one, and no room has more seats taken than it
\* has; and no agent has come yet, nor room been built, beyond those made.
NoRoomIsEmpty == \A r \in Ids : rooms[r].status = "none" => Members(r) = {}
Apart == \A r, q \in Ids : r # q => Members(r) \cap Members(q) = {}
PresentIsMember == \A a \in Ids : Present(a) => \E r \in Ids : a \in Members(r)
SeatsFit == \A r \in Ids : Cardinality(rooms[r].agents) <= PlayerNumPerRoom
Unmade == \A i \in Ids : i > made => /\ rooms[i].status = "none"
                                     /\ \A r \in Ids : i \notin Members(r)

Placed == NoRoomIsEmpty /\ Apart /\ PresentIsMember /\ SeatsFit /\ Unmade

\* The strengthening: the types with the pointer to the current room, the
\* recruiter, and where the agents are.
Inv == TypeOK /\ OneRecruiter /\ Placed

-----------------------------------------------------------------------------
\* The configuration the server starts with has rooms for two at least.
LEMMA ConfiguredSeats == PlayerNumPerRoom \in Nat /\ PlayerNumPerRoom >= 2
  <1>1. Configuration["playerNumPerRoom"] \in Values("playerNumPerRoom")
    BY ServerAssumption, ResolvedIsValue, ItemNames DEF Starts, Configuration, Items
  <1>2. Configuration["playerNumPerRoom"] \in MinInt..MaxInt
    BY <1>1 DEF Values, Switches, Ports
  <1>3. Configuration.playerNumPerRoom >= 2
    BY ServerAssumption DEF Starts, WithinRanges, Configuration
  <1> QED
    BY <1>2, <1>3, Bounds DEF PlayerNumPerRoom

\* A set of agents is finite, and its number does not grow when some leave.
LEMMA FewerAgents ==
    ASSUME NEW A \in SUBSET Ids, NEW B \in SUBSET A
    PROVE  Cardinality(B) \in Nat /\ Cardinality(A) \in Nat
           /\ Cardinality(B) <= Cardinality(A)
  <1>1. IsFiniteSet(Ids)
    BY FS_Interval, ServerAssumption DEF Ids
  <1> QED
    BY <1>1, FS_Subset, FS_CardinalityType

\* A room that is not there, its seats being empty, is not full.
LEMMA NoRoomIsNotFull ==
    ASSUME NoRoomIsEmpty, NEW r \in Ids, rooms[r].status = "none"
    PROVE  ~Full(r)
  <1>1. Cardinality(rooms[r].agents) = 0
    BY FS_EmptySet DEF NoRoomIsEmpty, Members
  <1> QED
    BY <1>1, ConfiguredSeats DEF Full

\* A room that is not full and gains nobody is not full.
LEMMA NotFullStays ==
    ASSUME TypeOK, NEW r \in Ids, rooms'[r].agents \subseteq rooms[r].agents, ~Full(r)
    PROVE  ~Full(r)'
  <1>1. rooms[r].agents \in SUBSET Ids
    BY DEF TypeOK, Rooms
  <1>2. Cardinality(rooms'[r].agents) \in Nat /\ Cardinality(rooms[r].agents) \in Nat
        /\ Cardinality(rooms'[r].agents) <= Cardinality(rooms[r].agents)
    BY <1>1, FewerAgents
  <1> QED
    BY <1>2, ConfiguredSeats DEF Full

\* The server starts with no room and nobody connected.
LEMMA InitInv == Init => Inv
  <1> SUFFICES ASSUME Init PROVE Inv
    OBVIOUS
  <1>1. /\ sockets = [s \in SocketIds |-> NoSocket] /\ NoSocket \in Sockets
        /\ agents = [a \in Ids |-> NoAgent] /\ rooms = [r \in Ids |-> NoRoom]
        /\ made = 0 /\ current = Nobody /\ repeats = 0
    BY DEF Init, NoSocket, Sockets, Links
  <1>2. TypeOK
    BY <1>1, NothingIsTyped, ServerAssumption DEF TypeOK
  <1>3. OneRecruiter
    BY <1>1, NothingIsTyped DEF OneRecruiter
  <1>4. \A r \in Ids : Members(r) = {} /\ rooms[r].status = "none"
    BY <1>1, NothingIsTyped DEF Members
  <1>5. SeatsFit
    <2>1. \A r \in Ids : Cardinality(rooms[r].agents) = 0
      BY <1>1, NothingIsTyped, FS_EmptySet
    <2> QED
      BY <2>1, ConfiguredSeats DEF SeatsFit
  <1>6. PresentIsMember
    BY <1>1, NothingIsTyped DEF PresentIsMember, Present
  <1> HIDE DEF Members
  <1> QED
    BY <1>2, <1>3, <1>4, <1>5, <1>6
       DEF Inv, Placed, NoRoomIsEmpty, Apart, Unmade

\* A step in which nobody comes to a room keeps the agents where they are.
LEMMA NobodyComes ==
    ASSUME Inv, made' = made,
           \A r \in Ids : /\ rooms'[r].agents \subseteq rooms[r].agents
                          /\ rooms'[r].strays \subseteq rooms[r].strays
                          /\ rooms[r].status = "none" => rooms'[r].status = "none"
                          /\ rooms'[r].status = "none" =>
                                rooms[r].status = "none" \/ Members(r)' = {},
           \A a \in Ids : Present(a)' => \E r \in Ids : a \in Members(r)'
    PROVE  Placed'
  <1>1. \A r \in Ids : Members(r)' \subseteq Members(r)
    BY DEF Members
  <1>2. ASSUME NEW r \in Ids PROVE Cardinality(rooms'[r].agents) <= PlayerNumPerRoom
    <2>1. rooms[r].agents \in SUBSET Ids /\ rooms'[r].agents \in SUBSET rooms[r].agents
      BY DEF Inv, TypeOK, Rooms
    <2>2. /\ Cardinality(rooms'[r].agents) \in Nat /\ Cardinality(rooms[r].agents) \in Nat
          /\ Cardinality(rooms'[r].agents) <= Cardinality(rooms[r].agents)
      BY <2>1, FewerAgents
    <2> QED
      BY <2>2, ConfiguredSeats DEF Inv, Placed, SeatsFit
  <1> HIDE DEF Members
  <1>3. NoRoomIsEmpty'
    BY <1>1 DEF NoRoomIsEmpty, Inv, Placed
  <1>4. Apart'
    BY <1>1 DEF Apart, Inv, Placed
  <1>5. Unmade'
    BY <1>1 DEF Unmade, Inv, Placed
  <1> QED
    BY <1>2, <1>3, <1>4, <1>5 DEF Placed, SeatsFit, PresentIsMember

\* A step that leaves the rooms alone, and makes nobody present but a member.
LEMMA RoomsStay ==
    ASSUME Inv, sockets' \in [SocketIds -> Sockets], agents' \in [Ids -> Agents],
           UNCHANGED <<made, rooms, current>>, repeats' \in 0..MaxRepeats,
           \A a \in Ids : Present(a)' =>
              Present(a) \/ \E r \in Ids : a \in Members(r)
    PROVE  Inv'
  <1>1. TypeOK' /\ OneRecruiter'
    BY DEF Inv, TypeOK, OneRecruiter, Full
  <1>2. \A r \in Ids : Members(r)' = Members(r)
    BY DEF Members
  <1>3. \A a \in Ids : Present(a)' => \E r \in Ids : a \in Members(r)'
    BY <1>2 DEF Inv, Placed, PresentIsMember
  <1>4. Placed'
    BY <1>3, NobodyComes
  <1> QED
    BY <1>1, <1>4 DEF Inv

LEMMA MoveInv ==
    ASSUME Inv, repeats' \in 0..MaxRepeats, NEW s \in SocketIds, OnlyMoves(s)
    PROVE  Inv'
  BY RoomsStay DEF OnlyMoves, Inv, TypeOK, Present

\* A seat is found again: its agent is a member.
LEMMA BackInv ==
    ASSUME Inv, repeats' \in 0..MaxRepeats, NEW s \in SocketIds, NEW r \in Ids, NEW a \in rooms[r].agents,
           Reconnect(s, a)
    PROVE  Inv'
  <1>1. a \in Ids
    BY DEF Inv, TypeOK, Rooms
  <1>2. /\ UNCHANGED <<made, rooms, current>>
        /\ agents' \in [Ids -> Agents] /\ sockets' \in [SocketIds -> Sockets]
        /\ \A b \in Ids \ {a} :
              /\ agents'[b].online = agents[b].online
              /\ agents'[b].socket \in {agents[b].socket, Nobody}
    BY <1>1, BackEffect DEF Inv
  <1>3. a \in Members(r)
    BY DEF Members
  <1>4. \A b \in Ids : Present(b)' => Present(b) \/ b \in Members(r)
    BY <1>2, <1>3 DEF Present
  <1> QED
    BY <1>2, <1>4, RoomsStay


\* A state is declared, for an agent that has a socket.
DeclaredEffect(s, a) ==
    /\ agents[a].socket = s /\ agents' \in [Ids -> Agents]
    /\ agents'[a].socket = s
    /\ \A b \in Ids \ {a} : agents'[b] = agents[b]
    /\ UNCHANGED <<sockets, made, rooms, current>>

LEMMA StateChangeIs ==
    ASSUME TypeOK, NEW s \in SocketIds, StateChange(s)
    PROVE  OnlyMoves(s) \/ \E a \in Ids : DeclaredEffect(s, a)
  <1>1. CASE SetError(s) /\ UNCHANGED <<agents, made, rooms, current>>
    BY <1>1, MoveEffect
  <1>2. ASSUME NEW a \in Ids, agents[a].socket = s,
               agents' = [agents EXCEPT ![a].online = ~@],
               UNCHANGED <<sockets, made, rooms, current>>
        PROVE  DeclaredEffect(s, a)
    <2> DEFINE declared == [agents[a] EXCEPT !.online = ~@]
    <2>1. agents \in [Ids -> Agents]
      BY DEF TypeOK
    <2>2. declared \in Agents /\ declared.socket = s
      BY <1>2, <2>1 DEF Agents
    <2>3. agents' = [agents EXCEPT ![a] = declared]
      BY <1>2, <2>1
    <2> HIDE DEF declared
    <2> QED
      BY <1>2, <2>1, <2>2, <2>3 DEF DeclaredEffect
  <1> QED
    BY <1>1, <1>2 DEF StateChange

LEMMA DeclaredInv ==
    ASSUME Inv, repeats' \in 0..MaxRepeats, NEW s \in SocketIds, NEW a \in Ids,
           DeclaredEffect(s, a)
    PROVE  Inv'
  <1>1. \A b \in Ids : Present(b)' => Present(b)
    BY NobodyIsNoId DEF DeclaredEffect, Present
  <1> QED
    BY <1>1, RoomsStay DEF DeclaredEffect, Inv, TypeOK

\* The room a new agent comes to: the current one, or the one built for it.
Chosen(r, room) ==
    \/ /\ r = current /\ room = rooms[r] /\ room.status = "live" /\ ~Full(r)
    \/ /\ ~(current # Nobody /\ ~Full(current)) /\ ~TooManyRooms
       /\ r = made + 1 /\ room = [NoRoom EXCEPT !.status = "live"]

\* What either is like.
LEMMA ChosenIs ==
    ASSUME Inv, NEW r \in Ids, NEW room, Chosen(r, room)
    PROVE  /\ room \in Rooms /\ room.status = "live"
           /\ room.agents = rooms[r].agents /\ room.strays = rooms[r].strays
           /\ ~Full(r)
           /\ \A q \in Ids \ {r} : rooms[q].status # "none" => Full(q)
           /\ rooms[r].status # "none" \/ ~TooManyRooms
  <1>1. CASE r = current /\ room = rooms[r] /\ room.status = "live" /\ ~Full(r)
    BY <1>1 DEF Inv, TypeOK, OneRecruiter
  <1>2. CASE /\ ~(current # Nobody /\ ~Full(current)) /\ ~TooManyRooms
             /\ r = made + 1 /\ room = [NoRoom EXCEPT !.status = "live"]
    <2>1. /\ room \in Rooms /\ room.status = "live"
          /\ room.agents = {} /\ room.strays = {}
      BY <1>2 DEF NoRoom, Rooms
    <2>2. rooms[r].status = "none" /\ Members(r) = {}
      <3>1. r > made
        BY <1>2 DEF Inv, TypeOK
      <3> QED
        BY <3>1 DEF Inv, Placed, Unmade, NoRoomIsEmpty
    <2>3. ~Full(r)
      BY <2>2, NoRoomIsNotFull DEF Inv, Placed
    <2>4. \A q \in Ids \ {r} : rooms[q].status # "none" => Full(q)
      BY <1>2, NobodyIsNoId DEF Inv, OneRecruiter
    <2> QED
      BY <1>2, <2>1, <2>2, <2>3, <2>4 DEF Members
  <1> QED
    BY <1>1, <1>2 DEF Chosen

\* A new agent comes.
LEMMA ComesInv ==
    ASSUME Inv, repeats' \in 0..MaxRepeats, NEW s \in SocketIds, NEW r \in Ids,
           NEW room, Chosen(r, room), made + 1 \in Ids, Comes(s, r, room, made + 1)
    PROVE  Inv'
  <1> DEFINE a == made + 1
  <1>1. /\ room.status = "live" /\ ~Full(r)
        /\ room.agents = rooms[r].agents /\ room.strays = rooms[r].strays
        /\ \A q \in Ids \ {r} : rooms[q].status # "none" => Full(q)
    BY ChosenIs
  <1>2. made' = a /\ a > made /\ a \in 0..MaxAgents /\ made \in Nat
    BY ServerAssumption DEF Comes, Inv, TypeOK, Ids
  <1>3. TypeOK'
    BY <1>1, <1>2 DEF Comes, TypeOK
  <1>4. OneRecruiter'
    BY <1>1 DEF Comes, OneRecruiter, Full
  <1>5. \A q \in Ids : a \notin Members(q)
    BY <1>2 DEF Inv, Placed, Unmade
  <1>6. /\ \A q \in Ids : Members(q)' = IF q = r THEN Members(q) \cup {a} ELSE Members(q)
        /\ \A b \in Ids \ {a} : agents'[b] = agents[b]
        /\ rooms'[r].status = "live" /\ \A q \in Ids \ {r} : rooms'[q] = rooms[q]
    BY <1>1 DEF Comes, Members
  <1>7. SeatsFit'
    <2> SUFFICES ASSUME NEW q \in Ids
                 PROVE  Cardinality(rooms'[q].agents) <= PlayerNumPerRoom
      BY DEF SeatsFit
    <2>1. CASE rooms'[q].agents = rooms[q].agents
      BY <2>1 DEF Inv, Placed, SeatsFit
    <2>2. CASE q = r /\ rooms'[r].agents = rooms[r].agents \cup {a}
      <3>1. rooms[r].agents \in SUBSET Ids
        BY DEF Inv, TypeOK, Rooms
      <3>2. IsFiniteSet(rooms[r].agents) /\ Cardinality(rooms[r].agents) \in Nat
        BY <3>1, IdsAreFinite, FS_Subset, FS_CardinalityType
      <3>3. Cardinality(rooms[r].agents \cup {a})
               = IF a \in rooms[r].agents THEN Cardinality(rooms[r].agents)
                                          ELSE Cardinality(rooms[r].agents) + 1
        BY <3>2, FS_AddElement
      <3> QED
        BY <1>1, <2>2, <3>2, <3>3, ConfiguredSeats DEF Full
    <2> QED
      BY <1>1, <2>1, <2>2 DEF Comes
  <1> HIDE DEF Members
  <1>8. NoRoomIsEmpty'
    BY <1>6 DEF NoRoomIsEmpty, Inv, Placed
  <1>9. Apart'
    <2> SUFFICES ASSUME NEW p \in Ids, NEW q \in Ids, p # q
                 PROVE  Members(p)' \cap Members(q)' = {}
      BY DEF Apart
    <2>1. Members(p) \cap Members(q) = {}
      BY DEF Inv, Placed, Apart
    <2> QED
      BY <1>5, <1>6, <2>1
  <1>10. PresentIsMember'
    <2> SUFFICES ASSUME NEW b \in Ids, Present(b)'
                 PROVE  \E q \in Ids : b \in Members(q)'
      BY DEF PresentIsMember
    <2>1. CASE b = a
      BY <1>6, <2>1
    <2>2. CASE b # a
      <3>1. Present(b)
        BY <1>6, <2>2 DEF Present
      <3>2. PICK q \in Ids : b \in Members(q)
        BY <3>1 DEF Inv, Placed, PresentIsMember
      <3> QED
        BY <1>6, <3>2
    <2> QED
      BY <2>1, <2>2
  <1>11. Unmade'
    <2> SUFFICES ASSUME NEW i \in Ids, i > a
                 PROVE  rooms'[i].status = "none" /\ \A q \in Ids : i \notin Members(q)'
      BY <1>2 DEF Unmade
    <2>1. i \in Nat /\ i > made
      BY <1>2 DEF Ids
    <2>2. rooms[i].status = "none" /\ \A q \in Ids : i \notin Members(q)
      BY <2>1 DEF Inv, Placed, Unmade
    <2>3. i # r
      BY <1>2, <2>1, <2>2 DEF Chosen
    <2> QED
      BY <1>2, <1>6, <2>1, <2>2, <2>3
  <1> QED
    BY <1>3, <1>4, <1>7, <1>8, <1>9, <1>10, <1>11 DEF Inv, Placed

\* A sign-in, in each of its ways.
LEMMA SignInIs ==
    ASSUME Inv, NEW s \in SocketIds, SignIn(s)
    PROVE  \/ \E r \in Ids : \E a \in rooms[r].agents :
                 ~agents[a].online /\ Reconnect(s, a)
           \/ OnlyMoves(s)
           \/ /\ made + 1 \in Ids
              /\ \E r \in Ids : \E room : Chosen(r, room) /\ Comes(s, r, room, made + 1)
  <1>0. sockets[s].link \in Speaking
    BY DEF SignIn
  <1>1. PICK name \in Names, online \in BOOLEAN : SignInAs(s, name, online)
    BY DEF SignIn
  <1>2. CASE \E r \in Runners : \E a \in Waiting(r, name) : Reconnect(s, a)
    BY <1>2 DEF Runners, Waiting
  <1>3. CASE Refuse(s)
    BY <1>3, MoveEffect DEF Inv
  <1>4. CASE /\ current # Nobody /\ ~Full(current)
             /\ AddAgent(s, current, rooms[current], name, online)
    <2>1. /\ current \in Ids /\ rooms[current].status = "live"
          /\ rooms[current] \in Rooms
      BY <1>4 DEF Inv, TypeOK
    <2>2. made + 1 \in Ids /\ Comes(s, current, rooms[current], made + 1)
      BY <1>0, <1>4, <2>1, ComesEffect DEF Inv
    <2> QED
      BY <1>4, <2>1, <2>2 DEF Chosen
  <1>5. CASE /\ ~(current # Nobody /\ ~Full(current)) /\ ~TooManyRooms
             /\ AddAgent(s, made + 1, [NoRoom EXCEPT !.status = "live"], name, online)
    <2> DEFINE room == [NoRoom EXCEPT !.status = "live"]
    <2>1. room \in Rooms
      BY DEF NoRoom, Rooms
    <2>2. made + 1 \in Ids
      BY <1>5, ServerAssumption DEF AddAgent, Inv, TypeOK, Ids
    <2>3. Comes(s, made + 1, room, made + 1)
      <3> HIDE DEF room
      <3>1. AddAgent(s, made + 1, room, name, online)
        BY <1>5 DEF room
      <3> QED
        BY <1>0, <2>1, <2>2, <3>1, ComesEffect DEF Inv
    <2>4. Chosen(made + 1, room)
      BY <1>5 DEF Chosen
    <2> HIDE DEF room
    <2> QED
      BY <2>2, <2>3, <2>4
  <1> QED
    BY <1>1, <1>2, <1>3, <1>4, <1>5 DEF SignInAs

LEMMA SignInInv ==
    ASSUME Inv, repeats' \in 0..MaxRepeats, NEW s \in SocketIds, SignIn(s)
    PROVE  Inv'
  BY SignInIs, BackInv, MoveInv, ComesInv

\* A socket's end: whoever was on it is gone, and may leave.
LEMMA GoneInv ==
    ASSUME Inv, repeats' \in 0..MaxRepeats, NEW s \in SocketIds, SocketDisconnected(s)
    PROVE  Inv'
  <1>1. /\ sockets' \in [SocketIds -> Sockets] /\ agents' \in [Ids -> Agents]
        /\ \A a \in Ids : IF agents[a].socket = s
                          THEN ~agents'[a].online /\ agents'[a].socket = Nobody
                          ELSE agents'[a] = agents[a]
        /\ rooms' \in [Ids -> Rooms] /\ made' = made
        /\ \A r \in Ids :
              /\ rooms'[r].agents =
                   IF Full(r) THEN rooms[r].agents
                   ELSE rooms[r].agents \ {a \in Ids : agents[a].socket = s}
              /\ rooms'[r].strays = rooms[r].strays
              /\ \/ rooms'[r].status = rooms[r].status
                 \/ Full(r) /\ rooms'[r].status = "over"
              /\ current = r /\ current' # r =>
                   Full(r) /\ rooms'[r].status = "over" /\ current' = Nobody
              /\ current = r /\ current' = r =>
                   rooms'[r].status = rooms[r].status
        /\ current' \in {current, Nobody}
    BY GoneEffect DEF Inv
  <1>2. TypeOK'
    BY <1>1 DEF Inv, TypeOK
  <1>3. OneRecruiter'
    <2> SUFFICES ASSUME NEW r \in Ids, rooms'[r].status # "none", ~Full(r)'
                 PROVE  current' = r
      BY DEF OneRecruiter
    <2>1. ~Full(r)
      BY <1>1 DEF Full
    <2>2. current = r
      BY <1>1, <2>1 DEF Inv, OneRecruiter
    <2> QED
      BY <1>1, <2>1, <2>2
  <1>4. \A a \in Ids : Present(a)' => \E r \in Ids : a \in Members(r)'
    <2> SUFFICES ASSUME NEW a \in Ids, Present(a)'
                 PROVE  \E r \in Ids : a \in Members(r)'
      OBVIOUS
    <2>1. agents[a].socket # s /\ Present(a)
      BY <1>1 DEF Present
    <2>2. PICK r \in Ids : a \in Members(r)
      BY <2>1 DEF Inv, Placed, PresentIsMember
    <2>3. a \in Members(r)'
      BY <1>1, <2>1, <2>2 DEF Members
    <2> QED
      BY <2>3
  <1>5. \A r \in Ids : rooms[r].status = "none" => ~Full(r)
    BY NoRoomIsNotFull DEF Inv, Placed
  <1>6. \A r \in Ids : /\ rooms'[r].agents \subseteq rooms[r].agents
                       /\ rooms'[r].strays \subseteq rooms[r].strays
                       /\ rooms[r].status = "none" => rooms'[r].status = "none"
                       /\ rooms'[r].status = "none" => rooms[r].status = "none"
    BY <1>1, <1>5
  <1>7. Placed'
    BY <1>1, <1>4, <1>6, NobodyComes
  <1> QED
    BY <1>2, <1>3, <1>7 DEF Inv

\* What the end of a game does.
LEMMA GameOverIs ==
    ASSUME TypeOK, NEW r \in Ids, GameOver(r)
    PROVE  /\ rooms' \in [Ids -> Rooms] /\ Full(r) /\ rooms[r].status = "live"
           /\ \A q \in Ids : /\ rooms'[q].agents = rooms[q].agents
                             /\ rooms'[q].strays = rooms[q].strays
                             /\ rooms'[q].status = IF q = r THEN "over"
                                                   ELSE rooms[q].status
           /\ current' = IF current = r THEN Nobody ELSE current
           /\ UNCHANGED <<sockets, agents, made>>
  <1>1. LogicRunnerGameOver({r}, rooms) /\ rooms \in [Ids -> Rooms]
    BY DEF GameOver, TypeOK
  <1> QED
    BY <1>1, OverEffect DEF GameOver

LEMMA GameOverInv ==
    ASSUME Inv, repeats' \in 0..MaxRepeats, NEW r \in Ids, GameOver(r)
    PROVE  Inv'
  <1>1. /\ rooms' \in [Ids -> Rooms] /\ Full(r) /\ rooms[r].status = "live"
        /\ \A q \in Ids : /\ rooms'[q].agents = rooms[q].agents
                          /\ rooms'[q].strays = rooms[q].strays
                          /\ rooms'[q].status = IF q = r THEN "over"
                                                ELSE rooms[q].status
        /\ current' = IF current = r THEN Nobody ELSE current
        /\ UNCHANGED <<sockets, agents, made>>
    BY GameOverIs DEF Inv
  <1>2. TypeOK'
    BY <1>1 DEF Inv, TypeOK
  <1>3. OneRecruiter'
    BY <1>1 DEF Inv, OneRecruiter, Full
  <1>4. \A q \in Ids : Members(q)' = Members(q)
    BY <1>1 DEF Members
  <1>5. \A a \in Ids : Present(a)' => \E q \in Ids : a \in Members(q)'
    BY <1>1, <1>4 DEF Inv, Placed, PresentIsMember, Present
  <1>6. Placed'
    BY <1>1, <1>5, NobodyComes
  <1> QED
    BY <1>2, <1>3, <1>6 DEF Inv

\* What the deletion of a room does.
LEMMA DeleteIs ==
    ASSUME TypeOK, NEW r \in Ids, DeleteRunner(r)
    PROVE  /\ rooms' \in [Ids -> Rooms] /\ rooms'[r] = NoRoom
           /\ rooms[r].status = "over"
           /\ \A q \in Ids \ {r} : rooms'[q] = rooms[q]
           /\ agents' \in [Ids -> Agents]
           /\ \A a \in Ids : agents'[a] = IF a \in Members(r) THEN NoAgent
                                          ELSE agents[a]
           /\ UNCHANGED <<sockets, made, current>>
  BY NothingIsTyped DEF DeleteRunner, TypeOK, Members

LEMMA DeleteInv ==
    ASSUME Inv, repeats' \in 0..MaxRepeats, NEW r \in Ids, DeleteRunner(r)
    PROVE  Inv'
  <1>1. /\ rooms' \in [Ids -> Rooms] /\ rooms'[r] = NoRoom
        /\ rooms[r].status = "over"
        /\ \A q \in Ids \ {r} : rooms'[q] = rooms[q]
        /\ agents' \in [Ids -> Agents]
        /\ \A a \in Ids : agents'[a] = IF a \in Members(r) THEN NoAgent ELSE agents[a]
        /\ UNCHANGED <<sockets, made, current>>
    BY DeleteIs DEF Inv
  <1>2. TypeOK'
    BY <1>1, NobodyIsNoId DEF Inv, TypeOK
  <1>3. OneRecruiter'
    BY <1>1, NothingIsTyped DEF Inv, OneRecruiter, Full
  <1>4. Members(r)' = {} /\ \A q \in Ids \ {r} : Members(q)' = Members(q)
    BY <1>1, NothingIsTyped DEF Members
  <1>5. \A a \in Ids : Present(a)' => \E q \in Ids : a \in Members(q)'
    <2> SUFFICES ASSUME NEW a \in Ids, Present(a)'
                 PROVE  \E q \in Ids : a \in Members(q)'
      OBVIOUS
    <2>1. a \notin Members(r) /\ Present(a)
      BY <1>1, NothingIsTyped DEF Present
    <2>2. PICK q \in Ids : a \in Members(q)
      BY <2>1 DEF Inv, Placed, PresentIsMember
    <2>3. q # r
      BY <2>1, <2>2
    <2> QED
      BY <1>4, <2>2, <2>3
  <1>6. Placed'
    BY <1>1, <1>4, <1>5, NobodyComes, NothingIsTyped
  <1> QED
    BY <1>2, <1>3, <1>6 DEF Inv

\* Every step is one of these.
LEMMA StepIs ==
    ASSUME Inv, [Next]_vars
    PROVE  \/ UNCHANGED vars
           \/ \E s \in SocketIds :
                 \/ OnlyMoves(s)
                 \/ SignIn(s)
                 \/ \E a \in Ids : DeclaredEffect(s, a)
                 \/ SocketDisconnected(s)
           \/ \E r \in Ids : GameOver(r) \/ DeleteRunner(r)
  <1>1. ASSUME NEW s \in SocketIds,
               Accept(s) \/ SignInDeadline(s) \/ Cut(s) \/ GiveUp(s)
        PROVE  OnlyMoves(s)
    BY <1>1, MoveEffect DEF Inv
  <1>2. ASSUME NEW s \in SocketIds, StateChange(s)
        PROVE  OnlyMoves(s) \/ \E a \in Ids : DeclaredEffect(s, a)
    BY <1>2, StateChangeIs DEF Inv
  <1> QED
    BY <1>1, <1>2 DEF Next

\* Sign-ins on a connection after its first are only ever counted up.
LEMMA RepeatsStep ==
    ASSUME TypeOK, [Next]_vars
    PROVE  /\ repeats' \in 0..MaxRepeats
           /\ repeats' = 0 => /\ repeats = 0
                              /\ \A s \in SocketIds : SignIn(s) => ~sockets[s].signedIn
  <1>1. repeats \in 0..MaxRepeats /\ MaxRepeats \in Nat
    BY ServerAssumption DEF TypeOK
  <1>2. ASSUME NEW s \in SocketIds, SignIn(s)
        PROVE  IF sockets[s].signedIn THEN repeats < MaxRepeats /\ repeats' = repeats + 1
                                      ELSE repeats' = repeats
    BY <1>2 DEF SignIn
  <1>3. UNCHANGED repeats \/ \E s \in SocketIds : SignIn(s)
    BY DEF Next, vars, Accept, StateChange, SignInDeadline, Cut, GiveUp,
           SocketDisconnected, GameOver, DeleteRunner
  <1> QED
    BY <1>1, <1>2, <1>3

\* Every step keeps the invariant.
LEMMA NextInv == ASSUME Inv, [Next]_vars PROVE Inv'
  <1>0. repeats' \in 0..MaxRepeats
    BY RepeatsStep DEF Inv
  <1>1. CASE UNCHANGED vars
    BY <1>0, <1>1, RoomsStay DEF vars, Inv, TypeOK, Present
  <1> QED
    BY <1>0, <1>1, StepIs, MoveInv, SignInInv, DeclaredInv, GoneInv, GameOverInv, DeleteInv

\* The invariant of the server.
LEMMA SpecInv == Spec => []Inv
  <1>1. Init => Inv
    BY InitInv
  <1>2. Inv /\ [Next]_vars => Inv'
    BY NextInv
  <1> QED
    BY <1>1, <1>2, PTL DEF Spec

-----------------------------------------------------------------------------
\* At most one room is built, and that only while there are not too many.
OneRoomBuilt ==
    \/ Runners' \subseteq Runners
    \/ ~TooManyRooms /\ \E r \in Ids : Runners' \subseteq Runners \cup {r}

LEMMA RunnersStep == ASSUME Inv, [Next]_vars PROVE OneRoomBuilt
  <1>1. CASE UNCHANGED rooms
    BY <1>1 DEF OneRoomBuilt, Runners
  <1>2. ASSUME NEW s \in SocketIds, NEW r \in Ids, NEW room, Chosen(r, room),
               Comes(s, r, room, made + 1)
        PROVE  OneRoomBuilt
    <2>1. rooms[r].status # "none" \/ ~TooManyRooms
      BY <1>2, ChosenIs
    <2>2. \A q \in Ids \ {r} : rooms'[q] = rooms[q]
      BY <1>2 DEF Comes
    <2>3. Runners' \subseteq Runners \cup {r}
          /\ (rooms[r].status # "none" => Runners' \subseteq Runners)
      BY <2>2 DEF Runners
    <2> QED
      BY <2>1, <2>3 DEF OneRoomBuilt
  <1>3. ASSUME NEW s \in SocketIds, SocketDisconnected(s) PROVE Runners' \subseteq Runners
    <2>1. \A r \in Ids : \/ rooms'[r].status = rooms[r].status
                         \/ Full(r) /\ rooms'[r].status = "over"
      BY <1>3, GoneEffect DEF Inv
    <2>2. \A r \in Ids : Full(r) => rooms[r].status # "none"
      BY NoRoomIsNotFull DEF Inv, Placed
    <2> QED
      BY <2>1, <2>2 DEF Runners
  <1>4. ASSUME NEW r \in Ids, GameOver(r) \/ DeleteRunner(r)
        PROVE  Runners' \subseteq Runners
    <2>1. CASE GameOver(r)
      BY <2>1, GameOverIs DEF Inv, Runners
    <2>2. CASE DeleteRunner(r)
      BY <2>2, DeleteIs, NothingIsTyped DEF Inv, Runners
    <2> QED
      BY <1>4, <2>1, <2>2
  <1>5. ASSUME NEW s \in SocketIds, SignIn(s) PROVE OneRoomBuilt
    <2>1. ASSUME NEW a \in Ids, Reconnect(s, a) PROVE UNCHANGED rooms
      BY <2>1 DEF Reconnect
    <2>2. \A r \in Ids : rooms[r].agents \subseteq Ids
      BY DEF Inv, TypeOK, Rooms
    <2> QED
      BY <1>1, <1>2, <1>5, <2>1, <2>2, SignInIs DEF OnlyMoves
  <1>6. Runners' \subseteq Runners => OneRoomBuilt
    BY DEF OneRoomBuilt
  <1> QED
    BY <1>1, <1>3, <1>4, <1>5, <1>6, StepIs DEF vars, OnlyMoves, DeclaredEffect

\* The configuration the server starts with bounds its rooms by a number.
LEMMA ConfiguredRooms == MaximumRooms \in Nat
  <1>1. Configuration["maximumRooms"] \in Values("maximumRooms")
    BY ServerAssumption, ResolvedIsValue, ItemNames DEF Starts, Configuration, Items
  <1>2. Configuration["maximumRooms"] \in MinInt..MaxInt
    BY <1>1 DEF Values, Switches, Ports
  <1>3. Configuration.maximumRooms >= 0
    BY ServerAssumption DEF Starts, WithinRanges, Configuration
  <1> QED
    BY <1>2, <1>3, Bounds DEF MaximumRooms

\* One room more than fewer than the limit is within the limit.
LEMMA RoomsBoundedStep ==
    ASSUME RoomsBounded, OneRoomBuilt
    PROVE  RoomsBounded'
  <1>1. IsFiniteSet(Runners) /\ Cardinality(Runners) \in Nat
    <2>1. IsFiniteSet(Ids)
      BY FS_Interval, ServerAssumption DEF Ids
    <2> QED
      BY <2>1, FS_Subset, FS_CardinalityType DEF Runners
  <1>2. CASE Runners' \subseteq Runners
    <2>1. Cardinality(Runners') <= Cardinality(Runners) /\ Cardinality(Runners') \in Nat
      BY <1>1, <1>2, FS_Subset, FS_CardinalityType
    <2> QED
      BY <1>1, <2>1, ConfiguredRooms DEF RoomsBounded
  <1>3. ASSUME NEW s \in Ids, Runners' \subseteq Runners \cup {s}, ~TooManyRooms
        PROVE  RoomsBounded'
    <2>1. /\ IsFiniteSet(Runners \cup {s})
          /\ Cardinality(Runners \cup {s}) <= Cardinality(Runners) + 1
          /\ Cardinality(Runners \cup {s}) \in Nat
      <3>1. /\ IsFiniteSet(Runners \cup {s})
            /\ Cardinality(Runners \cup {s})
                 = IF s \in Runners THEN Cardinality(Runners)
                                    ELSE Cardinality(Runners) + 1
        BY <1>1, FS_AddElement
      <3> HIDE DEF Runners
      <3> QED
        BY <1>1, <3>1
    <2>2. Cardinality(Runners') <= Cardinality(Runners \cup {s})
          /\ Cardinality(Runners') \in Nat
      BY <1>3, <2>1, FS_Subset, FS_CardinalityType
    <2> QED
      BY <1>1, <1>3, <2>1, <2>2, ConfiguredRooms DEF RoomsBounded, TooManyRooms
  <1> QED
    BY <1>2, <1>3 DEF OneRoomBuilt

-----------------------------------------------------------------------------
\* The step that SeatsAreKept allows.
KeepsSeats ==
    \A r \in Ids : Full(r) /\ rooms'[r].status # "none"
                     => rooms'[r].agents = rooms[r].agents

LEMMA SeatsStep == ASSUME Inv, [Next]_vars PROVE KeepsSeats
  <1>1. CASE UNCHANGED rooms
    BY <1>1 DEF KeepsSeats
  <1>2. ASSUME NEW s \in SocketIds, NEW r \in Ids, NEW room, Chosen(r, room),
               Comes(s, r, room, made + 1)
        PROVE  KeepsSeats
    BY <1>2, ChosenIs DEF Comes, KeepsSeats
  <1>3. ASSUME NEW s \in SocketIds, SocketDisconnected(s) PROVE KeepsSeats
    BY <1>3, GoneEffect DEF Inv, KeepsSeats
  <1>4. ASSUME NEW r \in Ids, GameOver(r) \/ DeleteRunner(r) PROVE KeepsSeats
    BY <1>4, GameOverIs, DeleteIs, NothingIsTyped DEF Inv, KeepsSeats
  <1>5. ASSUME NEW s \in SocketIds, SignIn(s) PROVE KeepsSeats
    <2>1. ASSUME NEW a \in Ids, Reconnect(s, a) PROVE UNCHANGED rooms
      BY <2>1 DEF Reconnect
    <2>2. \A r \in Ids : rooms[r].agents \subseteq Ids
      BY DEF Inv, TypeOK, Rooms
    <2> QED
      BY <1>1, <1>2, <1>5, <2>1, <2>2, SignInIs DEF OnlyMoves
  <1> QED
    BY <1>1, <1>3, <1>4, <1>5, StepIs DEF vars, OnlyMoves, DeclaredEffect

-----------------------------------------------------------------------------
(* Server: what holds while peers sign in once per connection. *)

\* Where nobody signed in there is no agent; an agent's socket is one whose end the
\* server has not been told of, and nobody else's; and who is online has one.
Keeping ==
    /\ \A s \in SocketIds : ~sockets[s].signedIn => ~Bound(s)
    /\ \A a \in Ids : agents[a].socket # Nobody =>
                         sockets[agents[a].socket].link \in Speaking
    /\ \A a \in Ids : agents[a].online => agents[a].socket # Nobody
    /\ \A a, b \in Ids :
          agents[a].socket = agents[b].socket /\ agents[a].socket # Nobody => a = b

\* A sign-in finds no agent on its socket, so a seat that is taken over leaves
\* everyone else's socket alone.
LEMMA BackKeeps ==
    ASSUME Inv, Keeping, NEW s \in SocketIds, ~Bound(s), NEW a \in Ids, Reconnect(s, a)
    PROVE  /\ agents'[a].socket = s
           /\ \A b \in Ids \ {a} : /\ agents'[b].socket = agents[b].socket
                                   /\ agents'[b].online = agents[b].online
           /\ \A t \in SocketIds \ {agents[a].socket} :
                 /\ sockets'[t].link = sockets[t].link
                 /\ sockets'[t].signedIn = (sockets[t].signedIn \/ t = s)
  <1>1. s # agents[a].socket
    BY DEF Bound
  <1>2. \A b \in Ids \ {a} : agents[b].socket = agents[a].socket
                               => agents[b].socket = Nobody
    BY DEF Keeping
  <1> QED
    BY <1>1, <1>2, BackEffect DEF Inv

\* A step whose agents have the sockets they had, or one nobody had, keeps them.
LEMMA KeepingStep ==
    ASSUME Inv, Keeping, NEW s \in SocketIds,
           \A t \in SocketIds : \/ sockets[t].signedIn => sockets'[t].signedIn
                               \/ \A a \in Ids : agents'[a].socket # t,
           \A a \in Ids :
              \/ /\ agents'[a].socket = agents[a].socket
                 /\ agents[a].socket # Nobody =>
                       sockets'[agents[a].socket].link \in Speaking
                 /\ agents'[a].online => agents[a].online \/ agents[a].socket # Nobody
              \/ agents'[a].socket = Nobody /\ ~agents'[a].online
              \/ /\ agents'[a].socket = s /\ ~Bound(s)
                 /\ sockets'[s].link \in Speaking /\ sockets'[s].signedIn
                 /\ \A b \in Ids \ {a} : agents'[b].socket \in {agents[b].socket, Nobody}
    PROVE  Keeping'
  <1>1. \A a \in Ids : agents[a].socket \in SocketIds \cup {Nobody}
    BY DEF Inv, TypeOK, Agents
  <1>2. \A a \in Ids : agents[a].socket # Nobody => sockets[agents[a].socket].signedIn
    BY <1>1 DEF Keeping, Bound
  <1>3. ASSUME NEW t \in SocketIds, ~sockets'[t].signedIn, NEW a \in Ids,
               agents'[a].socket = t
        PROVE  FALSE
    BY <1>2, <1>3, NobodyIsNoId
  <1>4. ASSUME NEW a \in Ids, agents'[a].socket # Nobody
        PROVE  sockets'[agents'[a].socket].link \in Speaking
    BY <1>4
  <1>5. ASSUME NEW a \in Ids, agents'[a].online PROVE agents'[a].socket # Nobody
    BY <1>5, NobodyIsNoId DEF Keeping
  <1>6. ASSUME NEW a \in Ids, NEW b \in Ids, agents'[a].socket = agents'[b].socket,
               agents'[a].socket # Nobody, a # b
        PROVE  FALSE
    <2>1. \A c \in Ids : agents[c].socket = agents'[a].socket =>
             \A d \in Ids \ {c} : agents[d].socket # agents'[a].socket
      BY <1>6 DEF Keeping
    <2>2. CASE agents'[a].socket = agents[a].socket /\ agents'[b].socket = agents[b].socket
      BY <1>6, <2>1, <2>2
    <2>3. CASE agents'[a].socket = s /\ ~Bound(s)
               /\ \A c \in Ids \ {a} : agents'[c].socket \in {agents[c].socket, Nobody}
      BY <1>6, <2>3 DEF Bound
    <2>4. CASE agents'[b].socket = s /\ ~Bound(s)
               /\ \A c \in Ids \ {b} : agents'[c].socket \in {agents[c].socket, Nobody}
      BY <1>6, <2>4 DEF Bound
    <2> QED
      BY <1>6, <2>2, <2>3, <2>4
  <1> QED
    BY <1>3, <1>4, <1>5, <1>6 DEF Keeping, Bound

LEMMA KeepingSignIn ==
    ASSUME Inv, Keeping, NEW s \in SocketIds, SignIn(s), ~sockets[s].signedIn
    PROVE  Keeping'
  <1>1. ~Bound(s) /\ sockets[s].link \in Speaking
    BY DEF SignIn, Keeping
  <1>2. ASSUME NEW a \in Ids, Reconnect(s, a) PROVE Keeping'
    <2>1. /\ agents'[a].socket = s
          /\ \A b \in Ids \ {a} : /\ agents'[b].socket = agents[b].socket
                                  /\ agents'[b].online = agents[b].online
          /\ \A t \in SocketIds \ {agents[a].socket} :
                /\ sockets'[t].link = sockets[t].link
                /\ sockets'[t].signedIn = (sockets[t].signedIn \/ t = s)
      BY <1>1, <1>2, BackKeeps
    <2>2. s # agents[a].socket
      BY <1>1 DEF Bound
    <2>3. ASSUME NEW b \in Ids \ {a}, agents[b].socket # Nobody
          PROVE  sockets'[agents[b].socket].link \in Speaking
      <3>1. agents[b].socket \in SocketIds /\ agents[b].socket # agents[a].socket
        BY <2>3 DEF Inv, TypeOK, Agents, Keeping
      <3> QED
        BY <2>1, <2>3, <3>1 DEF Keeping
    <2>4. sockets'[s].link \in Speaking /\ sockets'[s].signedIn
      BY <1>1, <2>1, <2>2
    <2>5. ASSUME NEW t \in SocketIds, t = agents[a].socket, NEW b \in Ids
          PROVE  agents'[b].socket # t
      BY <2>1, <2>2, <2>5, NobodyIsNoId DEF Keeping
    <2>6. \A t \in SocketIds : \/ sockets[t].signedIn => sockets'[t].signedIn
                               \/ \A b \in Ids : agents'[b].socket # t
      BY <2>1, <2>5
    <2> QED
      BY <1>1, <2>1, <2>3, <2>4, <2>6, KeepingStep
  <1>3. CASE OnlyMoves(s)
    <2>1. \A a \in Ids : agents[a].socket # Nobody =>
             sockets'[agents[a].socket].link \in Speaking
      BY <1>3 DEF OnlyMoves, Keeping, Inv, TypeOK, Agents
    <2> QED
      BY <1>3, <2>1, KeepingStep DEF OnlyMoves
  <1>4. ASSUME NEW a \in Ids, NEW r \in Ids, NEW room, Comes(s, r, room, a)
        PROVE  Keeping'
    <2>1. \A b \in Ids \ {a} : agents[b].socket # Nobody =>
             sockets'[agents[b].socket].link \in Speaking
      BY <1>4 DEF Comes, Keeping, Inv, TypeOK, Agents
    <2> QED
      BY <1>1, <1>4, <2>1, KeepingStep DEF Comes
  <1> QED
    <2>1. \A r \in Ids : rooms[r].agents \subseteq Ids
      BY DEF Inv, TypeOK, Rooms
    <2> QED
      BY <1>2, <1>3, <1>4, <2>1, SignInIs

LEMMA NextKeeping ==
    ASSUME Inv, Keeping, [Next]_vars, repeats' = 0
    PROVE  Keeping'
  <1>0. \A a \in Ids : agents[a].socket \in SocketIds \cup {Nobody}
    BY DEF Inv, TypeOK, Agents
  <1>1. CASE UNCHANGED <<sockets, agents>>
    BY <1>1 DEF Keeping, Bound
  <1>2. ASSUME NEW s \in SocketIds, OnlyMoves(s) PROVE Keeping'
    <2>1. \A a \in Ids : agents[a].socket # Nobody =>
             sockets'[agents[a].socket].link \in Speaking
      BY <1>0, <1>2 DEF OnlyMoves, Keeping
    <2> QED
      BY <1>2, <2>1, KeepingStep DEF OnlyMoves
  <1>3. ASSUME NEW s \in SocketIds, NEW a \in Ids, DeclaredEffect(s, a) PROVE Keeping'
    <2>1. agents[a].socket # Nobody /\ UNCHANGED sockets
      BY <1>3, NobodyIsNoId DEF DeclaredEffect
    <2>2. \A b \in Ids : agents[b].socket # Nobody =>
             sockets'[agents[b].socket].link \in Speaking
      BY <2>1 DEF Keeping
    <2> QED
      BY <1>3, <2>1, <2>2, KeepingStep DEF DeclaredEffect
  <1>4. ASSUME NEW s \in SocketIds, SocketDisconnected(s) PROVE Keeping'
    <2>1. /\ \A t \in SocketIds \ {s} : sockets'[t] = sockets[t]
          /\ \A a \in Ids : IF agents[a].socket = s
                            THEN ~agents'[a].online /\ agents'[a].socket = Nobody
                            ELSE agents'[a] = agents[a]
      BY <1>4, GoneEffect DEF Inv
    <2>2. \A a \in Ids : agents[a].socket # Nobody /\ agents[a].socket # s =>
             sockets'[agents[a].socket].link \in Speaking
      BY <1>0, <2>1 DEF Keeping
    <2>3. \A a \in Ids : agents'[a].socket # s
      BY <2>1, NobodyIsNoId
    <2> QED
      BY <2>1, <2>2, <2>3, KeepingStep
  <1>5. ASSUME NEW r \in Ids, GameOver(r) PROVE Keeping'
    BY <1>1, <1>5, GameOverIs DEF Inv
  <1>6. ASSUME NEW r \in Ids, DeleteRunner(r), SocketIds # {} PROVE Keeping'
    <2>1. \A a \in Ids : /\ \/ agents'[a] = agents[a]
                            \/ agents'[a].socket = Nobody /\ ~agents'[a].online
      BY <1>6, DeleteIs, NothingIsTyped DEF Inv
    <2>2. UNCHANGED sockets
      BY <1>6 DEF DeleteRunner
    <2>3. \A a \in Ids : agents[a].socket # Nobody =>
             sockets'[agents[a].socket].link \in Speaking
      BY <2>2 DEF Keeping
    <2> QED
      BY <1>6, <2>1, <2>2, <2>3, KeepingStep
  <1>7. ASSUME NEW r \in Ids, DeleteRunner(r), SocketIds = {} PROVE Keeping'
    <2>1. agents' \in [Ids -> Agents]
      BY <1>7, DeleteIs DEF Inv
    <2>2. \A a \in Ids : agents'[a].socket = Nobody
      BY <1>7, <2>1 DEF Agents
    <2>3. \A a \in Ids : ~agents'[a].online
      BY <1>0, <1>7, DeleteIs, NothingIsTyped DEF Inv, Keeping
    <2> QED
      BY <1>7, <2>2, <2>3 DEF Keeping, Bound
  <1> QED
    <2>1. \A s \in SocketIds : SignIn(s) => ~sockets[s].signedIn
      BY RepeatsStep DEF Inv
    <2> QED
      BY <1>1, <1>2, <1>3, <1>4, <1>5, <1>6, <1>7, <2>1, StepIs, KeepingSignIn DEF vars

\* The server starts with nobody on any socket.
LEMMA InitKeeping == Init => Keeping /\ GamesHavePlayers
  <1> SUFFICES ASSUME Init PROVE Keeping /\ GamesHavePlayers
    OBVIOUS
  <1>1. \A a \in Ids : ~agents[a].online /\ agents[a].socket = Nobody
    BY NothingIsTyped DEF Init
  <1>2. \A r \in Ids : rooms[r].status = "none"
    BY NothingIsTyped DEF Init
  <1> QED
    BY <1>1, <1>2, NobodyIsNoId DEF Keeping, Bound, GamesHavePlayers

\* The game that loses its last player is over by the same step.
LEMMA GamesStep ==
    ASSUME Inv, Keeping, GamesHavePlayers, [Next]_vars, repeats' = 0
    PROVE  GamesHavePlayers'
  <1>0. SUFFICES ASSUME NEW r \in Ids, rooms'[r].status = "live", Full(r)'
                 PROVE  \E a \in rooms'[r].agents : agents'[a].socket # Nobody
    BY DEF GamesHavePlayers
  <1> repeats = 0 /\ \A s \in SocketIds : SignIn(s) => ~sockets[s].signedIn
    BY RepeatsStep DEF Inv
  <1>1. rooms[r].agents \subseteq Ids
    BY DEF Inv, TypeOK, Rooms
  <1>2. CASE UNCHANGED rooms /\ \A a \in Ids : agents[a].socket # Nobody =>
                                                  agents'[a].socket # Nobody
    BY <1>0, <1>1, <1>2 DEF GamesHavePlayers, Full
  <1>3. ASSUME NEW s \in SocketIds, SignIn(s)
        PROVE  \E a \in rooms'[r].agents : agents'[a].socket # Nobody
    <2>1. ~Bound(s)
      BY <1>3 DEF SignIn, Keeping
    <2>2. ASSUME NEW a \in Ids, Reconnect(s, a)
          PROVE  UNCHANGED rooms /\ \A b \in Ids : agents[b].socket # Nobody =>
                                                      agents'[b].socket # Nobody
      <3>1. agents'[a].socket = s
            /\ \A b \in Ids \ {a} : agents'[b].socket = agents[b].socket
        BY <2>1, <2>2, BackKeeps
      <3> QED
        BY <2>2, <3>1, NobodyIsNoId DEF Reconnect
    <2>3. ASSUME NEW q \in Ids, NEW room, Chosen(q, room), made + 1 \in Ids,
                 Comes(s, q, room, made + 1)
          PROVE  \E a \in rooms'[r].agents : agents'[a].socket # Nobody
      <3>1. ~Full(q) /\ room.agents = rooms[q].agents
        BY <2>3, ChosenIs
      <3>2. \A a \in Ids : agents[a].socket # Nobody => agents'[a].socket # Nobody
        BY <2>3, NobodyIsNoId DEF Comes
      <3>3. CASE r # q
        BY <1>0, <1>1, <2>3, <3>2, <3>3 DEF Comes, GamesHavePlayers, Full
      <3>4. CASE r = q
        <4>1. rooms'[r].agents # rooms[r].agents
          BY <1>0, <3>1, <3>4 DEF Full
        <4>2. made + 1 \in rooms'[r].agents /\ agents'[made + 1].socket = s
          BY <2>3, <3>1, <3>4, <4>1 DEF Comes
        <4> QED
          BY <4>2, NobodyIsNoId
      <3> QED
        BY <3>3, <3>4
    <2>4. \A q \in Ids : rooms[q].agents \subseteq Ids
      BY DEF Inv, TypeOK, Rooms
    <2> QED
      BY <1>2, <1>3, <2>2, <2>3, <2>4, SignInIs DEF OnlyMoves
  <1>4. ASSUME NEW s \in SocketIds, SocketDisconnected(s)
        PROVE  \E a \in rooms'[r].agents : agents'[a].socket # Nobody
    <2>1. /\ \A a \in Ids : agents[a].socket # s => agents'[a] = agents[a]
          /\ rooms'[r].agents \subseteq rooms[r].agents
          /\ Full(r) => rooms'[r].agents = rooms[r].agents
          /\ rooms'[r].status \in {rooms[r].status, "over"}
          /\ \/ rooms'[r].status = "over"
             \/ ~Full(r)
             \/ \A a \in rooms[r].agents : agents[a].socket # s
             \/ \E a \in rooms[r].agents : agents'[a].online
      <3>1. /\ \A a \in Ids : agents[a].socket # s => agents'[a] = agents[a]
            /\ rooms'[r].agents =
                 IF Full(r) THEN rooms[r].agents
                 ELSE rooms[r].agents \ {a \in Ids : agents[a].socket = s}
            /\ \/ rooms'[r].status = rooms[r].status
               \/ Full(r) /\ rooms'[r].status = "over"
            /\ \/ rooms'[r].status = "over"
               \/ ~Full(r)
               \/ \A a \in rooms[r].agents : agents[a].socket # s
               \/ \E a \in rooms[r].agents : agents'[a].online
        BY <1>4, GoneEffect DEF Inv
      <3> QED
        BY <3>1
    <2>2. Full(r) /\ rooms[r].status = "live"
      BY <1>0, <2>1, NotFullStays DEF Inv
    <2>3. CASE \A a \in rooms[r].agents : agents[a].socket # s
      BY <1>1, <2>1, <2>2, <2>3 DEF GamesHavePlayers
    <2>4. CASE \E a \in rooms[r].agents : agents'[a].online
      BY <1>1, <2>1, <2>2, <2>4, NextKeeping DEF Keeping
    <2> QED
      BY <1>0, <2>1, <2>2, <2>3, <2>4
  <1>5. ASSUME NEW q \in Ids, GameOver(q)
        PROVE  \E a \in rooms'[r].agents : agents'[a].socket # Nobody
    <2>1. r # q /\ rooms'[r].agents = rooms[r].agents
          /\ rooms'[r].status = rooms[r].status /\ UNCHANGED agents
      BY <1>0, <1>5, GameOverIs DEF Inv
    <2> QED
      BY <1>0, <2>1 DEF GamesHavePlayers, Full
  <1>6. ASSUME NEW q \in Ids, DeleteRunner(q)
        PROVE  \E a \in rooms'[r].agents : agents'[a].socket # Nobody
    <2>1. /\ rooms'[q] = NoRoom
          /\ \A i \in Ids \ {q} : rooms'[i] = rooms[i]
          /\ \A a \in Ids : agents'[a] = IF a \in Members(q) THEN NoAgent ELSE agents[a]
      BY <1>6, DeleteIs DEF Inv
    <2>2. r # q
      BY <1>0, <2>1, NothingIsTyped
    <2>3. \A a \in rooms[r].agents : agents'[a] = agents[a]
      BY <1>1, <2>1, <2>2 DEF Inv, Placed, Apart, Members
    <2> QED
      BY <1>0, <2>1, <2>2, <2>3 DEF GamesHavePlayers, Full
  <1>7. ASSUME NEW s \in SocketIds, NEW a \in Ids, DeclaredEffect(s, a)
        PROVE  UNCHANGED rooms /\ \A b \in Ids : agents[b].socket # Nobody =>
                                                    agents'[b].socket # Nobody
    BY <1>7, NobodyIsNoId DEF DeclaredEffect
  <1> QED
    BY <1>2, <1>3, <1>4, <1>5, <1>6, <1>7, StepIs DEF vars, OnlyMoves

\* The invariant of the server until a peer signs in twice on one connection.
Once == repeats = 0 => Keeping

LEMMA SpecOnce == Spec => [](Inv /\ Once /\ GamesHavePlayers)
  <1>1. Init => Inv /\ Once /\ GamesHavePlayers
    BY InitInv, InitKeeping DEF Once
  <1>2. Inv /\ Once /\ GamesHavePlayers /\ [Next]_vars
          => (Inv /\ Once /\ GamesHavePlayers)'
    <2> SUFFICES ASSUME Inv, Once, GamesHavePlayers, [Next]_vars
                 PROVE  (Inv /\ Once /\ GamesHavePlayers)'
      OBVIOUS
    <2>1. CASE repeats' = 0
      <3>1. Keeping
        BY <2>1, RepeatsStep DEF Inv, Once
      <3> QED
        BY <2>1, <3>1, NextInv, NextKeeping, GamesStep DEF Once
    <2>2. CASE repeats' # 0
      BY <2>2, NextInv DEF Once, GamesHavePlayers
    <2> QED
      BY <2>1, <2>2
  <1> QED
    BY <1>1, <1>2, PTL DEF Spec

-----------------------------------------------------------------------------
(* Server: the status. *)

\* What a sum over a set computes: the fixpoint that MapThenSumSet chooses.
Sums(S, f, it) ==
    [s \in SUBSET S |->
        IF s = {} THEN 0
        ELSE f[CHOOSE x \in s : TRUE] + it[s \ {CHOOSE x \in s : TRUE}]]

\* What the sums over the subsets do: they grow by the summand with every member.
Grows(S, f, g) ==
    /\ g \in [SUBSET S -> Int] /\ g[{}] = 0
    /\ \A s \in SUBSET S : \A x \in s : g[s] = f[x] + g[s \ {x}]
\* A function of the subsets that grows by the summand with every member is a
\* fixpoint, and every fixpoint ends in its value.
LEMMA SumIsUnique ==
    ASSUME NEW S, IsFiniteSet(S), NEW f, NEW g, Grows(S, f, g)
    PROVE  /\ g = Sums(S, f, g)
           /\ \A it : it = Sums(S, f, it) => it[S] = g[S]
  <1>1. g = Sums(S, f, g)
    <2>1. ASSUME NEW s \in SUBSET S
          PROVE  g[s] = IF s = {} THEN 0
                        ELSE f[CHOOSE x \in s : TRUE] + g[s \ {CHOOSE x \in s : TRUE}]
      <3>1. s # {} => (CHOOSE x \in s : TRUE) \in s
        OBVIOUS
      <3> QED
        BY <3>1 DEF Grows
    <2> QED
      BY <2>1 DEF Sums, Grows
  <1>2. ASSUME NEW it, it = Sums(S, f, it) PROVE it[S] = g[S]
    <2> DEFINE T == {s \in SUBSET S : it[s] # g[s]}
               some(s) == CHOOSE x \in s : TRUE
    <2>1. \A s \in SUBSET S :
             it[s] = IF s = {} THEN 0 ELSE f[some(s)] + it[s \ {some(s)}]
      BY <1>2 DEF Sums
    <2> SUFFICES ASSUME T # {} PROVE FALSE
      OBVIOUS
    <2>2. T \subseteq FiniteSubsetsOf(S)
      BY FS_Subset DEF FiniteSubsetsOf
    <2>3. PICK s \in T : \A t \in T : <<t, s>> \notin StrictSubsetOrdering(S)
      <3> HIDE DEF T
      <3> QED
        BY <2>2, FS_StrictSubsetOrderingWellFounded, WFMin
    <2>4. s # {} /\ some(s) \in s
      <3>1. s # {}
        BY <2>1 DEF Grows
      <3> QED
        BY <3>1
    <2> DEFINE t == s \ {some(s)}
    <2>5. t \in SUBSET S /\ s \in SUBSET S /\ t \subseteq s /\ t # s
      BY <2>4
    <2> HIDE DEF some
    <2>6. t \notin T
      BY <2>3, <2>5 DEF StrictSubsetOrdering
    <2>7. it[t] = g[t]
      BY <2>5, <2>6
    <2>8. it[s] = f[some(s)] + it[t] /\ g[s] = f[some(s)] + g[t]
      BY <2>1, <2>4, <2>5 DEF Grows
    <2> QED
      BY <2>7, <2>8
  <1> QED
    BY <1>1, <1>2
\* The sum of the players online, as the status lists them.
LEMMA SumOfPlayers ==
    ASSUME IsFiniteSet(Runners), NEW g, Grows(Runners, Status.players, g)
    PROVE  MapThenSumSet(LAMBDA r : Status.players[r], Runners) = g[Runners]
  <1> DEFINE S == Runners
             f == Status.players
             it == CHOOSE i : i = Sums(S, f, i)
  <1>1. MapThenSumSet(LAMBDA x : f[x], S) = it[S]
    BY Zenon DEF MapThenSumSet, MapThenFoldSet, Sums
  <1>2. g = Sums(S, f, g) /\ \A i : i = Sums(S, f, i) => i[S] = g[S]
    BY SumIsUnique, Zenon
  <1>3. it = Sums(S, f, it)
    BY <1>2, Zenon
  <1>4. it[S] = g[S]
    BY <1>2, <1>3, Zenon
  <1> QED
    BY <1>1, <1>4, Zenon
\* The sum of the seats taken.
LEMMA SumOfSeats ==
    ASSUME IsFiniteSet(Runners), NEW g,
           Grows(Runners, [r \in Runners |-> Cardinality(rooms[r].agents)], g)
    PROVE  MapThenSumSet(LAMBDA r : Cardinality(rooms[r].agents), Runners) = g[Runners]
  <1>0. PICK f : f = [r \in Runners |-> Cardinality(rooms[r].agents)]
    OBVIOUS
  <1> DEFINE S == Runners
             sums(i) == [s \in SUBSET S |->
                            IF s = {} THEN 0
                            ELSE Cardinality(rooms[CHOOSE x \in s : TRUE].agents)
                                   + i[s \ {CHOOSE x \in s : TRUE}]]
             it == CHOOSE i : i = sums(i)
  <1>1. MapThenSumSet(LAMBDA r : Cardinality(rooms[r].agents), S) = it[S]
    BY Zenon DEF MapThenSumSet, MapThenFoldSet
  <1>2. \A i : sums(i) = Sums(S, f, i)
    <2> SUFFICES ASSUME NEW i, NEW s \in SUBSET S, s # {}
                 PROVE  Cardinality(rooms[CHOOSE x \in s : TRUE].agents)
                           = f[CHOOSE x \in s : TRUE]
      BY DEF Sums
    <2>1. (CHOOSE x \in s : TRUE) \in s
      OBVIOUS
    <2> QED
      BY <1>0, <2>1
  <1>3. Grows(S, f, g)
    BY <1>0
  <1> HIDE DEF sums, it
  <1>4. g = Sums(S, f, g) /\ \A i : i = Sums(S, f, i) => i[S] = g[S]
    BY <1>3, SumIsUnique, Zenon
  <1>5. g = sums(g)
    BY <1>2, <1>4
  <1>6. it = sums(it)
    BY <1>5, Zenon DEF it
  <1>7. it[S] = g[S]
    BY <1>2, <1>4, <1>6
  <1> QED
    BY <1>1, <1>7, Zenon
\* The players the status lists are the agents online, and these are one to one
\* with the sockets they are on.
LEMMA PlayersAddUp ==
    ASSUME Inv, Keeping
    PROVE  MapThenSumSet(LAMBDA r : Status.players[r], Runners)
              = Cardinality({s \in SocketIds :
                                \E a \in Ids : agents[a].socket = s /\ agents[a].online})
  <1> DEFINE here(r) == {a \in Members(r) : agents[a].online}
             online(s) == {a \in Ids : agents[a].online /\ \E r \in s : a \in Members(r)}
             g == [s \in SUBSET Runners |-> Cardinality(online(s))]
             all == {a \in Ids : agents[a].online}
             bound == {s \in SocketIds :
                         \E a \in Ids : agents[a].socket = s /\ agents[a].online}
  <1>1. /\ IsFiniteSet(Runners) /\ \A s : IsFiniteSet(online(s))
        /\ \A s : Cardinality(online(s)) \in Nat
    <2>1. Runners \subseteq Ids /\ \A s : online(s) \subseteq Ids
      BY DEF Runners
    <2> HIDE DEF online
    <2> QED
      BY <2>1, IdsAreFinite, FS_Subset, FS_CardinalityType
  <1>2. Status.players = [r \in Runners |-> Cardinality(here(r))]
    BY DEF Status, Members
  <1>3. \A r \in Ids : Members(r) \subseteq Ids
    BY DEF Members, Inv, TypeOK, Rooms
  <1>4. ASSUME NEW s \in SUBSET Runners, NEW x \in s
        PROVE  g[s] = Status.players[x] + g[s \ {x}]
    <2>1. x \in Ids /\ \A r \in s : r \in Ids
      BY DEF Runners
    <2>2. \A r \in s \ {x} : Members(x) \cap Members(r) = {}
      BY <2>1 DEF Inv, Placed, Apart
    <2>3. /\ online(s) = here(x) \cup online(s \ {x})
          /\ here(x) \cap online(s \ {x}) = {}
      BY <1>3, <2>1, <2>2
    <2>4. here(x) \subseteq online(s)
      BY <2>3
    <2> HIDE DEF here, online
    <2>5. IsFiniteSet(here(x)) /\ Cardinality(here(x)) \in Nat
      BY <1>1, <2>4, FS_Subset, FS_CardinalityType
    <2>6. Cardinality(online(s))
             = Cardinality(here(x)) + Cardinality(online(s \ {x})) - Cardinality({})
      BY <1>1, <2>3, <2>5, FS_Union
    <2>7. Cardinality(online(s)) = Cardinality(here(x)) + Cardinality(online(s \ {x}))
      BY <1>1, <2>5, <2>6, FS_EmptySet
    <2> QED
      BY <1>2, <2>7
  <1>5. Grows(Runners, Status.players, g)
    <2>1. online({}) = {}
      OBVIOUS
    <2> HIDE DEF online
    <2>2. g \in [SUBSET Runners -> Int] /\ g[{}] = 0
      BY <1>1, <2>1, FS_EmptySet
    <2> HIDE DEF g
    <2> QED
      BY <1>4, <2>2 DEF Grows
  <1>6. MapThenSumSet(LAMBDA r : Status.players[r], Runners) = g[Runners]
    BY <1>1, <1>5, SumOfPlayers, Zenon
  <1>7. g[Runners] = Cardinality(all)
    <2>1. ASSUME NEW a \in all PROVE \E r \in Runners : a \in Members(r)
      <3>1. PICK r \in Ids : a \in Members(r)
        BY DEF Inv, Placed, PresentIsMember, Present
      <3>2. r \in Runners
        BY <3>1 DEF Inv, Placed, NoRoomIsEmpty, Runners
      <3> QED
        BY <3>1, <3>2
    <2>2. online(Runners) = all
      BY <2>1
    <2> QED
      BY <2>2
  <1>8. Cardinality(all) = Cardinality(bound)
    <2> DEFINE f == [a \in all |-> agents[a].socket]
    <2>1. \A a \in all : agents[a].socket \in bound
      BY DEF Inv, TypeOK, Agents, Keeping
    <2>2. \A a, b \in all : agents[a].socket = agents[b].socket => a = b
      BY DEF Keeping
    <2>3. \A s \in bound : \E a \in all : agents[a].socket = s
      OBVIOUS
    <2> HIDE DEF all, bound
    <2>4. f \in Injection(all, bound)
      BY <2>1, <2>2 DEF Injection, IsInjective
    <2>5. f \in Surjection(all, bound)
      BY <2>1, <2>3 DEF Surjection
    <2>6. ExistsBijection(all, bound)
      BY <2>4, <2>5 DEF ExistsBijection, Bijection
    <2>7. IsFiniteSet(all)
      BY IdsAreFinite, FS_Subset DEF all
    <2> QED
      BY <2>6, <2>7, FS_Bijection
  <1> QED
    BY <1>6, <1>7, <1>8, Zenon
\* The seats taken are those of the games and those of the room that recruits.
LEMMA SeatsAddUp ==
    ASSUME Inv
    PROVE  MapThenSumSet(LAMBDA r : Cardinality(rooms[r].agents), Runners)
              \in PlayerNumPerRoom * Status.games
                 .. (PlayerNumPerRoom * Status.games + PlayerNumPerRoom - 1)
  <1> DEFINE n == PlayerNumPerRoom
             taken(r) == Cardinality(rooms[r].agents)
             full(s) == {r \in s : Full(r)}
             part(s) == IF current \in s /\ ~Full(current) THEN taken(current) ELSE 0
             g == [s \in SUBSET Runners |-> n * Cardinality(full(s)) + part(s)]
             f == [r \in Runners |-> taken(r)]
  <1>1. IsFiniteSet(Runners) /\ n \in Nat /\ n >= 2
    <2>1. Runners \subseteq Ids
      BY DEF Runners
    <2> QED
      BY <2>1, IdsAreFinite, FS_Subset, ConfiguredSeats
  <1>2. \A s \in SUBSET Runners :
           IsFiniteSet(full(s)) /\ Cardinality(full(s)) \in Nat
    <2>1. \A s \in SUBSET Runners : full(s) \in SUBSET Runners
      OBVIOUS
    <2> HIDE DEF full
    <2> QED
      BY <1>1, <2>1, FS_Subset, FS_CardinalityType
  <1>3. \A r \in Runners :
           /\ taken(r) \in Nat
           /\ Full(r) => taken(r) = n
           /\ ~Full(r) => taken(r) < n /\ r = current
    <2> SUFFICES ASSUME NEW r \in Runners
                 PROVE  /\ taken(r) \in Nat
                        /\ Full(r) => taken(r) = n
                        /\ ~Full(r) => taken(r) < n /\ r = current
      OBVIOUS
    <2>1. r \in Ids /\ rooms[r].status # "none" /\ rooms[r].agents \in SUBSET Ids
      BY DEF Runners, Inv, TypeOK, Rooms
    <2>2. taken(r) \in Nat
      BY <2>1, FewerAgents
    <2>3. taken(r) <= n
      BY <2>1 DEF Inv, Placed, SeatsFit
    <2>4. ~Full(r) => r = current
      BY <2>1 DEF Inv, OneRecruiter
    <2> QED
      BY <1>1, <2>2, <2>3, <2>4 DEF Full
  <1> HIDE DEF taken, n
  <1>4. \A s \in SUBSET Runners : part(s) \in 0..(n - 1)
    BY <1>1, <1>3
  <1>5. ASSUME NEW s \in SUBSET Runners, NEW x \in s
        PROVE  g[s] = f[x] + g[s \ {x}]
    <2> DEFINE t == s \ {x}
    <2>1. t \in SUBSET Runners /\ x \in Runners /\ x \notin t
      OBVIOUS
    <2>2. CASE Full(x)
      <3>1. full(s) = full(t) \cup {x} /\ x \notin full(t)
        BY <2>2
      <3>2. part(s) = part(t)
        BY <2>2
      <3>3. taken(x) = n
        BY <1>3, <2>2
      <3>4. part(t) \in Nat /\ Cardinality(full(t)) \in Nat
        BY <1>1, <1>2, <1>4, <2>1
      <3> HIDE DEF full, part
      <3>5. Cardinality(full(s)) = Cardinality(full(t)) + 1
        BY <1>2, <2>1, <3>1, FS_AddElement
      <3>6. n * (Cardinality(full(t)) + 1) = n * Cardinality(full(t)) + n
        BY <1>1, <3>4
      <3>7. n * Cardinality(full(t)) \in Nat
        BY <1>1, <3>4
      <3>8. /\ g[s] = n * (Cardinality(full(t)) + 1) + part(t)
            /\ g[t] = n * Cardinality(full(t)) + part(t)
            /\ f[x] = n
        BY <2>1, <3>2, <3>3, <3>5
      <3> HIDE DEF g, f
      <3> QED
        BY <1>1, <3>4, <3>6, <3>7, <3>8
    <2>3. CASE ~Full(x)
      <3>1. full(s) = full(t)
        BY <2>3
      <3>2. x = current /\ taken(x) \in Nat
        BY <1>3, <2>1, <2>3
      <3>3. part(s) = taken(x) /\ part(t) = 0
        BY <2>3, <3>2
      <3>4. Cardinality(full(t)) \in Nat
        BY <1>2, <2>1
      <3> HIDE DEF full, part
      <3>5. n * Cardinality(full(t)) \in Nat
        BY <1>1, <3>4
      <3>6. /\ g[s] = n * Cardinality(full(t)) + taken(x)
            /\ g[t] = n * Cardinality(full(t)) + 0
            /\ f[x] = taken(x)
        BY <2>1, <3>1, <3>3
      <3> HIDE DEF g, f
      <3> QED
        BY <3>2, <3>5, <3>6
    <2> QED
      BY <2>2, <2>3
  <1>6. Grows(Runners, f, g)
    <2>1. full({}) = {} /\ part({}) = 0
      OBVIOUS
    <2>2. Cardinality(full({})) = 0
      BY <2>1, FS_EmptySet
    <2> HIDE DEF full, part
    <2>3. g \in [SUBSET Runners -> Int]
      BY <1>1, <1>2, <1>4
    <2>4. g[{}] = n * 0 + 0
      BY <2>1, <2>2
    <2>5. g[{}] = 0
      BY <1>1, <2>4
    <2> HIDE DEF g, f
    <2> QED
      BY <1>5, <2>3, <2>5 DEF Grows
  <1>7. MapThenSumSet(LAMBDA r : Cardinality(rooms[r].agents), Runners) = g[Runners]
    BY <1>1, <1>6, SumOfSeats, Zenon DEF taken
  <1>8. g[Runners] \in n * Status.games .. (n * Status.games + n - 1)
    <2>1. Status.games = Cardinality(full(Runners))
      BY DEF Status
    <2>2. part(Runners) \in 0..(n - 1) /\ Cardinality(full(Runners)) \in Nat
      BY <1>2, <1>4
    <2> HIDE DEF full, part
    <2>3. g[Runners] = n * Status.games + part(Runners)
      BY <2>1
    <2>4. n * Status.games \in Nat
      BY <1>1, <2>1, <2>2
    <2> HIDE DEF g
    <2> QED
      BY <1>1, <2>2, <2>3, <2>4
  <1> QED
    BY <1>7, <1>8, Zenon DEF n

-----------------------------------------------------------------------------
(* Server: the theorems. *)

\* The server's state is well typed, and the pointer to the current room never
\* leads to a room that is over or deleted (logicRunnerGameOver).
THEOREM ServerTypeOK == Spec => []TypeOK
  <1>1. Inv => TypeOK
    BY DEF Inv
  <1> QED
    BY <1>1, SpecInv, PTL

\* Whatever the order of sign-ins, losses and game ends, a room with seats free is
\* the one the next sign-in is sent to (ServerP::signIn).
THEOREM ServerOneRecruiter == Spec => []OneRecruiter
  <1>1. Inv => OneRecruiter
    BY DEF Inv
  <1> QED
    BY <1>1, SpecInv, PTL

\* The rooms kept, those to be deleted included, are never more than configured.
THEOREM ServerRoomsBounded == Spec => []RoomsBounded
  <1>1. Init => RoomsBounded
    <2> SUFFICES ASSUME Init PROVE RoomsBounded
      OBVIOUS
    <2>1. Runners = {}
      BY NothingIsTyped DEF Init, Runners
    <2> QED
      BY <2>1, FS_EmptySet, ConfiguredRooms DEF RoomsBounded
  <1>2. Inv /\ RoomsBounded /\ [Next]_vars => RoomsBounded'
    BY RunnersStep, RoomsBoundedStep
  <1> QED
    BY <1>1, <1>2, SpecInv, PTL DEF Spec

\* Whatever is lost and whoever signs in, a game keeps its seats to its end.
THEOREM ServerSeatsAreKept == Spec => SeatsAreKept
  <1>1. Inv /\ [Next]_vars => KeepsSeats
    BY SeatsStep
  <1>2. KeepsSeats <=> \A r \in Ids : Full(r) /\ rooms'[r].status # "none"
                                        => rooms'[r].agents = rooms[r].agents
    BY DEF KeepsSeats
  <1> QED
    BY <1>1, <1>2, SpecInv, PTL DEF Spec, SeatsAreKept

\* While peers sign in once per connection, whatever state they declare and whenever
\* they are lost, no two agents share a socket and none is online without one, or
\* on one whose end the server was told of (ServerConnectionP::setSocket,
\* onSocketDisconnected).
THEOREM ServerOnlineIsConnected == Spec => []OnlineIsConnected
  <1>1. Once => OnlineIsConnected
    BY DEF Once, Keeping, OnlineIsConnected
  <1> QED
    BY <1>1, SpecOnce, PTL

\* While peers sign in once per connection, a game that is not over has a player
\* connected: whichever way the last one goes, and whatever the others declared
\* themselves, the handler that hears of it ends the game
\* (LogicRunnerP::agentDisconnected).
THEOREM ServerGamesHavePlayers == Spec => []GamesHavePlayers
  <1> QED
    BY SpecOnce, PTL

\* While peers sign in once per connection, what Server::status says adds up: the
\* players of its room list are the sockets on which a player is and says so, and
\* its games hold every seat but those of one room.
THEOREM ServerStatusAddsUp == Spec => []StatusAddsUp
  <1>1. Inv /\ Once => StatusAddsUp
    BY PlayersAddUp, SeatsAddUp, Zenon DEF StatusAddsUp, Once
  <1> QED
    BY <1>1, SpecOnce, PTL
=============================================================================

-------------------------------- MODULE Startup --------------------------------
(***************************************************************************)
(* The configuration a server starts with: every item from the command     *)
(* line, else from the settings of the user, else from those of the        *)
(* system, else from the presets; what stops the start; and what -c and -C *)
(* write.                                                                  *)
(*                                                                         *)
(* An item has the name of its getter.  Settings and options are functions *)
(* from the items they hold to texts; the text of a number is the number.  *)
(* The names of the local sockets, which may be any text, are left out.    *)
(***************************************************************************)
EXTENDS Integers

MaxInt == 2147483647
MinInt == -MaxInt - 1
MaxPort == 65535

RoundStrategies == {"RoundDown", "RoundToNearest45", "RoundUp", "PlusOne"}

ServerDefaults ==
    [tcpEnabled |-> TRUE, tcpPort |-> 6366, localEnabled |-> TRUE,
     websocketEnabled |-> TRUE, websocketPort |-> 6367, controlPort |-> 0,
     playerNumPerRoom |-> 3, requestTimeout |-> 20,
     maximumPacketSize |-> 1048576, signInTimeout |-> 5, maximumRooms |-> 0]

LogicDefaults ==
    [initialKnifeDamage |-> 1, maximumKnifeDamage |-> 10,
     initialHorseDamage |-> 2, maximumHorseDamage |-> 10,
     initialMaxHp |-> 10, maximumMaxHp |-> 20,
     punishHpModifier |-> 2, punishHpRoundStrategy |-> "RoundToNearest45",
     zeroHpAsDead |-> TRUE, enableLetMove |-> TRUE,
     canBuyOnlyInInitialCity |-> FALSE]

LogicV1 ==
    [initialKnifeDamage |-> 1, maximumKnifeDamage |-> 3,
     initialHorseDamage |-> 3, maximumHorseDamage |-> 5,
     initialMaxHp |-> 7, maximumMaxHp |-> 7,
     punishHpModifier |-> 0, punishHpRoundStrategy |-> "RoundToNearest45",
     zeroHpAsDead |-> FALSE, enableLetMove |-> FALSE,
     canBuyOnlyInInitialCity |-> FALSE]

Switches ==
    {"tcpEnabled", "localEnabled", "websocketEnabled", "zeroHpAsDead",
     "enableLetMove", "canBuyOnlyInInitialCity"}
Ports == {"tcpPort", "websocketPort", "controlPort"}
LogicItems == DOMAIN LogicDefaults
Items == DOMAIN ServerDefaults \cup LogicItems

-----------------------------------------------------------------------------
\* Texts.

FalseTexts == {"0", "false", "no", "n", "off", "disable", "disabled"}
TrueTexts == {"1", "true", "yes", "y", "on", "enable", "enabled"}

\* The texts of an item that can be parsed.
Texts(item) ==
    IF item \in Switches THEN FalseTexts \cup TrueTexts
    ELSE IF item \in Ports THEN 0..MaxPort
    ELSE IF item = "punishHpRoundStrategy" THEN RoundStrategies
    ELSE MinInt..MaxInt

Parsed(item, text) == IF item \in Switches THEN text \in TrueTexts ELSE text

Printed(item, value) ==
    IF item \notin Switches THEN value ELSE IF value THEN "on" ELSE "off"

-----------------------------------------------------------------------------
\* One start: with -1 (v1) or without, the options given - -2 to -9 are options
\* for playerNumPerRoom - and the settings of the user and of the system.

Presets(v1, item) ==
    IF item \in LogicItems
    THEN IF v1 THEN LogicV1[item] ELSE LogicDefaults[item]
    ELSE ServerDefaults[item]

\* Settings::contains, and what read_ skips of it.
Stored(v1, perUser, global) ==
    {item \in DOMAIN perUser \cup DOMAIN global : ~(v1 /\ item \in LogicItems)}

StoredText(perUser, global, item) ==
    IF item \in DOMAIN perUser THEN perUser[item] ELSE global[item]

Given(options, v1, perUser, global) ==
    DOMAIN options \cup Stored(v1, perUser, global)

TextOf(options, perUser, global, item) ==
    IF item \in DOMAIN options THEN options[item]
    ELSE StoredText(perUser, global, item)

Parses(options, v1, perUser, global) ==
    \A item \in Given(options, v1, perUser, global) :
        TextOf(options, perUser, global, item) \in Texts(item)

Resolved(options, v1, perUser, global) ==
    [item \in Items |->
        IF item \in Given(options, v1, perUser, global)
        THEN Parsed(item, TextOf(options, perUser, global, item))
        ELSE Presets(v1, item)]

\* The ranges promised by --help, each value on its own and against its maximum.
WithinRanges(c) ==
    /\ c.playerNumPerRoom >= 2
    /\ c.initialKnifeDamage >= 1 /\ c.maximumKnifeDamage >= 3
    /\ c.initialHorseDamage >= 2 /\ c.maximumHorseDamage >= 5
    /\ c.initialMaxHp >= 7 /\ c.maximumMaxHp >= 7
    /\ c.initialKnifeDamage <= c.maximumKnifeDamage
    /\ c.initialHorseDamage <= c.maximumHorseDamage
    /\ c.initialMaxHp <= c.maximumMaxHp
    /\ c.requestTimeout = 0 \/ c.requestTimeout >= 15
    /\ c.maximumPacketSize >= 1024
    /\ c.signInTimeout >= 2 /\ c.signInTimeout <= 60
    /\ c.maximumRooms >= 0
    /\ c.punishHpModifier = 0 \/ c.punishHpModifier >= 2

\* No configError.
Starts(options, v1, perUser, global) ==
    /\ Parses(options, v1, perUser, global)
    /\ WithinRanges(Resolved(options, v1, perUser, global))

\* A start without options.
NoOptions == [item \in {} |-> ""]

\* What -c and -C leave in the settings they write.
Saved(c) == [item \in Items |-> Printed(item, c[item])]

-----------------------------------------------------------------------------
\* What an object of configuration items must be for deserialize to take it.

ServerValues ==
    [tcpEnabled |-> BOOLEAN, tcpPort |-> 1..MaxPort, localEnabled |-> BOOLEAN,
     websocketEnabled |-> BOOLEAN, websocketPort |-> 1..MaxPort,
     controlPort |-> 0..MaxPort, playerNumPerRoom |-> 2..MaxInt,
     requestTimeout |-> {0} \cup 15..MaxInt,
     maximumPacketSize |-> 1024..MaxInt, signInTimeout |-> 2..60,
     maximumRooms |-> 0..MaxInt]

ServerDeserialized(ob) ==
    \A item \in DOMAIN ob \cap DOMAIN ServerValues :
        ob[item] \in ServerValues[item]

LogicValues(item) ==
    IF item \in Switches THEN BOOLEAN
    ELSE IF item = "punishHpRoundStrategy" THEN RoundStrategies
    ELSE 0..MaxInt

\* An item that is absent counts with its default.
LogicDeserialized(ob) ==
    LET Value(item) == IF item \in DOMAIN ob THEN ob[item] ELSE LogicDefaults[item]
    IN  /\ \A item \in LogicItems : Value(item) \in LogicValues(item)
        /\ Value("initialKnifeDamage") <= Value("maximumKnifeDamage")
        /\ Value("initialHorseDamage") <= Value("maximumHorseDamage")
        /\ Value("initialMaxHp") <= Value("maximumMaxHp")
=============================================================================

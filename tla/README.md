# QMdmm in TLA+

QMdmm is a multi-player board game: a rules engine (`QMdmmCore`), a network
layer with a server and a client (`QMdmmNetworking`), and programs built from
them. This directory specifies what the engine and the network layer do, checks
the specifications with TLC on small instances and proves theorems about them
with TLAPS. File and line numbers below are relative to `src/`.

## 1. Inventory

### 1.1 Components

| Component | State it keeps | Operations |
|---|---|---|
| **Logic** (`QMdmmCore/src/qmdmmlogic*`) | phase, replies of the throw, winners, desired / confirmed / yielded / remaining action orders, current order, upgrades in hand, the `Room` | slots `addPlayer`, `removePlayer`, `roundStart`, `rpsReply`, `actionOrderReply`, `actionReply`, `upgradeReply`; request signals and result signals |
| **Player, Room, Data** (`qmdmmplayer*`, `qmdmmroom*`, `qmdmmcore*`) | per player: tools, hp, place, initial place, three stats, upgrade points; per room: players in name order, configuration | `canX` guards, `slash`, `kick`, `move`, `letMove`, `buyX`, `upgradeX`, round preparation, reset of upgrades, winner tests, `rockPaperScissorsWinners` |
| **LogicRunner** (`QMdmmNetworking/src/qmdmmlogicrunner*`) | the agents and connections of one room; a `Logic` on a thread of its own | `addAgent`, `reconnectAgent`, the departure of an agent, the relay of requests, replies and results over queued connections |
| **Agent** (`qmdmmagent*`) | name, screen name, state flags (online, bot, trust, observe) | relays requests and results as signals |
| **ServerConnection** (`qmdmmserverconnection_p*`) | one player's server end: socket, current request, request timer, heartbeat timer, version check, log of round events | `setSocket`, socket loss, `addRequest`, decoding of replies, default replies, timeouts, log and replay of events |
| **Server** (`qmdmmserver*`) | rooms, sockets that have not signed in, their deadlines, the time of the last state change | `signIn` (new or back), `introduceSocket` deadline, `stateChange`, `logicRunnerGameOver`, read-only status over HTTP |
| **Socket** (`qmdmmsocket*`) | one of three transports, the error, whether it is being closed | `sendPacket`, `setError`, `disconnectFromHost`; signals for packets, errors and loss |
| **Client** (`qmdmmclient*`) | socket, retries and their backoff, heartbeat and pong deadline, mirror of the room, count of round events, the request to answer | `connectToHost`, `disconnectFromHost`, replies, all notifications |
| **Protocol, Packet** (`qmdmmprotocol*`) | none | encoding, decoding and validity of packets |
| **Programs** (`QMdmmServer`, `QMdmmBot`, `QMdmmGui`, `QMdmmCtl`) | configuration, bot strategies, presentation | start-up, strategies, display |
| **Settings, Debug** | values by layer; log sinks | read configuration, format log lines |

### 1.2 Interactions

* `Logic` is synchronous. A slot records one reply; when the phase has all it
  waits for, the same call applies the outcome, emits result signals and runs on
  through the private functions of `LogicP` until the next request is emitted.
* `LogicRunner` owns a `Logic` that lives on its own thread. Calls to it and
  signals from it cross the thread boundary as queued calls, in order in each
  direction; between the two the room and the logic disagree.
* A request reaches one player's `ServerConnection`, which sends it to the
  client, or answers it with a default through a zero timer when the player is
  away. Exactly one of the reply, the request timeout, a silent peer, a protocol
  error and the loss of the socket is to answer it.
* `Server` decides whether a sign-in is a new player, a player who is back, or
  refused, and hands sockets to connections.
* `Client` keeps a mirror of the room by applying notifications; the server
  replays the round events a client missed when it comes back.

### 1.3 What is hard here, and what makes each component correct

* **Logic**: phases advance on counts of replies; action orders are negotiated
  over several containers and several contests; players die between the
  settling of the orders and their turn; points are capped when earned and spent
  when the round is over. Correct when the requests out are exactly the replies
  awaited, when orders are dealt completely and fairly, when every point can be
  spent and is spent, when the match ends with the round in which somebody has
  bought everything, and when it gives the turns an abstract match promises.
* **ServerConnection, LogicRunner**: several timers and signals, some nested in
  one another, may each answer a request; requests are made to players who are
  away or come back; joins and leaves race with the start of a round. Correct
  when each request is answered exactly once and in the phase that made it, and
  when room and logic agree once the queues are empty.
* **Server**: sign-in against rooms filling, finishing and being deleted; a
  bound on rooms; deadlines on sockets. Correct when a name has one seat, the
  bound holds, nobody waits in a room that cannot fill, and a game ends when its
  last player goes.
* **Client**: retries, backoff, heartbeat and the socket's own signals end
  connections in any order; the mirror and the replayed events must converge.

`PROJECT.json` lists every hazard with its line and the properties that cover it.

## 2. How the specification was built

1. `PlayerRules`, `Logic`, `Match`: the rules, the state machine of a match, and
   what it promises. `Logic` implements `Match`.
2. `Phases`, `ServerConnection`, `LogicRunner`: what `Logic` promises whoever
   drives it, and the connections of one room composed with it over queues in
   both directions.
3. `Wire`, `Mirror`, `Bots`, `Human`: a client's side of a match - the replies
   that are sent, what the server makes of them, what the clients' mirrors make
   of the notifications, and who chooses the replies.
4. `ClientLink`, `Session`: the client's connection, and one player's session
   between both ends of it, with the log of round events and its replay.
5. `Server`: sign-in, rooms, the bound on them, deadlines, deletion.
6. `Protocol`, `Startup`: the packets, and the configuration a server starts with.

What could come next: a driver connected directly to `Logic`, as its
documentation allows and no program here does; a session whose transport reports
a failed write at once, so that the replay itself may fail; the sums of stats
within `int`.

## 3. Modules

| Module | Models | Correspondence |
|---|---|---|
| `PlayerRules` | `Player`, `Room`, `Data`, and the parts of `LogicP` that judge and apply one action or upgrade | a player is the record of `PlayerP`'s fields, a room a function from names to players; each method is an operator from rooms to rooms |
| `Logic` | `Logic` and `LogicP` | `logic` is the record of `LogicP`'s fields, plus the requests out (`asked`) and which result signals the last call emitted (`signals`); each private function is an operator on that record, each slot an action that applies them in the order of the code |
| `Match` | (abstract) | who is alive and how many turns each player is owed |
| `Phases` | (abstract) | the phase, the players in the room of the logic, and whom it asks; nothing of the game |
| `Wire` (over `Logic`) | requests as the client decodes them, the server's default replies, its decoding of replies | an operator per encoder or decoder; a reply is passed on, or a protocol error with the default in its place |
| `Mirror` (over `Wire`) | the room each `ClientP` keeps | an operator per notification, from a mirror to a mirror and whether it was taken; `MirrorStep` holds each against the step of `Logic` it is told of |
| `Bots` (over `Mirror`) | `Bot`, `KnifePreferredBot`, `HorsePreferredBot` | an operator per method, on the room the bot sees; grudges are any, within a bound |
| `Human` (over `Bots`) | the menus of `QMdmmGameClient` | the set of entries of each menu; the places are counted by `PlayerCount`, the size asked for a local game, whatever the room's |
| `ServerConnection` | `ServerConnectionP` with the online flag of its `Agent` | a connection is a record of its fields, its timers by whether they are active; each handler an operator from connections to connections, with what it emits in `replies` and `left` |
| `LogicRunner` | `LogicRunner` and `LogicRunnerP`, the deletion of the room | one action per event of the server's loop (sign-in, packet, disconnect, timer, posted signal) and one for a posted call that the logic takes; `toLogic` and `toRunner` are the queued connections |
| `ClientLink` | `ClientP` and its `Agent`, the trust of `QMdmmGameClient` | a client is a record of `ClientP`'s fields, what it sends in `out`; each handler is an operator on it |
| `Session` | both ends of one player's connection | `ClientLink` and `ServerConnection` over two wires and a network that loses connections, noticed or not; the rest of the room is what it does by itself, and one peer's state |
| `Protocol` | `Packet`, `Protocol`, and which slot takes which packet | a packet is a record of its members; a verdict per slot |
| `Server` | `Server`, `ServerP` | sockets, agents and rooms as functions from numbers, `current` as the code has it; one action per packet, signal or timer of the server's loop |
| `Startup` | `Config`, `Settings`, both `deserialize` | a layer of settings is a function from items to texts; `Resolved` what a start makes of the layers, `Starts` that it is not refused, `Saved` what is written |
| `MCLogic`, `MCLogicRunner`, `MCSession`, `MCServer` | (instances) | configurations, sets of replies and names for TLC |
| `Logic_proofs`, `Negotiation_proofs`, `Match_proofs` | (proofs) | the rules and the types of the logic; the orders; the rounds and both refinements |
| `Human_proofs` | (proofs) | a client's side of a match: mirrors, offers, menus, bots |
| `LogicRunner_proofs`, `Server_proofs`, `Session_proofs` | (proofs) | one room; the server and its start; one player's session, and the packets of it |
| `Counting` | (lemmas) | ranks in sets of numbers, small sets, how often a sequence hits a set |

A name is the rank of a player in the order of `Room::players`, a `std::map`, so
"in name order" is the order of numbers. A `QHash` is a function on its keys; the
multi-hash of desired orders a set of pairs; the list of winners, which repeats
each name once per loser, its set of names and how often each is listed.
`Logic::actionOrderReply` treats the list of orders as data: it is a sequence
here, and all its checks are modelled. Messages, logging and
`rpsForActionTieStreak`, which only decides whether a line is logged, are left
out.

The environment of `Logic` answers a request with any reply of the right kind,
legal or not, and answers only requests: that is what the connections do
(`qmdmmserverconnection_p.cpp:195`, `:396`), and what `OneAnswerPerRequest` of
`LogicRunner` checks of them.

In `LogicRunner` the logic is `Phases`: every behaviour of `Logic` is one of it
(`PhasesAsPromised`), and it has more, so what holds of the room holds with the
real logic; that is proved, not only checked (`LogicImplementsPhases`). The rest of
the room is as follows.

* `Settle` is where what handlers emitted takes effect: in the code the signals
  are connected directly, so replies are posted and a departure is handled before
  the handler returns. Within one event the calls are posted departures first,
  then replies in name order, then what the event itself posts.
* `Socket::setError` closes the transport. Whether `socketDisconnected` is
  emitted in the same call or later depends on the transport and its buffers;
  `now` is either. A socket told to close is `"closing"`, and may still deliver
  packets.
* A failing write (`qmdmmsocket_p.cpp:187` flushes) lets a Qt socket abort and
  report its disconnection before the write returns. With `EagerWriteFailure`
  the write of a request and the first write of a sign-in may do so; any other
  write that fails is seen as a disconnection of its own, a step later.
* A zero timer may fire any time after it was started, later than the event loop
  would, so that whatever runs in between is covered.
* Players declare themselves online, as `ClientP` does unless its own state is
  unknown to it. Declared flags (`qmdmmserver_p.cpp:181`, `:210`) are in `Server`
  and `Session`; a player who is there but declared itself offline would not keep its
  room from closing when the others go.
* The room is deleted at some point after `gameOver`; until then its events
  still run.

In `Session` both ends of one connection are there, and nothing promises that a
loss is noticed:

* A round event is a throw's result, an order, an action or the upgrades. Which
  one it is changes nothing in the log, the count or the replay, so a history is
  a sequence of `"roundStart"`, `"result"` and `"upgrade"`, and the client's
  mirror is the history it has applied. What applying does to a room is `Mirror`.
* `link` is the client's present connection: open, or cut. A cut loses what is on
  the wires. The client's socket may report it (`SocketGone`), or its pong
  deadline find it out; the server's end may be told, or time out. `bound` says
  whether the server's end is still on the client's present connection: a
  connection that was lost on one side lives on at the other.
* A deadline that is overdue is a timer firing though the peer is there and has
  only been slow (`stalls`); where that costs the connection in the middle of a
  session it counts as a loss.
* The heartbeat and its pong are one counter, `pings`: a ping answered on a
  working connection starts the window anew, two unanswered pass the deadline.
* `StateKnown` lets the player act only once its own state has arrived (see
  section 8).
* `PacketsHaveOneTaker` reads the messages on the wires as packets of `Protocol`.
* What a handler of `ServerConnection` does to the agent is its online flag and,
  where the player has left (`left`), its trust: `ConnBecomes` takes both from
  `onSocketDisconnected`, the one handler that clears them
  (`qmdmmserverconnection_p.cpp:143-175`).

In `Server` sockets are numbered as they are accepted, agents as they are made,
and a room has the number of the agent it was built for. `SignIn` takes any
name with any online flag on any socket that still delivers packets, one that is
an agent's already included, as `signIn` does; `StateChange` declares the flag
anew for the first agent on the socket, and a socket without an agent is closed.
The history `repeats`, bounded by `MaxRepeats`, counts the sign-ins on a connection
after its first: a `ClientP` sends one, its answer to the greeting. Three properties
speak of the states in which it is 0, that is, while peers sign in once per
connection; nothing else is assumed of peers. `Reconnect` deletes a socket the connection still has,
as `setSocket` does, and whatever else was bound to it is told nothing. A failing
write is a disconnection a step later. A game may end whenever its room is full,
which is what `LogicRunner` and `Logic` allow. `PlayerNumPerRoom` and
`MaximumRooms` are what `Startup` resolves: the instance takes the one from an option that is also in the
user's settings, the other from the system's settings.

## 4. Runs

| Run | Instance | What it shows |
|---|---|---|
| `logic_duel` | 2 players, all actions with legal and illegal targets, all upgrade lists; whole matches | no round after a win; every point is spent, stats change in no other way; the phases; the mirrors follow as long as nobody asks for a place off the map; the bots' replies are legal and use every turn and point; the human's menus are what the rules allow with the places they count |
| `logic_trio` | 3 players, knife, slash and a move to the village, contests for orders; one round | types; requests out are replies awaited, points are spendable, the winners of a throw choose anew, `Logic` implements `Match` |
| `logic_order` | 4 players, one throw, lists of one or two orders with clashes, yields and invalid lists | selections add up, contests are real, orders are settled, a contest always leaves more orders granted; every list a bot, a yielding player or the server makes of an offer is taken |
| `logic_mirrors` | as `logic_duel`, all throws | **violated**: the mirrors refuse an action the logic has taken |
| `room_life` | 2 players, 2 seats, a request timeout; sign-in to deletion | types; the logic takes every posted call; both sides hold the same players; a deserted room closes, and no departure ends a game somebody is connected to; every request is answered |
| `room_eager` | 3 players, 2 seats, failing writes close at once | one answer per request, in its phase; every wait has an end, also when the room has gone wrong as in `room_seats` |
| `room_timer` | as `room_life` | **violated**: the request timer drops a player who owes nothing |
| `room_seats` | as `room_eager` | **violated**: the logic has a player for whom the room has no agent |
| `session` | one player, 5 changes of the room, a lost connection, overdue deadlines on every connection, a change of state | types; every packet has one taker; one retry loop at a time; both ends agree on the state once nothing is under way; a player who handed over is not waited for; a player back in the round it left gets exactly what it missed; dead connections are left and losses resolved |
| `session_lost` | as `session` | **violated**: a player back after the round ended has a mirror that lacks its last events |
| `session_peers` | as `session`, 3 changes | **violated**: a player who is back has a peer's state of before it went |
| `server_rooms` | 4 connections and 5 agents, 2 names, rooms of 2, at most 2 rooms; any declared state, one sign-in repeated on its connection | types; the bound on rooms; one recruiting room; a started game keeps its seats; and while nobody has signed in twice on a connection: online means connected, on a socket of one's own; no game without a player connected; the status adds up |

### Bounds, and why they are enough

* `logic_duel` plays matches to their end, with stats smaller than a server's
  command line takes and the rules do not mind: one knife damage and one max HP to
  buy is the smallest configuration in which a round earns points, the
  punishment of a slash can kill, and a match takes more than one round. There
  is no constraint.
* `logic_trio` is bounded by `OneKnifeRound` to the first round and one knife:
  three players are the fewest among whom two can win a throw and a player can
  die before its turn, or earn two points.
* `logic_order` is bounded by `FirstThrow`: the negotiation starts from nothing
  each time. With four players two winners have two selections each, and three
  winners one each, so contests tie, eliminate some, and leave several winners.
* The rooms have two seats, so that a player may sign in, leave and be replaced,
  the other may leave a full room and come back, and both may be asked at once.
  Rounds, packets, disconnects and reconnects are unbounded; the state space is
  finite because requests are conserved. `MaxPosted` limits the calls that wait
  when somebody signs in, or two players could come and go for ever before the
  logic runs; two is enough for a departure and a sign-in under way together.
  `MaxZeroTimers` limits the single shots pending on one connection: the runner
  does not ask a player who has that many. With 1 a request made to an absent
  player may still meet the timer of an earlier life of the connection; 2, and
  three names for two seats, have been checked for the safety properties with the
  same result, but take longer than a run should.
* Replies come from small sets in `MCLogic`; each holds legal and illegal ones.
  `PlayerCount` is 3, the value of a GUI that never asked for a local game: the
  menu of a duel has a place that is not on the map. `logic_duel` throws two of
  the three hands: between two players only who wins,
  if anybody, matters, and two hands give every outcome.
* A session has one connection lost for no reason of the code or given up by a
  server whose peer is there, and on every connection one deadline that is
  overdue: the pong deadline of a client that was away from its event loop, or
  the sign-in deadline of one that comes back, so that a recovery may be lost too,
  any number of times. Five changes of the room are a
  round start, events, upgrades and the start of a round after them, so a player
  may be away across the end of a round; `MaxReconnectAttempts` 1 lets attempts
  run out. One request kind suffices, the wire's treatment of all four is the
  same.
* Four connections under two names are two seats in each of two rooms, or one and
  others to be refused or to come back on; a sign-in repeated on one of them makes
  the fifth agent, the fewest for two full rooms and a further one. That repeated
  sign-in is also the fewest for two agents on one socket.
  `MaxGreeted` 1 limits the connections that have yet to sign in at a time, which
  differ in nothing before they do. With all connections accepted and their
  rooms over there may be nothing left to do, so this run does not check deadlock;
  nor do the sessions, which stop once their bounded history is through.

A mutant in `PROJECT.json` accompanies each property: a plausible bug in the
mapped code that the run of the property finds.

## 5. Fairness and liveness

`RequestsAreAnswered` is checked in `room_life` under `Fairness`: both event
loops keep running (`RunnerTakes`, `LogicTakes`, `Delete`, the deferred delete of
the event loop), an active single shot fires (`RequestTimer`, `ZeroTimer`; Qt
fires a timer that is not stopped), and a transport that was told to close
closes. Nothing is assumed of peers, which may stay silent, nor of the heartbeat
deadline, which any packet restarts. The property needs a request timeout: with
`requestTimeout` 0 the server is documented to wait indefinitely.

`DeadLinkIsLeft` and `LossIsResolved` are checked in `session` under its
`Fairness`: the client's event loop takes packets that have arrived
(`ClientTakes`), its heartbeat, its pong deadline once two pings are unanswered,
and its reconnect timer fire. Nothing is assumed of the server, nor that any loss
is ever reported to the client: that the pong deadline makes up for that is what
the properties say.

`Server` states no fairness and no liveness: what happens there is what peers do.

No liveness is claimed of `Logic`: players may tie for ever in `RpsForAction`,
which the documentation names a known limitation. What stands in for it:
`WaitsForWhatItAsked` (a running phase always has a request out, so it never
waits for nobody), `ContestsGrantOrders` (whatever leaves a contest has granted
an order; a tie holds the contest again, for ever if its players tie for ever) and
the absence of deadlock in the passing runs.

## 6. Proofs

The proofs about the rules and the logic are for any number of players, any
configuration `LogicConfiguration::deserialize` accepts (`RulesAssumption`) and
any replies of the right types (`RepliesAssumption`).

* `LogicTypeOK == Spec => []TypeOK` and
  `LogicPointsAreSpendable == Spec => []PointsAreSpendable`. Neither is inductive
  alone: that a recorded upgrade list stays feasible needs the stats of its
  player to be within bounds, and that the capped point is never negative needs
  the same. The inductive invariant `Sound` is the types, spendable points in a
  running round, stats within bounds, and feasible upgrades in hand. One lemma
  per private function of `LogicP` shows that it keeps the types and the room
  (`RunsOn`), one per slot that the whole call keeps `Sound`; where the code
  takes the first of the orders to come or the lowest of those contested, a
  lemma shows that there is one.
* `ActionsKeepStats`: every feasible action keeps names, stats and the bound on
  points. `DefaultUpgradeFeasible`: the list that replaces an infeasible reply
  is feasible.

* `LogicSelectionsAddUp`, `LogicContestsAreReal`, `LogicOrdersSettled`,
  `LogicContestsGrantOrders`, `LogicEveryPointIsSpent`. Each speaks of one phase and
  depends on what the phases before it left, so the inductive invariant `InStep`
  says of every phase what it has in hand when it waits: a throw, whose replies it
  has; while orders are chosen, that every winner's confirmed, yielded, desired and
  outstanding selections sum to the losers it beat (`Choosing`); in a contest, the
  same with two players or more striving for an order that is free (`Contesting`);
  in the turns, that every order has one holder and every winner its share
  (`Acting`). The code deals the orders that are left by rank and by count; that
  everybody gets exactly the share is shown by bijections between orders and ranks
  (`RankBijection` and `RankInterval` in `Counting`), one lemma per private
  function. The action properties follow from `InStep` before and after the step,
  `LogicWinnersChooseAnew` too: what a throw finds confirmed and yielded is cleared
  before its winners are offered orders, which `Choosing` alone would not say.
* `LogicNoRoundAfterTheWin`, `LogicWaitsForWhatItAsked`. That a running phase always
  has a request out needs that it never has nobody to ask: not after a throw, not
  among players who died, not when the points are spent. `Lively` says that a round
  has two players and goes on until one at most is alive, that nobody in it is
  fully upgraded, and that where somebody has died somebody has a point.
  `ActionsWound` is the lemma behind it: an action wounds its player and at most
  one other, and no death goes without a point while there are upgrades to buy.
  These theorems and the refinements assume `Playable`: a new player is alive and
  not fully upgraded. The command line's ranges give the first (`WithinRanges`:
  an initial maximum HP of 7 or more). In the configuration that lacks the second
  the first round never ends, as section 8 reports, and the properties are false.
* `LogicImplementsPhases`, `LogicImplementsMatch`: the initial states map, and every
  step maps to a step or a stutter. `Phases` sees the phase, the names in the room
  and the requests out; a recorded reply is its `Reply` without an end, a last
  reply one that goes on, and `MayAsk`, how many may be asked next, is `InStep` and
  `Lively` of the next state. `Match` sees how far the round is (`PhaseIn`), who is
  alive (`AliveIn`) and how many turns each is owed (`TurnsIn`): the listed winners
  while orders are chosen, the orders from the current one on while they are played.
  A throw with winners is `Throw`, an action `TakeTurn` with at most its victim and
  its player dead, everything in between a stutter.

* `LogicMirrorsFollow`, of `Mirror`: the notifications of a step, applied to the
  room before it, give the room after it. The rules are applied twice, so it is a
  case per action that both sides judge and change the room alike (a feasible
  action is, on the map, one the mirror takes), and, where orders and upgrades are
  dealt with all at once, that what is told of is what was stored (`Sound`,
  `InStep`). Moves off the map are the hypothesis of the property, and the finding
  `logic_mirrors`.
* `LogicOfferCoversSelections`: by `InStep` no winner holds more orders than its
  share, so of all the shares what is not dealt leaves each winner at least as many
  orders as it has to choose (`EnoughLeft`); the list a bot picks has no order twice because `Ascending`
  counts up.
* `LogicMenuIsTheRules`, both directions, of the places the menu counts, whatever
  `PlayerCount` is: what is picked from a menu is feasible and sent as picked; and
  to whatever the rules allow with those places there is an entry with the same
  effect. That the places are those of the room's map it does not say, and online
  they need not be. It assumes `FullReplies`, that every reply the menus can
  make is among those that may arrive, for otherwise there is nothing on the
  rules' side to compare with; TLC confirms it of the instance that is run.
* `LogicBotsPlayTheRules`. A strategy that goes home must find its home on the map:
  the third inductive invariant, `Homes`, is that in a round everybody's city is a
  seat of the room. The branches of each strategy are then shown feasible one by
  one, whatever the grudges. The theorem assumes `Playable`, and `zeroHpAsDead`: with
  it off the strategies misjudge a peer at zero HP, as section 8 reports.

* `RunnerWaitsEnd == Spec => []EveryWaitHasAnEnd`, for any set of names, any
  number of seats, with or without a request timeout and whether writes fail at
  once or not. The inductive invariant `WaitInv` adds the types of the
  connections, that the phase of the logic is one it has and its sets of players
  are finite (so that what it emits is a sequence), and that requests posted to
  the runner name a request: a wait can only start with one. One lemma per
  handler of `ServerConnection` shows that it keeps a connection `Sound`; the
  argument is that every path that loses the socket answers the request first,
  and every path that makes a request starts a timer or answers it.
* `RunnerTypeOK`, `RunnerOneAnswer`, under the same assumptions, failing writes
  included. Of every handler a lemma says that it either keeps its request or
  replaces it by one reply to it (`Keeps`), also where it nests others. `Settle`
  posts what handlers emitted, so the places of a request, counted over the two
  queues and the connection, stay one per player asked (`MailInv`). To be
  inductive it needs that a reply in hand is one to the phase: all replies of a
  phase are awaited before the next asks, except that an action ends its phase at
  once, whence only one player is asked then; and that who joins finds no trace of
  an earlier life, whence a player without a seat has no connection.
* `RunnerDesertedRoomCloses`, `RunnerOccupiedRoomGoesOn`: `DesertInv` adds that
  exactly who has no socket is not online, for it is the flag that the code looks
  at; one direction closes the room of the last to go, the other keeps that of
  everybody else. It rests on players declaring themselves online (section 3).
* `RunnerRoomsAgree`, `RunnerCallsAccepted`, `RunnerAsksTheSeated`, where failing
  writes are reported after the handler (`EagerWriteFailure` off; with it the rooms
  disagree, which is the finding of `room_seats`). `RoomInv`: during a round the
  rooms are one and only requests and replies go between them; before it the
  calls posted lead, each of them acceptable, from the logic's room to that of the
  seats (`Leads`), a start of the round is the last of them and finds the room full;
  and the signal that ends a round is alone on its way. That an idle logic is owed
  nothing (`MailInv`) is what keeps stray replies out of it. `RunnerAsksTheSeated`
  is the consequence that no request meets the null pointer of a player without
  a seat.

* `ServerTypeOK`, `ServerOneRecruiter`, `ServerRoomsBounded`, `ServerSeatsAreKept`,
  for any names, any layers of settings that start a server, any number of
  connections and agents, and whatever peers send, repeated sign-ins and declared
  states included. The inductive invariant `Inv` is the types, `OneRecruiter`, and
  `Placed`: above the number of agents made there is no room and nobody has a place
  (`Unmade`), nobody has a place in two rooms (`Apart`), who is present is a member of
  a room (`PresentIsMember`), a room that is not there has nobody in it (`NoRoomIsEmpty`),
  and no room has more seats taken than it has (`SeatsFit`). `OneRecruiter` needs the
  types, which say that the current room is not over; the bound needs that no
  disconnect brings a room back; that seats are kept needs that a deleted room takes
  with it only agents no other room has. That a room has two seats at least, and that
  the configured maximum is a natural number, comes from the start having been
  accepted (`ConfiguredSeats`, `ConfiguredRooms`).
* `ServerOnlineIsConnected`, `ServerGamesHavePlayers`, `ServerStatusAddsUp`, all of
  the states in which `repeats` is 0: a second sign-in on a socket makes two agents of
  it, and TLC finds each of them false where that hypothesis is dropped. The
  invariant is `Inv`, `GamesHavePlayers` and `Once`: while `repeats` is 0, `Keeping`
  holds, which adds to `Inv` that a socket that has not signed in belongs to nobody, that whoever has a
  socket has one that still delivers packets and has it alone, and that whoever is
  online has one; that a declared flag may hide a player who is there does
  no harm, since `agentDisconnected` closes a room too soon rather than too late by
  it, and the properties speak of sockets, not of flags alone. The players of the
  status are a sum over rooms, the sockets with a player online a set: they agree
  because the rooms partition the agents (`Placed`) and no two have one socket. Of
  the seats, all rooms but the recruiting one are full, which leaves less than a room
  over. The sums are folds over a set: whatever function grows by the summand with
  every member has the sum as its value (`SumIsUnique`).
* `SavedStartsAgain`: what `-c` writes of a server that starts is accepted by the
  next start without options, and means the same configuration, whatever the
  system's settings say: `save_` writes every item, and a printed value is
  parsed back as itself.
* `ResolvedIsDeserialized`: the rules of a server that starts are accepted by
  every client's `LogicConfiguration::deserialize`, so no client is refused by the
  packet that welcomes it; the server's own configuration is accepted by
  `ServerConfiguration::deserialize` unless a transport's port is 0.
* `PacketShape`, `PacketsHaveOneVerdict`, `DirectionsAreApart`: of what `fromJson`
  hands on the ids fit the type; of the two slots on a player's socket exactly
  one answers for each packet; what is taken at one end is refused at the other.
* `SessionTypeOK`, `SessionNeverStranded`, `SessionPacketsHaveOneTaker`, for any
  requests, any number of attempts, and any losses, overdue deadlines and changes of
  state. The inductive invariant `LinkInv` says what the two ends know of the one
  connection: a client without a socket has nothing on its wires; the server is bound
  to a client that has a socket and is not reconnecting; a client that reconnects has
  sent no sign-in yet, and nothing but a greeting comes to it. The last is what
  keeps a reconnecting client's timer and its socket apart: only the greeting ends
  the episode. One lemma per handler of `ClientLink` says what the client may
  become and send (`Leaves`), one per handler of `ServerConnection` that it
  `Settles` the connection, and that a packet is taken by one slot is a case per
  kind of message (`PacketsTaken`).
* `SessionStatesAgree`. `StateInv` says whose word is the last: what the client last
  declared on the wire is the state it has (`LastDeclared`), and where nothing is
  declared the client has the server's state or the snapshot that tells it is on its
  way (`Holds`). Declarations and snapshots cross, so neither end alone is enough.
* `SessionManagedIsAnsweredFor`. `ManagedInv` says that a request the server waits
  for is the last on its way to the client, or answered on its way back, or shown
  to a client that has not handed over (`IsWaiting`). What breaks it is an agent
  that is offline on a connection that works, or trusted without one, so it also
  says that the online flag is the socket (`SeatIsKept`) and that nobody declares or
  is told otherwise (`SaysOnline`). That is what `StateKnown` is for, which the
  theorem assumes: without it the property is false, as section 8 reports.
* `SessionCatchesUp`. The server replays its log from the client's count on, so the
  count must mean the same at both ends whenever it is sent. `MirrorInv` says of a
  match that goes on: the log is what the room went through since the round began
  (`LogIsTheRound`); the client has been told of no more than there was, and has no
  count of a later round (`NeverAhead`); a mirror that misses nothing counts the
  events of its last round (`CountsItsRound`); and on a new connection the greeting
  is first and answered once, with that count, and nothing else is on its way until
  the answer is taken (`Greeted`), so that no change slips in between the count and
  the replay. `GetsWhatItMissed` speaks of a client back in the round it left; for
  one that comes back in a later round it would be false, which is the finding of
  `session_lost`. The property counts the changes on the wire and gives each its
  place in the history, instead of selecting them into a sequence: the selection is
  a recursive definition, which the prover cannot unfold. TLC found the two forms
  equal in every state of the session's instance.

Only model-checked is liveness under fairness (`RequestsAreAnswered`,
`DeadLinkIsLeft`, `LossIsResolved`), which the prover does not reach. Every other
property of a passing run is a theorem; the properties of the findings are false,
and TLC shows how.

## 7. Findings

* `logic_mirrors`: the logic takes a move from the village to any place, however
  high its number; `notifyAction` (`qmdmmclient_p.cpp:666`) refuses a place beyond
  the number of agents, and every client of the room drops its connection.
  `qmdmmclient_p.cpp:678` says the action "should always be success, since it is
  judged in Server". The GUI's own menu counts its places by the size asked for a
  local game (`gameclient.cpp:725`), which need not be the room's.
* `room_timer`: `onSocketDisconnected` (`qmdmmserverconnection_p.cpp:142`)
  answers the request for a player who is gone and stops the heartbeat deadline,
  but not the request timer. A player who is back before it fires is disconnected
  by it though nothing is asked; `qmdmmserverconnection_p.h:57` says the timer
  only runs while a request waits.
* `room_seats`: `addAgent` writes to the new player before it posts `addPlayer`
  (`qmdmmlogicrunner.cpp:106`, `:108`). If that write fails at once, the departure
  is posted first, the logic keeps a player without an agent, and the requests
  of the first round go through a null pointer (`qmdmmlogicrunner_p.cpp:193`).
* `session_lost`: `roundOver` clears every log (`qmdmmlogicrunner_p.cpp:303`), and
  the start of a round is no round event. A client that is away while the last
  events of a round happen and is back before the next one gets none of them;
  it goes on with dead players alive and points unearned, refuses the upgrades
  that follow, and drops its connection. `architecture.md:101-106` says the
  replay makes its mirror converge.
* `session_peers`: `notifyPlayerAdded` leaves a peer it already tracks alone
  (`qmdmmclient_p.cpp:460`), so a client that comes back keeps the state a peer
  had before it went; `qmdmmlogicrunner.cpp:172` says the snapshot tells the
  returning player where everyone stands.

## 8. Not modelled, and what was observed on the way

Logging, display, the bytes of packets, the transports' framing, the control
plane's HTTP text, the files of settings, and the processes the GUI starts for a
local game are left out: conversions and I/O that keep no state the properties
could tell apart. Change signals of `Player` serve displays. Integer widths of
sums of stats are a hazard without a property. Texts that players speak are
passed on and change nothing. Options that clash (`-2` to `-9` and `--players`)
end the start, which `Startup` leaves out with the parsing of the command line.

Facts that the models show or keep out, for which no run exists:

* Logic. `actionOrderResult` is emitted in `RpsForAction` or
  `RpsForActionOrder` and `upgradeResult`, `gameOver` in `BeforeRoundStart`,
  though documented for `ActionOrder` (`qmdmmlogic.cpp:451`) and `Upgrade` (`:513`,
  `:523`); nobody reads the state there. With every stat at its maximum from the
  start, which `deserialize` accepts, the first round never ends:
  `startUpgrade` requests nothing and the state stays `Action`.
* Bots. `slashIsWorthItsPunish` (`knifepreferredbot.cpp:189`) takes a peer at zero
  HP for dead also when `zeroHpAsDead` is off. With `canBuyOnlyInInitialCity` the
  knife bot walks to city 1 (`:64-72`), where it may never be sold a knife.
* GUI. `m_playerCount` is what a local game is started with, 1 included, which the
  server refuses. "Default (HP)" after a pick (`GameScene.qml:605-612`) sends more
  items than were asked for, a protocol error.
* Session. With `StateKnown` off `ManagedIsAnsweredFor` fails: a player who hands
  over before the first snapshot of its own state declares a state without the
  online flag. A request of the old connection that is answered after a new
  sign-in costs the client the new connection too; a state declared before it,
  likewise. A sign-in before the server noticed the loss is seated elsewhere.
  `connectToHost` does not reset the count of round events.
* Server. Nothing refuses a second sign-in on a socket that is an agent's
  (`qmdmmserver_p.cpp:179-185`): it binds a second agent to it, the status counts
  both, and from then on what `OnlineIsConnected`, `GamesHavePlayers` and
  `StatusAddsUp` say of the states before (`repeats = 0`) need not be so. A name that
  is online in a full room is offline nowhere, so its sign-in falls through the scan,
  and where no room recruits it gets a second seat in a new one (`:159`), though the
  comment at `:132-133` says that it is rejected. The scan takes an agent without the
  online flag for one that lost its socket (`:137`), but players declare that flag
  (`:181`, `:210`): the sign-in of its name deletes the socket of a player who is
  there and declared itself offline, though `qmdmmserverconnection_p.cpp:660-661` says
  that socket is already null. A write of the replay in `reconnect` that fails at once would
  leave its agent online without a socket (hazard at
  `qmdmmserverconnection_p.cpp:655`); such a failure is not modelled. Server-side
  sockets of peers that never sign in, are refused, or whose room is over are
  closed and never deleted (the comment at `:237-240` is about holding them). After
  a game is over, the sockets still open are watched by no deadline.
* Startup. A transport's port may be 0 by option or file, though
  `ServerConfiguration::deserialize` refuses it; nothing on the server's own path
  calls that function.

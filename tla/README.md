# TLA+ models of the ACE card game

ACE is a trick-taking card game for two to seven players. Online games are run
by a Go server (`be/`): a rules engine that owns the state of one game, a
goroutine per room that feeds it, and a hub that does the matchmaking. A React
client (`fe/`) renders what the server sends and also plays offline against
AI seats with an engine of its own. This directory holds TLA+ modules for the
server's core and for the client, the configurations that model-check them, and
theorems that TLAPS checks. Paths below are relative to the repository root.

Run a check with `tlc -config MCRoom.cfg MCRoom`, a proof with
`tlapm AceEngineProofs.tla`.

## 1. Inventory

| part | state | operations | interacts with |
|---|---|---|---|
| rules engine `be/game/engine.go` | `State`: hands, the trick on the table, turn order and index, finished and removed seats, phase, loser | `InitGame`, `ApplyPlay`, `Forfeit`, `ResolveRound` | called by the room only |
| room `be/realtime/room.go` | players with the socket each is served on, the turn watchdog (`turnGen`, `prompting`, `retriesUsed`), `done` | one goroutine handling play, leave, disconnect, reconnect, idle, grace, "I am here", resolve | engine; timers; hub (`closeRoom`); recorder |
| hub `be/realtime/hub.go` | queues per table size, pending private rooms by code, `byUID` | closures run one at a time from `cmds`: join queue, create and join room, leave, disconnect, reconnect routing, close room | clients' read pumps; rooms through their event channel |
| client `be/realtime/client.go`, `protocol.go` | `room` pointer under a mutex, bounded send buffer | `readPump`, `writePump`, `sendMsg` | hub and room |
| accounts `be/service`, `be/handler/auth.go` | users in MySQL | sign-up, username check, deletion, tokens | store |
| results `be/store/store.go`, `HistoryScreen.jsx`, parts of `App.jsx` | `games`, `user_stats`; the statistics and the list on the screen | `RecordGame`, queries; report, refresh, load more | room, offline game |
| browser socket `fe/src/services/socket.js` | one shared WebSocket, the buffer of requests, the reconnect timer, `wanted` | connect, send, disconnect; the callbacks of every WebSocket ever opened | app shell; server |
| sign-in `AuthScreen.jsx`, `native/googleAuth.js`, `native/storage.js`, `App.jsx` | token in memory and in the storage, user, the screen's steps, Google's button | restore, consent, sign in, choose a username | accounts; app shell |
| app shell `App.jsx`, `Lobby.jsx`, `WaitingRoom.jsx`, `RoomLobby.jsx`, `OnlineGameScreen.jsx`, `SettingsPanel.jsx`, `native/index.js` | screen, menus, overlays, prompts | navigation, online session, sign-out, back button, resume | socket; sign-in; offline game |
| offline engine and AI `fe/src/game` | the game as one immutable record with the bots' memory | `initGame`, `applyPlay`, `resolveRound`, `pickMove` | offline game screen |
| offline game `GameScreen.jsx` | the game, the bot's and the pause's timers, prompts, away countdown, what was reported | human and AI moves, pause, redeal, watching, leaving | offline engine; app shell |
| static pages, drawing, sound, configuration | none that another part reads | rendering and I/O | |

What is hard about each, and what makes it correct:

* **Engine.** Sequential, but its operations may come in any order: a seat can
  drop out before, on or after its turn, during a trick or a pause, and a seat
  that has finished may have to take a pile and be back. Cards must not be
  duplicated or lost, the turn must always rest on a seat that can move, each
  seat acts once per trick, and the loser must be the seat left with cards.
* **Room.** Timers race plays, clicks, disconnects and each other; only a
  generation number tells a late tick. An open game must always have a timer
  that moves it on, nobody may be burned without a prompt, and the recorded
  results must fit together.
* **Hub.** Its view of who is in which room lags behind the rooms: a game may
  have ended when its player is routed to it. Each of hub and room sends into
  the other's bounded channel.
* **Offline game.** A bot's move, the pause, the prompts and the countdown are
  timers beside React effects; each effect runs only when its dependencies
  change, and a redeal may happen between a timer and its callback. A result is
  reported once, while the trick it depends on may still be undone by a cut.
  Bots infer who is void in what, and a pile that is taken makes that stale.
* **Browser socket.** Callbacks of a WebSocket that was given up still run, on
  fields they share with its successor. Requests are buffered until a socket
  opens: they must go out once, for the screen that made them.
* **Sign-in.** Consent, a button drawn by Google, a username step and calls in
  flight follow each other in any order; a session is a user and a token or neither.
* **App shell.** Messages, clicks and the hardware back button change the same
  few flags; the server knows of the person only what arrived.
* **Accounts and results.** Check-then-insert over several requests; one write
  per player at the end of a game; pages whose offsets move while they are read.

`PROJECT.json` lists every component with its status and every hazard at its line.

## 2. Modules

| module | models | role |
|---|---|---|
| `AceRules` | the stateless helpers of `engine.go` | extended by all others |
| `AceEngine` | `engine.go` in full | detailed specification |
| `TurnGame` | what `engine.go` promises the room | abstract specification |
| `Room` | `room.go`, on top of `TurnGame` | component built on the abstraction |
| `Hub` | `hub.go`, `Client.room`, and of a game what the hub sees of it | component beside the room |
| `HubRoomChannels` | the bounded channels between hub and rooms | their goroutines, without what they do |
| `LocalEngine` | `fe/src/game/engine.js`, `utils/deck.js`: the same game again, as a function of its state | operators |
| `Bots` | `fe/src/game/ai.js` | operators |
| `OfflineGame` | `GameScreen.jsx` on `LocalEngine` and `Bots` | component; implements `TurnGame` |
| `GameSocket` | `services/socket.js` | operators on its state |
| `SignIn` | `AuthScreen.jsx`, `googleAuth.js`, `storage.js`, `consent.js`, session restore | actions |
| `ClientApp` | the app shell with its screens, on `GameSocket` and `SignIn`, beside a server reduced to one user | composition |
| `Results` | the store's two tables, the report, the statistics, the paged list | component |
| `MC...` | constants and bounds for TLC | |
| `SequenceLemmas` | lists without repetitions, the highest and the least of a finite set | lemmas |
| `AceRulesProofs` | what `RemoveInt`, `GetRoundOrder` and `TerminalLoser` return | lemmas |
| `AceEngineProofs` | `TypeCorrect`, `CardsStayInOnePlace`, `FinishedSeatsHoldNoCards`, `NobodyIsPassedOver`, `TurnIsAlwaysPlayable`, `LastHolderLoses`, `CardsNeverComeBack`, `LeaversLeaveTheTurn`, `TrickWinnerLeads`, `EngineIsTurnGame` | theorems |
| `RoomProofs` | `RoomTypes`, `WatchdogIsArmed`, `NobodyIsBurnedBySurprise`, `SeatsAreServed`, `OwnSocketDetaches`, `RecordsFit` | theorems |
| `HubProofs` | `HubTypes`, `WaitersAlwaysFit`, `EachWaitsOnce`, `PlacesAreSwapped`, `ReconnectsToLatest`, `SeatsStayHeld`, `HostsStay` | theorems |
| `OfflineProofs` | `PausesAreTheirOwn`, `PromptsFit`, `CountdownsFit`, `ReportsAreFinal`, `MemoryErrsByPiles`, `OfflineIsTurnGame` | theorems |
| `ClientProofs` | `SessionsAreWhole`, `BufferIsOurs`, `WaitersAreWaitedFor`, `SocketsOpenOnline` | theorems |
| `ResultsProofs` | `StatsTheorem`, `ListTheorem`, `ReportTheorem` | theorems |

`AceEngine` implements `TurnGame` under the mapping `turn <- CurrentSeat`
(property `ImplementsTurnGame`), and `Room` extends `TurnGame`. What is checked of the
room is thereby checked for every hand the engine could deal, without cards in
its state.

### AceEngine

Variables are the fields of `State` that the backend reads. `Log`,
`ResultMsg`, `RoundHistory` and `SuitVoids` are written only. Hands and the
table are sets: no rule depends on the order of cards, and `CardsInOnePlace`
shows that sets lose nothing. `Removed` is a set for the same reason;
`RoundOrder` and `Finished` are sequences because their order matters. `TurnIdx` counts
from 0 as in the code, so the seat at it is `roundOrder[turnIdx + 1]`.

| action | code |
|---|---|
| `Init` | `InitGame`: `Deal` hands the first seats one card more, `FindStarter`, `GetRoundOrder` |
| `PlayOn` | `ApplyPlay` up to line 245: the trick goes on |
| `PlayLast` | `ApplyPlay` with a cut or by the last seat: `resolveTrick` |
| `ForfeitSettles` | `Forfeit` when the leaver stood last and cards are on the table: `resolveTrick` |
| `ForfeitEnds` | `Forfeit` when at most one seat is left in play |
| `ForfeitGoesOn` | `Forfeit` otherwise, in play or in the pause |
| `ResolveRoundEnds`, `ResolveRoundLeads` | the two branches of `ResolveRound` |

`GetRoundOrder` is defined by counting (the k-th seat is the one that k listed
seats are met no later than) rather than by a loop, which keeps it within
reach of the prover. Rejected plays change nothing and are stuttering steps.

### TurnGame

Keeps `phase`, `turn`, `finished`, `removed` and `loser`. Where the engine's
outcome depends on cards (whose turn is next, whether a trick ends, who takes a
pile) any outcome some hand allows is a choice.

### Room

One action is one iteration of `run()`: the event with its whole handler,
including the calls into the engine, `armTurn`, `finishGame` and
`recordResult`. The event channel is not a variable: a handler looks at
nothing of an event but its sender, card and generation, so an event that
waits in the channel is one whose sender has not acted yet. Timers may be
handled at any moment, in any order, after they are scheduled.

* A timer event is compared with `turnGen` for equality only, so a timer
  carries `live`, the answer to that comparison; `Bump` is `turnGen++`. The
  generation itself, unbounded in the code, is not needed.
* `evResolve` carries no generation in the code. Its `live` flag is not read by
  any action; it exists for `PauseRunsItsTime`.
* A socket is "new", "open", "gone", or "lost": lost while its player waited in a private
  room, which keeps the seat. `client[s]` is the socket the room talks to.
* `uid[s]` is the user of a seat. `PlayerForUID` and `PlayerOf` are the two
  lookups of `room.go`, by user and by socket; both return the first seat that
  fits. `Tables` are the lists of members the hub may start a game with: it
  gives no socket two seats, but a user with two sockets may get two
  (`hub.go:119` looks for the socket in the queue, not for the user).
* `warned` (the seats that were sent the prompt of this turn) and `reason`
  (`player_left` messages) record what the room has sent.
* `broadcastState`, `perspective` and the log are left out: they change nothing
  in the room.

### Hub

One action of a socket is one closure of the hub's goroutine with every call it
makes. The channel `cmds` is not a variable: a closure that waits in it is one
whose sender has not acted yet, which is sound because a closure decides
everything when it runs. Requests the hub refuses (bad size, unknown code, full
room, client in a game) change nothing and are stuttering steps.

| action | code |
|---|---|
| `Connect` | `Handle`: bound to the user's game, or to the user's seat in a private room, or idle |
| `JoinQueue`, `CreateRoom`, `JoinRoom` | the closures of these names with `removeFromQueue`, `removeFromPending`, `startRoom` |
| `Leave`, `Disconnect` | `leave`, `disconnect`; what concerns a game is posted to its room |
| `CloseRoom` | `closeRoom`, any time after the game is over |
| `HandleEvent` | the room takes the next posted reconnect, leave or disconnect |
| `ImHere` | `onImHere`, which moves the seat to the socket that spoke |
| `Burn`, `PlayOut` | a forfeit by timeout; the end of a game by play |

* `room[c]` is `Client.room`. It is written by the hub (`Handle`, `startRoom`)
  and by rooms (`onReconnect`, `finishGame`), which is where the two views part.
* `rooms[r].events` holds what the hub has posted and the room has not handled.
  An event for a room that is over is dropped (`post` selects on `quit`); a full
  channel (`EventsBound`) keeps the closure from running.
* Where the code walks a Go map (`queues`, `pending`), any entry that fits may
  be found first: `WithoutQueued`, `WithoutPending` and `PendingOfUID` are sets.
* A game is `Room` without turns and cards: any seat in the game may be burned,
  the game may end at any time. A game that a forfeit leaves with one player
  may stay open for a while: the engine ends it at once or after the pause of the
  trick the forfeit settled (`engine.go:332`, `room.go:360`).

### HubRoomChannels

`Hub` and `Room` have no channels. This module has both, with their capacities,
and of the goroutines that send and receive only where they stand: the hub
takes a request, which may concern lists, start a room or post to one (`hub`
is the room it is posting to); a room takes an event, goes on or calls
`finishGame`, and quits after its closeRoom got into the channel. Requests,
plays and ticks come at any time, as long as there is space.

### LocalEngine and Bots

The offline engine is a pure function, so it is modelled as one: a game is a
record, `ApplyPlay(g, seat, card)` and `ResolveRound(g)` are the new record. It
differs from the Go engine where the code does: it settles a trick in the same
call, keeps `suitVoids` and `discard` for the bots, has no leavers, and does not
ask whether a seat holds the card it plays. `Bots` has every decision of `ai.js`,
as sets: where the code takes the first of several equally good cards, the
order of a hand decides, so `PickMove` is the set of cards it may choose.

### OfflineGame

One action is one event (a click, a timer) together with the effects React
runs when its state is committed: `Commit` applies them, each as a function of
the game before and after (`ReportEffect`, `WatchEffect`, `AfkEffect`,
`PauseEffect`, `StartsBot`). The pause of a bot (`botTimer`) carries the seat
and card its callback closes over. Of the length of countdowns two facts are
used, stated at the top of the module.

### GameSocket, SignIn, ClientApp

`GameSocket` has the WebSockets with the state of each, `ws` (the one the code
points to), `queue`, `wanted`, the reconnect timer the code knows and those it
has lost track of (`strays`). `SignIn` splits every call to the server in two
actions. `ClientApp` puts both under the app: `nav` is where the person is,
`board` what covers the online board, `srv` what the server holds of this user:
the queues it is in, its seat (in a private room, in a game, out of a game that
goes on, in a game that is over and whose `closeRoom` is still to be handled), a prompt, and what
each connection is bound to (`Client.room`: the game, a past one, none). A message of the server arrives when it is sent or,
if the WebSocket is not open, never; what the app sends travels in order and is
lost with its connection.

| actions | code |
|---|---|
| `OpenMenu`, `PlayOnline`, `CreateRoom`, `JoinRoom`, `DealAndStart`, `PracticeIntro`, `HowToPlay`, `OpenSettings` | the lobby |
| `LogOut`, `LogOutAnswers`, `DeleteAccount`, `DeleteAnswers` | `handleLogout`, `handleDelete`, before and after the call |
| `CancelQueue`, `CancelRoom`, `TapCard`, `ImHere`, `AskLeave`, `LeaveBoard` | the online screens |
| `Resume`, `Back`, `LeaveAfterAll`, `StayInGame`, `Restart` | the native shell; a page closed and opened again |
| `Opens`, `Ends`, `TimerFires`, `StrayFires` | the callbacks of WebSockets and of the reconnect timers |
| `QueueRequest` to `HereArrives`, `QueueMatches`, `RoomChanges`, `Prompts`, `GameEnds`, `Burned`, `CloseRoom` | the server, as far as this user can tell |

### Results

The tables of one user, each request in three steps (sent, handled, answered)
any of which may fail. An answer about the tables is the number of games there
were when it was read. `RecordResult` is a room that records a game at any
moment, which it does for a player it burned earlier and who is anywhere by now.

Definitions marked "Broken" in the modules are not used by any specification. Each states a
plausible bug in the definition that follows it; replacing that definition by
the broken one makes the property named in `PROJECT.json` fail, which shows
that the property depends on it.

## 3. Runs

| run | configuration | result |
|---|---|---|
| `engine` | 4 seats, 2 suits of 3 ranks, every deal | 10 properties hold, about 284 000 states |
| `engine_leaver` | 3 seats, same deck | `LeaverSettlesOnlyIfAllPlayed` violated |
| `room` | 3 seats, seat 0 may be away at the start, its user may come back on a second socket or have been dealt seat 2 on it, `MaxRetries` 1, fair timers | 8 properties hold, 2 of them liveness, about 450 000 states |
| `room_pause` | 3 seats | `PauseRunsItsTime` violated |
| `hub` | 2 users with 3 connections, sizes 2 and 3, 2 codes, two games or private rooms | 7 properties hold, about 593 000 states |
| `hub_channels` | 2 rooms, 2 entries in each channel | `OverIsReleased` violated |
| `offline` | a person and two bots, 2 suits of 3 ranks, every deal, 2 games, `MaxRetries` 1, fair timers | 7 properties hold, about 95 000 states |
| `offline_redeal` | the same | `EachCardOnce` violated |
| `client` | 2 WebSockets at a time, 1 buffered request, 1 lost timer, 2 account requests, fair connections | 5 properties hold, about 647 000 states |
| `client_orphan` | the same, one orphaned socket | `TornDown` violated |
| `client_prompt` | the same, one orphaned socket | `AnsweredMayPlay` violated |
| `results` | 3 games, pages of 2, 2 refreshes at a time | 3 properties hold, about 1.3 million states |

**Bounds.** Four seats are the fewest for which a seat can leave before, at and
after the turn with others still to act, with two seats left to play on; six cards in
two suits give every trick length, cuts by any seat, takers that had
finished, takers that have left, and hands of unequal size. All 180 deals are
initial states. The room needs three seats for a game to go on after a
forfeit, and one retry for a click within the limit and one past it; the
second socket of user 0 gives every order of connect, disconnect and click on
two sockets of one player, at a table of three users and at one where both
sockets have a seat. Nothing is cut off by a state constraint: cards leave or circulate
within a finite state space, and rooms are finite because timers are a set.
`tag` in a resolve timer tells apart the several `evResolve` of one pause; it
is bounded by the number of seats, since each needs a removal.

The hub has both kinds of list, two sizes, two codes, a socket that replaces
another, and two games that overlap, or one beside a private room, or two
private rooms (`MaxRooms` bounds their sum), each game open, over or closed,
with seats for a user on two sockets and a leaver who reconnects.
`EventsBound` is 1, so one post of the hub may be handled late per room. Users'
sockets and the codes are symmetric; only safety is checked under symmetry.
The channels hold 64 entries in the code and 2 in `hub_channels`: what the run
shows needs them full, not of any size.

Offline, three seats are the fewest for which somebody can watch the others
play on, six cards give finishes, cuts and takers, and two deals a move of the
first in the second. In the client, two WebSockets are one given up and its
successor; an ended one is free for reuse, so sessions go on without end. One
buffered request and one lost timer suffice for each to be stale;
`MaxOrphans` is 0 in `client`, since what the code does once a socket is
orphaned is the finding of `client_orphan`. The person does nothing new in the
lobby while every WebSocket there may be is still in use, or until an answer to
a deletion has come (`Waits`); during a log-out they may do anything. Three games and pages of two have a
full and a short page, and a game recorded between them. The list opens when
no refresh is in flight, with which it shares nothing.

**Deadlock** is checked in `client` and `results`. It is not checked for the
engine, the room and the hub, where a game that is over accepts nothing, in the
code as well, nor for the offline game, whose screen does nothing once it is left.

**Fairness** (`FairSpec`). In the room, while timer events are pending one of
them is handled in the end: `time.AfterFunc` fires, and `run()` handles events
until the room is done. Which one is left open. No fairness is
assumed of players: they may never play, click, leave or disconnect.
`GameMovesOn` and `AbandonedGameCloses` therefore show what the watchdog
does alone. Clicks on "I am here" could defer a burn only `MaxRetries` times.
Offline, the deal animation, a bot's pause and the pause after a trick are
timers of the browser, hence weakly fair. In the client, a WebSocket that was told
to close ends and a reconnect timer fires (weak fairness), and a connection
that is tried again and again opens in the end (strong fairness). Nothing is assumed
of the person or of what the server answers. In `hub_channels` the goroutines
run, and a sender that waits at a channel gets in if space is made again and
again (strong fairness: Go serves waiting senders in order).

### What the properties say

Engine: `CardsInOnePlace`, `FinishedAreEmptyHanded`, `TurnIsPlayable`,
`EverySeatActsOnce`;
about steps `OnlyLastHolderLoses` (a seat is named the loser only at a table nobody was
removed from and when it alone holds cards), `CardsLeaveForGood` (cards leave only with a dead trick or a
leaver, and never come back), `TurnSurvivesLeavers` (a leaver out of turn does
not move the turn), `WinnerLeads`. Room: `WatchdogArmed` (exactly one current
timer per turn and one at least per pause), `BurnedAfterWarning`,
`NotServedOnGoneSocket`, `DetachedByItsOwnSocket`,
`ResultsFit`. Hub: `WaitersFit` and `WaitsOnce` (lists never hold a full table
or a connection twice), `OnePlaceAtATime` (a new place replaces the earlier
one, one case excepted), `SeatsAreHeld` (lost and new connections change no
seat in a private room), `HostStays`, `ByUIDIsLatest` (a reconnecting user
reaches the latest game, whichever game is forgotten first).

Offline: `ReportIsFinal` (what was recorded of a game stays true to its end),
`PromptFits`, `IdleWatchFits` and `PauseIsItsOwn` (prompts, countdowns and
pauses belong to the game and turn on the table), `MemoryErrsByPilesOnly` (what bots
believe of other hands is wrong at most about cards a pile brought back), `BotsMoveOn` (no bot stalls),
`ImplementsTurnGame` (the rules are those of the server, without leavers).
Client: `SessionIsWhole`, `QueueIsOurs` (nothing asked for on a screen that was
left is still to be sent), `WaitersAreQueued` (whoever looks at the waiting
screen is in the queue or on the way there, unless an error is shown, the
connection broke, or the hub bound it to a game that was already over), `OpensOnlyOnline` (no socket
without a signed-in person on an online screen), `RequestsGoOut`. Results:
`StatsMatchGames`, `ListFits` (no gaps; repeats only for games recorded
meanwhile), `ReportedGameShown`. Each is stated in words above its definition.

### Where the code departs from its comments

Shown by a run:

* `engine.go:332`. A seat that stands last in the order and leaves out of turn
  settles the trick at once; the comment on line 333 says everyone else has
  already played. The seats between the turn and the leaver lose their move.
* `room.go:361`. Each forfeit during a pause schedules one more `evResolve`. The
  surplus one, having no generation, ends whichever pause is on when it fires.
* `room.go:390`. A room whose game is over sends `closeRoom` into the hub's
  channel before it closes `quit`, while the hub may be sending an event into
  that room's channel. With both channels full each waits for the other, and
  the hub serves nobody any more; `hub.go:310` says the hub lets go of the game.
* `GameScreen.jsx:212`. A bot that was thinking when the cards were dealt again
  plays a card of the old deal into the new one (`offline_redeal`); the card is
  then in two places, which `ai.js:24` excludes.
* `socket.js:49`. The close of an old WebSocket clears the reference to the new
  one, which then survives "fully tear down" (`client_orphan`).
* `OnlineGameScreen.jsx:147`. The prompt "play now or you'll be removed" covers
  the cards until a card is played (`client_prompt`).

Reached in the models, without a run of their own:

* `room.go:404`. A finisher that leaves is recorded as lost with its finisher's
  placement; the comment puts all losers at the bottom.
* `hub.go:118`. `joinQueue` leaves no other queue, and `createRoom` takes a
  client out of one queue only; line 156 says a client "can't be queued and
  hosting at once". A client that has asked for two sizes can host a room and
  be dealt into a public game at the same time, then into another; the first
  of its games to end sets `Client.room` to nil although it still plays in the
  other. `OnePlaceAtATime` excepts the request for a second size, and
  nothing else.
* `hub.go:119`. A user with two sockets may be dealt two seats of one game.
  `playerForUID` finds the first only (`room.go:66`): the second can neither play
  nor answer the prompt and is burned at its turn, and once a click has put
  the first seat on the second's socket, the disconnect of that socket detaches
  the first only and the second stays served on it. `NotServedOnGoneSocket` is about the first seat.
* `hub.go:77`. A socket that connects after a game is over and before its
  `closeRoom` is bound to that game for good: its requests are dropped as "already
  in a game" (line 109), without an error, until the user connects once more. A
  person who asks for a match on such a socket waits unqueued; `WaitersAreQueued`
  names the case as its exception (`srv.room[link.ws] = "past"`).
* `engine.js:127`. A seat that takes a pile gets suits back, but `suitVoids` is
  never cleared, so `isVoid` (`ai.js:40`) counts the seat as void for the rest of
  the game. `MemoryErrsByPilesOnly` bounds the error; it does not exclude it.
* `socket.js:54`. A reconnect asks for nothing again: a person whose connection
  broke on the waiting screen is out of the queue and waits on (`board.cut`).
* `App.jsx:157`. Leaving a game while the connection is down sends no `leave`
  that the server can match; the seat is removed by the watchdog.
* `GameScreen.jsx:143`. After a redeal that leaves phase and turn as they were,
  the away countdown is not armed (`IdleWatchFits` asks for it in the first
  game only).
* `AuthScreen.jsx:88`. After a failed sign-in Google's button is not drawn
  again until the consent is unticked and ticked: `busy` is no dependency of
  the effect that draws it (`Committed`).
* `HistoryScreen.jsx:38`. After a first page that failed the list says "No games
  played yet." and, as its end stays in view, never asks again.
* `App.jsx:104`. Two refreshes answered out of order leave the older statistics
  on the panel, and the two halves of one refresh may differ by a game.

## 4. Proofs

TLAPS proves, about `AceEngine`, for every number of seats and every deck that satisfy
`SeatsAssumption` (at least two seats) and `DeckAssumption` (finite suits and integer
ranks, the opening card is in the deck, at least one card per seat):

| theorem | states |
|---|---|
| `TypeCorrect` | `Spec => []TypeOK` |
| `CardsStayInOnePlace` | `Spec => []CardsInOnePlace` |
| `FinishedSeatsHoldNoCards` | `Spec => []FinishedAreEmptyHanded` |
| `NobodyIsPassedOver` | `Spec => []EverySeatActsOnce` |
| `TurnIsAlwaysPlayable` | `Spec => []TurnIsPlayable` |
| `LastHolderLoses` | `Spec => OnlyLastHolderLoses` |
| `CardsNeverComeBack` | `Spec => CardsLeaveForGood` |
| `LeaversLeaveTheTurn` | `Spec => TurnSurvivesLeavers` |
| `TrickWinnerLeads` | `Spec => WinnerLeads` |
| `EngineIsTurnGame` | `Spec => ImplementsTurnGame`: every step is one of `TurnGame` or a stutter |

The argument about the engine is one inductive invariant built in layers.

1. `TypeInv` adds two facts to `TypeOK`: during the pause `nextLeader` is a
   seat (`ResolveRoundLeads` makes it the leader), and the two lists hold no
   seat twice (otherwise `RemoveInt` would not be the code's `removeInt`).
   That the winner of a trick is a seat at all needs a highest card to exist;
   `HighestExists` shows it from the well-foundedness of the strict subset
   order, as induction over sets is not available to the prover.
2. `CardsInOnePlace` is inductive relative to `TypeInv`: a played card moves
   from hand to table (`PlayedCardMoves`), a pile goes to one hand
   (`PileKeepsHandsApart`), everything else only discards.
3. `FinishedAreEmptyHanded` is inductive relative to `TypeInv`; its initial
   state needs that a deal leaves no hand empty (`DealFillsHands`), its step that a taker
   takes a non-empty pile.
4. `EverySeatActsOnce` needs `IndexOK`: the index points into the order, and
   at its first place while the table is empty. Without the second half the
   reset of `TurnIdx` to 0 in `Forfeit` could hand the turn to a seat that has
   played. `RestAfterRemoval` is the index arithmetic of `Forfeit`.
5. `TurnIsPlayable` follows from 3 and 4. Together they are `EngineInv`, on
   which the rest is built.
6. `OnlyLastHolderLoses` follows from `EngineInv` in one step. A finisher list
   that is exact (3) makes the seats in the game the seats with cards, so that the
   "one left" of `setTerminalLoser` is the last holder.
7. `CardsLeaveForGood` and `TurnSurvivesLeavers` follow step by step. The second
   is again `RestAfterRemoval`: the seat at the adjusted index is the one
   that was at the old one.
8. `WinnerLeads` spans the pause. `TrickInv` remembers what `resolveTrick` found:
   in play the led suit is on the table as soon as a card is, and in the
   pause `nextLeader` is who played the highest card of it, back in the game
   after a cut. `LeaderIsFirst` shows that a leader still in the game is
   first in the new order.
9. The refinement maps `turn` to `CurrentSeat`. `SameTerms` rewrites the terms of
   `TurnGame` under the mapping; then one step per action: `PlayOn` and
   `PlayLast` are `Move`, the forfeits are `Leave`, the two branches of
   `ResolveRound` are `NextRound`. It needs `EngineInv` on both sides of a step: `Move` asks
   for a seat in the game before and after, which `TurnIsPlayable` provides.

About `Room` it proves, for every number of seats, every set of connections and
every number of retries (`RoomAssumption`: each connection has a user, no
connection has two seats of a table, "no socket" is none, at least one retry). A
user may have any number of seats:

| theorem | states |
|---|---|
| `RoomTypes` | `Spec => []TypeOK` |
| `WatchdogIsArmed` | `Spec => []WatchdogArmed` |
| `NobodyIsBurnedBySurprise` | `Spec => BurnedAfterWarning` |
| `SeatsAreServed` | `Spec => []NotServedOnGoneSocket` |
| `OwnSocketDetaches` | `Spec => DetachedByItsOwnSocket` |
| `RecordsFit` | `Spec => []ResultsFit` |

The inductive invariant `RoomInv` has four parts, each preserved given those before it.

1. `GameOK`: in play the turn is with a seat in the game, nobody finishes twice (so
   that placements are at most N), and a finished game's loser is the one its
   lists name or nobody.
2. `TimersOK`: `WatchdogArmed` alone is not inductive. `ClicksOK` adds that no
   click is spent before the prompt, without which the prompt could show
   with no click left; `RecordOK` keeps what `recordResult` wrote tied to the
   lists. `Continued` is the common end of play, forfeit and `onResolve`; a
   timer that is ignored is not the one the game waits for (`IgnoredKeepsWatch`).
3. `SocketsOK`: the served socket is the player's own, and that of a user's first
   seat is not gone. `ServedAnew` is what a click and a reconnect have in common;
   on a disconnect, `playerOf` finds the user's first seat if it is served there.
4. `WarningOK`: while the prompt shows, the seat in turn has been warned, or its
   player has been away all along and has not clicked.

"At least one retry" is needed. With none, the first click on "I am here" burns
its seat, and a player whose newer connection is down but who clicks on an
older one has not been sent the prompt; `BurnedAfterWarning` fails
for `MaxRetries = 0`. The server never runs so: `Load` replaces a value below 1
(`config.go:144`).

About `Hub` it proves, for any users, connections, table sizes and codes and any
number of games (`HubAssumption`: a socket has one user, "no socket" is none,
sizes from two up):

| theorem | states |
|---|---|
| `HubTypes` | `Spec => []TypeOK` |
| `WaitersAlwaysFit` | `Spec => []WaitersFit` |
| `EachWaitsOnce` | `Spec => []WaitsOnce` |
| `PlacesAreSwapped` | `Spec => OnePlaceAtATime` |
| `ReconnectsToLatest` | `Spec => []ByUIDIsLatest` |
| `SeatsStayHeld` | `Spec => SeatsAreHeld` |
| `HostsStay` | `Spec => HostStays` |

The invariant has three parts (`HubIsSafe` has the first two).

1. `ListsInv`: queues and private rooms, of connections the hub has accepted
   (`Known`). That is what makes `WaitsOnce` inductive: the
   connection that takes over a seat of its user is new and hence in no
   list. `Left` says what `removeFromPending` may do, for
   whichever entry the map yields first: a room that is left keeps its host,
   and a room that is gone was the leaver's own.
2. `GamesInv`: `ByUIDIsLatest` is inductive with the types of `rooms`, `room`
   and `byUID`. Most steps change games only in what the property does not look at
   (`Alike`: the same players, the same answer to "known to the hub"); `startRoom` adds the
   latest, and `closeRoom` forgets one, and a user's entry only if it is that game.
3. `BindInv`, for `OnePlaceAtATime`: a connection on its way back to a game
   (`ReturnsTo`) is bound to it, waits nowhere and is served in no other game. Without it
   the `setRoom` of a late reconnect could add a place, and a game that ends
   could release a connection another game needs. `Follows` sums up what a
   handler may do to who is served where.

About `Results` it proves, for every page size, number of games and number of
refreshes in flight (`ResultsAssumption`: a page size the server accepts,
some refresh):

| theorem | states |
|---|---|
| `StatsTheorem` | `Spec => []StatsMatchGames` |
| `ListTheorem` | `Spec => []ListFits` |
| `ReportTheorem` | `Spec => ReportedGameShown` |

Here the invariant has three parts, and the row and the table change in one
step or not at all (`TablesTogether`).

1. `GamesInv`: `StatsMatchGames` is inductive with the types. That the stored
   maximum stays the longest run needs the run at the end beside it
   (`LongestRunKept`): a run of n + 1 that a win completes ends at the last game.
2. `ListInv`: `NothingSkipped` alone is not inductive, since it does not say
   what the page in flight holds. `ListOK` names a game `t` down to which the
   list is complete: the next offset reaches no further than `t`
   (`t + offset <= n`, which a recorded game only loosens), and a page that was
   read starts at `t` or above. `Reaches` is the arithmetic of the new `t`, and
   that at most one page is in flight is what the guard of `loadMore` is for.
   `RepeatsAreNew` follows by counting (`ListedOnce`).
3. `FetchInv`: no refresh asks for more than is recorded, and what it has read
   includes what it was asked for.

About `ClientApp` it proves, for every number of WebSockets, buffered messages,
orphaned sockets, stray timers and account requests, and whichever calls the
person waits for (`AppAssumption`):

| theorem | states |
|---|---|
| `SessionsAreWhole` | `Spec => []SessionIsWhole` |
| `BufferIsOurs` | `Spec => []QueueIsOurs` |
| `WaitersAreWaitedFor` | `Spec => []WaitersAreQueued` |
| `SocketsOpenOnline` | `Spec => OpensOnlyOnline` |

The steps of the app are many and what they do to session and connection is
of few kinds; `StepKinds` sorts them (`Browses`, `Asks`, `SignsOut`, `Leaves`, `Sends`,
`Reconnects`, ...). The invariant `ClientInv` has four parts.

1. `SessionInv`: a session is being restored, or is there, or the sign-in screen is,
   and nothing of one is left in another. `AgreedOK` carries the tick from
   the moment a sign-in begins to its last answer, and `PanelsOK` says that a
   log-out or a deletion in flight began in a restored session: otherwise its answer
   could end a session half restored.
2. `LinkOK`: the object wants a connection only on the online screens and
   points to none that is closing. Without an orphaned socket the one it
   points to is the only live one, and an online screen does want one.
3. `ServerOK`: the server knows only of connections that have opened.
4. `WaitOK` strengthens `WaitersAreQueued` by what may be under way while the screen
   waits: nothing but requests for players, and no game but a past one on this connection. A
   "leave" still on its way would take the person out of the queue unseen
   (`WaitServed` is this step of the server).

`OpensOnlyOnline` then follows from the two kinds of steps that open anything
(`OpeningKinds`). It holds with orphaned sockets too, the other two do not, and
their hypothesis `orphans = 0` is the history of the disagreement
that the run `client_orphan` shows.

About `OfflineGame` it proves, for every deck and number of seats, any number of
deals on one screen and any `MaxRetries` (`SeatsAssumption`,
`LocalDeckAssumption`, `ScreenAssumption`):

| theorem | states |
|---|---|
| `PausesAreTheirOwn` | `Spec => []PauseIsItsOwn` |
| `PromptsFit` | `Spec => []PromptFits` |
| `CountdownsFit` | `Spec => []IdleWatchFits` |
| `ReportsAreFinal` | `Spec => []ReportIsFinal` |
| `MemoryErrsByPiles` | `Spec => []MemoryErrsByPilesOnly` |
| `OfflineIsTurnGame` | `Spec => ImplementsTurnGame`: every step is one of `TurnGame`, a new game or a stutter |

The engine here is a set of operators, so what keeps a game whole is stated of
one record and proved of each operator, apart from the screen.

1. `GameOK` is the type of a game with what the engine relies on (`ListsOK`,
   `TrickOK`, `ResultOK`). `NewGameOK`, `PlayedGameOK` and `ResolvedGameOK` show
   that `InitGame`, `ApplyPlay` and `ResolveRound` keep it. `ApplyPlay` does so
   for a card the seat does not hold as well, which is why none of the first
   four theorems excludes the stale move of `offline_redeal`.
2. `ScreenInv` adds what the effects keep. `Commit` comes with every event, so
   `CommitKeeps` is proved once, from what the handler leaves: a result told
   before still fits, the countdown fits or the turn has changed, the timer of
   a pause is its own. Each event then shows these three facts.
3. `ReportFits` is why a reported place is final: in play, no seat that finished
   before the reported one, or that one itself, is in the order. A taker is, so
   `RemoveInt` takes out a later place and the earlier ones do not move.
4. `GameStep` names what an event does to the game (nothing, a play, the end of
   a pause, a new deal), each a step of `TurnGame` (`StepPromised`).
5. `MemoryInv` is what the bots rely on. `DeckOK` holds until a seat plays a card it
   does not hold, hence the history variable `phantom`; with it
   `ExhaustedIsGone` is a count: three disjoint sets of cards of a suit that
   add up to all ranks are the whole suit. `VoidsOK` needs no such condition: a
   card comes to a hand with a pile only.

Model-checked only: the liveness properties (`GameMovesOn`,
`AbandonedGameCloses`, `BotsMoveOn`, `RequestsGoOut`), since liveness, fairness and
`ENABLED` are beyond the prover. Every other property of a passing run is
a theorem.

## 5. Plan

Done: the models and runs of sections 2 and 3 and the theorems of section 4.
Left, in this order:

1. That `EachCardOnce` fails only by a stale move: `DeckOK` says that no card is
   in two places unless `phantom`; that none is missing is not proved yet.
2. What the violated properties leave true, as theorems: `TornDown` and
   `AnsweredMayPlay` without an orphaned socket, and in `HubRoomChannels` that
   nobody waits for a channel with space.

## 6. Not modelled

* *`start()`* arms the first turn from the hub's goroutine while `run()` already
  serves events, without a lock; `Room` begins after it.
* *Message formats, rendering and `perspective`*: pure functions of the state.
  In the client, which cards are lit online, sound, vibration, sharing and the
  online deal animation.
* *Client pumps*: keep-alive and the bounded send buffer that cuts a slow client off.
* *A Google sign-in that an account request overtakes* ("Use another account"
  pressed while the account is being made, then Google's button): `SignIn` gives
  it up with the screen (`Enter`), while `AuthScreen.jsx:74-76` would run, change the
  token and the user, and show the lobby from wherever the person is by then
  (`App.jsx:174`), without tearing a connection down. `OpensOnlyOnline` and
  `SessionIsWhole` do not speak of this case.
* *Two seats of one user beside each other in the client's server*: `ClientApp`
  follows one seat per user, and no game the user is out of beside the next.
* *Accounts at the server*: the username is checked in one request and inserted in
  another, a unique key decides; the client's side is in `SignIn`.
* *Configuration, HTTP routing, static pages*, and `fe/ace-game.jsx`, an unused
  predecessor of the client.
* That a game ends at all is not claimed: cuts may send the same cards round for ever.

-------------------------------- MODULE Room --------------------------------
(***************************************************************************)
(* One online game, be/realtime/room.go: the goroutine that owns the game  *)
(* state, the turn watchdog (idle timer, prompt, grace timer, retries),    *)
(* the pause after a trick, players who leave, disconnect and reconnect,   *)
(* and the results written when the game is over.  The rules come from     *)
(* TurnGame, which AceEngine implements.                                   *)
(*                                                                         *)
(* Every action is one iteration of run(): the event and its whole         *)
(* handler.  An event still in the channel is one whose sender has not     *)
(* acted yet, since a handler reads nothing of an event but its sender,    *)
(* its card and its generation.                                            *)
(*                                                                         *)
(* A timer event is tested only for the equality of its gen with turnGen,  *)
(* so a timer carries that answer: it is live until turnGen moves on.  The *)
(* evResolve of a pause carries no generation; its live flag says, for     *)
(* the properties alone, that the pause it was scheduled in still lasts.   *)
(***************************************************************************)
EXTENDS TurnGame

CONSTANTS
  Users,        \* the users
  Sockets,      \* the connections they open over the game's life
  Owner,        \* Owner[c]: the user who opens c
  Tables,       \* the lists of members startRoom may hand to newRoom
  AwayAtStart,  \* the seats whose player may be away when the game starts
  MaxRetries    \* HubConfig.MaxRetries

NoSocket == <<>>

(* The hub deals no connection two seats of a game, but it may deal one     *)
(* user two, each on a connection of its own: it looks for a connection in  *)
(* a queue, not for its user.                                               *)
(* Load of config.go replaces a MaxTurnRetries below 1.                     *)
ASSUME RoomAssumption ==
  /\ Owner \in [Sockets -> Users]
  /\ NoSocket \notin Sockets
  /\ \A members \in Tables :
       /\ members \in [Seats -> Sockets]
       /\ \A s, t \in Seats : members[s] = members[t] => s = t
  /\ AwayAtStart \subseteq Seats
  /\ MaxRetries \in Nat \ {0}

VARIABLES
  uid,          \* players[s].uid
  client,       \* players[s].client: the socket the room talks to, or nil
  sock,         \* a socket is "new", "open", "gone" or already "lost" at start
  timers,       \* pending timers, fired or not, whose event is not handled yet
  prompting,    \* prompting: the "are you there?" prompt is showing
  retriesUsed,  \* retriesUsed
  reason,       \* how a seat went out: the reason of its player_left message
  warned,       \* the seats sendPrompt has addressed since the turn began
  record,       \* what recordResult wrote for each seat
  done          \* done: the room has closed

roomVars == <<uid, client, sock, timers, prompting, retriesUsed, reason,
              warned, record, done>>
vars == <<gameVars, roomVars>>

-----------------------------------------------------------------------------
(* Of a user's seats the first is the one playerForUID finds.               *)
IsFirst(s) == \A t \in Seats : uid[t] = uid[s] => s <= t

(* playerForUID(c.uid) is s.                                                *)
PlayerForUID(c, s) == uid[s] = Owner[c] /\ IsFirst(s)

(* playerOf(c) is s: the first seat that is served on c.                    *)
PlayerOf(c, s) ==
  client[s] = c /\ \A t \in Seats : client[t] = c => s <= t

-----------------------------------------------------------------------------
(* tag tells apart the evResolve timers that several forfeits of one pause  *)
(* schedule; it is 0 for the others.                                        *)
Timer ==
  [kind : {"idle", "grace"}, live : BOOLEAN, tag : {0}]
    \cup [kind : {"resolve"}, live : BOOLEAN, tag : 0 .. N]

Idle == [kind |-> "idle", live |-> TRUE, tag |-> 0]
Grace == [kind |-> "grace", live |-> TRUE, tag |-> 0]

Resolve(out) == [kind |-> "resolve", live |-> TRUE, tag |-> Cardinality(out)]

(* Broken: the generation does not move on.                                 *)
BumpForgotten(ts) == ts

(* turnGen++: no idle or grace timer scheduled so far matches any more.     *)
Bump(ts) ==
  {IF t.kind = "resolve" THEN t ELSE [t EXCEPT !.live = FALSE] : t \in ts}

(* The pause is over.                                                       *)
PauseOver(ts) ==
  {IF t.kind = "resolve" THEN [t EXCEPT !.live = FALSE] ELSE t : t \in ts}

(* sendPrompt reaches the seat in turn if it is connected.                  *)
Warn == warned' = IF client'[turn] = NoSocket THEN warned ELSE warned \cup {turn}

(* A turn begins with nobody warned.                                        *)
WarnedAfter == IF turn' = turn THEN warned ELSE {}

(* Broken: the next turn gets no timer, or the last prompt.                 *)
ArmTurnForgotten(ts) ==
  timers' = Bump(ts) /\ retriesUsed' = 0 /\ prompting' = FALSE
ArmTurnKeepsPrompt(ts) ==
  timers' = ts \cup {Grace} /\ retriesUsed' = 0 /\ prompting' = TRUE

(* armTurn: a fresh idle timer, no prompt and all retries.                  *)
ArmTurn(ts) ==
  /\ timers' = Bump(ts) \cup {Idle}
  /\ retriesUsed' = 0
  /\ prompting' = FALSE

-----------------------------------------------------------------------------
(* The end of the game: isLoss and recordResult.                            *)
IsLoss(s, out, last) == s \in out \/ s = last

(* Broken: every finisher is ranked by the length of the list; the bottom   *)
(* is off by one.                                                           *)
PlacementOfLast(s, fin) == IF s \in Range(fin) THEN Len(fin) ELSE N
PlacementBelow(s, fin) == IF s \in Range(fin) THEN IndexOf(fin, s) ELSE N + 1

(* Finishers are placed by finish order, everybody else at the bottom.      *)
Placement(s, fin) == IF s \in Range(fin) THEN IndexOf(fin, s) ELSE N

NoResult == [won |-> FALSE, placement |-> 0]

(* finishGame: every seat's result is recorded and the room is closed.  The *)
(* timers still pending find the room gone (post selects on quit).          *)
FinishGame(used) ==
  /\ done' = TRUE
  /\ retriesUsed' = used
  /\ timers' = {}
  /\ prompting' = FALSE
  /\ record' = [s \in Seats |->
                  [won |-> ~IsLoss(s, removed', loser'),
                   placement |-> Placement(s, finished')]]

(* What the handlers do once the engine has moved the game on, used being   *)
(* the retries spent so far.                                                *)
Continue(ts, used) ==
  \/ phase' = "playing" /\ ArmTurn(ts) /\ UNCHANGED <<record, done>>
  \/ /\ phase' = "result"
     /\ timers' = Bump(ts) \cup {Resolve(removed')}
     /\ prompting' = FALSE
     /\ retriesUsed' = used
     /\ UNCHANGED <<record, done>>
  \/ phase' = "gameOver" /\ FinishGame(used)

(* forfeit(seat, why).                                                      *)
Forfeit(s, why, ts, used) ==
  /\ Leave(s)
  /\ reason' = [reason EXCEPT ![s] = why]
  /\ warned' = WarnedAfter
  /\ Continue(ts, used)

-----------------------------------------------------------------------------
(* newRoom and start: every player sits on the socket that joined, and the  *)
(* opening turn is armed.  A private room holds the place of a member whose *)
(* socket was lost in the lobby; the disconnect of such a socket has been   *)
(* handled by the hub and never reaches the room.                           *)
Init ==
  /\ GameInit
  /\ \E members \in Tables, away \in SUBSET AwayAtStart :
       /\ uid = [s \in Seats |-> Owner[members[s]]]
       /\ client = members
       /\ sock = [c \in Sockets |->
                    IF c \notin Range(members) THEN "new"
                    ELSE IF \E s \in away : members[s] = c THEN "lost"
                    ELSE "open"]
  /\ timers = {Idle}
  /\ prompting = FALSE
  /\ retriesUsed = 0
  /\ reason = [s \in Seats |-> "none"]
  /\ warned = {}
  /\ record = [s \in Seats |-> NoResult]
  /\ done = FALSE

(* onPlay, for a card the engine accepts.  The seat is found by uid, so any *)
(* open socket of its player will do; a second seat of the same user is     *)
(* never found.  Other plays change nothing.                                *)
OnPlay(c) ==
  /\ ~done /\ sock[c] = "open"
  /\ \E s \in Seats : PlayerForUID(c, s) /\ Move(s)
  /\ warned' = WarnedAfter
  /\ Continue(timers, retriesUsed)
  /\ UNCHANGED <<uid, client, sock, reason>>

(* evLeave finds its player by socket: a leave sent on a socket that has    *)
(* been replaced is dropped.                                                *)
OnLeave(c) ==
  /\ ~done /\ sock[c] = "open"
  /\ \E s \in Seats :
       PlayerOf(c, s) /\ Forfeit(s, "left", timers, retriesUsed)
  /\ UNCHANGED <<uid, client, sock>>

(* Broken: the player is found by uid and so detached whatever socket went, *)
(* or never.                                                                *)
ClientDetached(c) ==
  [s \in Seats |-> IF PlayerForUID(c, s) THEN NoSocket ELSE client[s]]
ClientKept(c) == client

ClientAfterLoss(c) ==
  [s \in Seats |-> IF PlayerOf(c, s) THEN NoSocket ELSE client[s]]

(* onDisconnect: the seat is held, unless a reconnect has replaced c.       *)
OnDisconnect(c) ==
  /\ ~done /\ sock[c] = "open"
  /\ sock' = [sock EXCEPT ![c] = "gone"]
  /\ client' = ClientAfterLoss(c)
  /\ UNCHANGED <<gameVars, uid, timers, prompting, retriesUsed, reason,
                 warned, record, done>>

(* onReconnect: a player still in the game is served on the new socket, and *)
(* the prompt is shown again.                                               *)
OnReconnect(c) ==
  /\ ~done /\ sock[c] = "new"
  /\ sock' = [sock EXCEPT ![c] = "open"]
  /\ \E s \in Seats :
       /\ PlayerForUID(c, s)
       /\ client' = IF s \in removed THEN client ELSE [client EXCEPT ![s] = c]
       /\ IF prompting /\ s \notin removed THEN Warn ELSE UNCHANGED warned
  /\ UNCHANGED <<gameVars, uid, timers, prompting, retriesUsed, reason, record,
                 done>>

(* onImHere: each click within MaxRetries buys another grace period.        *)
OnImHere(c) ==
  /\ ~done /\ sock[c] = "open"
  /\ prompting /\ turn \in Seats /\ PlayerForUID(c, turn)
  /\ client' = [client EXCEPT ![turn] = c]
  /\ UNCHANGED <<uid, sock>>
  /\ \/ /\ retriesUsed + 1 > MaxRetries
        /\ Forfeit(turn, "timeout", timers, retriesUsed + 1)
     \/ /\ retriesUsed + 1 <= MaxRetries
        /\ retriesUsed' = retriesUsed + 1
        /\ timers' = Bump(timers) \cup {Grace}
        /\ Warn
        /\ UNCHANGED <<gameVars, prompting, reason, record, done>>

-----------------------------------------------------------------------------
(* A timer event that no longer matters is handled and dropped.             *)
Ignored(t) ==
  /\ timers' = timers \ {t}
  /\ UNCHANGED <<gameVars, uid, client, sock, prompting, retriesUsed, reason,
                 warned, record, done>>

(* Broken: nobody is prompted while the seat in turn is disconnected.       *)
IsCurrentIfServed(t) ==
  t.live /\ phase = "playing" /\ client[turn] # NoSocket

IsCurrent(t) == t.live /\ phase = "playing"

(* onIdle: the prompt is sent and the grace period begins.                  *)
OnIdle(t) ==
  /\ ~done /\ t \in timers /\ t.kind = "idle"
  /\ \/ /\ IsCurrent(t)
        /\ prompting' = TRUE
        /\ timers' = (timers \ {t}) \cup {Grace}
        /\ UNCHANGED <<gameVars, uid, client, sock, retriesUsed, reason,
                       record, done>>
        /\ Warn
     \/ ~IsCurrent(t) /\ Ignored(t)

(* onGrace: nobody answered the prompt, the seat is burned.                 *)
OnGrace(t) ==
  /\ ~done /\ t \in timers /\ t.kind = "grace"
  /\ \/ /\ IsCurrent(t) /\ prompting
        /\ Forfeit(turn, "timeout", timers \ {t}, retriesUsed)
        /\ UNCHANGED <<uid, client, sock>>
     \/ ~(IsCurrent(t) /\ prompting) /\ Ignored(t)

(* onResolve: any evResolve ends the pause, whichever pause scheduled it.   *)
OnResolve(t) ==
  /\ ~done /\ t \in timers /\ t.kind = "resolve"
  /\ \/ /\ NextRound
        /\ warned' = WarnedAfter
        /\ Continue(PauseOver(timers \ {t}), retriesUsed)
        /\ UNCHANGED <<uid, client, sock, reason>>
     \/ phase # "result" /\ Ignored(t)

OnTimer(t) == OnIdle(t) \/ OnGrace(t) \/ OnResolve(t)

Next ==
  \/ \E c \in Sockets :
       \/ OnPlay(c) \/ OnLeave(c) \/ OnImHere(c)
       \/ OnDisconnect(c) \/ OnReconnect(c)
  \/ \E t \in timers : OnTimer(t)

Spec == Init /\ [][Next]_vars

(* The Go runtime fires every timer and run() handles every event: while    *)
(* timers are pending, one of them is handled in the end, not necessarily   *)
(* the oldest.  Players need do nothing.                                    *)
FairSpec == Spec /\ WF_vars(\E t \in timers : OnTimer(t))

-----------------------------------------------------------------------------
(* Every variable keeps its type.                                           *)
TypeOK ==
  /\ phase \in {"playing", "result", "gameOver"}
  /\ turn \in Seats \cup {NoSeat} /\ loser \in Seats \cup {NoSeat}
  /\ finished \in Seq(Seats) /\ removed \subseteq Seats
  /\ uid \in [Seats -> Users]
  /\ client \in [Seats -> Sockets \cup {NoSocket}]
  /\ sock \in [Sockets -> {"new", "open", "gone", "lost"}]
  /\ timers \subseteq Timer
  /\ prompting \in BOOLEAN /\ done \in BOOLEAN
  /\ retriesUsed \in 0 .. MaxRetries + 1
  /\ reason \in [Seats -> {"none", "left", "timeout"}]
  /\ warned \subseteq Seats
  /\ record \in [Seats -> [won : BOOLEAN, placement : 0 .. N]]

(* An open game always has the timer that will move it on: in play the idle *)
(* timer of this turn before the prompt and its grace timer after it, never *)
(* both; during the pause an evResolve.  Whoever is asked has a click left  *)
(* or the last grace period: clicks of earlier turns do not count.  A game  *)
(* that is over is closed.                                                  *)
(* However plays, retries, forfeits and stale timers interleave, no handler *)
(* leaves the game waiting for a player alone.                              *)
WatchdogArmed ==
  /\ ~done /\ phase = "playing" =>
       {t \in timers : t.live /\ t.kind # "resolve"} =
         {IF prompting THEN Grace ELSE Idle}
  /\ ~done /\ prompting => retriesUsed <= MaxRetries
  /\ ~done /\ phase = "result" =>
       ~prompting /\ \E t \in timers : t.kind = "resolve"
  /\ phase = "gameOver" <=> done

(* A seat is burned for a missing answer on its own turn only, and if its   *)
(* player is connected only after the prompt of that turn was sent to it,   *)
(* be it after a reconnect: a stale timer of an earlier turn burns nobody   *)
(* by surprise.                                                             *)
BurnedAfterWarning ==
  [][\A s \in Seats :
       reason'[s] = "timeout" /\ reason[s] # "timeout" =>
         turn = s /\ (s \in warned \/ client'[s] = NoSocket)]_vars

(* The socket a seat is served on is one of its player's own, and, where    *)
(* the user has no seat before it, not one whose disconnect the room has    *)
(* handled: no click or late reconnect puts a seat back on a socket that is *)
(* gone.  A user's second seat may be left on it: once a click has put the  *)
(* first seat on the second's socket, its disconnect detaches the first.    *)
NotServedOnGoneSocket ==
  ~done => \A s \in Seats :
    client[s] # NoSocket =>
      /\ Owner[client[s]] = uid[s]
      /\ IsFirst(s) => sock[client[s]] \in {"open", "lost"}

(* A player loses the connection to the room only with the very socket it   *)
(* was served on: the late disconnect of a replaced socket changes nothing. *)
DetachedByItsOwnSocket ==
  [][\A s \in Seats :
       client[s] # NoSocket /\ client'[s] = NoSocket =>
         sock'[client[s]] = "gone"]_vars

(* The recorded results fit together: no two finishers share a placement,   *)
(* and a player who stayed and is recorded as a loser is the one seat of a  *)
(* complete table that never ran out of cards.                              *)
ResultsFit ==
  done =>
    /\ \A s, t \in Seats : s # t /\ record[s].placement = record[t].placement
                           => record[s].placement = N
    /\ \A s \in Seats \ removed : ~record[s].won =>
         removed = {} /\ Range(finished) = Seats \ {s}

(* A turn nobody plays ends all the same, by the burn at the latest, and so *)
(* does the pause after a trick: the turn moves on again and again until    *)
(* the room is closed.                                                      *)
GameMovesOn == <>done \/ []<><<turn' # turn>>_turn

(* A game all of whose players are gone for good is closed.                 *)
AbandonedGameCloses ==
  (\A c \in Sockets : Owner[c] \in Range(uid) => sock[c] \in {"gone", "lost"})
    ~> done

-----------------------------------------------------------------------------
(* What be/realtime/room.go says and the code does not do.                  *)

(* "evResolve // result pause elapsed" (room.go:23): the event that ends a  *)
(* pause was scheduled in that pause.                                       *)
PauseRunsItsTime ==
  [][\A t \in timers : OnResolve(t) /\ phase = "result" => t.live]_vars
=============================================================================

---------------------------- MODULE OfflineGame -----------------------------
(***************************************************************************)
(* The offline game screen, fe/src/screens/GameScreen.jsx: one person at   *)
(* seat 0 against bots, on the engine of LocalEngine and the decisions of  *)
(* Bots.                                                                   *)
(*                                                                         *)
(* An action is one event, a click or a timer, together with the effects   *)
(* React runs when the new state is committed, which is before the next    *)
(* event: Commit is that part.  Countdowns are single timers.  Two facts   *)
(* about their lengths are used.  A bot pauses 1.2 s at most and the deal  *)
(* animation lasts about 2.9 s, so no bot that was thinking when the deal  *)
(* began is still thinking when it ends; and a person is warned after      *)
(* 20 s, never during the animation.                                       *)
(*                                                                         *)
(* A set holds a card once.  A hand could hold one twice only after a      *)
(* stale move (see phantom).                                               *)
(***************************************************************************)
EXTENDS Bots

CONSTANTS
  MaxRetries,  \* maxRetries: how often "I'm Here" is accepted in one turn
  MaxDeals,    \* bound: how many games are dealt on one screen
  NoTimer      \* no bot is thinking

ASSUME ScreenAssumption == MaxRetries \in Nat /\ MaxDeals \in Nat \ {0}

VARIABLES
  game,      \* game, a record of LocalEngine
  dealing,   \* dealing: the deal animation covers the board
  inFlight,  \* aiInFlight.current
  botTimer,  \* the pause of a bot, with the seat and card its callback plays
  pauses,    \* how many timers that end a pause are armed
  reported,  \* reportedRef.current, and what onGameEnd was told of this game
  watch,     \* watchShownRef.current, watchPrompt and watching
  confirm,   \* the open question: confirmLeave, confirmRedeal or neither
  afk,       \* afkTimerRef, afkPhase and afkRetries
  exited,    \* onExit was called and the screen is gone
  deals,     \* history: how many games were dealt
  phantom    \* history: a bot played a card of an earlier deal in this one

uiVars == <<watch, confirm, afk, exited>>
vars == <<game, dealing, inFlight, botTimer, pauses, reported, uiVars, deals,
          phantom>>

Me == 0
MyTurn(g) == CurrentSeat(g) = Me
BotsTurn(g) == CurrentSeat(g) \notin {Me, NoSeat}

Unreported == [won |-> FALSE, placement |-> 0]
NotWatching == [shown |-> FALSE, prompt |-> FALSE, watching |-> FALSE]

(* resetAfk and armAfk.                                                     *)
ResetAfk == [timer |-> FALSE, phase |-> "none", retries |-> 0]
ArmAfk(a) == [a EXCEPT !.timer = TRUE, !.phase = "none"]

-----------------------------------------------------------------------------
(* The effects, each a function of the committed game and the state it      *)
(* guards.  An effect that lists dependencies runs when one of them changed.*)

TurnChanged(g) == g.phase # game.phase \/ g.turnIdx # game.turnIdx

(* Broken: a finish is reported in the middle of the trick it happened in.  *)
ReportAtOnce(g, rep) ==
  IF rep # Unreported THEN rep
  ELSE IF Me \in Range(g.finished)
       THEN [won |-> TRUE, placement |-> IndexOf(g.finished, Me)]
  ELSE IF g.phase = "gameOver"
       THEN [won |-> g.loser # Me, placement |-> N]
  ELSE rep

(* A finish counts once its trick is resolved, a loss when the game is over.*)
ReportEffect(g, rep) ==
  IF rep # Unreported THEN rep
  ELSE IF g.phase \in {"result", "gameOver"} /\ Me \in Range(g.finished)
       THEN [won |-> TRUE, placement |-> IndexOf(g.finished, Me)]
  ELSE IF g.phase = "gameOver"
       THEN [won |-> g.loser # Me, placement |-> N]
  ELSE rep

(* Broken: a seat that takes a pile goes on watching.                       *)
WatchEffectKeeps(g, w) ==
  IF /\ Me \in Range(g.finished) /\ ~w.shown
     /\ g.phase # "gameOver" /\ N - Len(g.finished) > 1
  THEN [w EXCEPT !.shown = TRUE, !.prompt = TRUE]
  ELSE w

(* The prompt opens when seat 0 runs out of cards while the others play on, *)
(* and closes when a cut brings seat 0 back.                                *)
WatchEffect(g, w) ==
  IF Me \notin Range(g.finished) THEN NotWatching
  ELSE IF ~w.shown /\ g.phase # "gameOver" /\ N - Len(g.finished) > 1
       THEN [w EXCEPT !.shown = TRUE, !.prompt = TRUE]
  ELSE w

AfkEffect(g, a) ==
  IF ~TurnChanged(g) THEN a
  ELSE IF MyTurn(g) THEN ArmAfk(a)
  ELSE ResetAfk

(* Broken: leaving the pause does not clear its timer.                      *)
PauseEffectNoCleanup(g, armed) ==
  IF g.phase = "result" /\ game.phase # "result" THEN armed + 1 ELSE armed

(* The timer of a pause is cleared when the phase changes.                  *)
PauseEffect(g, armed) ==
  IF g.phase = game.phase THEN armed
  ELSE IF g.phase = "result" THEN 1
  ELSE 0

(* The two effects that set a bot thinking: one on pendingAI, one that sets *)
(* pendingAI when nothing did.                                              *)
StartsBot(g, stillDealing, busy) ==
  /\ ~stillDealing /\ ~busy
  /\ BotsTurn(g)
  /\ \/ TurnChanged(g)
     \/ stillDealing # dealing
     \/ g.pendingAI /\ ~game.pendingAI

(* Everything that follows the commit of game g: the arguments are what the *)
(* event's handler left.  thinking is the bot pause still running.          *)
Commit(g, stillDealing, busy, thinking, armed, rep, w, a) ==
  \E starts \in {StartsBot(g, stillDealing, busy)} :
      /\ game' = [g EXCEPT !.pendingAI = @ \/ starts]
      /\ dealing' = stillDealing
      /\ inFlight' = (busy \/ starts)
      /\ IF starts
         THEN \E card \in PickMove(g, CurrentSeat(g)) :
                botTimer' = [seat |-> CurrentSeat(g), card |-> card]
         ELSE botTimer' = thinking
      /\ pauses' = PauseEffect(g, armed)
      /\ reported' = ReportEffect(g, rep)
      /\ watch' = WatchEffect(g, w)
      /\ afk' = AfkEffect(g, a)

-----------------------------------------------------------------------------
Init ==
  /\ \E hands \in Deals : game = InitGame(hands)
  /\ dealing = TRUE
  /\ inFlight = FALSE
  /\ botTimer = NoTimer
  /\ pauses = 0
  /\ reported = Unreported
  /\ watch = NotWatching
  /\ confirm = "none"
  /\ afk = IF MyTurn(game) THEN ArmAfk(ResetAfk) ELSE ResetAfk
  /\ exited = FALSE
  /\ deals = 1
  /\ phantom = FALSE

(* Nothing covers the board: the deal animation and the overlays do.        *)
BoardInReach ==
  ~exited /\ ~dealing /\ ~watch.prompt /\ confirm = "none" /\ afk.phase # "popup"

(* The animation's onDone.                                                  *)
DealDone ==
  /\ ~exited /\ dealing
  /\ botTimer = NoTimer
  /\ Commit(game, FALSE, inFlight, botTimer, pauses, reported, watch, afk)
  /\ UNCHANGED <<confirm, exited, deals, phantom>>

(* validSet: the cards of seat 0 that are lit.                              *)
ValidSet ==
  LET suited == OfSuit(game.hands[Me], game.ledSuit)
  IN  IF ~MyTurn(game) THEN {}
      ELSE IF game.ledSuit # NoSuit /\ suited # {} THEN suited
      ELSE game.hands[Me]

(* A card of FannedHand that answers a click.                               *)
Clickable(card) == card \in ValidSet /\ MyTurn(game)

(* onPlay: seat 0 clicks a card it may play.                                *)
PlayCard(card) ==
  /\ BoardInReach
  /\ Clickable(card)
  /\ Commit(ApplyPlay(game, Me, card), dealing, inFlight, botTimer, pauses,
            reported, watch, ResetAfk)
  /\ UNCHANGED <<confirm, exited, deals, phantom>>

(* Broken: the callback of a bot's timer leaves aiInFlight set.             *)
FreedNever == inFlight

(* The callback of a bot's timer takes the game over for the next one.      *)
Freed == FALSE

(* The callback asks whether it is the seat's turn, never which deal it is. *)
BotPlays ==
  /\ ~exited /\ botTimer # NoTimer
  /\ \E g \in {IF CurrentSeat(game) = botTimer.seat
                THEN [ApplyPlay(game, botTimer.seat, botTimer.card)
                        EXCEPT !.pendingAI = FALSE]
                ELSE game} :
       /\ Commit(g, dealing, Freed, NoTimer, pauses, reported, watch, afk)
       /\ phantom' = (phantom \/ (g # game /\ botTimer.card \notin
                                             game.hands[botTimer.seat]))
  /\ UNCHANGED <<confirm, exited, deals>>

(* The timer of a pause: the next trick, or the end of the game.            *)
PauseOver ==
  /\ ~exited /\ pauses > 0
  /\ \E next \in {ResolveRound(game)} :
       Commit(IF game.phase # "result" THEN game
              ELSE [next EXCEPT !.pendingAI = BotsTurn(next)],
              dealing, inFlight, botTimer, pauses - 1, reported, watch, afk)
  /\ UNCHANGED <<confirm, exited, deals, phantom>>

-----------------------------------------------------------------------------
(* A new deal.                                                              *)

(* Broken: a new deal keeps the countdown of the old one.                   *)
AfkOfNewGameKept == afk
AfkOfNewGame == ResetAfk

StartNewGame ==
  /\ deals < MaxDeals
  /\ \E hands \in Deals :
       Commit(InitGame(hands), TRUE, FALSE,
              botTimer, pauses, Unreported, NotWatching, AfkOfNewGame)
  /\ confirm' = "none"
  /\ deals' = deals + 1
  /\ phantom' = FALSE
  /\ UNCHANGED exited

(* handleRedealClick.                                                       *)
ClickRedeal ==
  /\ BoardInReach
  /\ \/ /\ game.phase # "gameOver"
        /\ confirm' = "redeal"
        /\ UNCHANGED <<game, dealing, inFlight, botTimer, pauses, reported,
                       watch, afk, exited, deals, phantom>>
     \/ /\ game.phase = "gameOver"
        /\ StartNewGame

(* An answer to an open question is in reach unless the away popup is up.   *)
Asked(question) == ~exited /\ confirm = question /\ afk.phase # "popup"

ConfirmRedeal == Asked("redeal") /\ StartNewGame

KeepPlaying ==
  /\ \E question \in {"leave", "redeal"} : Asked(question)
  /\ confirm' = "none"
  /\ UNCHANGED <<game, dealing, inFlight, botTimer, pauses, reported, watch,
                 afk, exited, deals, phantom>>

-----------------------------------------------------------------------------
(* Leaving.                                                                 *)

OnExit ==
  /\ exited' = TRUE
  /\ UNCHANGED <<game, dealing, inFlight, botTimer, pauses, reported, watch,
                 confirm, afk, deals, phantom>>

(* handleLobbyClick asks first while seat 0 holds cards.                    *)
ClickLobby ==
  /\ BoardInReach
  /\ \/ /\ game.hands[Me] # {}
        /\ confirm' = "leave"
        /\ UNCHANGED <<game, dealing, inFlight, botTimer, pauses, reported,
                       watch, afk, exited, deals, phantom>>
     \/ /\ game.hands[Me] = {}
        /\ OnExit

(* The banner of a game that is over offers both without asking.            *)
Banner ==
  /\ BoardInReach
  /\ game.phase = "gameOver"
  /\ StartNewGame \/ OnExit

ConfirmLeave == Asked("leave") /\ OnExit

(* The watch prompt: stay, or leave by the button or the countdown.         *)
WatchGame ==
  /\ ~exited /\ watch.prompt
  /\ watch' = [watch EXCEPT !.prompt = FALSE, !.watching = TRUE]
  /\ UNCHANGED <<game, dealing, inFlight, botTimer, pauses, reported, confirm,
                 afk, exited, deals, phantom>>

WatchEnds == ~exited /\ watch.prompt /\ OnExit

(* The away countdown: a warning on the board, then a popup, then the exit. *)
AfkWarns ==
  /\ ~exited /\ ~dealing /\ afk.timer
  /\ afk' = [afk EXCEPT !.timer = FALSE, !.phase = "board"]
  /\ UNCHANGED <<game, dealing, inFlight, botTimer, pauses, reported, watch,
                 confirm, exited, deals, phantom>>

AfkPopsUp ==
  /\ ~exited /\ afk.phase = "board"
  /\ afk' = [afk EXCEPT !.phase = "popup"]
  /\ UNCHANGED <<game, dealing, inFlight, botTimer, pauses, reported, watch,
                 confirm, exited, deals, phantom>>

ImHere ==
  /\ ~exited /\ afk.phase = "popup"
  /\ \/ /\ afk.retries + 1 > MaxRetries
        /\ OnExit
     \/ /\ afk.retries + 1 <= MaxRetries
        /\ afk' = ArmAfk([afk EXCEPT !.retries = @ + 1])
        /\ UNCHANGED <<game, dealing, inFlight, botTimer, pauses, reported,
                       watch, confirm, exited, deals, phantom>>

AfkEnds == ~exited /\ afk.phase = "popup" /\ OnExit

-----------------------------------------------------------------------------
Next ==
  \/ DealDone
  \/ \E card \in Card : PlayCard(card)
  \/ BotPlays
  \/ PauseOver
  \/ ClickRedeal \/ ConfirmRedeal \/ KeepPlaying
  \/ ClickLobby \/ ConfirmLeave \/ Banner
  \/ WatchGame \/ WatchEnds
  \/ AfkWarns \/ AfkPopsUp \/ ImHere \/ AfkEnds

(* Timers fire; a person need not do anything.                              *)
Fairness == WF_vars(DealDone) /\ WF_vars(BotPlays) /\ WF_vars(PauseOver)

Spec == Init /\ [][Next]_vars /\ Fairness

-----------------------------------------------------------------------------
(* Properties.                                                              *)

(* What onGameEnd was told stays true to the end of the game: a reported    *)
(* winner keeps that place among the finished and is never the loser, a     *)
(* reported loser is the loser, and a game that is over was reported.       *)
(* The effect that reports (GameScreen.jsx:97) runs long before the end.    *)
ReportIsFinal ==
  /\ reported.won => /\ Me \in Range(game.finished)
                     /\ IndexOf(game.finished, Me) = reported.placement
                     /\ game.loser # Me
  /\ (reported # Unreported /\ ~reported.won) => game.loser = Me
  /\ game.phase = "gameOver" => reported # Unreported

(* The prompt that offers to leave, and the watching that follows it, are   *)
(* for a person without cards: a cut that hands seat 0 the pile takes both  *)
(* back (GameScreen.jsx:125), and so does a new deal.                       *)
PromptFits ==
  watch.prompt \/ watch.watching =>
    Me \in Range(game.finished) /\ game.hands[Me] = {}

(* The away countdown runs in no turn but the person's own, and in the      *)
(* first game it runs in each of these, so that nobody who is gone keeps    *)
(* the bots waiting (GameScreen.jsx:143).                                   *)
IdleWatchFits ==
  LET counting == afk.timer \/ afk.phase # "none"
  IN  /\ counting => MyTurn(game)
      /\ (MyTurn(game) /\ deals = 1) => counting

(* A pause has one timer, its own: none is left over from a trick that a    *)
(* new deal interrupted (GameScreen.jsx:192).                               *)
PauseIsItsOwn == pauses = IF game.phase = "result" THEN 1 ELSE 0

(* What the bots know of the other hands, and how far they may be wrong.    *)
(* A suit whose cards all lie in my hand, on the table or on the dead pile  *)
(* is in no other hand (ai.js:23), unless a stale move broke the deck.  A   *)
(* seat that cut a suit is taken to be void in it (ai.js:40) for the rest   *)
(* of the game, which a pile it takes makes wrong, for suitVoids is never   *)
(* cleared; but every card of the suit it then holds was played in the open *)
(* and is among the cards the bots have seen.                               *)
MemoryErrsByPilesOnly ==
  /\ (game.phase = "playing" /\ ~phantom) =>
       \A me \in Seats : \A suit \in ExhaustedSuits(game, me) :
         \A p \in Seats \ {me} : OfSuit(game.hands[p], suit) = {}
  /\ \A p \in Seats : \A suit \in game.suitVoids[p] :
       OfSuit(game.hands[p], suit) \subseteq game.roundHistory

(* A bot whose turn it is moves, whatever the person clicks meanwhile: the  *)
(* flag that keeps bots from moving twice (GameScreen.jsx:199) is never     *)
(* left set, and one of two effects always starts the next bot.             *)
BotsMoveOn ==
  \A s \in Seats \ {Me} :
    CurrentSeat(game) = s ~> (CurrentSeat(game) # s \/ exited)

(* The offline game keeps what the online engine promises its room, with    *)
(* nobody removed and a new game whenever the person asks for one.          *)
Promise == INSTANCE TurnGame WITH
  phase <- game.phase, turn <- CurrentSeat(game), finished <- game.finished,
  removed <- {}, loser <- game.loser

ImplementsTurnGame ==
  /\ Promise!GameInit
  /\ [][Promise!GameNext \/ Promise!GameInit']_(Promise!gameVars)

(* What ai.js:24-26 takes for granted: every card is in one place.          *)
EachCardOnce ==
  game.phase = "playing" =>
    \A c \in Card :
      Cardinality({s \in Seats : c \in game.hands[s]})
        + Cardinality({p \in game.roundCards : p.card = c})
        + Cardinality(game.discard \cap {c}) = 1
=============================================================================

----------------------------- MODULE ClientApp ------------------------------
(***************************************************************************)
(* One person's app: App.jsx with the lobby and its menus                  *)
(* (screens/Lobby.jsx), the waiting screens (WaitingRoom.jsx,              *)
(* RoomLobby.jsx), the online board (OnlineGameScreen.jsx), the settings   *)
(* (SettingsPanel.jsx) and the hooks of the native shell (native/index.js),*)
(* on top of the connection of GameSocket and the session of SignIn.       *)
(*                                                                         *)
(* The server is reduced to srv, what be/realtime holds of this one user;  *)
(* Hub and Room have it in full.  A message from the server arrives when   *)
(* it is sent, or never, if the WebSocket is not open; what the app sends  *)
(* is on its way for a while and is lost if the connection is.  The server *)
(* learns that a connection has ended when the app does.                   *)
(***************************************************************************)
EXTENDS GameSocket, SignIn, Functions

CONSTANTS
  MaxOrphans,  \* bound: how often a socket is orphaned, see Ends
  Waits        \* bound: the calls whose answer the person waits for in the
               \* lobby's panels

ASSUME AppAssumption ==
  /\ MaxOrphans \in Nat
  /\ Waits \subseteq {"logout", "delete"}

VARIABLES
  nav,       \* where the person is: screen, and what is open on top of it
  board,     \* onlineError, and what the online board shows
  link,      \* the GameSocket
  ending,    \* the call of handleLogout or handleDelete in flight, if any
  srv,       \* what the server has of this user
  orphans    \* history: how often this.ws was cleared while its socket lived

appVars == <<nav, board, link, ending, srv, orphans>>
vars == <<signInVars, appVars>>

OnlineScreens == {"waiting", "room", "online"}

(* screen; showOnline, onlineMode and showPractice of the lobby as one menu;*)
(* showSettings, showHistory and showHowTo, of which one is open at a time; *)
(* confirmExit, and confirmDelete of the settings.                          *)
FirstView ==
  [screen |-> "lobby", menu |-> "none", overlay |-> "none", exit |-> FALSE,
   delete |-> FALSE]

(* over (isOver), prompt (onlinePrompt), confirm (confirmLeave), error as   *)
(* far as it is shown, and cut, a history: the connection has broken since  *)
(* a match was asked for.                                                   *)
EmptyBoard ==
  [over |-> FALSE, prompt |-> FALSE, confirm |-> FALSE, error |-> FALSE,
   cut |-> FALSE]

(* queued: the connections in a matchmaking queue.  seat: a place in a      *)
(* private room or in a game, or in a game this user is out of or that is   *)
(* over, as long as byUID names it; at: the connection it is served on;     *)
(* prompt: whether this user was asked to move, and has said "I am here".   *)
(* room: Client.room of each connection, "game" for the game of the seat,   *)
(* "past" for a game that is never going to let go of it.                   *)
NoSeat ==
  [queued |-> {}, seat |-> "none", at |-> NoSocket, prompt |-> "off",
   room |-> [s \in Sockets |-> "none"]]

Init ==
  /\ SignInInit
  /\ nav = FirstView
  /\ board = EmptyBoard
  /\ link = NewGameSocket
  /\ ending = "none"
  /\ srv = NoSeat
  /\ orphans = 0

(* A screen of the lobby goes with the lobby.                               *)
Goto(screen) == [nav EXCEPT !.screen = screen, !.menu = "none"]

-----------------------------------------------------------------------------
(* The messages App subscribes to while somebody is signed in: what each    *)
(* does to the screen and to the board.  "resume" is the start message of a *)
(* reconnect and the prompt that follows it.                                *)

NavOn(kind) ==
  CASE kind \in {"start", "resume"} -> Goto("online")
    [] kind = "room_lobby"          -> Goto("room")
    [] OTHER                        -> nav

BoardOn(kind) ==
  CASE kind \in {"start", "resume"} ->
         [EmptyBoard EXCEPT !.prompt = kind = "resume",
            !.confirm = nav.screen = "online" /\ board.confirm]
    [] kind = "room_lobby" -> EmptyBoard
    [] kind = "error"      ->
         [board EXCEPT !.error = nav.screen \in {"waiting", "room"}]
    [] kind = "prompt"     -> [board EXCEPT !.prompt = TRUE]
    [] kind = "no_prompt"  -> [board EXCEPT !.prompt = FALSE]
    [] kind = "game_over"  -> [board EXCEPT !.over = TRUE, !.prompt = FALSE]
    [] OTHER               -> board

(* A message of this kind goes out on connection s.                         *)
Tell(s, kind) ==
  IF user /\ IsOpen(link', s)
  THEN nav' = NavOn(kind) /\ board' = BoardOn(kind)
  ELSE UNCHANGED <<nav, board>>

-----------------------------------------------------------------------------
(* The lobby and what opens over it.  Bound: as long as the browser holds all*)
(* the WebSockets it may, the person waits too.                             *)

InLobby ==
  /\ boot = "done"
  /\ user
  /\ nav.screen = "lobby"
  /\ nav.overlay = "none"
  /\ ~nav.exit
  /\ ending \notin Waits
  /\ Unused(link) # {}

Look(view) ==
  /\ nav' = view
  /\ UNCHANGED <<signInVars, board, link, ending, srv, orphans>>

MenuSteps ==
  {<<"none", "menu">>, <<"menu", "none">>,
   <<"menu", "quick">>, <<"quick", "menu">>,
   <<"menu", "friends">>, <<"friends", "menu">>,
   <<"friends", "create">>, <<"create", "friends">>,
   <<"friends", "join">>, <<"join", "friends">>,
   <<"none", "practice">>}

OpenMenu ==
  /\ InLobby
  /\ \E step \in MenuSteps :
       nav.menu = step[1] /\ Look([nav EXCEPT !.menu = step[2]])

(* connect, send, and on to the screen that waits for the answer.  "room"   *)
(* stands for create_room and for join_room, which the server answers alike.*)
Ask(kind, screen) ==
  /\ CanOpen(link)
  /\ LET l == Connect(link, token)
     IN CanSend(l) /\ link' = Send(l, kind)
  /\ nav' = Goto(screen)
  /\ board' = EmptyBoard
  /\ UNCHANGED <<signInVars, ending, srv, orphans>>

PlayOnline == InLobby /\ nav.menu = "quick" /\ Ask("join_queue", "waiting")
CreateRoom == InLobby /\ nav.menu = "create" /\ Ask("room", "room")
JoinRoom == InLobby /\ nav.menu = "join" /\ Ask("room", "room")

(* An offline game is OfflineGame; here it is a screen with a way out, which*)
(* its idle timer may take too.                                             *)
StartGame == Look(Goto("game"))
ReadHowTo == Look([nav EXCEPT !.menu = "none", !.overlay = "howto"])

DealAndStart == InLobby /\ nav.menu = "none" /\ StartGame
LeaveOffline == user /\ nav.screen = "game" /\ Look(Goto("lobby"))
HowToPlay == InLobby /\ nav.menu = "none" /\ ReadHowTo

(* What to expect of a coached game: not now, the rules first, or start.    *)
PracticeIntro ==
  /\ InLobby
  /\ nav.menu = "practice"
  /\ Look([nav EXCEPT !.menu = "none"]) \/ ReadHowTo \/ StartGame

OpenSettings ==
  /\ InLobby
  /\ nav.menu = "none"
  /\ Look([nav EXCEPT !.overlay = "settings", !.delete = FALSE])

(* The buttons of what is open on top.                                      *)
OnTop(overlay) == user /\ ~nav.exit /\ nav.overlay = overlay

CloseOverlay ==
  /\ user
  /\ ~nav.exit
  /\ nav.overlay # "none"
  /\ Look([nav EXCEPT !.overlay = "none", !.delete = FALSE])

OpenHistory ==
  /\ OnTop("settings")
  /\ Look([nav EXCEPT !.overlay = "history", !.delete = FALSE])

AskDelete ==
  /\ OnTop("settings")
  /\ Look([nav EXCEPT !.delete = ~@])

-----------------------------------------------------------------------------
(* Ending a session.  The panel stays usable while the call is in flight;   *)
(* bound: one call at a time.                                               *)

LogOut ==
  /\ OnTop("settings")
  /\ ending = "none"
  /\ ending' = "logout"
  /\ UNCHANGED <<signInVars, nav, board, link, srv, orphans>>

DeleteAccount ==
  /\ OnTop("settings")
  /\ nav.delete
  /\ ending = "none"
  /\ ending' = "delete"
  /\ UNCHANGED <<signInVars, nav, board, link, srv, orphans>>

(* What both do when they are answered.  Of the panels the settings close.  *)
SignOut ==
  /\ link' = Disconnect(link)
  /\ token' = FALSE
  /\ Write(FALSE)
  /\ user' = FALSE
  /\ auth' = IF user THEN NewScreen ELSE auth
  /\ board' = EmptyBoard
  /\ nav' = [Goto("lobby") EXCEPT
               !.overlay = IF @ = "settings" THEN "none" ELSE @,
               !.delete = FALSE]

(* A logout that fails ends the session all the same.                       *)
LogOutAnswers ==
  /\ ending = "logout"
  /\ ending' = "none"
  /\ SignOut
  /\ UNCHANGED <<native, boot, gis, consented, srv, orphans>>

(* A deletion that fails is an error nobody catches.                        *)
DeleteAnswers ==
  /\ ending = "delete"
  /\ ending' = "none"
  /\ \/ SignOut
     \/ UNCHANGED <<link, token, stored, user, auth, nav, board>>
  /\ UNCHANGED <<native, boot, gis, consented, srv, orphans>>

(* The actions of SignIn; handleLogin shows the lobby.  The sign-in form    *)
(* shares nothing with connections that are still closing: it comes after.  *)
SigningIn ==
  /\ SignInNext
  /\ auth'.page # auth.page => \A s \in Sockets : link.state[s] # "closing"
  /\ nav' = IF ~user /\ user' /\ boot = "done" THEN Goto("lobby") ELSE nav
  /\ UNCHANGED <<board, link, ending, srv, orphans>>

-----------------------------------------------------------------------------
(* The online screens.                                                      *)

(* exitOnline: tell the server, if that can be done, and tear down.         *)
ExitOnline(view) ==
  /\ link' = Disconnect(Send(link, "leave"))
  /\ nav' = [view EXCEPT !.screen = "lobby", !.menu = "none"]
  /\ board' = EmptyBoard
  /\ UNCHANGED <<signInVars, ending, srv, orphans>>

OnBoard == user /\ nav.screen = "online" /\ nav.overlay = "none" /\ ~nav.exit

(* The cards can be clicked: no window covers them.  Whose turn it is, and  *)
(* which cards are lit, is what the server showed last and is left out.     *)
HandInReach == OnBoard /\ ~board.over /\ ~board.prompt /\ ~board.confirm

(* The screens that wait have one button each: Cancel of the queue, and     *)
(* Back, Close room or Leave of the private room.                           *)
OnWait(screen) ==
  user /\ nav.screen = screen /\ nav.overlay = "none" /\ ~nav.exit

CancelQueue == OnWait("waiting") /\ ExitOnline(nav)
CancelRoom == OnWait("room") /\ ExitOnline(nav)

TapCard ==
  /\ HandInReach
  /\ CanSend(link)
  /\ link' = Send(link, "play_card")
  /\ UNCHANGED <<signInVars, nav, board, ending, srv, orphans>>

(* onImHere: the window stays until the server says otherwise.              *)
ImHere ==
  /\ OnBoard
  /\ board.prompt /\ ~board.over /\ ~board.confirm
  /\ CanSend(link)
  /\ link' = Send(link, "im_here")
  /\ UNCHANGED <<signInVars, nav, board, ending, srv, orphans>>

AskLeave ==
  /\ OnBoard
  /\ ~board.over
  /\ board' = [board EXCEPT !.confirm = ~@]
  /\ UNCHANGED <<signInVars, nav, link, ending, srv, orphans>>

(* Leave and lose, or back to the lobby when the game is over.              *)
LeaveBoard ==
  /\ OnBoard
  /\ board.over \/ board.confirm
  /\ ExitOnline(nav)

-----------------------------------------------------------------------------
(* The native shell, and the question the back button asks.                 *)

(* onResume: the app is in the foreground again.                            *)
Resume ==
  /\ native
  /\ nav.screen \in OnlineScreens
  /\ CanOpen(link)
  /\ link' = Connect(link, token)
  /\ UNCHANGED <<signInVars, nav, board, ending, srv, orphans>>

(* Leave in the question: toLobby.                                          *)
ToLobby(view) ==
  IF nav.screen \in OnlineScreens THEN ExitOnline(view)
                                  ELSE Look([view EXCEPT !.screen = "lobby"])

LeaveAfterAll ==
  /\ user
  /\ nav.exit
  /\ ToLobby([nav EXCEPT !.exit = FALSE])

StayInGame ==
  /\ user
  /\ nav.exit
  /\ Look([nav EXCEPT !.exit = FALSE])

(* The page or the app is closed and opened again: only the storage is left.*)
Restart ==
  /\ boot' = "hydrate"
  /\ token' = FALSE
  /\ user' = FALSE
  /\ auth' = NewScreen
  /\ gis' = "none"
  /\ nav' = FirstView
  /\ board' = EmptyBoard
  /\ link' = NewGameSocket
  /\ ending' = "none"
  /\ srv' = [srv EXCEPT !.queued = {}, !.at = NoSocket, !.room = NoSeat.room]
  /\ orphans' = 0
  /\ UNCHANGED <<native, stored, consented>>

(* onBack: the question and what is open go first, then the screen; on the  *)
(* lobby, with or without a menu, the app exits.                            *)
Back ==
  /\ native
  /\ \/ nav.exit /\ Look([nav EXCEPT !.exit = FALSE])
     \/ /\ ~nav.exit
        /\ nav.overlay # "none"
        /\ Look([nav EXCEPT !.overlay = "none", !.delete = FALSE])
     \/ /\ ~nav.exit
        /\ nav.overlay = "none"
        /\ \/ /\ nav.screen \in {"game", "online"}
              /\ Look([nav EXCEPT !.exit = TRUE])
           \/ nav.screen \in {"waiting", "room"} /\ ExitOnline(nav)
           \/ nav.screen = "lobby" /\ Restart

-----------------------------------------------------------------------------
(* The connection.                                                          *)

(* A WebSocket opens.  The server binds it to the game byUID names, be it   *)
(* over, and else puts it where its user has a seat.                        *)
Opens(s) ==
  /\ link.state[s] = "connecting"
  /\ link' = Opened(link, s)
  /\ \/ /\ srv.seat = "game"
        /\ srv' = [srv EXCEPT !.at = s, !.room[s] = "game"]
        /\ Tell(s, IF srv.prompt = "off" THEN "start" ELSE "resume")
     \/ /\ srv.seat \in {"out", "over"}
        /\ srv' = [srv EXCEPT !.room[s] = "past"]
        /\ Tell(s, IF srv.seat = "out" THEN "error" ELSE "none")
     \/ /\ srv.seat = "room"
        /\ srv' = [srv EXCEPT !.at = s]
        /\ Tell(s, "room_lobby")
     \/ /\ srv.seat = "none"
        /\ srv' = srv
        /\ Tell(s, "hello")
  /\ UNCHANGED <<signInVars, ending, orphans>>

(* A WebSocket ends, because it was told to or because the network failed.  *)
(* disconnect of the hub takes it out of the queues and keeps the seat.     *)
Ends(s) ==
  LET leaves == IF link.ws # s /\ Live(link, link.ws) THEN 1 ELSE 0
  IN /\ link.state[s] # "none"
     /\ link.wanted /\ link.timer => link.strays < MaxStrays
     /\ orphans + leaves <= MaxOrphans
     /\ link' = Closed(link, s)
     /\ srv' = [srv EXCEPT !.queued = @ \ {s},
                            !.at = IF @ = s THEN NoSocket ELSE @,
                            !.room[s] = "none"]
     /\ orphans' = orphans + leaves
     /\ board' = [board EXCEPT !.cut = \/ @
                                        \/ /\ nav.screen = "waiting"
                                           /\ link.ws = s
                                           /\ IsOpen(link, s)]
     /\ UNCHANGED <<signInVars, nav, ending>>

TimerFires ==
  /\ link.timer
  /\ CanOpen(link)
  /\ link' = TimerFired(link, token)
  /\ UNCHANGED <<signInVars, nav, board, ending, srv, orphans>>

StrayFires ==
  /\ link.strays > 0
  /\ CanOpen(link)
  /\ link' = StrayFired(link, token)
  /\ UNCHANGED <<signInVars, nav, board, ending, srv, orphans>>

-----------------------------------------------------------------------------
(* The server, as far as this user can tell.  It keeps one seat per user: a *)
(* room opened on one connection beside a game on another is not followed,  *)
(* nor is a game this user is out of beside the next.                       *)

(* The message s sent first reaches the server, which does this about it.   *)
Arrives(s, kind) ==
  /\ link.sent[s] # <<>>
  /\ Head(link.sent[s]) = kind
  /\ link' = [link EXCEPT !.sent[s] = Tail(@)]
  /\ UNCHANGED <<signInVars, ending, orphans>>

Reply(s, kind, server) == srv' = server /\ Tell(s, kind)

(* The requests of the lobby are ignored on a connection bound to a game,   *)
(* also one that is over.                                                   *)
Bound(s) == srv.room[s] # "none"

(* The waiting place s holds, if any, is given up.                          *)
Released(s) ==
  [srv EXCEPT !.queued = @ \ {s},
     !.seat = IF @ = "room" /\ srv.at = s THEN "none" ELSE @,
     !.at = IF srv.seat = "room" /\ @ = s THEN NoSocket ELSE @]

(* A seat in a game, served on s: byUID names this game now.                *)
Seated(s) ==
  [srv EXCEPT !.queued = @ \ {s}, !.seat = "game", !.at = s,
     !.room = [t \in Sockets |-> IF t = s THEN "game"
                                 ELSE IF @[t] = "none" THEN "none" ELSE "past"]]

(* The game is over and lets go of the connection it serves.                *)
Over(s) ==
  [srv EXCEPT !.seat = "over", !.at = NoSocket, !.prompt = "off",
     !.room = [t \in Sockets |-> IF @[t] # "game" THEN @[t]
                                 ELSE IF t = s THEN "none" ELSE "past"]]

(* The seat drops out, and the others play on or nobody is left to.         *)
DropsOut(s) ==
  \/ /\ srv' = [srv EXCEPT !.seat = "out", !.at = s, !.prompt = "off"]
     /\ Tell(s, "no_prompt")
  \/ srv' = Over(s) /\ Tell(s, "game_over")

(* Requests are refused for their size or code.                             *)
QueueRequest(s) ==
  /\ Arrives(s, "join_queue")
  /\ IF Bound(s) THEN Reply(s, "none", srv)
     ELSE \/ Reply(s, "error", srv)
          \/ Reply(s, "queue", [Released(s) EXCEPT !.queued = @ \cup {s}])

RoomRequest(s) ==
  /\ Arrives(s, "room")
  /\ IF Bound(s) THEN Reply(s, "none", srv)
     ELSE \/ Reply(s, "error", srv)
          \/ /\ srv.seat \in {"none", "room"}
             /\ Reply(s, "room_lobby",
                      [Released(s) EXCEPT !.seat = "room", !.at = s])

(* A waiting place goes first; of a game only the connection it serves can  *)
(* leave, and the game goes on without it or is over.                       *)
LeaveRequest(s) ==
  /\ Arrives(s, "leave")
  /\ IF srv.seat = "game" /\ srv.at = s /\ s \notin srv.queued
     THEN DropsOut(s)
     ELSE Reply(s, "none", Released(s))

(* A card is played if it is this seat's turn and legal; the game looks its *)
(* seat up by user, and answers where the seat is served.                   *)
CardArrives(s) ==
  /\ Arrives(s, "play_card")
  /\ \/ Reply(s, "none", srv)
     \/ Bound(s) /\ Reply(s, "error", srv)
     \/ /\ srv.seat = "game" /\ srv.room[s] = "game"
        /\ Reply(srv.at, "no_prompt", [srv EXCEPT !.prompt = "off"])

(* "I am here" makes its connection the one the seat is served on, and shows*)
(* the prompt again, with one try less, or was one click too many.          *)
HereArrives(s) ==
  /\ Arrives(s, "im_here")
  /\ IF srv.seat = "game" /\ srv.room[s] = "game" /\ srv.prompt # "off"
     THEN \/ Reply(s, "prompt", [srv EXCEPT !.prompt = "answered", !.at = s])
          \/ DropsOut(s)
     ELSE Reply(s, "none", srv)

(* What others do, or time does.                                            *)
Meanwhile(server, s, kind) ==
  /\ srv' = server
  /\ UNCHANGED <<signInVars, link, ending, orphans>>
  /\ Tell(s, kind)

QueueMatches ==
  /\ srv.seat # "game"
  /\ \E s \in srv.queued : Meanwhile(Seated(s), s, "start")

(* Others come and go, the room fills up, or its host closes it.            *)
RoomChanges ==
  /\ srv.seat = "room"
  /\ \/ Meanwhile(srv, srv.at, "room_lobby")
     \/ Meanwhile(Seated(srv.at), srv.at, "start")
     \/ Meanwhile([srv EXCEPT !.seat = "none", !.at = NoSocket], srv.at, "error")

Prompts ==
  /\ srv.seat = "game"
  /\ srv.prompt = "off"
  /\ Meanwhile([srv EXCEPT !.prompt = "asked"], srv.at, "prompt")

(* Also the game this user is out of, for the others.                       *)
GameEnds ==
  /\ srv.seat \in {"game", "out"}
  /\ Meanwhile(Over(srv.at), srv.at, "game_over")

(* A prompt nobody answered in time; the board stays.                       *)
Burned ==
  /\ srv.seat = "game"
  /\ srv.prompt # "off"
  /\ UNCHANGED <<signInVars, link, ending, orphans>>
  /\ DropsOut(srv.at)

(* closeRoom, which the game that is over sent: byUID forgets it.           *)
CloseRoom ==
  /\ srv.seat = "over"
  /\ Meanwhile([srv EXCEPT !.seat = "none"], NoSocket, "none")

Server ==
  \/ \E s \in Sockets :
       \/ QueueRequest(s) \/ RoomRequest(s) \/ LeaveRequest(s)
       \/ CardArrives(s) \/ HereArrives(s)
  \/ QueueMatches \/ RoomChanges \/ Prompts \/ GameEnds \/ Burned
  \/ CloseRoom

-----------------------------------------------------------------------------
Next ==
  \/ SigningIn
  \/ OpenMenu \/ PlayOnline \/ CreateRoom \/ JoinRoom \/ DealAndStart
  \/ PracticeIntro \/ LeaveOffline \/ HowToPlay \/ OpenSettings \/ CloseOverlay \/ OpenHistory
  \/ AskDelete \/ LogOut \/ DeleteAccount \/ LogOutAnswers \/ DeleteAnswers
  \/ CancelQueue \/ CancelRoom \/ TapCard \/ ImHere \/ AskLeave \/ LeaveBoard
  \/ Resume \/ LeaveAfterAll \/ StayInGame \/ Restart \/ Back
  \/ \E s \in Sockets : Opens(s) \/ Ends(s)
  \/ TimerFires \/ StrayFires
  \/ Server

(* Browsers end what was told to close and run their timers; a connection   *)
(* that is tried again and again opens in the end.  Nothing is assumed of   *)
(* the person or of the server.                                             *)
Fairness ==
  /\ WF_vars(TimerFires)
  /\ \A s \in Sockets :
       /\ WF_vars(link.state[s] = "closing" /\ Ends(s))
       /\ SF_vars(Opens(s))

Spec == Init /\ [][Next]_vars
FairSpec == Spec /\ Fairness

-----------------------------------------------------------------------------
(* Properties.                                                              *)

(* A token in memory and a signed-in user come and go together, once the    *)
(* session is restored, and no session began without the policy accepted.   *)
SessionIsWhole ==
  /\ boot = "done" => (user <=> token)
  /\ user => token
  /\ token => consented

(* What waits in the buffer was asked for on the screen the person is on:   *)
(* nothing a cancelled match or a left game asked for is still to be sent.  *)
QueueIsOurs ==
  link.queue # <<>> /\ orphans = 0 =>
    link.wanted /\ nav.screen \in OnlineScreens

(* Whoever waits for players is waited for: the request is in the buffer,   *)
(* on its way or in the queue, unless the connection broke, an error is     *)
(* shown, or the connection opened before the hub had closed this user's    *)
(* last game and is bound to that: then the request is dropped in silence.  *)
WaitersAreQueued ==
  /\ nav.screen = "waiting" /\ orphans = 0 /\ ~board.cut /\ ~board.error
  /\ link.ws # NoSocket => srv.room[link.ws] # "past"
  => \/ "join_queue" \in Range(link.queue)
     \/ /\ link.ws # NoSocket
        /\ \/ "join_queue" \in Range(link.sent[link.ws])
           \/ link.ws \in srv.queued

(* A WebSocket is opened only for somebody who is signed in and on a screen *)
(* that needs one.                                                          *)
OpensOnlyOnline ==
  [][(\E s \in Sockets :
         link.state[s] = "none" /\ link'.state[s] = "connecting")
       => token' /\ user' /\ nav'.screen \in OnlineScreens]_vars

(* What is buffered goes out or is given up.                                *)
RequestsGoOut ==
  link.queue # <<>> /\ orphans = 0 ~> link.queue = <<>> \/ orphans > 0

(* disconnect "fully tears down": no connection survives it.  The code lets *)
(* one survive.                                                             *)
TornDown == ~link.wanted => \A s \in Sockets : ~Live(link, s)

(* "play now or you'll be removed": a seat that has answered the prompt can *)
(* reach its cards.  The window covers them.                                *)
AnsweredMayPlay ==
  srv.prompt = "answered" /\ srv.seat = "game" /\ IsOpen(link, srv.at)
    /\ OnBoard /\ ~board.over /\ ~board.confirm => HandInReach
=============================================================================

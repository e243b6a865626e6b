---------------------------- MODULE ClientProofs -----------------------------
(***************************************************************************)
(* Theorems about ClientApp, for any number of WebSockets, buffered        *)
(* requests and orphaned sockets: a session is whole, sockets are opened   *)
(* and requests kept for the online screens alone, and whoever waits for   *)
(* players is waited for.                                                  *)
(***************************************************************************)
EXTENDS ClientApp, SequenceLemmas

-----------------------------------------------------------------------------
(* The types of the records the app consists of.                            *)

Screens == {"lobby", "game"} \cup OnlineScreens
Menus == {"none", "menu", "quick", "friends", "create", "join", "practice"}

NavType ==
  [screen : Screens, menu : Menus, exit : BOOLEAN, delete : BOOLEAN,
   overlay : {"none", "settings", "history", "howto"}]

BoardType ==
  [over : BOOLEAN, prompt : BOOLEAN, confirm : BOOLEAN, error : BOOLEAN,
   cut : BOOLEAN]

AuthType ==
  [page : {"intro", "form", "policy", "howto"}, step : {"signin", "username"},
   accepted : BOOLEAN, busy : BOOLEAN, loading : BOOLEAN, button : BOOLEAN,
   asking : BOOLEAN, google : BOOLEAN, creates : Nat, agreed : BOOLEAN]

Kind == {"join_queue", "room", "leave", "play_card", "im_here"}

LinkType ==
  [ws : Sockets \cup {NoSocket}, wanted : BOOLEAN, queue : Seq(Kind),
   timer : BOOLEAN, strays : Nat,
   state : [Sockets -> {"none", "connecting", "open", "closing"}],
   sent : [Sockets -> Seq(Kind)]]

SrvType ==
  [queued : SUBSET Sockets, seat : {"none", "room", "game", "out", "over"},
   at : Sockets \cup {NoSocket}, prompt : {"off", "asked", "answered"},
   room : [Sockets -> {"none", "game", "past"}]]

-----------------------------------------------------------------------------
(* The session.                                                             *)

(* A sign-in is under way.                                                  *)
Begun(a) == a.asking \/ a.google \/ a.creates > 0 \/ a.step = "username"

(* What has begun on the sign-in screen was begun with the policy accepted. *)
AgreedOK ==
  /\ auth.loading \/ auth.button => auth.accepted
  /\ Begun(auth) => auth.agreed

(* A session is being restored, or there is one, or the sign-in screen is   *)
(* there; nothing of one of them is left in another.                        *)
SessionOK ==
  /\ native \in BOOLEAN /\ user \in BOOLEAN /\ token \in BOOLEAN
  /\ stored \in BOOLEAN /\ consented \in BOOLEAN
  /\ boot \in {"hydrate", "me", "config", "done"}
  /\ auth \in AuthType
  /\ boot = "hydrate" => ~token /\ ~user
  /\ boot = "me" => token /\ ~user
  /\ boot \in {"config", "done"} => (user <=> token)
  /\ token \/ stored => consented
  /\ auth # NewScreen => Mounted
  /\ AgreedOK

(* What can end a session is reached when there is one.                     *)
PanelsOK ==
  nav.overlay # "none" \/ ending # "none" => boot = "done"

SessionInv == SessionOK /\ PanelsOK /\ nav \in NavType

-----------------------------------------------------------------------------
(* The connection.                                                          *)

(* The object wants a connection only on the online screens and then has    *)
(* at most the one it points to, unless a socket was orphaned.              *)
LinkOK ==
  /\ link \in LinkType /\ orphans \in Nat
  /\ link.ws # NoSocket =>
       link.wanted /\ link.state[link.ws] \in {"connecting", "open"}
  /\ link.wanted => nav.screen \in OnlineScreens
  /\ nav.screen \in OnlineScreens => user
  /\ \A s \in Sockets :
       link.state[s] \in {"none", "connecting"} => link.sent[s] = <<>>
  /\ orphans = 0 =>
       /\ \A s \in Sockets :
            link.state[s] \in {"connecting", "open"} => s = link.ws
       /\ nav.screen \in OnlineScreens => link.wanted
       /\ link.queue # <<>> => link.wanted

(* The server knows only of connections that have opened.                   *)
ServerOK ==
  /\ srv \in SrvType /\ board \in BoardType
  /\ \A s \in Sockets :
       link.state[s] \in {"none", "connecting"} =>
         s \notin srv.queued /\ s # srv.at /\ srv.room[s] = "none"

OnlyAsked(msgs) == Range(msgs) \subseteq {"join_queue"}

(* Waiting for players, nothing but the request for them is under way, on a *)
(* connection that serves no game, and it has been made, unless a game that *)
(* is over will not let go of the connection.                               *)
WaitOK ==
  nav.screen = "waiting" /\ orphans = 0 =>
    /\ OnlyAsked(link.queue)
    /\ link.ws # NoSocket =>
         OnlyAsked(link.sent[link.ws]) /\ srv.room[link.ws] # "game"
    /\ /\ ~board.cut /\ ~board.error
       /\ link.ws # NoSocket => srv.room[link.ws] # "past"
       => \/ "join_queue" \in Range(link.queue)
          \/ /\ IsOpen(link, link.ws)
             /\ \/ "join_queue" \in Range(link.sent[link.ws])
                \/ link.ws \in srv.queued

ClientInv == SessionInv /\ LinkOK /\ ServerOK /\ WaitOK
-----------------------------------------------------------------------------
(* The session: proofs.                                                     *)

LEMMA ScreenIsNew ==
  /\ NewScreen \in AuthType
  /\ ~NewScreen.loading /\ ~NewScreen.button /\ ~Begun(NewScreen)
BY DEF NewScreen, AuthType, Begun

(* Google's button is on the page only with the tick.                       *)
LEMMA ButtonIsDrawn ==
  ASSUME NEW a \in AuthType
  PROVE  /\ Committed(a) \in AuthType
         /\ Committed(a).loading \/ Committed(a).button
              => Committed(a).accepted
         /\ Begun(Committed(a)) <=> Begun(a)
         /\ Committed(a).agreed = a.agreed
<1> DEFINE changed == <<a.page, a.step, a.accepted>>
                        # <<auth.page, auth.step, auth.accepted>>
           l == ButtonPlace(a) /\ (changed \/ a.loading)
           b == ButtonPlace(a) /\ ~changed /\ a.button
           d == [a EXCEPT !.loading = l, !.button = b]
<1>1. Committed(a) = d
  BY DEF Committed
<1>2. l \in BOOLEAN /\ b \in BOOLEAN /\ (l \/ b => a.accepted)
  BY DEF ButtonPlace, AuthType
<1> HIDE DEF l, b
<1>3. /\ d \in AuthType /\ d.loading = l /\ d.button = b
      /\ d.accepted = a.accepted /\ d.asking = a.asking
      /\ d.google = a.google /\ d.creates = a.creates /\ d.step = a.step
      /\ d.agreed = a.agreed
  BY <1>2 DEF AuthType
<1> HIDE DEF d
<1> QED
  BY <1>1, <1>2, <1>3 DEF Begun

LEMMA ShownKeepsSession ==
  ASSUME SessionOK, Mounted, NEW a \in AuthType, Show(a),
         Begun(a) => a.agreed
  PROVE  SessionOK'
<1>1. /\ auth' = Committed(a)
      /\ UNCHANGED <<native, boot, token, stored, user, gis, consented>>
  BY DEF Show
<1>2. AgreedOK' /\ auth' \in AuthType
  BY <1>1, ButtonIsDrawn DEF AgreedOK, Begun
<1>3. Mounted'
  BY <1>1 DEF Mounted
<1> QED
  BY <1>1, <1>2, <1>3 DEF SessionOK

LEMMA EnteredSession ==
  ASSUME SessionOK, Mounted, auth.agreed, Enter
  PROVE  SessionOK'
BY ScreenIsNew DEF SessionOK, Enter, Write, Mounted, AgreedOK, AuthType

LEMMA BegunIsMounted ==
  ASSUME SessionOK
  PROVE  /\ auth \in AuthType
         /\ Begun(auth) => auth.agreed
         /\ Begun(auth) => Mounted
<1>1. Begun(auth) => auth # NewScreen
  BY ScreenIsNew
<1>2. Begun(auth) => auth.agreed
  BY DEF SessionOK, AgreedOK
<1> QED
  BY <1>1, <1>2 DEF SessionOK

LEMMA SignInKeepsSession ==
  ASSUME SessionOK, SignInNext
  PROVE  SessionOK'
<1> USE BegunIsMounted
<1>1. CASE Hydrate \/ MeAnswers \/ ConfigAnswers
  <2>1. UNCHANGED <<native, auth, consented>> /\ auth = NewScreen
    BY <1>1 DEF Hydrate, MeAnswers, ConfigAnswers, SessionOK, Mounted
  <2>2. AgreedOK'
    BY <2>1 DEF SessionOK, AgreedOK
  <2>3. CASE Hydrate
    <3>1. /\ token' \in BOOLEAN /\ (token' => stored)
          /\ boot' = IF token' THEN "me" ELSE "config"
          /\ stored' = stored /\ user' = user /\ ~user
      BY <2>3 DEF SessionOK, Hydrate
    <3> QED
      BY <2>1, <2>2, <3>1 DEF SessionOK
  <2>4. CASE MeAnswers
    <3>1. /\ boot' = "config" /\ consented
          /\ stored' \in BOOLEAN /\ user' \in BOOLEAN /\ token' \in BOOLEAN
          /\ (user' <=> token')
      <4>1. /\ boot = "me" /\ boot' = "config" /\ token /\ ~user /\ consented
            /\ token \in BOOLEAN /\ user \in BOOLEAN /\ stored \in BOOLEAN
        BY <2>4 DEF SessionOK, MeAnswers
      <4>2. CASE user' = TRUE /\ UNCHANGED <<token, stored>>
        BY <4>1, <4>2
      <4>3. CASE token' = FALSE /\ Write(FALSE) /\ UNCHANGED user
        BY <4>1, <4>3 DEF Write
      <4> QED
        BY <2>4, <4>2, <4>3 DEF MeAnswers
    <3> QED
      BY <2>1, <2>2, <3>1 DEF SessionOK
  <2>5. CASE ConfigAnswers
    BY <2>1, <2>2, <2>5 DEF SessionOK, ConfigAnswers
  <2> QED
    BY <1>1, <2>3, <2>4, <2>5
<1>2. CASE IntroEnds \/ ReadPolicy \/ ReadRules \/ LeavePage \/ Tick
  <2>1. Mounted
    BY <1>2 DEF IntroEnds, ReadPolicy, ReadRules, LeavePage, Tick, OnScreen
  <2>2. PICK p \in {"form", "policy", "howto"}, t \in BOOLEAN :
          Show([auth EXCEPT !.page = p, !.accepted = t])
    <3>1. auth.page \in {"form", "policy", "howto"} \/ ~Tick
      BY DEF Tick, OnScreen
    <3>2. \A p : [auth EXCEPT !.page = p] =
                   [auth EXCEPT !.page = p, !.accepted = auth.accepted]
      BY DEF AuthType
    <3>3. \A t : [auth EXCEPT !.accepted = t] =
                   [auth EXCEPT !.page = auth.page, !.accepted = t]
      BY DEF AuthType
    <3>4. auth.accepted \in BOOLEAN
      BY DEF AuthType
    <3> QED
      BY <1>2, <3>1, <3>2, <3>3, <3>4
         DEF IntroEnds, ReadPolicy, ReadRules, LeavePage, Tick
  <2> DEFINE a == [auth EXCEPT !.page = p, !.accepted = t]
  <2>3. a \in AuthType /\ (Begun(a) <=> Begun(auth)) /\ a.agreed = auth.agreed
    BY DEF AuthType, Begun
  <2> HIDE DEF a
  <2> QED
    BY <2>1, <2>2, <2>3, ShownKeepsSession DEF a
<1>3. CASE ButtonLoads
  <2>1. /\ Mounted /\ auth.loading
        /\ auth' = [auth EXCEPT !.loading = FALSE, !.button = gis' = "ready"]
        /\ UNCHANGED <<native, boot, token, stored, user, consented>>
    BY <1>3 DEF ButtonLoads, OnScreen
  <2>2. /\ auth' \in AuthType /\ auth'.accepted = auth.accepted
        /\ auth'.agreed = auth.agreed /\ (Begun(auth') <=> Begun(auth))
    BY <2>1 DEF AuthType, Begun
  <2>3. AgreedOK' /\ Mounted'
    BY <2>1, <2>2 DEF SessionOK, AgreedOK, Mounted, Begun
  <2> QED
    BY <2>1, <2>2, <2>3 DEF SessionOK
<1>4. CASE AskGoogle
  <2> DEFINE a == [auth EXCEPT !.asking = TRUE, !.agreed = auth.accepted,
                               !.busy = native]
  <2>1. Mounted /\ auth.accepted /\ Show(a)
    BY <1>4 DEF AskGoogle, OnScreen, Enabled, SessionOK, AgreedOK
  <2>2. a \in AuthType /\ a.agreed
    BY <2>1 DEF SessionOK, AuthType
  <2> QED
    BY <2>1, <2>2, ShownKeepsSession
<1>5. CASE GoogleGivesUp
  <2> DEFINE a == [auth EXCEPT !.asking = FALSE, !.busy = auth.busy /\ ~native]
  <2>1. Begun(auth) /\ Show(a)
    BY <1>5 DEF GoogleGivesUp, Begun
  <2>2. a \in AuthType /\ a.agreed = auth.agreed
    BY DEF SessionOK, AuthType
  <2> QED
    BY <2>1, <2>2, ShownKeepsSession
<1>6. CASE CredentialArrives
  <2> DEFINE a == [auth EXCEPT !.asking = FALSE, !.google = TRUE, !.busy = TRUE]
  <2>1. Begun(auth) /\ Show(a)
    BY <1>6 DEF CredentialArrives, Begun
  <2>2. a \in AuthType /\ a.agreed = auth.agreed
    BY DEF AuthType
  <2> QED
    BY <2>1, <2>2, ShownKeepsSession
<1>7. CASE GoogleAnswers
  <2>1. Begun(auth)
    BY <1>7 DEF GoogleAnswers, Begun
  <2>2. CASE Enter
    BY <2>1, <2>2, EnteredSession
  <2>3. ASSUME NEW st \in {auth.step, "username"},
               Show([auth EXCEPT !.google = FALSE, !.busy = FALSE, !.step = st])
        PROVE  SessionOK'
    <3> DEFINE a == [auth EXCEPT !.google = FALSE, !.busy = FALSE, !.step = st]
    <3>1. a \in AuthType /\ a.agreed = auth.agreed
      BY DEF AuthType
    <3> QED
      BY <2>1, <2>3, <3>1, ShownKeepsSession
  <2>4. [auth EXCEPT !.google = FALSE, !.busy = FALSE] =
          [auth EXCEPT !.google = FALSE, !.busy = FALSE, !.step = auth.step]
    BY DEF AuthType
  <2> QED
    BY <1>7, <2>2, <2>3, <2>4 DEF GoogleAnswers
<1>8. CASE CreateAccount
  <2> DEFINE a == [auth EXCEPT !.creates = auth.creates + 1, !.busy = TRUE]
  <2>1. Begun(auth) /\ Show(a)
    BY <1>8 DEF CreateAccount, OnScreen, Begun
  <2>2. auth.creates + 1 \in Nat
    BY DEF AuthType
  <2>3. a \in AuthType /\ a.agreed = auth.agreed
    BY <2>2 DEF AuthType
  <2> QED
    BY <2>1, <2>3, ShownKeepsSession
<1>9. CASE CreateAnswers
  <2>1. Begun(auth) /\ auth.creates > 0
    BY <1>9 DEF CreateAnswers, Begun
  <2>2. CASE Enter
    BY <2>1, <2>2, EnteredSession
  <2>3. ASSUME NEW st \in {auth.step, "signin"},
               Show([auth EXCEPT !.creates = auth.creates - 1, !.busy = FALSE,
                                 !.step = st])
        PROVE  SessionOK'
    <3> DEFINE a == [auth EXCEPT !.creates = auth.creates - 1, !.busy = FALSE,
                                 !.step = st]
    <3>1. auth.creates - 1 \in Nat
      BY <2>1 DEF AuthType
    <3>2. a \in AuthType /\ a.agreed = auth.agreed
      BY <3>1 DEF AuthType
    <3> QED
      BY <2>1, <2>3, <3>2, ShownKeepsSession
  <2>4. [auth EXCEPT !.creates = auth.creates - 1, !.busy = FALSE] =
          [auth EXCEPT !.creates = auth.creates - 1, !.busy = FALSE,
                       !.step = auth.step]
    BY DEF AuthType
  <2> QED
    BY <1>9, <2>2, <2>3, <2>4 DEF CreateAnswers
<1>10. CASE UseAnotherAccount
  <2> DEFINE a == [auth EXCEPT !.step = "signin"]
  <2>1. Begun(auth) /\ Show(a)
    BY <1>10 DEF UseAnotherAccount, OnScreen, Begun
  <2>2. a \in AuthType /\ a.agreed = auth.agreed
    BY DEF AuthType
  <2> QED
    BY <2>1, <2>2, ShownKeepsSession
<1> QED
  BY <1>1, <1>2, <1>3, <1>4, <1>5, <1>6, <1>7, <1>8, <1>9, <1>10
     DEF SignInNext
-----------------------------------------------------------------------------
(* The kinds of steps the app takes.                                        *)

(* The person looks elsewhere, away from the online screens or on one of    *)
(* them.                                                                    *)
Browses ==
  /\ UNCHANGED <<signInVars, link, srv, orphans>>
  /\ nav' \in NavType /\ board' \in BoardType
  /\ nav'.screen = nav.screen
       \/ (nav.screen \notin OnlineScreens /\ nav'.screen \notin OnlineScreens)
  /\ nav.screen = "waiting" => UNCHANGED board
  /\ PanelsOK'

Asks ==
  \E req \in {<<"join_queue", "waiting">>, <<"room", "room">>} :
    InLobby /\ Ask(req[1], req[2])

SignsOut ==
  /\ ending # "none" /\ ending' = "none"
  /\ SignOut
  /\ UNCHANGED <<native, boot, gis, consented, srv, orphans>>

Leaves ==
  \E view \in NavType : view.overlay = nav.overlay /\ ExitOnline(view)

Sends ==
  \E kind \in {"play_card", "im_here"} :
    /\ OnBoard
    /\ link' = Send(link, kind)
    /\ UNCHANGED <<signInVars, nav, board, ending, srv, orphans>>

Reconnects == Resume \/ TimerFires \/ StrayFires

LEMMA LookBrowses ==
  ASSUME PanelsOK, board \in BoardType, NEW view \in NavType, Look(view),
         view.overlay = "none" \/ boot = "done",
         \/ view.screen = nav.screen
         \/ nav.screen \notin OnlineScreens /\ view.screen \notin OnlineScreens
  PROVE  Browses
BY DEF PanelsOK, Look, Browses, signInVars

LEMMA MenuBrowses ==
  ASSUME SessionInv, board \in BoardType,
         \/ OpenMenu \/ DealAndStart \/ PracticeIntro \/ LeaveOffline
         \/ HowToPlay \/ OpenSettings
  PROVE  Browses
<1>1. nav \in NavType /\ PanelsOK
  BY DEF SessionInv
<1>2. CASE OpenMenu
  <2>1. PICK step \in MenuSteps :
          InLobby /\ Look([nav EXCEPT !.menu = step[2]])
    BY <1>2 DEF OpenMenu
  <2>2. step[2] \in Menus
    BY DEF MenuSteps, Menus
  <2>3. /\ [nav EXCEPT !.menu = step[2]] \in NavType
        /\ [nav EXCEPT !.menu = step[2]].screen = nav.screen
    BY <1>1, <2>2 DEF NavType
  <2> QED
    BY <1>1, <2>1, <2>3, LookBrowses DEF InLobby
<1>3. ASSUME InLobby, StartGame PROVE Browses
  <2>1. /\ Goto("game") \in NavType /\ Goto("game").screen = "game"
        /\ Goto("game").overlay = nav.overlay
    BY <1>1 DEF Goto, NavType, Screens, Menus
  <2> QED
    BY <1>1, <1>3, <2>1, LookBrowses DEF InLobby, OnlineScreens, StartGame
<1>4. ASSUME InLobby, ReadHowTo PROVE Browses
  <2> DEFINE v == [nav EXCEPT !.menu = "none", !.overlay = "howto"]
  <2>1. v \in NavType /\ v.screen = nav.screen
    BY <1>1 DEF NavType, Menus
  <2> QED
    BY <1>1, <1>4, <2>1, LookBrowses DEF InLobby, ReadHowTo
<1>5. CASE PracticeIntro
  <2>1. CASE Look([nav EXCEPT !.menu = "none"])
    <3>1. /\ [nav EXCEPT !.menu = "none"] \in NavType
          /\ [nav EXCEPT !.menu = "none"].screen = nav.screen
      BY <1>1 DEF NavType, Menus
    <3> QED
      BY <1>1, <1>5, <2>1, <3>1, LookBrowses DEF PracticeIntro, InLobby
  <2> QED
    BY <1>3, <1>4, <1>5, <2>1 DEF PracticeIntro
<1>6. CASE LeaveOffline
  <2>1. /\ Goto("lobby") \in NavType /\ Goto("lobby").screen = "lobby"
        /\ Goto("lobby").overlay = nav.overlay
    BY <1>1 DEF Goto, NavType, Screens, Menus
  <2> QED
    BY <1>1, <1>6, <2>1, LookBrowses DEF LeaveOffline, OnlineScreens, PanelsOK
<1>7. CASE OpenSettings
  <2> DEFINE v == [nav EXCEPT !.overlay = "settings", !.delete = FALSE]
  <2>1. v \in NavType /\ v.screen = nav.screen
    BY <1>1 DEF NavType
  <2> QED
    BY <1>1, <1>7, <2>1, LookBrowses DEF InLobby, OpenSettings
<1> QED
  BY <1>2, <1>3, <1>4, <1>5, <1>6, <1>7 DEF DealAndStart, HowToPlay

(* An overlay was opened over the lobby of a restored session.              *)
LEMMA OverlayBrowses ==
  ASSUME SessionInv, board \in BoardType,
         CloseOverlay \/ OpenHistory \/ AskDelete \/ StayInGame
  PROVE  Browses
<1>1. nav \in NavType /\ PanelsOK
  BY DEF SessionInv
<1>2. ASSUME NEW o \in {"none", "history", nav.overlay}, NEW d \in BOOLEAN,
             o = "none" \/ boot = "done",
             NEW e \in BOOLEAN,
             Look([nav EXCEPT !.overlay = o, !.delete = d, !.exit = e])
      PROVE  Browses
  <2> DEFINE v == [nav EXCEPT !.overlay = o, !.delete = d, !.exit = e]
  <2>1. v \in NavType /\ v.screen = nav.screen /\ v.overlay = o
    BY <1>1, <1>2 DEF NavType
  <2> QED
    BY <1>1, <1>2, <2>1, LookBrowses
<1>3. /\ nav.exit \in BOOLEAN /\ nav.delete \in BOOLEAN
      /\ nav.overlay # "none" => boot = "done"
  BY <1>1 DEF NavType, PanelsOK
<1>4. CASE CloseOverlay
  <2>1. [nav EXCEPT !.overlay = "none", !.delete = FALSE] =
          [nav EXCEPT !.overlay = "none", !.delete = FALSE, !.exit = nav.exit]
    BY <1>1 DEF NavType
  <2> QED
    BY <1>2, <1>3, <1>4, <2>1 DEF CloseOverlay
<1>5. CASE OpenHistory
  <2>1. [nav EXCEPT !.overlay = "history", !.delete = FALSE] =
          [nav EXCEPT !.overlay = "history", !.delete = FALSE, !.exit = nav.exit]
    BY <1>1 DEF NavType
  <2> QED
    BY <1>2, <1>3, <1>5, <2>1 DEF OpenHistory, OnTop
<1>6. CASE AskDelete
  <2>1. [nav EXCEPT !.delete = ~nav.delete] =
          [nav EXCEPT !.overlay = nav.overlay, !.delete = ~nav.delete,
                      !.exit = nav.exit]
    BY <1>1 DEF NavType
  <2>2. (~nav.delete) \in BOOLEAN
    BY <1>3
  <2> QED
    BY <1>2, <1>3, <1>6, <2>1, <2>2 DEF AskDelete, OnTop
<1>7. CASE StayInGame
  <2>1. [nav EXCEPT !.exit = FALSE] =
          [nav EXCEPT !.overlay = nav.overlay, !.delete = nav.delete,
                      !.exit = FALSE]
    BY <1>1 DEF NavType
  <2> QED
    BY <1>2, <1>3, <1>7, <2>1 DEF StayInGame
<1> QED
  BY <1>4, <1>5, <1>6, <1>7

LEMMA EndingBrowses ==
  ASSUME SessionInv, board \in BoardType, LogOut \/ DeleteAccount \/ AskLeave
  PROVE  Browses
<1>1. nav \in NavType /\ PanelsOK
  BY DEF SessionInv
<1>2. CASE LogOut \/ DeleteAccount
  BY <1>1, <1>2 DEF LogOut, DeleteAccount, OnTop, PanelsOK, Browses, signInVars
<1>3. CASE AskLeave
  <2>1. /\ board' = [board EXCEPT !.confirm = ~board.confirm]
        /\ nav' = nav /\ nav.screen = "online"
    BY <1>3 DEF AskLeave, OnBoard
  <2>2. (~board.confirm) \in BOOLEAN
    BY DEF BoardType
  <2>3. board' \in BoardType
    BY <2>1, <2>2 DEF BoardType
  <2> QED
    BY <1>1, <1>3, <2>1, <2>3 DEF AskLeave, PanelsOK, Browses, signInVars
<1> QED
  BY <1>2, <1>3

LEMMA LeaveAfterAllKinds ==
  ASSUME SessionInv, board \in BoardType, LeaveAfterAll
  PROVE  Browses \/ Leaves
<1> DEFINE v == [nav EXCEPT !.exit = FALSE]
           w == [v EXCEPT !.screen = "lobby"]
<1>1. nav \in NavType /\ PanelsOK /\ ToLobby(v)
  BY DEF SessionInv, LeaveAfterAll
<1>2. /\ v \in NavType /\ v.overlay = nav.overlay
      /\ w \in NavType /\ w.overlay = nav.overlay /\ w.screen = "lobby"
  BY <1>1 DEF NavType, Screens
<1>3. CASE nav.screen \in OnlineScreens
  BY <1>1, <1>2, <1>3 DEF ToLobby, Leaves
<1>4. CASE nav.screen \notin OnlineScreens
  <2>1. Look(w)
    BY <1>1, <1>4 DEF ToLobby
  <2> HIDE DEF w
  <2> QED
    BY <1>1, <1>2, <1>4, <2>1, LookBrowses DEF PanelsOK, OnlineScreens
<1> QED
  BY <1>3, <1>4

LEMMA BackKinds ==
  ASSUME SessionInv, board \in BoardType, Back
  PROVE  Browses \/ Leaves \/ Restart
<1>1. nav \in NavType /\ PanelsOK
  BY DEF SessionInv
<1>2. CASE \E e \in BOOLEAN : Look([nav EXCEPT !.exit = e])
  <2>1. PICK e \in BOOLEAN : Look([nav EXCEPT !.exit = e])
    BY <1>2
  <2>2. /\ [nav EXCEPT !.exit = e] \in NavType
        /\ [nav EXCEPT !.exit = e].screen = nav.screen
        /\ [nav EXCEPT !.exit = e].overlay = nav.overlay
    BY <1>1 DEF NavType
  <2> QED
    BY <1>1, <2>1, <2>2, LookBrowses DEF PanelsOK
<1>3. CASE Look([nav EXCEPT !.overlay = "none", !.delete = FALSE])
  <2> DEFINE v == [nav EXCEPT !.overlay = "none", !.delete = FALSE]
  <2>1. v \in NavType /\ v.screen = nav.screen /\ v.overlay = "none"
    BY <1>1 DEF NavType
  <2> QED
    BY <1>1, <1>3, <2>1, LookBrowses
<1>4. CASE ExitOnline(nav)
  BY <1>1, <1>4 DEF Leaves
<1> QED
  BY <1>2, <1>3, <1>4 DEF Back

LEMMA StepKinds ==
  ASSUME SessionInv, board \in BoardType, Next
  PROVE  \/ SigningIn \/ Browses \/ Asks \/ SignsOut \/ Leaves \/ Sends
         \/ Reconnects \/ Restart \/ Server
         \/ \E s \in Sockets : Opens(s) \/ Ends(s)
<1>1. nav \in NavType /\ PanelsOK
  BY DEF SessionInv
<1>2. CASE PlayOnline \/ CreateRoom \/ JoinRoom
  <2>1. \/ InLobby /\ Ask("join_queue", "waiting")
        \/ InLobby /\ Ask("room", "room")
    BY <1>2 DEF PlayOnline, CreateRoom, JoinRoom
  <2> QED
    BY <2>1 DEF Asks
<1>3. CASE LogOutAnswers \/ DeleteAnswers
  <2>1. CASE UNCHANGED <<link, token, stored, user, auth, nav, board>>
    BY <1>1, <1>3, <2>1
       DEF LogOutAnswers, DeleteAnswers, Browses, PanelsOK, signInVars
  <2>2. CASE SignOut
    BY <1>3, <2>2 DEF LogOutAnswers, DeleteAnswers, SignsOut
  <2> QED
    BY <1>3, <2>1, <2>2 DEF LogOutAnswers, DeleteAnswers
<1>4. CASE CancelQueue \/ CancelRoom \/ LeaveBoard
  BY <1>1, <1>4 DEF CancelQueue, CancelRoom, LeaveBoard, Leaves
<1>5. CASE TapCard \/ ImHere
  BY <1>5 DEF TapCard, ImHere, HandInReach, Sends
<1> QED
  BY <1>2, <1>3, <1>4, <1>5, MenuBrowses, OverlayBrowses, EndingBrowses,
     LeaveAfterAllKinds, BackKinds
     DEF Next, Reconnects
-----------------------------------------------------------------------------
(* What a message does to the screen and the board.                         *)

LEMMA Told ==
  ASSUME nav \in NavType, board \in BoardType, NEW s, NEW kind, Tell(s, kind)
  PROVE  /\ nav' \in NavType /\ board' \in BoardType
         /\ nav'.overlay = nav.overlay
         /\ \/ nav'.screen = nav.screen
            \/ user /\ IsOpen(link', s) /\ nav'.screen \in {"room", "online"}
         /\ nav'.screen = "waiting" =>
              /\ nav.screen = "waiting"
              /\ board'.cut = board.cut
              /\ board.error => board'.error
         /\ user /\ IsOpen(link', s) =>
              /\ kind \in {"start", "resume"} => nav'.screen = "online"
              /\ kind = "room_lobby" => nav'.screen = "room"
              /\ kind = "error" /\ nav.screen = "waiting" => board'.error
<1>1. CASE ~(user /\ IsOpen(link', s))
  BY <1>1 DEF Tell
<1>2. CASE user /\ IsOpen(link', s)
  <2>1. nav' = NavOn(kind) /\ board' = BoardOn(kind)
    BY <1>2 DEF Tell
  <2>2. \A scr \in Screens :
          /\ Goto(scr) \in NavType
          /\ Goto(scr).screen = scr /\ Goto(scr).overlay = nav.overlay
    BY DEF Goto, NavType, Menus
  <2>3. EmptyBoard \in BoardType
    BY DEF EmptyBoard, BoardType
  <2>4. CASE kind \in {"start", "resume"}
    <3>1. nav' = Goto("online")
      BY <2>1, <2>4 DEF NavOn
    <3> DEFINE p == (kind = "resume")
               q == (nav.screen = "online" /\ board.confirm)
    <3>2. p \in BOOLEAN /\ q \in BOOLEAN
      BY DEF BoardType
    <3>3. board' = [EmptyBoard EXCEPT !.prompt = p, !.confirm = q]
      BY <2>1, <2>4 DEF BoardOn
    <3> HIDE DEF p, q
    <3>4. board' \in BoardType
      BY <2>3, <3>2, <3>3 DEF BoardType
    <3> QED
      BY <1>2, <2>2, <2>4, <3>1, <3>4 DEF Screens, OnlineScreens
  <2>5. CASE kind = "room_lobby"
    BY <1>2, <2>1, <2>2, <2>3, <2>5
       DEF NavOn, BoardOn, Screens, OnlineScreens
  <2>6. CASE kind \notin {"start", "resume", "room_lobby"}
    <3>1. nav' = nav
      BY <2>1, <2>6 DEF NavOn
    <3> DEFINE e == (nav.screen \in {"waiting", "room"})
    <3>2. e \in BOOLEAN
      OBVIOUS
    <3>3. CASE kind = "error"
      <4>1. board' = [board EXCEPT !.error = e]
        BY <2>1, <3>3 DEF BoardOn
      <4>2. board' \in BoardType /\ board'.cut = board.cut /\ board'.error = e
        BY <3>2, <4>1 DEF BoardType
      <4> QED
        BY <2>6, <3>1, <3>3, <4>2
    <3>4. CASE kind # "error"
      <4>1. \/ board' = [board EXCEPT !.prompt = TRUE]
            \/ board' = [board EXCEPT !.prompt = FALSE]
            \/ board' = [board EXCEPT !.over = TRUE, !.prompt = FALSE]
            \/ board' = board
        BY <2>1, <2>6, <3>4 DEF BoardOn
      <4>2. /\ board' \in BoardType /\ board'.cut = board.cut
            /\ board'.error = board.error
        BY <4>1 DEF BoardType
      <4> QED
        BY <2>6, <3>1, <3>4, <4>2
    <3> QED
      BY <3>3, <3>4
  <2> QED
    BY <2>4, <2>5, <2>6
<1> QED
  BY <1>1, <1>2

Others ==
  QueueMatches \/ RoomChanges \/ Prompts \/ GameEnds \/ Burned \/ CloseRoom

(* What the server does: it tells one connection, of its queues, seat and   *)
(* prompt, and takes at most one message off its way.                       *)
LEMMA ServerTells ==
  ASSUME Server
  PROVE  /\ UNCHANGED <<signInVars, ending, orphans>>
         /\ \E s, kind : Tell(s, kind)
         /\ \/ link' = link
            \/ \E s \in Sockets :
                 /\ link.sent[s] # <<>>
                 /\ link' = [link EXCEPT !.sent[s] = Tail(link.sent[s])]
<1>1. ASSUME NEW s \in Sockets, NEW kind, Arrives(s, kind)
      PROVE  /\ UNCHANGED <<signInVars, ending, orphans>>
             /\ link.sent[s] # <<>>
             /\ link' = [link EXCEPT !.sent[s] = Tail(link.sent[s])]
  BY <1>1 DEF Arrives
<1>2. CASE \E s \in Sockets :
             \/ QueueRequest(s) \/ RoomRequest(s) \/ LeaveRequest(s)
             \/ CardArrives(s) \/ HereArrives(s)
  <2>1. PICK s \in Sockets :
          \/ QueueRequest(s) \/ RoomRequest(s) \/ LeaveRequest(s)
          \/ CardArrives(s) \/ HereArrives(s)
    BY <1>2
  <2>2. /\ \E kind : Arrives(s, kind)
        /\ \E u, kind : Tell(u, kind)
    BY <2>1 DEF QueueRequest, RoomRequest, LeaveRequest, CardArrives,
                HereArrives, DropsOut, Reply
  <2> QED
    BY <1>1, <2>2
<1>3. CASE Others
  <2>1. CASE Burned
    BY <2>1 DEF Burned, DropsOut
  <2>2. CASE ~Burned
    <3>1. \E server, s, kind : Meanwhile(server, s, kind)
      BY <1>3, <2>2
         DEF Others, QueueMatches, RoomChanges, Prompts, GameEnds, CloseRoom
    <3> QED
      BY <3>1 DEF Meanwhile
  <2> QED
    BY <2>1, <2>2
<1> QED
  BY <1>2, <1>3 DEF Server, Others

-----------------------------------------------------------------------------
(* The session is kept.                                                     *)

LEMMA SameSession ==
  ASSUME SessionOK, UNCHANGED signInVars
  PROVE  SessionOK'
BY DEF SessionOK, signInVars, Mounted, AgreedOK

LEMMA SamePanels ==
  ASSUME PanelsOK, boot' = boot, nav'.overlay \in {"none", nav.overlay},
         ending' \in {"none", ending}
  PROVE  PanelsOK'
BY DEF PanelsOK

LEMMA SignedOut ==
  ASSUME SessionInv, SignsOut
  PROVE  SessionInv'
<1> DEFINE v == Goto("lobby")
           o == IF v.overlay = "settings" THEN "none" ELSE v.overlay
           w == [v EXCEPT !.overlay = o, !.delete = FALSE]
<1>1. /\ boot = "done" /\ boot' = boot /\ native' = native
      /\ token' = FALSE /\ user' = FALSE /\ stored' \in {stored, FALSE}
      /\ consented' = consented /\ ending' = "none"
      /\ auth' = IF user THEN NewScreen ELSE auth
  BY DEF SignsOut, SignOut, Write, SessionInv, PanelsOK
<1>2. Mounted'
  BY <1>1 DEF Mounted
<1>3. AgreedOK' /\ auth' \in AuthType
  BY <1>1, ScreenIsNew DEF AgreedOK, SessionInv, SessionOK
<1>4. SessionOK'
  <2>1. stored' \in BOOLEAN /\ (stored' => consented')
    <3>1. stored \in BOOLEAN /\ (stored => consented)
      BY DEF SessionInv, SessionOK
    <3>2. CASE stored' = stored
      BY <1>1, <3>1, <3>2
    <3>3. CASE stored' = FALSE
      BY <3>3
    <3> QED
      BY <1>1, <3>2, <3>3
  <2>2. native' \in BOOLEAN /\ consented' \in BOOLEAN
    BY <1>1 DEF SessionInv, SessionOK
  <2> QED
    BY <1>1, <1>2, <1>3, <2>1, <2>2 DEF SessionOK
<1>5. v \in NavType /\ v.overlay = nav.overlay
  BY DEF SessionInv, Goto, NavType, Screens, Menus
<1>6. nav' = w
  BY DEF SignsOut, SignOut
<1> HIDE DEF v
<1>7. o \in {"none", "settings", "history", "howto"}
  BY <1>5 DEF NavType
<1> HIDE DEF o
<1>8. w \in NavType
  BY <1>5, <1>7 DEF NavType
<1> QED
  BY <1>1, <1>4, <1>6, <1>8 DEF SessionInv, PanelsOK

LEMMA GotoIs ==
  ASSUME nav \in NavType, NEW scr \in Screens
  PROVE  /\ Goto(scr) \in NavType
         /\ Goto(scr).screen = scr /\ Goto(scr).overlay = nav.overlay
BY DEF Goto, NavType, Menus

LEMMA ExitedTo ==
  ASSUME NEW view \in NavType, ExitOnline(view)
  PROVE  /\ nav' \in NavType /\ nav'.overlay = view.overlay
         /\ nav'.screen = "lobby"
         /\ link' = Disconnect(Send(link, "leave"))
         /\ board' = EmptyBoard
         /\ UNCHANGED <<signInVars, ending, srv, orphans>>
BY DEF ExitOnline, NavType, Menus, Screens

LEMMA SessionStep ==
  ASSUME SessionInv, board \in BoardType, [Next]_vars
  PROVE  SessionInv'
<1> USE DEF SessionInv
<1>1. ASSUME UNCHANGED signInVars, nav' \in NavType,
             nav'.overlay \in {"none", nav.overlay},
             ending' \in {"none", ending}
      PROVE  SessionInv'
  BY <1>1, SameSession, SamePanels DEF signInVars
<1>2. CASE UNCHANGED vars
  BY <1>1, <1>2 DEF vars, appVars
<1>3. CASE SigningIn
  <2>1. SessionOK'
    BY <1>3, SignInKeepsSession DEF SigningIn
  <2>2. nav' \in NavType /\ nav'.overlay = nav.overlay
    BY <1>3, GotoIs DEF SigningIn, Screens
  <2>3. boot = "done" => boot' = "done"
    BY <1>3 DEF SigningIn, SignInNext, Hydrate, MeAnswers, ConfigAnswers,
       IntroEnds, ReadPolicy, ReadRules, LeavePage, Tick, ButtonLoads,
       AskGoogle, GoogleGivesUp, CredentialArrives, GoogleAnswers,
       CreateAccount, CreateAnswers, UseAnotherAccount, Show, Enter
  <2> QED
    BY <1>3, <2>1, <2>2, <2>3 DEF SigningIn, PanelsOK
<1>4. CASE Browses
  BY <1>4, SameSession DEF Browses
<1>5. CASE Asks
  <2>1. PICK scr \in Screens : nav' = Goto(scr) /\ UNCHANGED <<signInVars, ending>>
    BY <1>5 DEF Asks, Ask, Screens, OnlineScreens
  <2> QED
    BY <1>1, <2>1, GotoIs
<1>6. CASE SignsOut
  BY <1>6, SignedOut
<1>7. CASE Leaves
  BY <1>1, <1>7, ExitedTo DEF Leaves
<1>8. CASE Sends \/ Reconnects \/ \E s \in Sockets : Ends(s)
  <2>1. UNCHANGED <<signInVars, nav, ending>>
    BY <1>8 DEF Sends, Reconnects, Resume, TimerFires, StrayFires, Ends
  <2> QED
    BY <1>1, <2>1
<1>9. CASE Restart
  BY <1>9, ScreenIsNew
     DEF Restart, SessionOK, PanelsOK, AgreedOK, FirstView, NavType, Screens, Menus
<1>10. CASE Server \/ \E s \in Sockets : Opens(s)
  <2>1. UNCHANGED <<signInVars, ending>> /\ \E s, kind : Tell(s, kind)
    BY <1>10, ServerTells DEF Opens
  <2> QED
    BY <1>1, <2>1, Told
<1> QED
  BY <1>2, <1>3, <1>4, <1>5, <1>6, <1>7, <1>8, <1>9, <1>10, StepKinds
-----------------------------------------------------------------------------
(* The connection: what the operations of GameSocket do to it.              *)

LEMMA NoSocketIsNone == NoSocket \notin Sockets /\ MaxSockets \in Nat
BY SocketAssumption DEF NoSocket, Sockets

(* A WebSocket is opened where there is none, and one at a time.            *)
LEMMA SocketOpens ==
  ASSUME NEW l \in LinkType, l.ws = NoSocket, Unused(l) # {}
  PROVE  \E s \in Sockets :
           /\ l.state[s] = "none"
           /\ OpenSocket(l) = [l EXCEPT !.ws = s, !.state[s] = "connecting"]
<1>1. Unused(l) \in SUBSET Nat
  BY NoSocketIsNone DEF Unused, Sockets
<1>2. Min(Unused(l)) \in Unused(l)
  BY <1>1, LeastExists
<1> QED
  BY <1>2 DEF OpenSocket, Unused

LEMMA SendIs ==
  ASSUME NEW l \in LinkType, NEW m \in Kind
  PROVE  /\ Send(l, m) \in LinkType
         /\ Send(l, m).ws = l.ws /\ Send(l, m).wanted = l.wanted
         /\ Send(l, m).state = l.state
         /\ IsOpen(l, l.ws) =>
              /\ Send(l, m).queue = l.queue
              /\ \A s \in Sockets : s # l.ws => Send(l, m).sent[s] = l.sent[s]
         /\ ~IsOpen(l, l.ws) =>
              /\ Send(l, m).queue = Append(l.queue, m)
              /\ Send(l, m).sent = l.sent
<1>1. CASE IsOpen(l, l.ws)
  <2> DEFINE sn == [l.sent EXCEPT ![l.ws] = Append(l.sent[l.ws], m)]
  <2>1. Send(l, m) = [l EXCEPT !.sent = sn] /\ l.ws \in Sockets
    BY <1>1 DEF Send, IsOpen
  <2>2. /\ sn \in [Sockets -> Seq(Kind)]
        /\ \A s \in Sockets : s # l.ws => sn[s] = l.sent[s]
    BY <2>1 DEF LinkType
  <2> HIDE DEF sn
  <2> QED
    BY <1>1, <2>1, <2>2 DEF LinkType
<1>2. CASE ~IsOpen(l, l.ws)
  <2>1. Send(l, m) = [l EXCEPT !.queue = Append(l.queue, m)]
    BY <1>2 DEF Send
  <2>2. Append(l.queue, m) \in Seq(Kind)
    BY DEF LinkType
  <2> QED
    BY <1>2, <2>1, <2>2 DEF LinkType
<1> QED
  BY <1>1, <1>2

LEMMA DisconnectIs ==
  ASSUME NEW l \in LinkType
  PROVE  /\ Disconnect(l) \in LinkType
         /\ Disconnect(l).ws = NoSocket /\ ~Disconnect(l).wanted
         /\ Disconnect(l).queue = <<>> /\ Disconnect(l).sent = l.sent
         /\ \A s \in Sockets :
              Disconnect(l).state[s] = IF s = l.ws THEN "closing"
                                                   ELSE l.state[s]
<1> DEFINE st == [s \in Sockets |-> IF s = l.ws THEN "closing" ELSE l.state[s]]
<1>1. Disconnect(l) = [l EXCEPT !.wanted = FALSE, !.queue = <<>>,
                                !.timer = FALSE, !.ws = NoSocket, !.state = st]
  BY DEF Disconnect
<1>2. /\ st \in [Sockets -> {"none", "connecting", "open", "closing"}]
      /\ \A s \in Sockets :
           st[s] = IF s = l.ws THEN "closing" ELSE l.state[s]
  BY DEF LinkType
<1>3. <<>> \in Seq(Kind)
  OBVIOUS
<1> HIDE DEF st
<1> QED
  BY <1>1, <1>2, <1>3 DEF LinkType

(* A connection is wanted, and opened if there is none.                     *)
LEMMA ConnectIs ==
  ASSUME NEW l \in LinkType, CanOpen(l), NEW l2 \in LinkType, l2.ws = l.ws,
         l2.state = l.state, l2.sent = l.sent, l2.queue = l.queue
  PROVE  LET n == OpenSocket(l2)
         IN /\ n \in LinkType /\ n.wanted = l2.wanted /\ n.sent = l.sent
            /\ n.queue = l.queue
            /\ \/ l.ws # NoSocket /\ n.ws = l.ws /\ n.state = l.state
               \/ /\ l.ws = NoSocket /\ n.ws \in Sockets
                  /\ l.state[n.ws] = "none"
                  /\ n.state = [l.state EXCEPT ![n.ws] = "connecting"]
<1>1. CASE l.ws # NoSocket
  BY <1>1 DEF OpenSocket
<1>2. CASE l.ws = NoSocket
  <2>1. Unused(l2) # {}
    BY <1>2 DEF CanOpen, Unused
  <2>2. PICK s \in Sockets :
          /\ l2.state[s] = "none"
          /\ OpenSocket(l2) = [l2 EXCEPT !.ws = s, !.state[s] = "connecting"]
    BY <1>2, <2>1, SocketOpens
  <2> DEFINE st == [l2.state EXCEPT ![s] = "connecting"]
             n == [l2 EXCEPT !.ws = s, !.state = st]
  <2>3. st \in [Sockets -> {"none", "connecting", "open", "closing"}]
    BY DEF LinkType
  <2>4. OpenSocket(l2) = n
    BY <2>2
  <2>5. /\ n \in LinkType /\ n.ws = s /\ n.wanted = l2.wanted
        /\ n.sent = l2.sent /\ n.queue = l2.queue /\ n.state = st
    <3> HIDE DEF st
    <3> QED
      BY <2>3 DEF LinkType
  <2> HIDE DEF n
  <2> QED
    BY <1>2, <2>2, <2>4, <2>5
<1> QED
  BY <1>1, <1>2

LEMMA OpenedIs ==
  ASSUME NEW l \in LinkType, NEW s \in Sockets
  PROVE  LET n == Opened(l, s)
         IN /\ n \in LinkType /\ n.ws = l.ws /\ n.wanted = l.wanted
            /\ n.queue = <<>>
            /\ n.state = [l.state EXCEPT ![s] = "open"]
            /\ n.sent = [l.sent EXCEPT ![s] = l.queue]
<1> DEFINE st == [l.state EXCEPT ![s] = "open"]
           sn == [l.sent EXCEPT ![s] = l.queue]
           n == [l EXCEPT !.state = st, !.sent = sn, !.queue = <<>>]
<1>1. Opened(l, s) = n
  BY DEF Opened
<1>2. /\ st \in [Sockets -> {"none", "connecting", "open", "closing"}]
      /\ sn \in [Sockets -> Seq(Kind)]
      /\ <<>> \in Seq(Kind)
  BY DEF LinkType
<1>3. /\ n \in LinkType /\ n.ws = l.ws /\ n.wanted = l.wanted
      /\ n.queue = <<>> /\ n.state = st /\ n.sent = sn
  <2> HIDE DEF st, sn
  <2> QED
    BY <1>2 DEF LinkType
<1> HIDE DEF n
<1> QED
  BY <1>1, <1>3

LEMMA ClosedIs ==
  ASSUME NEW l \in LinkType, NEW s \in Sockets
  PROVE  LET n == Closed(l, s)
         IN /\ n \in LinkType /\ n.ws = NoSocket /\ n.wanted = l.wanted
            /\ n.queue = l.queue
            /\ n.state = [l.state EXCEPT ![s] = "none"]
            /\ n.sent = [l.sent EXCEPT ![s] = <<>>]
<1> DEFINE st == [l.state EXCEPT ![s] = "none"]
           sn == [l.sent EXCEPT ![s] = <<>>]
           tm == l.timer \/ l.wanted
           sy == IF l.wanted /\ l.timer THEN l.strays + 1 ELSE l.strays
           n == [l EXCEPT !.ws = NoSocket, !.state = st, !.sent = sn,
                          !.timer = tm, !.strays = sy]
<1>1. Closed(l, s) = n
  BY DEF Closed
<1>2. /\ st \in [Sockets -> {"none", "connecting", "open", "closing"}]
      /\ sn \in [Sockets -> Seq(Kind)]
      /\ tm \in BOOLEAN /\ sy \in Nat
  BY DEF LinkType
<1>3. /\ n \in LinkType /\ n.ws = NoSocket /\ n.wanted = l.wanted
      /\ n.queue = l.queue /\ n.state = st /\ n.sent = sn
  <2> HIDE DEF st, sn, tm, sy
  <2> QED
    BY <1>2 DEF LinkType
<1> HIDE DEF n
<1> QED
  BY <1>1, <1>3

(* A message arrives: it is no longer on its way.                           *)
LEMMA TakenIs ==
  ASSUME NEW l \in LinkType, NEW s \in Sockets, l.sent[s] # <<>>
  PROVE  LET n == [l EXCEPT !.sent[s] = Tail(l.sent[s])]
         IN /\ n \in LinkType /\ n.ws = l.ws /\ n.wanted = l.wanted
            /\ n.queue = l.queue /\ n.state = l.state
            /\ n.sent = [l.sent EXCEPT ![s] = Tail(l.sent[s])]
<1> DEFINE sn == [l.sent EXCEPT ![s] = Tail(l.sent[s])]
           n == [l EXCEPT !.sent = sn]
<1>1. [l EXCEPT !.sent[s] = Tail(l.sent[s])] = n
  OBVIOUS
<1>2. sn \in [Sockets -> Seq(Kind)]
  BY DEF LinkType
<1>3. /\ n \in LinkType /\ n.ws = l.ws /\ n.wanted = l.wanted
      /\ n.queue = l.queue /\ n.state = l.state /\ n.sent = sn
  <2> HIDE DEF sn
  <2> QED
    BY <1>2 DEF LinkType
<1> HIDE DEF n
<1> QED
  BY <1>1, <1>3

(* What a reconnect timer does is what onResume does, or nothing.           *)
LEMMA ReconnectIs ==
  ASSUME SessionOK, LinkOK, Reconnects
  PROVE  /\ UNCHANGED <<signInVars, nav, board, ending, srv, orphans>>
         /\ link' \in LinkType /\ link'.queue = link.queue
         /\ link'.sent = link.sent
         /\ \/ /\ link'.ws = link.ws /\ link'.state = link.state
               /\ \/ link'.wanted = link.wanted
                  \/ link'.wanted /\ nav.screen \in OnlineScreens
            \/ /\ link.ws = NoSocket /\ link'.ws \in Sockets
               /\ link'.wanted /\ nav.screen \in OnlineScreens /\ token
               /\ link.state[link'.ws] = "none"
               /\ link'.state = [link.state EXCEPT ![link'.ws] = "connecting"]
<1> USE DEF LinkOK
<1>1. /\ UNCHANGED <<signInVars, nav, board, ending, srv, orphans>>
      /\ CanOpen(link)
  BY DEF Reconnects, Resume, TimerFires, StrayFires
<1>2. CASE Resume
  <2>1. token /\ nav.screen \in OnlineScreens
    BY <1>2 DEF Resume, SessionOK
  <2> DEFINE l2 == [link EXCEPT !.wanted = TRUE]
  <2>2. link' = OpenSocket(l2)
    BY <1>2, <2>1 DEF Resume, Connect
  <2>3. /\ l2 \in LinkType /\ l2.ws = link.ws /\ l2.state = link.state
        /\ l2.sent = link.sent /\ l2.queue = link.queue /\ l2.wanted
    BY DEF LinkType
  <2> HIDE DEF l2
  <2> QED
    BY <1>1, <2>1, <2>2, <2>3, ConnectIs
<1>3. CASE TimerFires \/ StrayFires
  <2>1. PICK l2 \in LinkType :
          /\ l2.ws = link.ws /\ l2.state = link.state /\ l2.sent = link.sent
          /\ l2.queue = link.queue /\ l2.wanted = link.wanted
          /\ link' = Reopen(l2, token)
    <3> DEFINE a == [link EXCEPT !.timer = FALSE]
               b == [link EXCEPT !.strays = link.strays - 1]
    <3>1. /\ a \in LinkType /\ a.ws = link.ws /\ a.state = link.state
          /\ a.sent = link.sent /\ a.queue = link.queue
          /\ a.wanted = link.wanted
      BY DEF LinkType
    <3>2. CASE TimerFires
      <4>1. link' = Reopen(a, token)
        BY <3>2 DEF TimerFires, TimerFired
      <4> HIDE DEF a
      <4> QED
        BY <3>1, <4>1
    <3>3. CASE StrayFires
      <4>1. link' = Reopen(b, token) /\ link.strays - 1 \in Nat
        BY <3>3 DEF StrayFires, StrayFired, LinkType
      <4>2. /\ b \in LinkType /\ b.ws = link.ws /\ b.state = link.state
            /\ b.sent = link.sent /\ b.queue = link.queue
            /\ b.wanted = link.wanted
        BY <4>1 DEF LinkType
      <4> HIDE DEF b
      <4> QED
        BY <4>1, <4>2
    <3> QED
      BY <1>3, <3>2, <3>3
  <2>2. CASE l2.wanted /\ token
    <3>1. link' = OpenSocket(l2)
      BY <2>1, <2>2 DEF Reopen
    <3>2. l2 \in LinkType /\ link \in LinkType
      OBVIOUS
    <3>3. /\ link' \in LinkType /\ link'.wanted = l2.wanted
          /\ link'.sent = link.sent /\ link'.queue = link.queue
          /\ \/ link.ws # NoSocket /\ link'.ws = link.ws /\ link'.state = link.state
             \/ /\ link.ws = NoSocket /\ link'.ws \in Sockets
                /\ link.state[link'.ws] = "none"
                /\ link'.state = [link.state EXCEPT ![link'.ws] = "connecting"]
      BY <1>1, <2>1, <3>1, <3>2, ConnectIs
    <3>4. link.wanted = l2.wanted /\ l2.wanted /\ token
      BY <2>1, <2>2
    <3>5. nav.screen \in OnlineScreens
      BY <3>4
    <3> QED
      BY <1>1, <3>3, <3>4, <3>5
  <2>3. CASE ~(l2.wanted /\ token)
    <3>1. link' = l2
      BY <2>1, <2>3 DEF Reopen
    <3> QED
      BY <1>1, <2>1, <3>1
  <2> QED
    BY <2>2, <2>3
<1> QED
  BY <1>2, <1>3 DEF Reconnects

(* Asking for a match or a room: a connection is opened for the request.    *)
LEMMA AskIs ==
  ASSUME SessionInv, LinkOK, NEW kind \in {"join_queue", "room"}, NEW scr,
         InLobby, Ask(kind, scr)
  PROVE  /\ UNCHANGED <<signInVars, ending, srv, orphans>>
         /\ user /\ token /\ nav' = Goto(scr) /\ board' = EmptyBoard
         /\ ~link.wanted /\ link.ws = NoSocket
         /\ link' \in LinkType /\ link'.wanted /\ link'.ws \in Sockets
         /\ link.state[link'.ws] = "none"
         /\ link'.state = [link.state EXCEPT ![link'.ws] = "connecting"]
         /\ link'.queue = Append(link.queue, kind)
         /\ link'.sent = link.sent
<1> USE DEF LinkOK
<1>1. /\ UNCHANGED <<signInVars, ending, srv, orphans>>
      /\ nav' = Goto(scr) /\ board' = EmptyBoard
      /\ CanOpen(link) /\ link' = Send(Connect(link, token), kind)
  BY DEF Ask
<1>2. user /\ token /\ nav.screen = "lobby"
  BY DEF InLobby, SessionInv, SessionOK
<1>3. ~link.wanted /\ link.ws = NoSocket
  BY <1>2 DEF OnlineScreens, LinkType
<1> DEFINE l2 == [link EXCEPT !.wanted = TRUE]
           n == OpenSocket(l2)
<1>4. /\ l2 \in LinkType /\ l2.ws = link.ws /\ l2.state = link.state
      /\ l2.sent = link.sent /\ l2.queue = link.queue /\ l2.wanted
  BY DEF LinkType
<1>5. Connect(link, token) = n
  BY <1>2 DEF Connect
<1> HIDE DEF l2
<1>6. /\ n \in LinkType /\ n.wanted /\ n.sent = link.sent
      /\ n.queue = link.queue /\ n.ws \in Sockets
      /\ link.state[n.ws] = "none"
      /\ n.state = [link.state EXCEPT ![n.ws] = "connecting"]
  BY <1>1, <1>3, <1>4, ConnectIs
<1> HIDE DEF n
<1>7. ~IsOpen(n, n.ws)
  BY <1>6 DEF LinkType, IsOpen
<1>8. link' = Send(n, kind) /\ kind \in Kind
  BY <1>1, <1>5 DEF Kind
<1>9. /\ link' \in LinkType /\ link'.ws = n.ws /\ link'.wanted
      /\ link'.state = n.state /\ link'.queue = Append(n.queue, kind)
      /\ link'.sent = n.sent
  BY <1>6, <1>7, <1>8, SendIs
<1> QED
  BY <1>1, <1>2, <1>3, <1>6, <1>9

(* Leaving for the lobby, in whatever way: the connection is torn down.     *)
LEMMA TornDownIs ==
  ASSUME LinkOK, NEW l \in {link, Send(link, "leave")}, link' = Disconnect(l),
         orphans' = orphans, nav'.screen = "lobby"
  PROVE  /\ LinkOK' /\ link'.queue = <<>>
         /\ \A s \in Sockets :
              /\ link'.state[s] \in {link.state[s], "closing"}
              /\ link'.state[s] \in {"none", "connecting"} =>
                   link'.sent[s] = link.sent[s]
<1> USE DEF LinkOK
<1>1. /\ l \in LinkType /\ l.ws = link.ws /\ l.state = link.state
      /\ l.wanted = link.wanted
      /\ \A s \in Sockets : ~IsOpen(link, s) => l.sent[s] = link.sent[s]
  <2>1. "leave" \in Kind
    BY DEF Kind
  <2> QED
    BY <2>1, SendIs
<1>2. /\ link' \in LinkType /\ link'.ws = NoSocket /\ ~link'.wanted
      /\ link'.queue = <<>> /\ link'.sent = l.sent
      /\ \A s \in Sockets :
           link'.state[s] = IF s = link.ws THEN "closing" ELSE link.state[s]
  BY <1>1, DisconnectIs
<1>3. \A s \in Sockets :
        link'.state[s] \in {"none", "connecting"} =>
          link'.state[s] = link.state[s] /\ link'.sent[s] = link.sent[s]
  BY <1>1, <1>2 DEF IsOpen
<1> QED
  BY <1>2, <1>3 DEF OnlineScreens

LEMMA EndsIs ==
  ASSUME LinkOK, NEW s \in Sockets, Ends(s)
  PROVE  /\ UNCHANGED <<signInVars, nav, ending>>
         /\ link' \in LinkType /\ link'.ws = NoSocket
         /\ link'.wanted = link.wanted /\ link'.queue = link.queue
         /\ link'.state = [link.state EXCEPT ![s] = "none"]
         /\ link'.sent = [link.sent EXCEPT ![s] = <<>>]
         /\ srv' = [srv EXCEPT !.queued = srv.queued \ {s},
                               !.at = IF srv.at = s THEN NoSocket ELSE srv.at,
                               !.room[s] = "none"]
         /\ board' = [board EXCEPT !.cut = \/ board.cut
                                           \/ /\ nav.screen = "waiting"
                                              /\ link.ws = s
                                              /\ IsOpen(link, s)]
         /\ orphans' \in Nat
         /\ orphans' = 0 => orphans = 0 /\ link.ws \in {NoSocket, s}
<1> DEFINE leaves == IF link.ws # s /\ Live(link, link.ws) THEN 1 ELSE 0
<1>1. /\ UNCHANGED <<signInVars, nav, ending>>
      /\ link' = Closed(link, s) /\ orphans' = orphans + leaves
      /\ srv' = [srv EXCEPT !.queued = srv.queued \ {s},
                            !.at = IF srv.at = s THEN NoSocket ELSE srv.at,
                            !.room[s] = "none"]
      /\ board' = [board EXCEPT !.cut = \/ board.cut
                                        \/ /\ nav.screen = "waiting"
                                           /\ link.ws = s
                                           /\ IsOpen(link, s)]
  BY DEF Ends
<1>2. link.ws # NoSocket => Live(link, link.ws)
  BY DEF LinkOK, LinkType, Live
<1>3. link \in LinkType /\ orphans \in Nat
  BY DEF LinkOK
<1>4. /\ leaves \in {0, 1}
      /\ leaves = 0 => link.ws \in {NoSocket, s}
  BY <1>2
<1> HIDE DEF leaves
<1>5. orphans' \in Nat /\ (orphans' = 0 => orphans = 0 /\ leaves = 0)
  BY <1>1, <1>3, <1>4
<1> QED
  BY <1>1, <1>3, <1>4, <1>5, ClosedIs

(* What the server does takes at most one message off its way.              *)
LEMMA ServerTakes ==
  ASSUME link \in LinkType, Server
  PROVE  /\ link' \in LinkType /\ link'.ws = link.ws
         /\ link'.wanted = link.wanted /\ link'.queue = link.queue
         /\ link'.state = link.state
         /\ \A s \in Sockets :
              link'.sent[s] = link.sent[s]
                \/ (link.sent[s] # <<>> /\ link'.sent[s] = Tail(link.sent[s]))
<1>1. CASE link' = link
  BY <1>1
<1>2. CASE \E s \in Sockets :
             /\ link.sent[s] # <<>>
             /\ link' = [link EXCEPT !.sent[s] = Tail(link.sent[s])]
  <2>1. PICK s \in Sockets :
          /\ link.sent[s] # <<>>
          /\ link' = [link EXCEPT !.sent[s] = Tail(link.sent[s])]
    BY <1>2
  <2>2. /\ link' \in LinkType /\ link'.ws = link.ws
        /\ link'.wanted = link.wanted /\ link'.queue = link.queue
        /\ link'.state = link.state
        /\ link'.sent = [link.sent EXCEPT ![s] = Tail(link.sent[s])]
    BY <2>1, TakenIs
  <2> QED
    BY <2>1, <2>2 DEF LinkType
<1> QED
  BY <1>1, <1>2, ServerTells

LEMMA LinkStep ==
  ASSUME SessionInv, LinkOK, board \in BoardType, [Next]_vars
  PROVE  LinkOK'
<1> USE DEF LinkOK
<1>1. nav \in NavType /\ SessionOK
  BY DEF SessionInv
<1>2. nav.screen \notin OnlineScreens =>
        /\ ~link.wanted /\ link.ws = NoSocket
        /\ orphans = 0 =>
             /\ link.queue = <<>>
             /\ \A s \in Sockets : link.state[s] \notin {"connecting", "open"}
  BY NoSocketIsNone
<1>3. CASE UNCHANGED vars
  BY <1>3 DEF vars, appVars, signInVars
<1>4. CASE SigningIn
  <2>1. /\ link' = link /\ orphans' = orphans
        /\ nav' = nav \/ (~user /\ nav' = Goto("lobby"))
        /\ user => user'
    <3>1. user' = user \/ user' = TRUE
      BY <1>4 DEF SigningIn, SignInNext, Hydrate, MeAnswers, ConfigAnswers,
         IntroEnds, ReadPolicy, ReadRules, LeavePage, Tick, ButtonLoads,
         AskGoogle, GoogleGivesUp, CredentialArrives, GoogleAnswers,
         CreateAccount, CreateAnswers, UseAnotherAccount, Show, Enter
    <3>2. /\ link' = link /\ orphans' = orphans
          /\ nav' = nav \/ (~user /\ nav' = Goto("lobby"))
      BY <1>4 DEF SigningIn
    <3> QED
      BY <3>1, <3>2
  <2>2. CASE nav' = nav
    BY <2>1, <2>2
  <2>3. CASE ~user /\ nav' = Goto("lobby")
    <3>1. nav'.screen \notin OnlineScreens /\ nav.screen \notin OnlineScreens
      BY <1>1, <2>3, GotoIs DEF Screens, OnlineScreens
    <3> QED
      BY <1>2, <2>1, <3>1
  <2> QED
    BY <2>1, <2>2, <2>3
<1>5. CASE Browses
  <2>1. /\ UNCHANGED <<link, orphans, user>>
        /\ \/ nav'.screen = nav.screen
           \/ nav.screen \notin OnlineScreens /\ nav'.screen \notin OnlineScreens
    BY <1>5 DEF Browses, signInVars
  <2> QED
    BY <1>2, <2>1
<1>6. CASE Asks
  <2>1. PICK kind \in {"join_queue", "room"}, scr \in {"waiting", "room"} :
          InLobby /\ Ask(kind, scr)
    BY <1>6 DEF Asks
  <2>2. nav.screen \notin OnlineScreens
    BY <2>1 DEF InLobby, OnlineScreens
  <2>3. nav'.screen \in OnlineScreens
    BY <1>1, <2>1, AskIs, GotoIs DEF Screens, OnlineScreens
  <2>4. /\ user' /\ orphans' = orphans
        /\ link' \in LinkType /\ link'.wanted /\ link'.ws \in Sockets
        /\ link.state[link'.ws] = "none"
        /\ link'.state = [link.state EXCEPT ![link'.ws] = "connecting"]
        /\ link'.sent = link.sent
    BY <2>1, AskIs DEF SessionInv, signInVars
  <2>5. \A s \in Sockets :
          link'.state[s] = IF s = link'.ws THEN "connecting" ELSE link.state[s]
    BY <2>4 DEF LinkType
  <2> QED
    BY <1>2, <2>2, <2>3, <2>4, <2>5, NoSocketIsNone
<1>7. CASE SignsOut
  <2>1. nav'.screen = "lobby"
    BY <1>1, <1>7 DEF SignsOut, SignOut, Goto, NavType
  <2> QED
    BY <1>7, <2>1, TornDownIs DEF SignsOut, SignOut
<1>8. CASE Leaves
  BY <1>8, ExitedTo, TornDownIs DEF Leaves
<1>9. CASE Sends
  <2>1. PICK kind \in Kind :
          /\ nav.screen = "online" /\ link' = Send(link, kind)
          /\ UNCHANGED <<signInVars, nav, orphans>>
    BY <1>9 DEF Sends, Kind, OnBoard
  <2>2. /\ link' \in LinkType /\ link'.ws = link.ws
        /\ link'.wanted = link.wanted /\ link'.state = link.state
        /\ \A s \in Sockets : ~IsOpen(link, s) => link'.sent[s] = link.sent[s]
    BY <2>1, SendIs
  <2> QED
    BY <2>1, <2>2 DEF OnlineScreens, IsOpen, signInVars
<1>10. CASE Reconnects
  <2>1. UNCHANGED <<user, nav, orphans>>
    BY <1>1, <1>10, ReconnectIs DEF signInVars
  <2>2. /\ link' \in LinkType /\ link'.queue = link.queue
        /\ link'.sent = link.sent
    BY <1>1, <1>10, ReconnectIs
  <2>3. CASE /\ link'.ws = link.ws /\ link'.state = link.state
             /\ \/ link'.wanted = link.wanted
                \/ link'.wanted /\ nav.screen \in OnlineScreens
    BY <2>1, <2>2, <2>3
  <2>4. CASE /\ link.ws = NoSocket /\ link'.ws \in Sockets
             /\ link'.wanted /\ nav.screen \in OnlineScreens /\ token
             /\ link.state[link'.ws] = "none"
             /\ link'.state = [link.state EXCEPT ![link'.ws] = "connecting"]
    <3>1. \A s \in Sockets :
            link'.state[s] = IF s = link'.ws THEN "connecting" ELSE link.state[s]
      BY <2>4 DEF LinkType
    <3> QED
      BY <2>1, <2>2, <2>4, <3>1, NoSocketIsNone
  <2> QED
    BY <1>1, <1>10, <2>3, <2>4, ReconnectIs
<1>11. CASE Restart
  BY <1>11, NoSocketIsNone
     DEF Restart, FirstView, NewGameSocket, LinkType, OnlineScreens
<1>12. CASE Server \/ \E s \in Sockets : Opens(s)
  <2>1. /\ UNCHANGED <<signInVars, ending, orphans>>
        /\ \E s, kind : Tell(s, kind)
    BY <1>12, ServerTells DEF Opens
  <2>2. PICK t : nav'.screen = nav.screen
                   \/ (/\ user /\ IsOpen(link', t)
                       /\ nav'.screen \in {"room", "online"})
    BY <1>1, <2>1, Told
  <2>3. /\ link' \in LinkType /\ link'.ws = link.ws
        /\ link'.wanted = link.wanted
        /\ link'.queue # <<>> => link'.queue = link.queue
        /\ \A s \in Sockets :
             /\ \/ link'.state[s] = link.state[s]
                \/ link.state[s] = "connecting" /\ link'.state[s] = "open"
             /\ link'.state[s] \in {"none", "connecting"} =>
                  link'.sent[s] = <<>>
    <3>1. CASE Server
      BY <3>1, ServerTakes
    <3>2. CASE \E s \in Sockets : Opens(s)
      <4>1. PICK s \in Sockets : Opens(s)
        BY <3>2
      <4>2. link.state[s] = "connecting" /\ link' = Opened(link, s)
        BY <4>1 DEF Opens
      <4>3. /\ link' \in LinkType /\ link'.ws = link.ws
            /\ link'.wanted = link.wanted /\ link'.queue = <<>>
            /\ link'.state = [link.state EXCEPT ![s] = "open"]
            /\ link'.sent = [link.sent EXCEPT ![s] = link.queue]
        BY <4>2, OpenedIs
      <4> QED
        BY <4>2, <4>3 DEF LinkType
    <3> QED
      BY <1>12, <3>1, <3>2
  <2>4. orphans = 0 =>
          \A s \in Sockets :
            link'.state[s] \in {"connecting", "open"} => s = link'.ws
    BY <2>3
  <2>5. orphans = 0 /\ IsOpen(link', t) => link.wanted
    BY <2>3, <2>4, NoSocketIsNone DEF IsOpen
  <2>6. link'.ws # NoSocket =>
          link'.wanted /\ link'.state[link'.ws] \in {"connecting", "open"}
    BY <2>3 DEF LinkType
  <2> QED
    BY <2>1, <2>2, <2>3, <2>4, <2>5, <2>6 DEF OnlineScreens, signInVars
<1>13. CASE \E s \in Sockets : Ends(s)
  <2>1. PICK s \in Sockets : Ends(s)
    BY <1>13
  <2>2. /\ UNCHANGED <<signInVars, nav>>
        /\ link' \in LinkType /\ link'.ws = NoSocket
        /\ link'.wanted = link.wanted /\ link'.queue = link.queue
        /\ link'.state = [link.state EXCEPT ![s] = "none"]
        /\ link'.sent = [link.sent EXCEPT ![s] = <<>>]
        /\ orphans' \in Nat
        /\ orphans' = 0 => orphans = 0 /\ link.ws \in {NoSocket, s}
    BY <2>1, EndsIs
  <2>3. \A t \in Sockets :
          /\ link'.state[t] = IF t = s THEN "none" ELSE link.state[t]
          /\ link'.sent[t] = IF t = s THEN <<>> ELSE link.sent[t]
    BY <2>2 DEF LinkType
  <2> QED
    BY <2>2, <2>3, NoSocketIsNone DEF signInVars
<1> QED
  BY <1>3, <1>4, <1>5, <1>6, <1>7, <1>8, <1>9, <1>10, <1>11, <1>12, <1>13,
     StepKinds
-----------------------------------------------------------------------------
(* The seat at the server.                                                  *)

LEMMA ReleasedIs ==
  ASSUME srv \in SrvType, NEW s \in Sockets
  PROVE  /\ Released(s) \in SrvType
         /\ Released(s).queued = srv.queued \ {s}
         /\ Released(s).at \in {srv.at, NoSocket}
         /\ Released(s).room = srv.room
<1> DEFINE q == srv.queued \ {s}
           st == IF srv.seat = "room" /\ srv.at = s THEN "none" ELSE srv.seat
           a == IF srv.seat = "room" /\ srv.at = s THEN NoSocket ELSE srv.at
<1>1. /\ q \in SUBSET Sockets /\ st \in {"none", "room", "game", "out", "over"}
      /\ a \in {srv.at, NoSocket}
  BY DEF SrvType
<1>2. Released(s) = [srv EXCEPT !.queued = q, !.seat = st, !.at = a]
  BY DEF Released
<1> HIDE DEF q, st, a
<1>3. /\ Released(s) \in SrvType /\ Released(s).queued = q
      /\ Released(s).at = a /\ Released(s).room = srv.room
  BY <1>1, <1>2 DEF SrvType
<1> QED
  BY <1>1, <1>3 DEF q

LEMMA SeatedIs ==
  ASSUME srv \in SrvType, NEW s \in Sockets \cup {NoSocket}
  PROVE  /\ Seated(s) \in SrvType
         /\ Seated(s).queued = srv.queued \ {s} /\ Seated(s).at = s
         /\ \A u \in Sockets : u # s =>
              /\ Seated(s).room[u] # "game"
              /\ srv.room[u] # "game" => Seated(s).room[u] = srv.room[u]
<1> DEFINE q == srv.queued \ {s}
           r == [u \in Sockets |->
                   IF u = s THEN "game"
                   ELSE IF srv.room[u] = "none" THEN "none" ELSE "past"]
<1>1. q \in SUBSET Sockets /\ r \in [Sockets -> {"none", "game", "past"}]
  BY DEF SrvType
<1>2. Seated(s) = [srv EXCEPT !.queued = q, !.seat = "game", !.at = s,
                              !.room = r]
  BY DEF Seated
<1>3. \A u \in Sockets : u # s =>
        /\ r[u] # "game"
        /\ srv.room[u] # "game" => r[u] = srv.room[u]
  BY DEF SrvType
<1> HIDE DEF q, r
<1>4. /\ Seated(s) \in SrvType /\ Seated(s).queued = q
      /\ Seated(s).at = s /\ Seated(s).room = r
  BY <1>1, <1>2 DEF SrvType
<1> QED
  BY <1>3, <1>4 DEF q

LEMMA OverIs ==
  ASSUME srv \in SrvType, NEW s
  PROVE  /\ Over(s) \in SrvType
         /\ Over(s).queued = srv.queued /\ Over(s).at = NoSocket
         /\ \A u \in Sockets :
              srv.room[u] # "game" => Over(s).room[u] = srv.room[u]
<1> DEFINE r == [u \in Sockets |->
                   IF srv.room[u] # "game" THEN srv.room[u]
                   ELSE IF u = s THEN "none" ELSE "past"]
<1>1. r \in [Sockets -> {"none", "game", "past"}]
  BY DEF SrvType
<1>2. Over(s) = [srv EXCEPT !.seat = "over", !.at = NoSocket,
                            !.prompt = "off", !.room = r]
  BY DEF Over
<1>3. \A u \in Sockets : srv.room[u] # "game" => r[u] = srv.room[u]
  OBVIOUS
<1> HIDE DEF r
<1>4. /\ Over(s) \in SrvType /\ Over(s).queued = srv.queued
      /\ Over(s).at = NoSocket /\ Over(s).room = r
  BY <1>1, <1>2 DEF SrvType
<1> QED
  BY <1>3, <1>4

(* Client.room changes for the connections of the game of the seat alone.   *)
RoomsKept ==
  \A u \in Sockets : srv.room[u] # "game" => srv'.room[u] = srv.room[u]

LEMMA DroppedOut ==
  ASSUME srv \in SrvType, NEW s \in Sockets \cup {NoSocket}, DropsOut(s)
  PROVE  /\ srv' \in SrvType /\ srv'.queued = srv.queued
         /\ srv'.at \in {NoSocket, s} /\ RoomsKept
<1>1. CASE srv' = Over(s)
  BY <1>1, OverIs DEF RoomsKept
<1>2. CASE srv' = [srv EXCEPT !.seat = "out", !.at = s, !.prompt = "off"]
  BY <1>2 DEF SrvType, RoomsKept
<1> QED
  BY <1>1, <1>2 DEF DropsOut

(* A place at the server is a place it had, or one for the connection a     *)
(* request has arrived on; a game is not entered by asking.                 *)
LEMMA RequestSeats ==
  ASSUME srv \in SrvType, NEW s \in Sockets,
         \/ QueueRequest(s) \/ RoomRequest(s) \/ LeaveRequest(s)
         \/ CardArrives(s) \/ HereArrives(s)
  PROVE  /\ srv' \in SrvType
         /\ link.sent[s] # <<>>
         /\ srv'.queued \subseteq srv.queued \cup {s}
         /\ srv.queued \subseteq srv'.queued \cup {s}
         /\ srv'.at \in {srv.at, NoSocket, s}
         /\ RoomsKept
<1> USE ReleasedIs, DroppedOut
<1>1. link.sent[s] # <<>>
  BY DEF QueueRequest, RoomRequest, LeaveRequest, CardArrives, HereArrives,
         Arrives
<1> DEFINE r == Released(s)
           q == srv.queued \cup {s}
           inQueue == [r EXCEPT !.queued = q]
           inRoom == [r EXCEPT !.seat = "room", !.at = s]
           off == [srv EXCEPT !.prompt = "off"]
           answered == [srv EXCEPT !.prompt = "answered", !.at = s]
<1>2. /\ r \in SrvType /\ r.queued = srv.queued \ {s}
      /\ r.at \in {srv.at, NoSocket} /\ r.room = srv.room
  OBVIOUS
<1>3. r.queued \cup {s} = q /\ q \in SUBSET Sockets
  BY <1>2 DEF SrvType
<1>4. \/ srv' \in {srv, r, inQueue, inRoom, off, answered}
      \/ DropsOut(s)
  <2>1. inQueue = [Released(s) EXCEPT !.queued = Released(s).queued \cup {s}]
    BY <1>3
  <2> QED
    BY <2>1 DEF QueueRequest, RoomRequest, LeaveRequest, CardArrives,
                HereArrives, Reply
<1> HIDE DEF r, q
<1>5. CASE DropsOut(s)
  BY <1>1, <1>5
<1>6. CASE srv' \in {srv, r, off, answered}
  BY <1>1, <1>2, <1>6 DEF SrvType, RoomsKept
<1>7. CASE srv' = inQueue
  <2>1. /\ inQueue \in SrvType /\ inQueue.queued = q
        /\ inQueue.at = r.at /\ inQueue.room = r.room
    BY <1>2, <1>3 DEF SrvType
  <2> QED
    BY <1>1, <1>2, <1>7, <2>1 DEF q, RoomsKept
<1>8. CASE srv' = inRoom
  <2>1. /\ inRoom \in SrvType /\ inRoom.queued = r.queued
        /\ inRoom.at = s /\ inRoom.room = r.room
    BY <1>2 DEF SrvType
  <2> QED
    BY <1>1, <1>2, <1>8, <2>1 DEF RoomsKept
<1> QED
  BY <1>4, <1>5, <1>6, <1>7, <1>8

(* Others match a waiting connection, or change the seat where it is.       *)
LEMMA EventSeats ==
  ASSUME srv \in SrvType, Others
  PROVE  /\ srv' \in SrvType /\ srv'.queued \subseteq srv.queued
         /\ srv'.at \in {srv.at, NoSocket} \cup srv.queued
         /\ \A u \in Sockets :
              \/ srv.room[u] # "game" => srv'.room[u] = srv.room[u]
              \/ u \in {srv.at} \cup srv.queued
<1>1. srv.at \in Sockets \cup {NoSocket} /\ srv.queued \subseteq Sockets
  BY DEF SrvType
<1>2. CASE QueueMatches
  <2>1. PICK s \in srv.queued : srv' = Seated(s)
    BY <1>2 DEF QueueMatches, Meanwhile
  <2> QED
    BY <1>1, <2>1, SeatedIs
<1>3. CASE RoomChanges
  <2>1. CASE srv' = Seated(srv.at)
    BY <1>1, <2>1, SeatedIs
  <2>2. CASE srv' = srv \/ srv' = [srv EXCEPT !.seat = "none", !.at = NoSocket]
    BY <2>2 DEF SrvType
  <2> QED
    BY <1>3, <2>1, <2>2 DEF RoomChanges, Meanwhile
<1>4. CASE Prompts \/ CloseRoom
  <2>1. \/ srv' = [srv EXCEPT !.prompt = "asked"]
        \/ srv' = [srv EXCEPT !.seat = "none"]
    BY <1>4 DEF Prompts, CloseRoom, Meanwhile
  <2> QED
    BY <2>1 DEF SrvType
<1>5. CASE GameEnds
  <2>1. srv' = Over(srv.at)
    BY <1>5 DEF GameEnds, Meanwhile
  <2> QED
    BY <2>1, OverIs
<1>6. CASE Burned
  <2>1. DropsOut(srv.at)
    BY <1>6 DEF Burned
  <2> QED
    BY <1>1, <2>1, DroppedOut DEF RoomsKept
<1> QED
  BY <1>2, <1>3, <1>4, <1>5, <1>6 DEF Others

LEMMA ServerStep ==
  ASSUME SessionInv, LinkOK, ServerOK, [Next]_vars
  PROVE  ServerOK'
<1> USE DEF ServerOK
<1>1. nav \in NavType /\ SessionOK /\ link \in LinkType
  BY DEF SessionInv, LinkOK
<1>2. EmptyBoard \in BoardType
  BY DEF EmptyBoard, BoardType
<1>3. ASSUME srv' = srv, board' \in BoardType,
             \A s \in Sockets : link'.state[s] \in {"none", "connecting"} =>
                                  link.state[s] \in {"none", "connecting"}
      PROVE  ServerOK'
  BY <1>3
<1>4. CASE UNCHANGED vars
  BY <1>3, <1>4 DEF vars, appVars
<1>5. CASE SigningIn \/ Browses
  BY <1>3, <1>5 DEF SigningIn, Browses
<1>6. CASE Asks
  <2>1. PICK kind \in {"join_queue", "room"}, scr \in {"waiting", "room"} :
          InLobby /\ Ask(kind, scr)
    BY <1>6 DEF Asks
  <2>2. /\ srv' = srv /\ board' = EmptyBoard /\ link'.ws \in Sockets
        /\ link.state[link'.ws] = "none"
        /\ link'.state = [link.state EXCEPT ![link'.ws] = "connecting"]
    BY <2>1, AskIs
  <2> QED
    BY <1>1, <1>2, <1>3, <2>2 DEF LinkType
<1>7. CASE SignsOut \/ Leaves
  <2>1. /\ srv' = srv /\ board' = EmptyBoard
        /\ link' = Disconnect(link) \/ link' = Disconnect(Send(link, "leave"))
        /\ orphans' = orphans /\ nav'.screen = "lobby"
    BY <1>1, <1>7, ExitedTo DEF Leaves, SignsOut, SignOut, Goto, NavType
  <2>2. \A s \in Sockets : link'.state[s] \in {link.state[s], "closing"}
    BY <2>1, TornDownIs
  <2> QED
    BY <1>2, <1>3, <2>1, <2>2
<1>8. CASE Sends
  <2>1. PICK kind \in Kind : /\ link' = Send(link, kind)
                             /\ UNCHANGED <<board, srv>>
    BY <1>8 DEF Sends, Kind
  <2>2. link'.state = link.state
    BY <1>1, <2>1, SendIs
  <2> QED
    BY <1>3, <2>1, <2>2
<1>9. CASE Reconnects
  <2>1. UNCHANGED <<board, srv>>
    BY <1>1, <1>9, ReconnectIs
  <2>2. \/ link'.state = link.state
        \/ /\ link'.ws \in Sockets /\ link.state[link'.ws] = "none"
           /\ link'.state = [link.state EXCEPT ![link'.ws] = "connecting"]
    BY <1>1, <1>9, ReconnectIs
  <2> QED
    BY <1>1, <1>3, <2>1, <2>2 DEF LinkType
<1>10. CASE Restart
  <2>1. /\ srv' = [srv EXCEPT !.queued = {}, !.at = NoSocket,
                                !.room = [s \in Sockets |-> "none"]]
        /\ board' = EmptyBoard
    BY <1>10 DEF Restart, NoSeat
  <2>2. /\ srv' \in SrvType /\ srv'.queued = {} /\ srv'.at = NoSocket
        /\ srv'.room = [s \in Sockets |-> "none"]
    BY <2>1 DEF SrvType
  <2> QED
    BY <1>2, <2>1, <2>2, NoSocketIsNone
<1>11. CASE Server \/ \E s \in Sockets : Opens(s)
  <2>1. \E s, kind : Tell(s, kind)
    BY <1>11, ServerTells DEF Opens
  <2>2. board' \in BoardType
    BY <1>1, <2>1, Told
  <2>3. CASE Server
    <3>1. link'.state = link.state
      BY <1>1, <2>3, ServerTakes
    <3>2. \A s \in Sockets :
            link.sent[s] # <<>> => link.state[s] \notin {"none", "connecting"}
      BY DEF LinkOK
    <3>3. CASE \E s \in Sockets :
                 \/ QueueRequest(s) \/ RoomRequest(s) \/ LeaveRequest(s)
                 \/ CardArrives(s) \/ HereArrives(s)
      <4>1. PICK s \in Sockets :
              \/ QueueRequest(s) \/ RoomRequest(s) \/ LeaveRequest(s)
              \/ CardArrives(s) \/ HereArrives(s)
        BY <3>3
      <4>2. /\ srv' \in SrvType /\ link.sent[s] # <<>>
            /\ srv'.queued \subseteq srv.queued \cup {s}
            /\ srv'.at \in {srv.at, NoSocket, s} /\ RoomsKept
        BY <4>1, RequestSeats
      <4> QED
        BY <2>2, <3>1, <3>2, <4>2, NoSocketIsNone DEF RoomsKept
    <3>4. CASE Others
      <4>1. /\ srv' \in SrvType /\ srv'.queued \subseteq srv.queued
            /\ srv'.at \in {srv.at, NoSocket} \cup srv.queued
            /\ \A u \in Sockets :
                 \/ srv.room[u] # "game" => srv'.room[u] = srv.room[u]
                 \/ u \in {srv.at} \cup srv.queued
        BY <3>4, EventSeats
      <4> QED
        BY <2>2, <3>1, <4>1, NoSocketIsNone
    <3> QED
      BY <2>3, <3>3, <3>4 DEF Server, Others
  <2>4. CASE \E s \in Sockets : Opens(s)
    <3>1. PICK s \in Sockets : Opens(s)
      BY <2>4
    <3>2. PICK a \in {srv.at, s}, r \in {"game", "past", srv.room[s]} :
            /\ link' = Opened(link, s)
            /\ srv' = [srv EXCEPT !.at = a, !.room[s] = r]
      <4>1. /\ srv = [srv EXCEPT !.at = srv.at, !.room[s] = srv.room[s]]
            /\ [srv EXCEPT !.at = s] = [srv EXCEPT !.at = s,
                                                  !.room[s] = srv.room[s]]
            /\ [srv EXCEPT !.room[s] = "past"] =
                 [srv EXCEPT !.at = srv.at, !.room[s] = "past"]
        BY DEF SrvType
      <4> QED
        BY <3>1, <4>1 DEF Opens
    <3>3. link'.state = [link.state EXCEPT ![s] = "open"]
      BY <1>1, <3>2, OpenedIs
    <3>4. \A u \in Sockets :
            link'.state[u] = IF u = s THEN "open" ELSE link.state[u]
      BY <1>1, <3>3 DEF LinkType
    <3>5. /\ srv' \in SrvType /\ srv'.queued = srv.queued
          /\ srv'.at \in {srv.at, s}
          /\ \A u \in Sockets : u # s => srv'.room[u] = srv.room[u]
      BY <3>2 DEF SrvType
    <3> QED
      BY <2>2, <3>4, <3>5
  <2> QED
    BY <1>11, <2>3, <2>4
<1>12. CASE \E s \in Sockets : Ends(s)
  <2>1. PICK s \in Sockets : Ends(s)
    BY <1>12
  <2> DEFINE at == IF srv.at = s THEN NoSocket ELSE srv.at
             q == srv.queued \ {s}
             c == \/ board.cut
                  \/ /\ nav.screen = "waiting" /\ link.ws = s
                     /\ IsOpen(link, s)
  <2>2. /\ link'.state = [link.state EXCEPT ![s] = "none"]
        /\ srv' = [srv EXCEPT !.queued = q, !.at = at, !.room[s] = "none"]
        /\ board' = [board EXCEPT !.cut = c]
    BY <2>1, EndsIs
  <2>3. /\ q \in SUBSET Sockets /\ s \notin q /\ q \subseteq srv.queued
        /\ at \in {srv.at, NoSocket} /\ at # s
    BY NoSocketIsNone DEF SrvType
  <2>4. c \in BOOLEAN
    BY DEF BoardType
  <2> HIDE DEF at, q, c
  <2>5. board' \in BoardType
    BY <2>2, <2>4 DEF BoardType
  <2>6. /\ srv' \in SrvType /\ srv'.queued = q /\ srv'.at = at
        /\ \A u \in Sockets :
             srv'.room[u] = IF u = s THEN "none" ELSE srv.room[u]
    BY <2>2, <2>3 DEF SrvType
  <2>7. \A u \in Sockets :
          link'.state[u] = IF u = s THEN "none" ELSE link.state[u]
    BY <1>1, <2>2 DEF LinkType
  <2> QED
    BY <2>3, <2>5, <2>6, <2>7, NoSocketIsNone
<1> QED
  BY <1>4, <1>5, <1>6, <1>7, <1>8, <1>9, <1>10, <1>11, <1>12, StepKinds
-----------------------------------------------------------------------------
(* Whoever waits for players is waited for.                                 *)

LEMMA TakenFrom ==
  ASSUME NEW q \in Seq(Kind), q # <<>>
  PROVE  /\ Range(Tail(q)) \subseteq Range(q)
         /\ Head(q) \in Range(q)
         /\ Range(q) \subseteq Range(Tail(q)) \cup {Head(q)}
<1>1. /\ Len(q) \in Nat \ {0} /\ DOMAIN q = 1 .. Len(q)
      /\ Tail(q) \in Seq(Kind) /\ Head(q) = q[1] /\ Len(Tail(q)) = Len(q) - 1
      /\ DOMAIN Tail(q) = 1 .. (Len(q) - 1)
      /\ \A i \in 1 .. (Len(q) - 1) : Tail(q)[i] = q[i + 1]
  BY HeadTailProperties, EmptySeq, LenProperties
<1>2. ASSUME NEW i \in DOMAIN Tail(q) PROVE Tail(q)[i] \in Range(q)
  <2>1. i + 1 \in DOMAIN q /\ Tail(q)[i] = q[i + 1]
    BY <1>1
  <2> QED
    BY <2>1 DEF Range
<1>3. ASSUME NEW i \in DOMAIN q
      PROVE  q[i] \in Range(Tail(q)) \cup {Head(q)}
  <2>1. CASE i = 1
    BY <1>1, <2>1
  <2>2. CASE i # 1
    <3>1. i - 1 \in DOMAIN Tail(q) /\ Tail(q)[i - 1] = q[i]
      BY <1>1, <2>2
    <3> QED
      BY <3>1 DEF Range
  <2> QED
    BY <2>1, <2>2
<1>4. Head(q) \in Range(q)
  BY <1>1 DEF Range
<1>5. Range(Tail(q)) = {Tail(q)[i] : i \in DOMAIN Tail(q)}
      /\ Range(q) = {q[i] : i \in DOMAIN q}
  BY DEF Range
<1> QED
  BY <1>2, <1>3, <1>4, <1>5

(* While the screen waits, the connection it has cannot be given a seat     *)
(* without being told, and a request on it is answered by a place in the    *)
(* queue or by an error.                                                    *)
LEMMA WaitServed ==
  ASSUME ClientInv, Server, nav'.screen = "waiting", orphans = 0,
         link.ws # NoSocket
  PROVE  /\ srv'.room[link.ws] # "game"
         /\ OnlyAsked(link'.sent[link.ws])
         /\ board'.error \/ board'.cut \/ srv'.room[link.ws] = "past"
              \/ "join_queue" \in Range(link'.queue)
              \/ "join_queue" \in Range(link'.sent[link.ws])
              \/ link.ws \in srv'.queued
<1> DEFINE w == link.ws
           waits(q) == "join_queue" \in Range(q)
<1>1. /\ nav \in NavType /\ board \in BoardType /\ srv \in SrvType
      /\ link \in LinkType /\ w \in Sockets
      /\ link.sent[w] \in Seq(Kind)
  BY DEF ClientInv, SessionInv, LinkOK, ServerOK, LinkType
<1>2. /\ link'.ws = w /\ link'.queue = link.queue /\ link'.state = link.state
      /\ link'.sent[w] = link.sent[w]
           \/ (link.sent[w] # <<>> /\ link'.sent[w] = Tail(link.sent[w]))
  BY <1>1, ServerTakes
<1>3. /\ nav.screen = "waiting"
      /\ ~board'.error => ~board.error
      /\ board'.cut = board.cut
  <2>1. PICK s, kind : Tell(s, kind)
    BY ServerTells
  <2> QED
    BY <1>1, <2>1, Told
<1>4. user
  BY <1>3 DEF ClientInv, LinkOK, OnlineScreens
<1>5. /\ OnlyAsked(link.sent[w]) /\ srv.room[w] # "game"
      /\ board.error \/ board.cut \/ srv.room[w] = "past" \/ waits(link.queue) \/ waits(link.sent[w])
           \/ w \in srv.queued
  BY <1>3 DEF ClientInv, WaitOK
<1>6. OnlyAsked(link'.sent[w])
  BY <1>1, <1>2, <1>5, TakenFrom DEF OnlyAsked
<1>7. link.sent[w] # <<>> \/ w \in srv.queued \/ srv.at = w => IsOpen(link', w)
  BY <1>1, <1>2 DEF ClientInv, LinkOK, ServerOK, IsOpen
<1>8. ASSUME NEW kind, Tell(w, kind), IsOpen(link', w)
      PROVE  /\ kind \notin {"start", "resume", "room_lobby"}
             /\ kind = "error" => board'.error
  BY <1>1, <1>3, <1>4, <1>8, Told
<1> HIDE DEF w, waits
<1>9. ASSUME srv'.room[w] = srv.room[w],
             \/ board'.error \/ srv.room[w] = "past" \/ w \in srv'.queued
             \/ /\ link'.sent[w] = link.sent[w]
                /\ w \in srv.queued => w \in srv'.queued
      PROVE  /\ srv'.room[link.ws] # "game"
             /\ OnlyAsked(link'.sent[link.ws])
             /\ board'.error \/ board'.cut \/ srv'.room[link.ws] = "past"
                  \/ "join_queue" \in Range(link'.queue)
                  \/ "join_queue" \in Range(link'.sent[link.ws])
                  \/ link.ws \in srv'.queued
  BY <1>2, <1>3, <1>5, <1>6, <1>9 DEF w, waits
<1>10. CASE \E s \in Sockets :
              \/ QueueRequest(s) \/ RoomRequest(s) \/ LeaveRequest(s)
              \/ CardArrives(s) \/ HereArrives(s)
  <2>1. PICK s \in Sockets :
          \/ QueueRequest(s) \/ RoomRequest(s) \/ LeaveRequest(s)
          \/ CardArrives(s) \/ HereArrives(s)
    BY <1>10
  <2>2. /\ link.sent[s] # <<>>
        /\ srv.queued \subseteq srv'.queued \cup {s}
        /\ RoomsKept
    BY <1>1, <2>1, RequestSeats
  <2>3. srv'.room[w] = srv.room[w]
    BY <1>1, <1>5, <2>2 DEF RoomsKept
  <2>4. CASE s # w
    <3>1. link' = [link EXCEPT !.sent[s] = Tail(link.sent[s])]
      BY <2>1 DEF QueueRequest, RoomRequest, LeaveRequest, CardArrives,
                  HereArrives, Arrives
    <3>2. link'.sent = [link.sent EXCEPT ![s] = Tail(link.sent[s])]
      BY <1>1, <2>2, <3>1, TakenIs
    <3>3. link'.sent[w] = link.sent[w]
      BY <1>1, <2>4, <3>2 DEF LinkType
    <3> QED
      BY <1>9, <2>2, <2>3, <2>4, <3>3
  <2>5. CASE s = w
    <3>1. Head(link.sent[w]) = "join_queue"
      BY <1>1, <1>5, <2>2, <2>5, TakenFrom DEF OnlyAsked
    <3>2. QueueRequest(w)
      BY <2>1, <2>5, <3>1
         DEF RoomRequest, LeaveRequest, CardArrives, HereArrives, Arrives
    <3>3. \/ srv.room[w] = "past"
          \/ Reply(w, "error", srv)
          \/ Reply(w, "queue",
                   [Released(w) EXCEPT !.queued = Released(w).queued \cup {w}])
      <4>1. srv.room[w] \in {"none", "past"}
        BY <1>1, <1>5 DEF SrvType
      <4> QED
        BY <3>2, <4>1 DEF QueueRequest, Bound
    <3>4. CASE Reply(w, "error", srv)
      <4>1. board'.error
        BY <1>7, <1>8, <2>2, <2>5, <3>4 DEF Reply
      <4> QED
        BY <1>9, <2>3, <4>1
    <3>5. CASE Reply(w, "queue",
                     [Released(w) EXCEPT !.queued = Released(w).queued \cup {w}])
      <4>1. w \in srv'.queued
        BY <1>1, <3>5, ReleasedIs DEF Reply, SrvType
      <4> QED
        BY <1>9, <2>3, <4>1
    <3> QED
      BY <1>9, <2>3, <3>3, <3>4, <3>5
  <2> QED
    BY <2>4, <2>5
<1>11. CASE Others
  <2>1. link' = link
    BY <1>11 DEF Others, QueueMatches, RoomChanges, Prompts, GameEnds, Burned,
                 CloseRoom, Meanwhile
  <2>2. CASE QueueMatches
    <3>1. PICK s \in srv.queued : srv' = Seated(s) /\ Tell(s, "start")
      BY <2>2 DEF QueueMatches, Meanwhile
    <3>2. s # w /\ s \in Sockets
      BY <1>1, <1>7, <1>8, <3>1 DEF SrvType
    <3> QED
      BY <1>1, <1>5, <1>9, <2>1, <3>1, <3>2, SeatedIs
  <2>3. CASE RoomChanges
    <3>1. CASE srv' = Seated(srv.at) /\ Tell(srv.at, "start")
      <4>1. srv.at # w /\ srv.at \in Sockets \cup {NoSocket}
        BY <1>1, <1>7, <1>8, <3>1 DEF SrvType
      <4>2. /\ Seated(srv.at).room[w] = srv.room[w]
            /\ Seated(srv.at).queued = srv.queued \ {srv.at}
        BY <1>1, <1>5, <4>1, SeatedIs
      <4> QED
        BY <1>9, <2>1, <3>1, <4>1, <4>2
    <3>2. CASE srv' = srv \/ srv' = [srv EXCEPT !.seat = "none", !.at = NoSocket]
      <4>1. srv'.room = srv.room /\ srv'.queued = srv.queued
        BY <1>1, <3>2 DEF SrvType
      <4> QED
        BY <1>9, <2>1, <4>1
    <3> QED
      BY <2>3, <3>1, <3>2 DEF RoomChanges, Meanwhile
  <2>4. CASE Prompts \/ CloseRoom
    <3>1. \/ srv' = [srv EXCEPT !.prompt = "asked"]
          \/ srv' = [srv EXCEPT !.seat = "none"]
      BY <2>4 DEF Prompts, CloseRoom, Meanwhile
    <3>2. srv'.room = srv.room /\ srv'.queued = srv.queued
      BY <1>1, <3>1 DEF SrvType
    <3> QED
      BY <1>9, <2>1, <3>2
  <2>5. CASE GameEnds \/ Burned
    <3>1. srv' = Over(srv.at) \/ DropsOut(srv.at)
      BY <2>5 DEF GameEnds, Burned, Meanwhile
    <3>2. srv.at \in Sockets \cup {NoSocket}
      BY <1>1 DEF SrvType
    <3>3. srv'.room[w] = srv.room[w] /\ srv'.queued = srv.queued
      BY <1>1, <1>5, <3>1, <3>2, OverIs, DroppedOut DEF RoomsKept
    <3> QED
      BY <1>9, <2>1, <3>3
  <2> QED
    BY <1>11, <2>2, <2>3, <2>4, <2>5 DEF Others
<1> QED
  BY <1>10, <1>11 DEF Server, Others

(* What was buffered is on its way, and nobody was seated behind the        *)
(* person's back, when a WebSocket opens.                                   *)
LEMMA WaitOpened ==
  ASSUME ClientInv, NEW s \in Sockets, Opens(s)
  PROVE  WaitOK'
<1> SUFFICES ASSUME nav'.screen = "waiting", orphans' = 0
             PROVE  WaitOK'
  BY DEF WaitOK
<1>1. /\ nav \in NavType /\ board \in BoardType /\ srv \in SrvType
      /\ link \in LinkType
  BY DEF ClientInv, SessionInv, LinkOK, ServerOK
<1>2. PICK kind \in {"start", "resume", "room_lobby", "error", "none", "hello"} :
        /\ link.state[s] = "connecting" /\ link' = Opened(link, s)
        /\ Tell(s, kind) /\ orphans' = orphans
        /\ kind \in {"error", "none"} => srv' = [srv EXCEPT !.room[s] = "past"]
        /\ kind = "hello" => srv' = srv
  BY DEF Opens
<1>3. /\ link'.ws = link.ws /\ link'.queue = <<>>
      /\ link'.state = [link.state EXCEPT ![s] = "open"]
      /\ link'.sent = [link.sent EXCEPT ![s] = link.queue]
  BY <1>1, <1>2, OpenedIs
<1>4. link.ws = s
  BY <1>2 DEF ClientInv, LinkOK
<1>5. IsOpen(link', s) /\ link'.sent[s] = link.queue
  BY <1>1, <1>3 DEF LinkType, IsOpen
<1>6. /\ nav.screen = "waiting" /\ board'.cut = board.cut
      /\ ~board'.error => ~board.error
      /\ user => kind \notin {"start", "resume", "room_lobby"}
  BY <1>1, <1>2, <1>5, Told
<1>7. user
  BY <1>6 DEF ClientInv, LinkOK, OnlineScreens
<1>8. srv.room[s] = "none"
  BY <1>2 DEF ClientInv, ServerOK
<1>9. srv'.room[s] = "past" \/ srv' = srv
  <2>1. [srv EXCEPT !.room[s] = "past"].room[s] = "past"
    BY <1>1 DEF SrvType
  <2> QED
    BY <1>2, <1>6, <1>7, <2>1
<1>10. /\ OnlyAsked(link.queue)
       /\ ~board.cut /\ ~board.error => "join_queue" \in Range(link.queue)
  BY <1>2, <1>4, <1>6, <1>8 DEF ClientInv, WaitOK, IsOpen
<1>11. OnlyAsked(<<>>)
  BY DEF OnlyAsked, Range
<1> QED
  BY <1>3, <1>4, <1>5, <1>6, <1>8, <1>9, <1>10, <1>11 DEF WaitOK

LEMMA WaitStep ==
  ASSUME ClientInv, [Next]_vars
  PROVE  WaitOK'
<1> SUFFICES ASSUME nav'.screen = "waiting", orphans' = 0
             PROVE  WaitOK'
  BY DEF WaitOK
<1>1. /\ nav \in NavType /\ board \in BoardType /\ srv \in SrvType
      /\ link \in LinkType /\ SessionOK /\ LinkOK
      /\ \A s \in Sockets : link.state[s] \in {"none", "connecting"} =>
                   s \notin srv.queued /\ s # srv.at /\ srv.room[s] = "none"
  BY DEF ClientInv, SessionInv, LinkOK, ServerOK
<1>2. ASSUME nav.screen = "waiting", UNCHANGED <<link, srv, board, orphans>>
      PROVE  WaitOK'
  BY <1>2 DEF ClientInv, WaitOK
<1>3. CASE UNCHANGED vars
  BY <1>2, <1>3 DEF vars, appVars
<1>4. CASE SigningIn
  <2>1. nav' = nav
    BY <1>1, <1>4, GotoIs DEF SigningIn, Screens
  <2> QED
    BY <1>2, <1>4, <2>1 DEF SigningIn
<1>5. CASE Browses
  BY <1>2, <1>5 DEF Browses, OnlineScreens
<1>6. CASE Asks
  <2>1. PICK req \in {<<"join_queue", "waiting">>, <<"room", "room">>} :
          InLobby /\ Ask(req[1], req[2])
    BY <1>6 DEF Asks
  <2>2. nav' = Goto(req[2])
    BY <2>1 DEF Ask
  <2>3. req[2] = "waiting" /\ req[1] = "join_queue"
    BY <1>1, <2>2, GotoIs DEF Screens, OnlineScreens
  <2> DEFINE w == link'.ws
  <2>4. /\ w \in Sockets /\ link.state[w] = "none"
        /\ link'.queue = Append(link.queue, "join_queue")
        /\ link'.sent = link.sent /\ srv' = srv /\ orphans' = orphans
    BY <1>1, <2>1, <2>3, AskIs DEF ClientInv
  <2>5. link.queue = <<>> /\ link.sent[w] = <<>>
    BY <1>1, <2>1, <2>4 DEF LinkOK, InLobby, OnlineScreens
  <2>6. Range(link'.queue) = {"join_queue"} /\ Range(link'.sent[w]) = {}
    BY <2>4, <2>5 DEF Range
  <2>7. srv'.room[w] = "none"
    BY <1>1, <2>4
  <2> HIDE DEF w
  <2> QED
    BY <2>6, <2>7 DEF WaitOK, OnlyAsked, w
<1>7. CASE SignsOut \/ Leaves \/ Restart
  <2>1. CASE SignsOut
    BY <1>1, <2>1 DEF SignsOut, SignOut, Goto, NavType
  <2>2. CASE Leaves
    BY <2>2, ExitedTo DEF Leaves
  <2>3. CASE Restart
    BY <2>3 DEF Restart, FirstView
  <2> QED
    BY <1>7, <2>1, <2>2, <2>3
<1>8. CASE Sends
  BY <1>8 DEF Sends, OnBoard
<1>9. CASE Reconnects
  <2>1. /\ UNCHANGED <<nav, board, srv, orphans>>
        /\ link'.queue = link.queue /\ link'.sent = link.sent
    BY <1>1, <1>9, ReconnectIs
  <2>2. CASE link'.ws = link.ws /\ link'.state = link.state
    BY <2>1, <2>2 DEF ClientInv, WaitOK, IsOpen
  <2>3. CASE /\ link.ws = NoSocket /\ link'.ws \in Sockets
             /\ link.state[link'.ws] = "none"
    <3>1. link'.sent[link'.ws] = <<>> /\ srv'.room[link'.ws] = "none"
      BY <1>1, <2>1, <2>3 DEF LinkOK
    <3>2. OnlyAsked(<<>>)
      BY DEF OnlyAsked, Range
    <3>3. ~IsOpen(link, link.ws)
      BY <2>3, NoSocketIsNone DEF IsOpen
    <3>4. /\ OnlyAsked(link.queue)
          /\ ~board.cut /\ ~board.error => "join_queue" \in Range(link.queue)
      BY <2>1, <2>3, <3>3 DEF ClientInv, WaitOK
    <3> QED
      BY <2>1, <3>1, <3>2, <3>4 DEF WaitOK
  <2> QED
    BY <1>1, <1>9, <2>2, <2>3, ReconnectIs
<1>10. CASE Server
  <2>1. /\ link'.ws = link.ws /\ link'.queue = link.queue
        /\ link'.state = link.state
    BY <1>1, <1>10, ServerTakes
  <2>2. orphans = 0 /\ \E s, kind : Tell(s, kind)
    BY <1>10, ServerTells
  <2>3. /\ nav.screen = "waiting" /\ board'.cut = board.cut
        /\ ~board'.error => ~board.error
    BY <1>1, <2>2, Told
  <2>4. CASE link.ws = NoSocket
    BY <2>1, <2>2, <2>3, <2>4, NoSocketIsNone
       DEF ClientInv, WaitOK, IsOpen
  <2>5. CASE link.ws # NoSocket
    <3>1. /\ srv'.room[link.ws] # "game" /\ OnlyAsked(link'.sent[link.ws])
          /\ board'.error \/ board'.cut \/ srv'.room[link.ws] = "past"
               \/ "join_queue" \in Range(link'.queue)
               \/ "join_queue" \in Range(link'.sent[link.ws])
               \/ link.ws \in srv'.queued
      BY <1>10, <2>2, <2>5, WaitServed
    <3>2. OnlyAsked(link'.queue)
      BY <2>1, <2>2, <2>3 DEF ClientInv, WaitOK
    <3>3. link'.sent[link.ws] # <<>> \/ link.ws \in srv'.queued
            => IsOpen(link', link'.ws)
      <4>1. LinkOK' /\ ServerOK'
        BY LinkStep, ServerStep DEF ClientInv, ServerOK
      <4> QED
        BY <2>1, <2>5, <4>1 DEF LinkOK, LinkType, ServerOK, IsOpen
    <3>4. "join_queue" \in Range(link'.sent[link.ws]) => link'.sent[link.ws] # <<>>
      BY DEF Range
    <3> QED
      BY <2>1, <2>5, <3>1, <3>2, <3>3, <3>4 DEF WaitOK
  <2> QED
    BY <2>4, <2>5
<1>11. CASE \E s \in Sockets : Opens(s)
  BY <1>11, WaitOpened
<1>12. CASE \E s \in Sockets : Ends(s)
  <2>1. PICK s \in Sockets : Ends(s)
    BY <1>12
  <2>2. /\ nav' = nav /\ link'.ws = NoSocket /\ link'.queue = link.queue
        /\ board' = [board EXCEPT !.cut = \/ board.cut
                                          \/ /\ nav.screen = "waiting"
                                             /\ link.ws = s
                                             /\ IsOpen(link, s)]
        /\ orphans' = 0 => orphans = 0 /\ link.ws \in {NoSocket, s}
    BY <1>1, <2>1, EndsIs
  <2>3. /\ ~board'.cut => ~board.cut /\ ~IsOpen(link, link.ws)
        /\ board'.error = board.error
    BY <1>1, <2>2, NoSocketIsNone DEF BoardType, IsOpen
  <2>4. /\ OnlyAsked(link.queue)
        /\ ~board'.cut /\ ~board'.error => "join_queue" \in Range(link.queue)
    <3>1. ~board'.cut /\ link.ws # NoSocket =>
            link.ws \in Sockets /\ link.state[link.ws] = "connecting"
      BY <1>1, <2>3 DEF LinkOK, LinkType, IsOpen
    <3>2. ~board'.cut /\ link.ws # NoSocket => srv.room[link.ws] = "none"
      BY <1>1, <3>1
    <3> QED
      BY <2>2, <2>3, <3>2 DEF ClientInv, WaitOK
  <2> QED
    BY <2>2, <2>4 DEF WaitOK
<1> QED
  BY <1>1, <1>3, <1>4, <1>5, <1>6, <1>7, <1>8, <1>9, <1>10, <1>11, <1>12,
     StepKinds DEF ClientInv
-----------------------------------------------------------------------------
(* The invariant, and what follows from it.                                 *)

LEMMA ClientInit ==
  ASSUME Init
  PROVE  ClientInv
<1>1. SessionInv
  BY ScreenIsNew
     DEF Init, SignInInit, SessionInv, SessionOK, PanelsOK, AgreedOK, FirstView,
         NavType, Screens, Menus
<1>2. LinkOK
  BY NoSocketIsNone
     DEF Init, NewGameSocket, LinkOK, LinkType, FirstView, OnlineScreens
<1>3. ServerOK
  BY NoSocketIsNone
     DEF Init, NoSeat, EmptyBoard, ServerOK, SrvType, BoardType
<1>4. WaitOK
  BY DEF Init, FirstView, WaitOK
<1> QED
  BY <1>1, <1>2, <1>3, <1>4 DEF ClientInv

LEMMA ClientStep ==
  ASSUME ClientInv, [Next]_vars
  PROVE  ClientInv'
BY SessionStep, LinkStep, ServerStep, WaitStep DEF ClientInv, ServerOK

LEMMA ClientIsSound == Spec => []ClientInv
BY ClientInit, ClientStep, PTL DEF Spec

(* Restoring, signing in, signing out, restarting, in whatever order their  *)
(* answers come: a token in memory and a signed-in user are one session once*)
(* App has restored it, and no session began without the tick.              *)
THEOREM SessionsAreWhole == Spec => []SessionIsWhole
<1>1. ClientInv => SessionIsWhole
  BY DEF ClientInv, SessionInv, SessionOK, SessionIsWhole
<1> QED
  BY <1>1, ClientIsSound, PTL

(* As long as no socket was orphaned, what the buffer of GameSocket holds is *)
(* for the online screen the person is on.                                  *)
THEOREM BufferIsOurs == Spec => []QueueIsOurs
<1>1. ClientInv => QueueIsOurs
  BY DEF ClientInv, LinkOK, QueueIsOurs
<1> QED
  BY <1>1, ClientIsSound, PTL

(* As long as no socket was orphaned, a person who waits for players is in  *)
(* the queue or on the way there, unless an error is shown, the connection  *)
(* broke, or the hub has bound it to a game that was over when it opened.   *)
THEOREM WaitersAreWaitedFor == Spec => []WaitersAreQueued
<1>1. ClientInv => WaitersAreQueued
  BY NoSocketIsNone DEF ClientInv, WaitOK, IsOpen, WaitersAreQueued
<1> QED
  BY <1>1, ClientIsSound, PTL

Opening ==
  \E s \in Sockets :
    link.state[s] = "none" /\ link'.state[s] = "connecting"

(* A request and a reconnect are all that opens a WebSocket.                *)
LEMMA OpeningKinds ==
  ASSUME ClientInv, [Next]_vars, Opening
  PROVE  Asks \/ Reconnects
<1>1. /\ SessionInv /\ LinkOK /\ link \in LinkType /\ nav \in NavType
      /\ board \in BoardType
  BY DEF ClientInv, SessionInv, LinkOK, ServerOK
<1>2. link'.state # link.state
  BY DEF Opening
<1>3. CASE UNCHANGED vars \/ SigningIn \/ Browses
  BY <1>2, <1>3 DEF vars, appVars, SigningIn, Browses
<1>4. CASE SignsOut \/ Leaves
  <2>1. /\ link' = Disconnect(link) \/ link' = Disconnect(Send(link, "leave"))
        /\ orphans' = orphans /\ nav'.screen = "lobby"
    <3>1. CASE SignsOut
      BY <1>1, <3>1 DEF SignsOut, SignOut, Goto, NavType
    <3>2. CASE Leaves
      BY <3>2, ExitedTo DEF Leaves
    <3> QED
      BY <1>4, <3>1, <3>2
  <2>2. \A s \in Sockets : link'.state[s] \in {link.state[s], "closing"}
    BY <1>1, <2>1, TornDownIs
  <2> QED
    BY <2>2 DEF Opening
<1>5. CASE Sends
  <2>1. PICK kind \in Kind : link' = Send(link, kind)
    BY <1>5 DEF Sends, Kind
  <2> QED
    BY <1>1, <1>2, <2>1, SendIs
<1>6. CASE Restart
  <2>1. \A s \in Sockets : link'.state[s] = "none"
    BY <1>6 DEF Restart, NewGameSocket
  <2> QED
    BY <2>1 DEF Opening
<1>7. CASE Server
  BY <1>1, <1>2, <1>7, ServerTakes
<1>8. CASE \E s \in Sockets : Opens(s) \/ Ends(s)
  <2>1. PICK s \in Sockets : Opens(s) \/ Ends(s)
    BY <1>8
  <2>2. link'.state = [link.state EXCEPT ![s] = "open"]
        \/ link'.state = [link.state EXCEPT ![s] = "none"]
    <3>1. CASE Opens(s)
      BY <1>1, <3>1, OpenedIs DEF Opens
    <3>2. CASE Ends(s)
      BY <1>1, <3>2, EndsIs
    <3> QED
      BY <2>1, <3>1, <3>2
  <2> QED
    BY <1>1, <2>2 DEF LinkType, Opening
<1> QED
  BY <1>1, <1>3, <1>4, <1>5, <1>6, <1>7, <1>8, StepKinds

(* Not the retry timers, stray ones included, nor onResume, nor any button  *)
(* opens a WebSocket but for a signed-in person on an online screen.        *)
THEOREM SocketsOpenOnline == Spec => OpensOnlyOnline
<1>1. ASSUME ClientInv, [Next]_vars, Opening
      PROVE  token' /\ user' /\ nav'.screen \in OnlineScreens
  <2>1. SessionInv /\ SessionOK /\ LinkOK /\ nav \in NavType
        /\ link \in LinkType
    BY <1>1 DEF ClientInv, SessionInv, LinkOK
  <2>2. CASE Asks
    <3>1. PICK kind \in {"join_queue", "room"}, scr \in {"waiting", "room"} :
            InLobby /\ Ask(kind, scr)
      BY <2>2 DEF Asks
    <3>2. user /\ token /\ UNCHANGED signInVars /\ nav' = Goto(scr)
      BY <2>1, <3>1, AskIs
    <3> QED
      BY <2>1, <3>2, GotoIs DEF signInVars, Screens, OnlineScreens
  <2>3. CASE Reconnects
    <3>1. UNCHANGED signInVars /\ nav' = nav /\ link'.state # link.state
      BY <1>1, <2>1, <2>3, ReconnectIs DEF Opening
    <3>2. nav.screen \in OnlineScreens /\ token
      BY <2>1, <2>3, <3>1, ReconnectIs
    <3>3. user
      BY <2>1, <3>2 DEF LinkOK
    <3> QED
      BY <3>1, <3>2, <3>3 DEF signInVars
  <2> QED
    BY <1>1, <2>2, <2>3, OpeningKinds
<1>2. ClientInv /\ [Next]_vars =>
        [Opening => token' /\ user' /\ nav'.screen \in OnlineScreens]_vars
  BY <1>1
<1> QED
  BY <1>2, ClientIsSound, PTL DEF Spec, OpensOnlyOnline, Opening
=============================================================================

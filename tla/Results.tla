------------------------------ MODULE Results ------------------------------
(***************************************************************************)
(* What becomes of a result: the two tables of one user                    *)
(* (be/store/store.go), the report of an offline game and the refresh of   *)
(* the statistics (fe/src/App.jsx), and the list of all games that loads   *)
(* page by page (fe/src/screens/HistoryScreen.jsx).                        *)
(*                                                                         *)
(* A request is sent, handled by the server, and answered in three steps,  *)
(* and may fail at each (services/api.js).  Games are numbered in the      *)
(* order they were recorded, which is the order of played_at, no two being *)
(* recorded in one second.  What an answer says is a matter of how many    *)
(* games there were when it was read.                                      *)
(***************************************************************************)
EXTENDS Integers, Sequences, FiniteSets, SequencesExt

CONSTANTS
  PageSize,    \* PAGE_SIZE
  MaxGames,    \* bound: how many games are recorded
  MaxFetches   \* bound: how many refreshes are in flight

(* The server takes a limit above 200 for 50 (handler/game.go:55).          *)
ASSUME ResultsAssumption ==
  PageSize \in 1..200 /\ MaxGames \in Nat /\ MaxFetches \in Nat \ {0}

VARIABLES
  games,    \* the table games of this user: who won, oldest first
  row,      \* the row of user_stats, zeroes if there is none
  report,   \* the call of recordGame in flight
  fetches,  \* the calls of fetchStats in flight
  stats,    \* stats of App
  list      \* the HistoryScreen

vars == <<games, row, report, fetches, stats, list>>

Unread == -1  \* the server has not handled the request yet

(* due, a history: how many games there are at least once the result whose  *)
(* recording led here is recorded; 0 before that and without one.           *)
NoReport == [result |-> "none", due |-> 0]
Idle == [due |-> -1, played |-> Unread, history |-> Unread]
NoStats == [played |-> Unread, history |-> Unread]

(* known, a history: how many games there were when the screen was opened.  *)
Closed ==
  [open |-> FALSE, items |-> <<>>, loading |-> FALSE, hasMore |-> FALSE,
   offset |-> 0, calls |-> <<>>, inView |-> FALSE, known |-> 0]

Fetch == 1..MaxFetches

-----------------------------------------------------------------------------
(* The store.                                                               *)

NoRow == [played |-> 0, wins |-> 0, losses |-> 0, streak |-> 0, best |-> 0]

Larger(m, n) == IF m > n THEN m ELSE n

(* Broken: best is computed after streak has been incremented, "one too     *)
(* high".                                                                   *)
UpsertedSwapped(r, won) ==
  IF won
  THEN [played |-> r.played + 1, wins |-> r.wins + 1, losses |-> r.losses,
        streak |-> r.streak + 1, best |-> Larger(r.best, r.streak + 1 + 1)]
  ELSE [played |-> r.played + 1, wins |-> r.wins, losses |-> r.losses + 1,
        streak |-> 0, best |-> r.best]

Upserted(r, won) ==
  IF won
  THEN [played |-> r.played + 1, wins |-> r.wins + 1, losses |-> r.losses,
        streak |-> r.streak + 1, best |-> Larger(r.best, r.streak + 1)]
  ELSE [played |-> r.played + 1, wins |-> r.wins, losses |-> r.losses + 1,
        streak |-> 0, best |-> r.best]

(* One transaction for both tables.                                         *)
RecordGame(won) ==
  /\ Len(games) < MaxGames
  /\ games' = Append(games, won)
  /\ row' = Upserted(row, won)

(* GetHistory: ORDER BY played_at DESC LIMIT limit OFFSET offset.           *)
GetHistory(limit, offset) ==
  SubSeq(Reverse([i \in 1..Len(games) |-> i]), offset + 1,
         IF offset + limit < Len(games) THEN offset + limit ELSE Len(games))

(* recordResult of a room.  A player whose seat was burned is anywhere in   *)
(* the app by the time the others have finished the game.                   *)
RecordResult(won) ==
  /\ RecordGame(won)
  /\ UNCHANGED <<report, fetches, stats, list>>

-----------------------------------------------------------------------------
(* The statistics.                                                          *)

InFlight == {f \in Fetch : fetches[f] # Idle}

(* refreshStats, up to the two calls of fetchStats.                         *)
RefreshStats(due) ==
  \E f \in Fetch \ InFlight :
    fetches' = [fetches EXCEPT
                  ![f] = [due |-> due, played |-> Unread, history |-> Unread]]

(* A coached practice game is not reported.                                 *)
Reports == {"win", "loss"}

(* Broken: the refresh is asked for along with the recording.               *)
RefreshAtOnce == RefreshStats(Len(games) + 1)

(* await: the refresh is asked for when the recording is answered.          *)
RefreshLater == UNCHANGED fetches

(* handleGameEnd, up to its call.  While the list is open no game is played *)
(* and the settings are not opened.                                         *)
HandleGameEnd(result) ==
  /\ ~list.open
  /\ report = NoReport
  /\ report' = [NoReport EXCEPT !.result = result]
  /\ RefreshLater
  /\ UNCHANGED <<games, row, stats, list>>

ReportArrives ==
  /\ report.result # "none" /\ report.due = 0
  /\ RecordGame(report.result = "win")
  /\ report' = [report EXCEPT !.due = Len(games')]
  /\ UNCHANGED <<fetches, stats, list>>

(* handleGameEnd, from the answer.                                          *)
ReportAnswered ==
  /\ report.due > 0
  /\ RefreshStats(report.due)
  /\ report' = NoReport
  /\ UNCHANGED <<games, row, stats, list>>

(* The call or its answer is lost, and with it the result or the refresh.   *)
ReportFails ==
  /\ report # NoReport
  /\ report' = NoReport
  /\ UNCHANGED <<games, row, fetches, stats, list>>

(* openSettings; what is shown meanwhile is what was fetched last.          *)
OpenSettings ==
  /\ ~list.open
  /\ RefreshStats(0)
  /\ UNCHANGED <<games, row, report, stats, list>>

(* The server handles getStats, and getHistory, of refresh f.               *)
FetchRead(f) ==
  /\ fetches[f] # Idle
  /\ \/ /\ fetches[f].played = Unread
        /\ fetches' = [fetches EXCEPT ![f].played = row.played]
     \/ /\ fetches[f].history = Unread
        /\ fetches' = [fetches EXCEPT ![f].history = Len(games)]
  /\ UNCHANGED <<games, row, report, stats, list>>

(* Both are answered.                                                       *)
FetchAnswered(f) ==
  /\ fetches[f].played # Unread /\ fetches[f].history # Unread
  /\ stats' = [played |-> fetches[f].played, history |-> fetches[f].history]
  /\ fetches' = [fetches EXCEPT ![f] = Idle]
  /\ UNCHANGED <<games, row, report, list>>

(* One of the two fails: nothing changes on the screen.                     *)
FetchFails(f) ==
  /\ fetches[f] # Idle
  /\ fetches' = [fetches EXCEPT ![f] = Idle]
  /\ UNCHANGED <<games, row, report, stats, list>>

-----------------------------------------------------------------------------
(* The list of all games.                                                   *)

Show(l) ==
  /\ list' = l
  /\ UNCHANGED <<games, row, report, fetches, stats>>

AskPage(l) ==
  [l EXCEPT !.loading = TRUE,
            !.calls = Append(@, [offset |-> l.offset, page |-> <<>>,
                                 read |-> FALSE])]

(* Broken: a second page is asked for while one is loading.                 *)
LoadMoreUnguarded(l) == IF ~l.hasMore THEN l ELSE AskPage(l)

(* loadMore, up to its call.                                                *)
LoadMore(l) == IF l.loading \/ ~l.hasMore THEN l ELSE AskPage(l)

Opened == [Closed EXCEPT !.open = TRUE, !.hasMore = TRUE]

(* The screen is mounted; its effect asks for the first page.  Bound: calls *)
(* of the statistics, with which it shares nothing, are answered by then.   *)
OpenHistory ==
  /\ ~list.open
  /\ InFlight = {} /\ report = NoReport
  /\ Show(LoadMore([Opened EXCEPT !.known = Len(games)]))

CloseHistory == list.open /\ Show(Closed)

(* The observer reports that the end of the list came into view: when the   *)
(* screen is new, and when the person has scrolled.  It goes out of view    *)
(* only behind listed games.                                                *)
EndInView ==
  /\ list.open /\ ~list.inView
  /\ Show(LoadMore([list EXCEPT !.inView = TRUE]))

EndOutOfView ==
  /\ list.inView /\ list.items # <<>>
  /\ Show([list EXCEPT !.inView = FALSE])

Calls == DOMAIN list.calls

Handled(call) ==
  [offset |-> call.offset, page |-> GetHistory(PageSize, call.offset),
   read |-> TRUE]

(* The server handles call i.                                               *)
PageRead(i) ==
  /\ ~list.calls[i].read
  /\ Show([list EXCEPT
             !.calls = [list.calls EXCEPT ![i] = Handled(list.calls[i])]])

(* The "finally" of loadMore.                                               *)
Ended(l, i) == [l EXCEPT !.loading = FALSE, !.calls = RemoveAt(@, i)]

Listed(l, page) == [l EXCEPT !.items = @ \o page, !.offset = @ + Len(page)]

(* loadMore, from the answer.                                               *)
PageAnswered(i) ==
  LET page == list.calls[i].page
  IN /\ list.calls[i].read
     /\ Show([Ended(Listed(list, page), i)
                EXCEPT !.hasMore = @ /\ Len(page) = PageSize])

(* A page that cannot be had is not asked for again before the end of the   *)
(* list comes into view anew.                                               *)
PageFails(i) == Show(Ended(list, i))

-----------------------------------------------------------------------------
Init ==
  /\ games = <<>>
  /\ row = NoRow
  /\ report = NoReport
  /\ fetches = [f \in Fetch |-> Idle]
  /\ stats = NoStats
  /\ list = Closed

Next ==
  \/ \E won \in BOOLEAN : RecordResult(won)
  \/ \E result \in Reports : HandleGameEnd(result)
  \/ ReportArrives \/ ReportAnswered \/ ReportFails
  \/ OpenSettings
  \/ \E f \in Fetch : FetchRead(f) \/ FetchAnswered(f) \/ FetchFails(f)
  \/ OpenHistory \/ CloseHistory \/ EndInView \/ EndOutOfView
  \/ \E i \in Calls : PageRead(i) \/ PageAnswered(i) \/ PageFails(i)

Spec == Init /\ [][Next]_vars

-----------------------------------------------------------------------------
(* Properties.                                                              *)

(* Of the results g, those from the i-th to the j-th are wins.              *)
WonThroughout(g, i, j) == \A k \in i..j : g[k]

(* The last n are wins, and the one before them is not.                     *)
EndsInRun(g, n) ==
  /\ n \in 0..Len(g)
  /\ WonThroughout(g, Len(g) - n + 1, Len(g))
  /\ n < Len(g) => ~g[Len(g) - n]

(* Some n in a row are wins, but no n + 1.                                  *)
LongestRun(g, n) ==
  /\ n \in 0..Len(g)
  /\ \E i \in 1..Len(g) - n + 1 : WonThroughout(g, i, i + n - 1)
  /\ \A i \in 1..Len(g) - n : ~WonThroughout(g, i, i + n)

(* The row of user_stats says what the table of games says, however it got  *)
(* there: the counts, the winning run at the end and the longest one.  Each *)
(* upsert (store.go:89) sees only the row before it.                        *)
StatsMatchGames ==
  /\ row.played = Len(games)
  /\ row.wins = Cardinality({i \in DOMAIN games : games[i]})
  /\ row.losses = row.played - row.wins
  /\ EndsInRun(games, row.streak)
  /\ LongestRun(games, row.best)

(* What was listed when the screen opened is listed without a gap, and to   *)
(* the last game once nothing more is promised, whatever is recorded        *)
(* meanwhile; a game is repeated only as often as games were recorded in    *)
(* the meantime, since each moves every offset by one                       *)
(* (HistoryScreen.jsx:23).                                                  *)
NothingSkipped ==
  list.open =>
    \A g \in 1..list.known :
      (~list.hasMore \/ \E h \in Range(list.items) : h < g)
        => g \in Range(list.items)

RepeatsAreNew ==
  list.open =>
    Len(list.items) - Cardinality(Range(list.items))
      <= Len(games) - list.known

ListFits == NothingSkipped /\ RepeatsAreNew

(* The refresh that follows a reported game shows that game, in the counts  *)
(* and among the recent games (App.jsx:194).                                *)
ShowsWhatIsDue ==
  \A f \in Fetch :
    fetches[f] # Idle /\ fetches'[f] = Idle /\ stats' # stats =>
      stats'.played >= fetches[f].due /\ stats'.history >= fetches[f].due

ReportedGameShown == [][ShowsWhatIsDue]_vars
=============================================================================

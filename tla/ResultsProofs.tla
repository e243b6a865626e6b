--------------------------- MODULE ResultsProofs ---------------------------
(***************************************************************************)
(* Theorems about Results: the row of user_stats says what the table of    *)
(* games says, the list of all games has no gaps, and the refresh after a  *)
(* reported game shows that game.  They hold for every page size, every    *)
(* number of games and every number of refreshes in flight.                *)
(***************************************************************************)
EXTENDS Results, FiniteSetTheorems, SequenceTheorems, TLAPS

-----------------------------------------------------------------------------
(* Types.                                                                   *)

Row == [played : Nat, wins : Nat, losses : Int, streak : Nat, best : Nat]
Call == [offset : Nat, page : Seq(Nat), read : BOOLEAN]
Screen ==
  [open : BOOLEAN, items : Seq(Nat), loading : BOOLEAN, hasMore : BOOLEAN,
   offset : Nat, calls : Seq(Call), inView : BOOLEAN, known : Nat]

(* What GetHistory returns when there are n games.                          *)
IsPage(page, n, offset) ==
  /\ page \in Seq(Nat)
  /\ Len(page) = IF n <= offset THEN 0
                 ELSE IF n - offset < PageSize THEN n - offset ELSE PageSize
  /\ \A k \in 1..Len(page) : page[k] = n - offset - k + 1

LEMMA HistoryIsPage ==
  ASSUME games \in Seq(BOOLEAN), NEW offset \in Nat
  PROVE  IsPage(GetHistory(PageSize, offset), Len(games), offset)
<1> DEFINE n == Len(games)
           all == Reverse([i \in 1..n |-> i])
           last == IF offset + PageSize < n THEN offset + PageSize ELSE n
<1>1. n \in Nat /\ PageSize \in Nat \ {0} /\ last \in Int
  BY LenProperties, ResultsAssumption
<1>2. [i \in 1..n |-> i] \in Seq(Nat) /\ Len([i \in 1..n |-> i]) = n
  BY <1>1
<1>3. all = [i \in 1..n |-> n - i + 1]
  BY <1>1, <1>2 DEF Reverse
<1>4. \A i \in offset + 1..last : all[i] = n - i + 1 /\ all[i] \in Nat
  BY <1>1, <1>3
<1>5. GetHistory(PageSize, offset) = SubSeq(all, offset + 1, last)
  BY DEF GetHistory
<1> HIDE DEF n, all, last
<1>6. DEFINE page == SubSeq(all, offset + 1, last)
<1>7. /\ page \in Seq(Nat)
      /\ Len(page) = IF offset + 1 <= last THEN last - offset ELSE 0
      /\ \A k \in 1..last - offset : page[k] = all[offset + k]
  <2>1. offset + 1 \in Int
    OBVIOUS
  <2>2. /\ page \in Seq(Nat)
        /\ Len(page) = IF offset + 1 <= last THEN last - (offset + 1) + 1 ELSE 0
        /\ \A k \in 1..last - (offset + 1) + 1 :
             page[k] = all[offset + 1 + k - 1]
    BY <1>1, <1>4, <2>1, SubSeqProperties
  <2> HIDE DEF page
  <2>3. last - (offset + 1) + 1 = last - offset
    BY <1>1
  <2>4. \A k \in 1..last - offset : offset + 1 + k - 1 = offset + k
    BY <1>1
  <2> QED
    BY <2>2, <2>3, <2>4
<1> HIDE DEF page
<1>8. last = IF offset + PageSize < n THEN offset + PageSize ELSE n
  BY DEF last
<1>9. Len(page) = IF n <= offset THEN 0
                  ELSE IF n - offset < PageSize THEN n - offset ELSE PageSize
  BY <1>1, <1>7, <1>8
<1>10. \A k \in 1..Len(page) : page[k] = n - offset - k + 1
  BY <1>1, <1>4, <1>7, <1>8, <1>9
<1> QED
  BY <1>5, <1>7, <1>9, <1>10 DEF IsPage, n, page

-----------------------------------------------------------------------------
(* The row and the table of games.                                          *)

LEMMA RecordedGame ==
  ASSUME games \in Seq(BOOLEAN), NEW won \in BOOLEAN, RecordGame(won)
  PROVE  /\ games' \in Seq(BOOLEAN)
         /\ Len(games) \in Nat /\ Len(games') = Len(games) + 1
         /\ \A i \in 1..Len(games) : games'[i] = games[i]
         /\ won => games'[Len(games) + 1]
         /\ ~won => ~games'[Len(games) + 1]
<1>1. Len(games) \in Nat /\ games' = Append(games, won)
  BY LenProperties DEF RecordGame
<1>2. /\ games' \in Seq(BOOLEAN) /\ Len(games') = Len(games) + 1
      /\ \A i \in 1..Len(games) : games'[i] = games[i]
      /\ games'[Len(games) + 1] = won
  BY <1>1, AppendProperties
<1>3. /\ won => games'[Len(games) + 1]
      /\ ~won => ~games'[Len(games) + 1]
  BY <1>2, Zenon
<1> QED
  BY <1>1, <1>2, <1>3, Zenon

LEMMA UpsertedRow ==
  ASSUME row \in Row, NEW won \in BOOLEAN, RecordGame(won)
  PROVE  /\ row' \in Row
         /\ row'.played = row.played + 1
         /\ row'.wins = IF won THEN row.wins + 1 ELSE row.wins
         /\ row'.losses = IF won THEN row.losses ELSE row.losses + 1
         /\ row'.streak = IF won THEN row.streak + 1 ELSE 0
         /\ row'.best = IF won /\ row.streak + 1 > row.best
                        THEN row.streak + 1 ELSE row.best
<1>1. CASE won
  <2>1. row' = [played |-> row.played + 1, wins |-> row.wins + 1,
                losses |-> row.losses, streak |-> row.streak + 1,
                best |-> Larger(row.best, row.streak + 1)]
    BY <1>1 DEF RecordGame, Upserted
  <2> QED
    BY <1>1, <2>1 DEF Row, Larger
<1>2. CASE ~won
  <2>1. row' = [played |-> row.played + 1, wins |-> row.wins,
                losses |-> row.losses + 1, streak |-> 0, best |-> row.best]
    BY <1>2 DEF RecordGame, Upserted
  <2> QED
    BY <1>2, <2>1 DEF Row
<1> QED
  BY <1>1, <1>2

(* The wins are counted: a win adds its number to the won games.            *)
LEMMA WinsCounted ==
  ASSUME games \in Seq(BOOLEAN), NEW won \in BOOLEAN, RecordGame(won)
  PROVE  Cardinality({i \in DOMAIN games' : games'[i]})
           = Cardinality({i \in DOMAIN games : games[i]})
               + (IF won THEN 1 ELSE 0)
<1> DEFINE n == Len(games)
           before == {i \in DOMAIN games : games[i]}
<1>1. /\ n \in Nat /\ Len(games') = n + 1
      /\ \A i \in 1..n : games'[i] = games[i]
      /\ won => games'[n + 1]
      /\ ~won => ~games'[n + 1]
  BY RecordedGame
<1>2. DOMAIN games = 1..n /\ DOMAIN games' = 1..(n + 1)
  <2>1. games' \in Seq(BOOLEAN)
    BY RecordedGame
  <2> QED
    BY <1>1, <2>1, LenProperties
<1>3. IsFiniteSet(before) /\ Cardinality(before) \in Nat
  <2>1. before \in SUBSET (1..n)
    BY <1>2
  <2>2. IsFiniteSet(1..n)
    BY <1>1, FS_Interval
  <2> QED
    BY <2>1, <2>2, FS_Subset, FS_CardinalityType
<1>4. n + 1 \notin before
  BY <1>1, <1>2
<1>5. {i \in DOMAIN games' : games'[i]}
        = IF won THEN before \cup {n + 1} ELSE before
  BY <1>1, <1>2
<1> HIDE DEF before
<1>6. Cardinality(before \cup {n + 1}) = Cardinality(before) + 1
  BY <1>3, <1>4, FS_AddElement
<1>7. Cardinality(IF won THEN before \cup {n + 1} ELSE before)
        = Cardinality(before) + (IF won THEN 1 ELSE 0)
  BY <1>3, <1>6
<1> QED
  BY <1>5, <1>7, Zenon DEF before

LEMMA EndsInRunKept ==
  ASSUME games \in Seq(BOOLEAN), row \in Row, EndsInRun(games, row.streak),
         NEW won \in BOOLEAN, RecordGame(won)
  PROVE  EndsInRun(games', row'.streak)
<1> DEFINE n == Len(games)
<1>1. /\ n \in Nat /\ Len(games') = n + 1
      /\ \A i \in 1..n : games'[i] = games[i]
      /\ won => games'[n + 1]
      /\ ~won => ~games'[n + 1]
  BY RecordedGame
<1>2. /\ row.streak \in 0..n
      /\ \A k \in n - row.streak + 1..n : games[k]
      /\ row.streak < n => ~games[n - row.streak]
  BY DEF EndsInRun, WonThroughout
<1>3. row'.streak = IF won THEN row.streak + 1 ELSE 0
  BY UpsertedRow
<1> HIDE DEF n
<1>4. /\ row'.streak \in 0..n + 1
      /\ \A k \in n + 1 - row'.streak + 1..n + 1 : games'[k]
      /\ row'.streak < n + 1 => ~games'[n + 1 - row'.streak]
  <2>1. CASE won
    <3>1. \A k \in n - row.streak + 1..n + 1 : games'[k]
      BY <1>1, <1>2, <2>1
    <3>2. row.streak + 1 < n + 1 => ~games'[n - row.streak]
      BY <1>1, <1>2
    <3> QED
      BY <1>1, <1>2, <1>3, <2>1, <3>1, <3>2
  <2>2. CASE ~won
    BY <1>1, <1>3, <2>2
  <2> QED
    BY <2>1, <2>2
<1> QED
  BY <1>1, <1>4 DEF EndsInRun, WonThroughout

LEMMA LongestRunIs ==
  ASSUME NEW g, NEW l \in Nat, Len(g) = l, NEW c \in 0..l,
         NEW i \in 1..l - c + 1, WonThroughout(g, i, i + c - 1),
         \A j \in 1..l - c : ~WonThroughout(g, j, j + c)
  PROVE  LongestRun(g, c)
BY DEF LongestRun

LEMMA LongestRunKept ==
  ASSUME games \in Seq(BOOLEAN), row \in Row,
         EndsInRun(games, row.streak), LongestRun(games, row.best),
         NEW won \in BOOLEAN, RecordGame(won)
  PROVE  LongestRun(games', row'.best)
<1> DEFINE n == Len(games)
           s == row.streak
           b == row.best
<1>1. /\ n \in Nat /\ Len(games') = n + 1
      /\ \A i \in 1..n : games'[i] = games[i]
      /\ won => games'[n + 1]
      /\ ~won => ~games'[n + 1]
  BY RecordedGame
<1>2. /\ s \in 0..n
      /\ \A k \in n - s + 1..n : games[k]
      /\ s < n => ~games[n - s]
  BY DEF EndsInRun, WonThroughout
<1>3. /\ b \in 0..n
      /\ \E i \in 1..n - b + 1 : \A k \in i..i + b - 1 : games[k]
      /\ \A i \in 1..n - b : ~\A k \in i..i + b : games[k]
  BY DEF LongestRun, WonThroughout
<1>4. row'.best = IF won /\ s + 1 > b THEN s + 1 ELSE b
  BY UpsertedRow
<1>5. n \in Nat /\ s \in 0..n /\ b \in 0..n /\ Len(games') = n + 1
  BY <1>1, <1>2, <1>3
<1> HIDE DEF n, s, b
<1>6. \A i \in 1..n - b : ~\A k \in i..i + b : games'[k]
  <2>1. SUFFICES ASSUME NEW i \in 1..n - b
                 PROVE  ~\A k \in i..i + b : games'[k]
    OBVIOUS
  <2>2. PICK k \in i..i + b : ~games[k]
    BY <1>3
  <2>3. k \in 1..n
    BY <1>1, <1>3
  <2> QED
    BY <1>1, <2>2, <2>3
<1>7. CASE won /\ s + 1 > b
  <2>1. \A k \in n - s + 1..n + 1 : games'[k]
    BY <1>1, <1>2, <1>7
  <2>2. \A i \in 1..n - s : ~\A k \in i..i + s + 1 : games'[k]
    <3>1. SUFFICES ASSUME NEW i \in 1..n - s
                   PROVE  \E k \in i..i + s + 1 : ~games'[k]
      OBVIOUS
    <3>2. CASE i = n - s
      <4>1. ~games[n - s] /\ n - s \in 1..n
        BY <1>1, <1>2, <3>2
      <4> QED
        BY <1>1, <1>2, <3>2, <4>1
    <3>3. CASE i # n - s
      <4>1. i \in 1..n - b /\ i + b \in Int /\ i + b <= i + s + 1
        BY <1>1, <1>2, <1>3, <1>7
      <4>2. PICK k \in i..i + b : ~games'[k]
        BY <1>6, <4>1
      <4> QED
        BY <1>1, <1>2, <1>3, <4>1, <4>2
    <3> QED
      BY <3>2, <3>3
  <2>3. s + 1 \in 0..n + 1 /\ n - s + 1 \in 1..n + 1 - (s + 1) + 1
    BY <1>1, <1>2
  <2>4. WonThroughout(games', n - s + 1, (n - s + 1) + (s + 1) - 1)
    BY <1>1, <1>2, <2>1 DEF WonThroughout
  <2>5. \A i \in 1..n + 1 - (s + 1) : ~WonThroughout(games', i, i + (s + 1))
    <3>1. SUFFICES ASSUME NEW i \in 1..n - s
                   PROVE  ~WonThroughout(games', i, i + s + 1)
      BY <1>5
    <3> QED
      BY <2>2 DEF WonThroughout
  <2>6. n + 1 \in Nat /\ row'.best = s + 1
    BY <1>5, <1>4, <1>7
  <2> QED
    BY <1>5, <2>3, <2>4, <2>5, <2>6, LongestRunIs
<1>8. CASE ~(won /\ s + 1 > b)
  <2>1. b \in 0..n + 1
    BY <1>1, <1>3
  <2>2. PICK i \in 1..n + 1 - b + 1 : \A k \in i..i + b - 1 : games'[k]
    <3>1. PICK i \in 1..n - b + 1 : \A k \in i..i + b - 1 : games[k]
      BY <1>3
    <3>2. i \in 1..n + 1 - b + 1 /\ i + b - 1 <= n
      BY <1>1, <1>3
    <3>3. \A k \in i..i + b - 1 : games'[k]
      BY <1>1, <1>3, <3>1, <3>2
    <3> QED
      BY <3>2, <3>3
  <2>3. \A j \in 1..n + 1 - b : ~\A k \in j..j + b : games'[k]
    <3>1. SUFFICES ASSUME NEW j \in 1..n + 1 - b
                   PROVE  \E k \in j..j + b : ~games'[k]
      OBVIOUS
    <3>2. CASE j = n + 1 - b
      <4>1. CASE ~won
        <5>1. n + 1 \in j..j + b
          BY <1>5, <3>2
        <5> QED
          BY <1>1, <4>1, <5>1
      <4>2. CASE won
        <5>1. s < b /\ s < n
          BY <1>1, <1>2, <1>3, <1>8, <4>2
        <5>2. n - s \in j..j + b /\ n - s \in 1..n
          BY <1>1, <1>2, <1>3, <3>2, <5>1
        <5> QED
          BY <1>1, <1>2, <5>1, <5>2
      <4> QED
        BY <4>1, <4>2
    <3>3. CASE j # n + 1 - b
      <4>1. j \in 1..n - b
        BY <1>5, <3>3
      <4>2. ~\A k \in j..j + b : games'[k]
        BY <1>6, <4>1
      <4> QED
        BY <4>2
    <3> QED
      BY <3>2, <3>3
  <2>4. WonThroughout(games', i, i + b - 1)
    BY <2>2 DEF WonThroughout
  <2>5. \A j \in 1..n + 1 - b : ~WonThroughout(games', j, j + b)
    BY <2>3 DEF WonThroughout
  <2>6. n + 1 \in Nat /\ row'.best = b
    BY <1>5, <1>4, <1>8
  <2> QED
    BY <1>5, <2>1, <2>2, <2>4, <2>5, <2>6, LongestRunIs
<1> QED
  BY <1>7, <1>8

-----------------------------------------------------------------------------
(* The types are kept.                                                      *)

LEMMA AskPageType ==
  ASSUME NEW l \in Screen
  PROVE  /\ AskPage(l) \in Screen
         /\ AskPage(l).calls
              = Append(l.calls, [offset |-> l.offset, page |-> <<>>,
                                 read |-> FALSE])
         /\ AskPage(l).loading = TRUE
         /\ AskPage(l).open = l.open /\ AskPage(l).items = l.items
         /\ AskPage(l).hasMore = l.hasMore /\ AskPage(l).offset = l.offset
         /\ AskPage(l).known = l.known
<1>1. [offset |-> l.offset, page |-> <<>>, read |-> FALSE] \in Call
  BY EmptySeq DEF Screen, Call
<1>2. Append(l.calls, [offset |-> l.offset, page |-> <<>>, read |-> FALSE])
        \in Seq(Call)
  BY <1>1, AppendProperties DEF Screen
<1> QED
  BY <1>2 DEF AskPage, Screen

LEMMA LoadMoreType ==
  ASSUME NEW l \in Screen
  PROVE  LoadMore(l) \in Screen
BY AskPageType DEF LoadMore

(* A call is removed.                                                       *)
LEMMA RemovedCall ==
  ASSUME NEW calls \in Seq(Call), NEW i \in DOMAIN calls
  PROVE  /\ RemoveAt(calls, i) \in Seq(Call)
         /\ Len(RemoveAt(calls, i)) = Len(calls) - 1
<1>1. Len(calls) \in Nat /\ i \in 1..Len(calls)
  BY LenProperties
<1>2. /\ SubSeq(calls, 1, i - 1) \in Seq(Call)
      /\ Len(SubSeq(calls, 1, i - 1)) = i - 1
  BY <1>1, SubSeqProperties, ElementOfSeq
<1>3. /\ SubSeq(calls, i + 1, Len(calls)) \in Seq(Call)
      /\ Len(SubSeq(calls, i + 1, Len(calls))) = Len(calls) - i
  <2>1. \A j \in i + 1..Len(calls) : calls[j] \in Call
    BY <1>1, ElementOfSeq
  <2> QED
    BY <1>1, <2>1, SubSeqProperties
<1>4. RemoveAt(calls, i)
        = SubSeq(calls, 1, i - 1) \o SubSeq(calls, i + 1, Len(calls))
  BY DEF RemoveAt
<1>5. /\ RemoveAt(calls, i) \in Seq(Call)
      /\ Len(RemoveAt(calls, i)) = (i - 1) + (Len(calls) - i)
  BY <1>2, <1>3, <1>4, ConcatProperties
<1> QED
  BY <1>1, <1>5

-----------------------------------------------------------------------------
(* The list of all games, l, when n games have been recorded.               *)

(* What is listed reaches down to the game after the t-th: from there up to *)
(* the newest game there was when the list was opened, none is missing, and *)
(* the next page follows on.                                                *)
DownTo(l, n, t) ==
  /\ t <= l.known /\ t + l.offset <= n
  /\ \A g \in Range(l.items) : g > t
  /\ \A g \in 1..l.known : g > t => g \in Range(l.items)
  /\ ~l.hasMore => t <= 0
  /\ \A i \in DOMAIN l.calls : l.calls[i].read =>
       \E m \in Nat : /\ m <= n /\ t + l.offset <= m
                      /\ IsPage(l.calls[i].page, m, l.offset)

(* At most one page is asked for at a time, from where the list ends.       *)
ListOK(l, n) ==
  /\ l.known <= n /\ l.offset = Len(l.items) /\ l.offset <= n
  /\ Len(l.calls) <= 1
  /\ l.calls # <<>> => l.loading
  /\ \A i \in DOMAIN l.calls : l.calls[i].offset = l.offset
  /\ \E t \in Int : DownTo(l, n, t)

LEMMA ListOutlivesGames ==
  ASSUME NEW l \in Screen, NEW n \in Nat, ListOK(l, n)
  PROVE  ListOK(l, n + 1)
<1>1. PICK t \in Int : DownTo(l, n, t)
  BY DEF ListOK
<1>2. DownTo(l, n + 1, t)
  BY <1>1 DEF DownTo, Screen
<1> QED
  BY <1>2 DEF ListOK, Screen

LEMMA OnlyCall ==
  ASSUME NEW c
  PROVE  /\ Append(<<>>, c) = <<c>>
         /\ DOMAIN <<c>> = {1} /\ <<c>>[1] = c /\ Len(<<c>>) = 1
OBVIOUS

LEMMA MorePages ==
  ASSUME NEW l \in Screen, NEW n \in Nat, ListOK(l, n)
  PROVE  ListOK(LoadMore(l), n)
<1> DEFINE call == [offset |-> l.offset, page |-> <<>>, read |-> FALSE]
           new == AskPage(l)
<1>1. CASE l.loading \/ ~l.hasMore
  BY <1>1 DEF LoadMore
<1>2. CASE ~l.loading /\ l.hasMore
  <2>1. l.calls = <<>>
    BY <1>2 DEF ListOK
  <2>2. new.calls = <<call>>
    <3>1. new.calls = Append(l.calls, call)
      BY AskPageType
    <3> HIDE DEF call, new
    <3> QED
      BY <2>1, <3>1, OnlyCall
  <2>3. /\ new.items = l.items /\ new.hasMore = l.hasMore
        /\ new.offset = l.offset /\ new.known = l.known
        /\ new.loading = TRUE
    BY AskPageType
  <2>4. DOMAIN new.calls = {1} /\ new.calls[1] = call /\ Len(new.calls) = 1
    <3> HIDE DEF call, new
    <3> QED
      BY <2>2, OnlyCall
  <2>5. PICK t \in Int : DownTo(l, n, t)
    BY DEF ListOK
  <2> HIDE DEF new
  <2>6. DownTo(new, n, t)
    BY <2>3, <2>4, <2>5 DEF DownTo
  <2>7. ListOK(new, n)
    BY <2>3, <2>4, <2>6 DEF ListOK
  <2> QED
    BY <1>2, <2>7 DEF LoadMore, new
<1> QED
  BY <1>1, <1>2

LEMMA ClosedOK ==
  ASSUME NEW n \in Nat
  PROVE  Closed \in Screen /\ ListOK(Closed, n)
<1>1. Closed \in Screen
  BY EmptySeq DEF Closed, Screen
<1>2. DownTo(Closed, n, 0)
  BY DEF DownTo, Closed, Range
<1> QED
  BY <1>1, <1>2 DEF ListOK, Closed

LEMMA NewListOK ==
  ASSUME NEW n \in Nat
  PROVE  LET new == [Opened EXCEPT !.known = n]
         IN  new \in Screen /\ ListOK(new, n)
<1> DEFINE new == [Opened EXCEPT !.known = n]
<1>1. /\ Closed \in Screen /\ Closed.items = <<>> /\ Closed.calls = <<>>
      /\ Closed.offset = 0
  BY EmptySeq DEF Closed, Screen
<1>2. /\ Opened \in Screen /\ Opened.items = <<>> /\ Opened.calls = <<>>
      /\ Opened.offset = 0 /\ Opened.hasMore
  BY <1>1 DEF Opened, Screen
<1>3. /\ new \in Screen /\ new.items = <<>> /\ new.calls = <<>>
      /\ new.offset = 0 /\ new.hasMore /\ new.known = n
  BY <1>2 DEF Screen
<1> HIDE DEF new
<1>4. DownTo(new, n, n)
  BY <1>3 DEF DownTo, Range
<1>5. ListOK(new, n)
  BY <1>3, <1>4 DEF ListOK
<1> QED
  BY <1>3, <1>5 DEF new

LEMMA ScrolledOK ==
  ASSUME NEW l \in Screen, NEW n \in Nat, ListOK(l, n), NEW b \in BOOLEAN
  PROVE  LET new == [l EXCEPT !.inView = b]
         IN  new \in Screen /\ ListOK(new, n)
<1> DEFINE new == [l EXCEPT !.inView = b]
<1>1. new \in Screen
  BY DEF Screen
<1>2. /\ new.items = l.items /\ new.hasMore = l.hasMore
      /\ new.offset = l.offset /\ new.known = l.known
      /\ new.loading = l.loading /\ new.calls = l.calls
  BY DEF Screen
<1> HIDE DEF new
<1>3. PICK t \in Int : DownTo(l, n, t)
  BY DEF ListOK
<1>4. DownTo(new, n, t)
  BY <1>2, <1>3 DEF DownTo
<1>5. ListOK(new, n)
  BY <1>2, <1>4 DEF ListOK
<1> QED
  BY <1>1, <1>5 DEF new

(* A call leaves the list of calls empty when it is answered.               *)
LEMMA OneCall ==
  ASSUME NEW l \in Screen, NEW n \in Nat, ListOK(l, n), NEW i \in DOMAIN l.calls
  PROVE  RemoveAt(l.calls, i) = <<>> /\ i = 1 /\ Len(l.calls) = 1
<1>1. l.calls \in Seq(Call)
  BY DEF Screen
<1>2. Len(l.calls) = 1 /\ i = 1
  <2>1. i \in 1..Len(l.calls) /\ Len(l.calls) \in Nat
    BY <1>1, LenProperties
  <2> DEFINE len == Len(l.calls)
  <2>2. len <= 1 /\ len \in Nat /\ i \in 1..len
    BY <2>1 DEF ListOK
  <2> HIDE DEF len
  <2>3. len = 1 /\ i = 1
    BY <2>2
  <2> QED
    BY <2>3 DEF len
<1>3. Len(RemoveAt(l.calls, i)) = 0 /\ RemoveAt(l.calls, i) \in Seq(Call)
  BY <1>1, <1>2, RemovedCall
<1> QED
  BY <1>2, <1>3, EmptySeq

(* The page that is handled is the one the list ends at.                    *)
LEMMA HandledOK ==
  ASSUME games \in Seq(BOOLEAN), NEW l \in Screen, ListOK(l, Len(games)),
         NEW i \in DOMAIN l.calls
  PROVE  LET new == [l EXCEPT
                    !.calls = [l.calls EXCEPT ![i] = Handled(l.calls[i])]]
         IN  new \in Screen /\ ListOK(new, Len(games))
<1> DEFINE n == Len(games)
           call == Handled(l.calls[i])
           calls == [l.calls EXCEPT ![i] = call]
           new == [l EXCEPT !.calls = calls]
<1>1. n \in Nat /\ l.calls \in Seq(Call)
  BY LenProperties DEF Screen
<1>2. i = 1 /\ Len(l.calls) = 1 /\ DOMAIN l.calls = {1}
  BY <1>1, OneCall, LenProperties
<1>3. l.calls[i] \in Call /\ l.calls[i].offset = l.offset /\ l.offset \in Nat
  BY <1>1, <1>2, ElementOfSeq DEF ListOK, Screen
<1>4. /\ call.offset = l.offset /\ call.read
      /\ call.page = GetHistory(PageSize, l.offset)
  BY <1>3 DEF Handled
<1>5. IsPage(call.page, n, l.offset)
  BY <1>3, <1>4, HistoryIsPage
<1>6. call \in Call
  <2>1. call.page \in Seq(Nat)
    BY <1>5 DEF IsPage
  <2> QED
    BY <1>3, <1>4, <2>1 DEF Call, Handled
<1> HIDE DEF call, n
<1>7. /\ calls \in Seq(Call) /\ Len(calls) = 1 /\ DOMAIN calls = {1}
      /\ calls[1] = call
  <2>1. l.calls \in Seq(Call) /\ i \in 1..Len(l.calls) /\ call \in Call
    BY <1>1, <1>2, <1>6
  <2>2. /\ calls \in Seq(Call) /\ Len(calls) = Len(l.calls)
        /\ \A j \in 1..Len(l.calls) :
             calls[j] = IF j = i THEN call ELSE l.calls[j]
    BY <2>1, ExceptSeq
  <2> HIDE DEF calls
  <2>3. Len(calls) = 1 /\ calls[1] = call
    BY <1>2, <2>2
  <2>4. DOMAIN calls = 1..Len(calls)
    BY <2>2, LenProperties
  <2> QED
    BY <2>2, <2>3, <2>4
<1> HIDE DEF calls
<1>8. /\ new \in Screen /\ new.calls = calls
      /\ new.items = l.items /\ new.hasMore = l.hasMore
      /\ new.offset = l.offset /\ new.known = l.known
      /\ new.loading = l.loading
  BY <1>7 DEF Screen
<1> HIDE DEF new
<1>9. PICK t \in Int : DownTo(l, n, t)
  BY DEF ListOK, n
<1>10. DownTo(new, n, t)
  BY <1>1, <1>5, <1>7, <1>8, <1>9 DEF DownTo
<1>11. ListOK(new, n)
  <2>1. l.loading /\ l.known <= n /\ l.offset = Len(l.items) /\ l.offset <= n
    BY <1>2 DEF ListOK, n
  <2>2. \A j \in DOMAIN new.calls : new.calls[j].offset = new.offset
    BY <1>4, <1>7, <1>8
  <2>3. /\ new.known <= n /\ new.offset = Len(new.items) /\ new.offset <= n
        /\ Len(new.calls) = 1 /\ new.loading
    BY <1>7, <1>8, <2>1, Zenon
  <2> QED
    BY <1>10, <2>2, <2>3 DEF ListOK
<1> QED
  BY <1>8, <1>11 DEF new, calls, call, n

(* The call of the list ends.                                               *)
LEMMA EndedOK ==
  ASSUME NEW l \in Screen, NEW n \in Nat, ListOK(l, n), NEW i \in DOMAIN l.calls
  PROVE  Ended(l, i) \in Screen /\ ListOK(Ended(l, i), n)
<1> DEFINE new == Ended(l, i)
<1>1. RemoveAt(l.calls, i) = <<>>
  BY OneCall
<1>2. /\ new \in Screen /\ new.calls = <<>> /\ new.loading = FALSE
      /\ new.items = l.items /\ new.hasMore = l.hasMore
      /\ new.offset = l.offset /\ new.known = l.known
  BY <1>1, EmptySeq DEF Ended, Screen
<1> HIDE DEF new
<1>3. PICK t \in Int : DownTo(l, n, t)
  BY DEF ListOK
<1>4. DownTo(new, n, t)
  BY <1>2, <1>3 DEF DownTo
<1>5. ListOK(new, n)
  BY <1>2, <1>4 DEF ListOK
<1> QED
  BY <1>2, <1>5 DEF new

(* What two lists hold, one behind the other.                               *)
LEMMA Joined ==
  ASSUME NEW a \in Seq(Nat), NEW b \in Seq(Nat)
  PROVE  /\ a \o b \in Seq(Nat)
         /\ Len(a \o b) = Len(a) + Len(b)
         /\ Range(a \o b) = Range(a) \cup Range(b)
<1>1. /\ a \o b \in Seq(Nat) /\ Len(a \o b) = Len(a) + Len(b)
      /\ \A k \in 1..Len(a) + Len(b) :
           (a \o b)[k] = IF k <= Len(a) THEN a[k] ELSE b[k - Len(a)]
  BY ConcatProperties
<1> DEFINE c == a \o b
           m == Len(a)
           n == Len(b)
<1>2. /\ m \in Nat /\ n \in Nat
      /\ DOMAIN a = 1..m /\ DOMAIN b = 1..n /\ DOMAIN c = 1..(m + n)
  BY <1>1, LenProperties
<1>3. \A k \in 1..m + n : c[k] = IF k <= m THEN a[k] ELSE b[k - m]
  BY <1>1
<1> HIDE DEF c, m, n
<1>4. \A k \in 1..m : k \in 1..m + n /\ c[k] = a[k]
  BY <1>2, <1>3
<1>5. \A k \in 1..n : m + k \in 1..m + n /\ c[m + k] = b[k]
  <2>1. SUFFICES ASSUME NEW k \in 1..n
                 PROVE  m + k \in 1..m + n /\ c[m + k] = b[k]
    OBVIOUS
  <2>2. PICK j \in 1..m + n : j = m + k /\ ~(j <= m) /\ j - m = k
    BY <1>2
  <2>3. c[j] = b[j - m]
    BY <1>3, <2>2
  <2> QED
    BY <2>2, <2>3
<1>6. \A k \in 1..m + n : \/ k \in 1..m /\ c[k] = a[k]
                          \/ k - m \in 1..n /\ c[k] = b[k - m]
  BY <1>2, <1>3
<1>7. Range(c) = Range(a) \cup Range(b)
  <2>1. Range(c) \subseteq Range(a) \cup Range(b)
    BY <1>2, <1>6 DEF Range
  <2>2. Range(a) \subseteq Range(c)
    BY <1>2, <1>4 DEF Range
  <2>3. Range(b) \subseteq Range(c)
    BY <1>2, <1>5 DEF Range
  <2> QED
    BY <2>1, <2>2, <2>3
<1> QED
  BY <1>1, <1>7 DEF c

(* What a page holds: the games down to one that depends on its length.     *)
LEMMA PageHolds ==
  ASSUME NEW page, NEW m \in Nat, NEW o \in Nat, IsPage(page, m, o)
  PROVE  /\ Len(page) \in Nat
         /\ o <= m => o + Len(page) <= m
         /\ m <= o => Len(page) = 0
         /\ Len(page) # PageSize => m - o - Len(page) <= 0
         /\ \A g \in Range(page) : g > m - o - Len(page)
         /\ \A g \in Int : g > m - o - Len(page) /\ g <= m - o
                             => g \in Range(page)
<1> DEFINE len == Len(page)
<1>1. page \in Seq(Nat) /\ len \in Nat /\ DOMAIN page = 1..len
  BY LenProperties DEF IsPage
<1>2. /\ len = IF m <= o THEN 0
               ELSE IF m - o < PageSize THEN m - o ELSE PageSize
      /\ \A k \in 1..len : page[k] = m - o - k + 1
  BY DEF IsPage
<1>3. PageSize \in Nat \ {0}
  BY ResultsAssumption
<1> HIDE DEF len
<1>4. o <= m => o + len <= m
  BY <1>1, <1>2, <1>3
<1>5. len # PageSize => m - o - len <= 0
  BY <1>1, <1>2, <1>3
<1>6. \A k \in 1..len : page[k] > m - o - len
  BY <1>1, <1>2
<1>7. ASSUME NEW g \in Int, g > m - o - len, g <= m - o
      PROVE  g \in Range(page)
  <2>1. m - o - g + 1 \in 1..len /\ m - o - (m - o - g + 1) + 1 = g
    BY <1>1, <1>7
  <2>2. page[m - o - g + 1] = g
    BY <1>2, <2>1
  <2> QED
    BY <1>1, <2>1, <2>2 DEF Range
<1>8. \A g \in Range(page) : g > m - o - len
  BY <1>1, <1>6 DEF Range
<1> QED
  BY <1>1, <1>2, <1>3, <1>4, <1>5, <1>7, <1>8 DEF len

LEMMA ListedType ==
  ASSUME NEW l \in Screen, NEW page \in Seq(Nat)
  PROVE  LET mid == Listed(l, page)
         IN  /\ mid \in Screen /\ mid.items = l.items \o page
             /\ mid.offset = l.offset + Len(page) /\ mid.calls = l.calls
             /\ mid.hasMore = l.hasMore /\ mid.known = l.known
<1> DEFINE items == l.items \o page
           offset == l.offset + Len(page)
           mid == [l EXCEPT !.items = items, !.offset = offset]
<1>1. items \in Seq(Nat)
  BY Joined DEF Screen
<1>2. offset \in Nat
  BY LenProperties DEF Screen
<1>3. Listed(l, page) = mid
  BY DEF Listed
<1> HIDE DEF items, offset
<1>4. /\ mid \in Screen /\ mid.items = items /\ mid.offset = offset
      /\ mid.calls = l.calls /\ mid.hasMore = l.hasMore
      /\ mid.known = l.known
  BY <1>1, <1>2 DEF Screen
<1> QED
  BY <1>3, <1>4, Zenon DEF items, offset

(* The game down to which a list is complete, t before the page and u after *)
(* it, when the page was read with m games and is added with n.             *)
LEMMA Reaches ==
  ASSUME NEW t \in Int, NEW m \in Nat, NEW n \in Nat, NEW o \in Nat,
         NEW len \in Nat, t + o <= m, m <= n, o <= n,
         o <= m => o + len <= m, m <= o => len = 0
  PROVE  \E u \in Int : /\ u <= t /\ u <= m - o - len
                        /\ t <= u \/ u = m - o - len
                        /\ u + (o + len) <= n /\ o + len <= n
<1> DEFINE u == IF t <= m - o - len THEN t ELSE m - o - len
<1>1. u \in Int /\ u <= t /\ u <= m - o - len /\ (t <= u \/ u = m - o - len)
  OBVIOUS
<1> HIDE DEF u
<1>2. u + (o + len) <= n /\ o + len <= n
  BY <1>1
<1> QED
  BY <1>1, <1>2

(* A page is added to the list.                                             *)
LEMMA AnsweredOK ==
  ASSUME NEW l \in Screen, NEW n \in Nat, ListOK(l, n),
         NEW i \in DOMAIN l.calls, l.calls[i].read
  PROVE  LET page == l.calls[i].page
             new == [Ended(Listed(l, page), i)
                       EXCEPT !.hasMore = @ /\ Len(page) = PageSize]
         IN  new \in Screen /\ ListOK(new, n)
<1> DEFINE page == l.calls[i].page
           mid == Listed(l, page)
           ended == Ended(mid, i)
           new == [ended EXCEPT !.hasMore = @ /\ Len(page) = PageSize]
<1>1. PICK t \in Int : DownTo(l, n, t)
  BY DEF ListOK
<1>2. PICK m \in Nat : /\ m <= n /\ t + l.offset <= m
                       /\ IsPage(page, m, l.offset)
  BY <1>1 DEF DownTo
<1> HIDE DEF page
<1> DEFINE len == Len(page)
           o == l.offset
<1>3. /\ o \in Nat /\ l.known \in Nat /\ l.items \in Seq(Nat)
      /\ o = Len(l.items) /\ l.known <= n /\ o <= n
  BY DEF ListOK, Screen
<1>4. /\ page \in Seq(Nat) /\ len \in Nat
      /\ o <= m => o + len <= m
      /\ m <= o => len = 0
      /\ len # PageSize => m - o - len <= 0
      /\ \A g \in Range(page) : g > m - o - len
      /\ \A g \in Int : g > m - o - len /\ g <= m - o => g \in Range(page)
  <2>1. page \in Seq(Nat)
    BY <1>2 DEF IsPage
  <2>2. o \in Nat /\ m \in Nat /\ IsPage(page, m, o)
    BY <1>2, <1>3
  <2> HIDE DEF len, o
  <2> QED
    BY <2>1, <2>2, PageHolds DEF len
<1>5. /\ mid \in Screen /\ mid.items = l.items \o page
      /\ mid.offset = o + len /\ mid.calls = l.calls
      /\ mid.hasMore = l.hasMore /\ mid.known = l.known
  BY <1>4, ListedType
<1> HIDE DEF mid
<1>6. RemoveAt(l.calls, i) = <<>>
  BY OneCall
<1>7. /\ ended \in Screen /\ ended.items = mid.items
      /\ ended.offset = mid.offset /\ ended.calls = <<>>
      /\ ended.hasMore = mid.hasMore /\ ended.known = mid.known
  BY <1>5, <1>6, EmptySeq DEF Ended, Screen
<1> HIDE DEF ended
<1>8. /\ new \in Screen /\ new.items = l.items \o page
      /\ new.offset = o + len /\ new.calls = <<>> /\ new.known = l.known
      /\ new.hasMore <=> l.hasMore /\ len = PageSize
  BY <1>5, <1>7 DEF Screen
<1> HIDE DEF new
<1>9. /\ Len(new.items) = o + len
      /\ Range(new.items) = Range(l.items) \cup Range(page)
  BY <1>3, <1>4, <1>8, Joined
<1>10. /\ t <= l.known /\ t + o <= m /\ m <= n
       /\ \A g \in Range(l.items) : g > t
       /\ \A g \in 1..l.known : g > t => g \in Range(l.items)
       /\ ~l.hasMore => t <= 0
  BY <1>1, <1>2 DEF DownTo
<1>11. Range(l.items) \subseteq Int /\ Range(page) \subseteq Int
  BY <1>3, <1>4, LenProperties, ElementOfSeq DEF Range
<1> HIDE DEF len, o
<1>12. PICK u \in Int : /\ u <= t /\ u <= m - o - len
                        /\ t <= u \/ u = m - o - len
                        /\ u + (o + len) <= n /\ o + len <= n
  <2>1. /\ o \in Nat /\ len \in Nat /\ t + o <= m /\ m <= n /\ o <= n
        /\ o <= m => o + len <= m
        /\ m <= o => len = 0
    BY <1>3, <1>4, <1>10, Zenon
  <2> QED
    BY <2>1, Reaches
<1>14. u <= l.known
  <2>1. l.known \in Int /\ t <= l.known /\ u <= t
    BY <1>3, <1>10, <1>12
  <2> QED
    BY <2>1
<1>15. \A g \in Range(new.items) : g > u
  <2>1. SUFFICES ASSUME NEW g \in Range(l.items) \cup Range(page)
                 PROVE  g > u
    BY <1>9
  <2>2. g \in Int
    BY <1>11
  <2>3. m - o - len \in Int
    BY <1>3, <1>4, SMT
  <2>4. g > t \/ g > m - o - len
    BY <1>4, <1>10, <2>1, Zenon
  <2> QED
    BY <1>12, <2>2, <2>3, <2>4
<1>16. \A g \in 1..l.known : g > u => g \in Range(new.items)
  <2>1. SUFFICES ASSUME NEW g \in 1..l.known, g > u, ~(g > t)
                 PROVE  g \in Range(page)
    BY <1>9, <1>10
  <2>2. o \in Nat /\ len \in Nat /\ g \in Int /\ t + o <= m
    BY <1>3, <1>4, <1>10
  <2>3. g > m - o - len /\ g <= m - o
    BY <1>12, <2>1, <2>2
  <2> QED
    BY <1>4, <2>2, <2>3
<1>17. ~new.hasMore => u <= 0
  <2>1. CASE ~l.hasMore
    BY <1>10, <1>12, <2>1
  <2>2. CASE len # PageSize
    <3>1. o \in Nat /\ len \in Nat /\ m - o - len <= 0
      BY <1>3, <1>4, <2>2, Zenon
    <3> QED
      BY <1>12, <3>1
  <2> QED
    BY <1>8, <2>1, <2>2
<1>18. DownTo(new, n, u)
  <2>1. /\ u <= new.known /\ u + new.offset <= n
        /\ \A g \in 1..new.known : g > u => g \in Range(new.items)
        /\ DOMAIN new.calls = {}
    BY <1>8, <1>12, <1>14, <1>16
  <2> QED
    BY <1>15, <1>17, <2>1 DEF DownTo
<1>19. ListOK(new, n)
  <2>1. /\ new.known <= n /\ new.offset = Len(new.items) /\ new.offset <= n
        /\ new.calls = <<>> /\ Len(new.calls) <= 1 /\ DOMAIN new.calls = {}
    BY <1>3, <1>8, <1>9, <1>12
  <2> QED
    BY <1>12, <1>18, <2>1 DEF ListOK
<1> QED
  BY <1>8, <1>19, Zenon DEF new, ended, mid, page

-----------------------------------------------------------------------------
(* The three parts of the inductive invariant.                              *)

GamesInv == games \in Seq(BOOLEAN) /\ row \in Row /\ StatsMatchGames

ListInv == list \in Screen /\ ListOK(list, Len(games))

(* What a refresh asks to see is recorded, and what it has read shows it.   *)
Fresh(f, n) ==
  /\ f \in [due : Int, played : Int, history : Int]
  /\ f.due <= n
  /\ f.played # Unread => f.played >= f.due
  /\ f.history # Unread => f.history >= f.due

FetchInv ==
  /\ report \in [result : {"none"} \cup Reports, due : Nat]
  /\ report.due <= Len(games)
  /\ DOMAIN fetches = Fetch
  /\ \A f \in Fetch : Fresh(fetches[f], Len(games))

ResultsInv == GamesInv /\ ListInv /\ FetchInv

LEMMA InitResults ==
  ASSUME Init
  PROVE  ResultsInv
<1>1. games = <<>> /\ Len(games) = 0 /\ games \in Seq(BOOLEAN)
  BY EmptySeq DEF Init
<1>2. GamesInv
  <2>1. row \in Row /\ row.played = 0 /\ row.wins = 0 /\ row.losses = 0
        /\ row.streak = 0 /\ row.best = 0
    BY DEF Init, NoRow, Row
  <2>2. {i \in DOMAIN games : games[i]} = {}
    BY <1>1
  <2>3. EndsInRun(games, 0)
    BY <1>1 DEF EndsInRun, WonThroughout
  <2>4. LongestRun(games, 0)
    BY <1>1 DEF LongestRun, WonThroughout
  <2> QED
    BY <1>1, <2>1, <2>2, <2>3, <2>4, FS_EmptySet DEF GamesInv, StatsMatchGames
<1>3. ListInv
  BY <1>1, ClosedOK DEF ListInv, Init
<1>4. FetchInv
  BY <1>1 DEF FetchInv, Fresh, Init, NoReport, Idle, Unread
<1> QED
  BY <1>2, <1>3, <1>4 DEF ResultsInv

(* The two tables change together, in one transaction.                      *)
LEMMA TablesTogether ==
  ASSUME [Next]_vars
  PROVE  \/ (\E won \in BOOLEAN : RecordGame(won)) /\ UNCHANGED list
         \/ UNCHANGED <<games, row>>
<1>1. CASE \E won \in BOOLEAN : RecordResult(won)
  BY <1>1 DEF RecordResult
<1>2. CASE ReportArrives
  BY <1>2 DEF ReportArrives
<1>3. CASE \/ \E result \in Reports : HandleGameEnd(result)
           \/ ReportAnswered \/ ReportFails \/ OpenSettings
           \/ \E f \in Fetch : FetchRead(f) \/ FetchAnswered(f) \/ FetchFails(f)
  BY <1>3 DEF HandleGameEnd, ReportAnswered, ReportFails, OpenSettings,
              FetchRead, FetchAnswered, FetchFails
<1>4. CASE \/ OpenHistory \/ CloseHistory \/ EndInView \/ EndOutOfView
           \/ \E i \in Calls : PageRead(i) \/ PageAnswered(i) \/ PageFails(i)
  BY <1>4 DEF OpenHistory, CloseHistory, EndInView, EndOutOfView,
              PageRead, PageAnswered, PageFails, Show
<1>5. CASE UNCHANGED vars
  BY <1>5 DEF vars
<1> QED
  BY <1>1, <1>2, <1>3, <1>4, <1>5 DEF Next

LEMMA GamesStep ==
  ASSUME GamesInv, [Next]_vars
  PROVE  GamesInv'
<1>1. CASE \E won \in BOOLEAN : RecordGame(won)
  <2>1. PICK won \in BOOLEAN : RecordGame(won)
    BY <1>1
  <2>2. games \in Seq(BOOLEAN) /\ row \in Row
    BY DEF GamesInv
  <2>3. games' \in Seq(BOOLEAN) /\ Len(games') = Len(games) + 1
    BY <2>1, <2>2, RecordedGame
  <2>4. EndsInRun(games', row'.streak) /\ LongestRun(games', row'.best)
    BY <2>1, <2>2, EndsInRunKept, LongestRunKept DEF GamesInv, StatsMatchGames
  <2> DEFINE wins == Cardinality({i \in DOMAIN games : games[i]})
             wins1 == Cardinality({i \in DOMAIN games' : games'[i]})
  <2>5. wins1 = wins + (IF won THEN 1 ELSE 0)
    BY <2>1, <2>2, WinsCounted
  <2>6. row.played = Len(games) /\ row.wins = wins
        /\ row.losses = row.played - row.wins
    BY DEF GamesInv, StatsMatchGames
  <2> HIDE DEF wins, wins1
  <2>7. /\ row' \in Row
        /\ row'.played = row.played + 1
        /\ row'.wins = IF won THEN row.wins + 1 ELSE row.wins
        /\ row'.losses = IF won THEN row.losses ELSE row.losses + 1
    BY <2>1, <2>2, UpsertedRow
  <2>8. /\ row.played \in Nat /\ row.wins \in Nat /\ row.losses \in Int
    BY <2>2 DEF Row
  <2>9. /\ row'.played = Len(games') /\ row'.wins = wins1
        /\ row'.losses = row'.played - row'.wins
    BY <2>3, <2>5, <2>6, <2>7, <2>8
  <2> QED
    BY <2>3, <2>4, <2>7, <2>9 DEF GamesInv, StatsMatchGames, wins1
<1>2. CASE UNCHANGED <<games, row>>
  BY <1>2 DEF GamesInv, StatsMatchGames
<1> QED
  BY <1>1, <1>2, TablesTogether

(* What a screen shows is fit to be shown.                                  *)
LEMMA ShownOK ==
  ASSUME NEW l \in Screen, ListOK(l, Len(games)), Show(l)
  PROVE  ListInv'
BY DEF Show, ListInv

LEMMA ListStep ==
  ASSUME GamesInv, ListInv, [Next]_vars
  PROVE  ListInv'
<1> DEFINE n == Len(games)
<1>1. games \in Seq(BOOLEAN) /\ n \in Nat /\ list \in Screen /\ ListOK(list, n)
  BY LenProperties DEF GamesInv, ListInv
<1>2. CASE (\E won \in BOOLEAN : RecordGame(won)) /\ UNCHANGED list
  <2>1. Len(games') = n + 1
    BY <1>1, <1>2, RecordedGame
  <2>2. ListOK(list, n + 1)
    BY <1>1, ListOutlivesGames
  <2> QED
    BY <1>1, <1>2, <2>1, <2>2 DEF ListInv
<1>3. CASE UNCHANGED <<games, list>>
  BY <1>3 DEF ListInv
<1>4. CASE OpenHistory
  <2> DEFINE l == [Opened EXCEPT !.known = n]
  <2>1. l \in Screen /\ ListOK(l, n)
    BY <1>1, NewListOK
  <2>2. LoadMore(l) \in Screen /\ ListOK(LoadMore(l), n)
    BY <1>1, <2>1, LoadMoreType, MorePages
  <2>3. Show(LoadMore(l))
    BY <1>4 DEF OpenHistory
  <2> HIDE DEF l
  <2> QED
    BY <2>2, <2>3, ShownOK
<1>5. CASE CloseHistory
  BY <1>1, <1>5, ClosedOK, ShownOK DEF CloseHistory
<1>6. CASE EndInView
  <2> DEFINE l == [list EXCEPT !.inView = TRUE]
  <2>1. l \in Screen /\ ListOK(l, n)
    BY <1>1, ScrolledOK
  <2>2. LoadMore(l) \in Screen /\ ListOK(LoadMore(l), n)
    BY <1>1, <2>1, LoadMoreType, MorePages
  <2>3. Show(LoadMore(l))
    BY <1>6 DEF EndInView
  <2> HIDE DEF l
  <2> QED
    BY <2>2, <2>3, ShownOK
<1>7. CASE EndOutOfView
  <2> DEFINE l == [list EXCEPT !.inView = FALSE]
  <2>1. l \in Screen /\ ListOK(l, n)
    BY <1>1, ScrolledOK
  <2>2. Show(l)
    BY <1>7 DEF EndOutOfView
  <2> HIDE DEF l
  <2> QED
    BY <2>1, <2>2, ShownOK
<1>8. ASSUME NEW i \in Calls, PageRead(i)
      PROVE  ListInv'
  <2> DEFINE l == [list EXCEPT
                     !.calls =
                       [list.calls EXCEPT ![i] = Handled(list.calls[i])]]
  <2>1. l \in Screen /\ ListOK(l, n)
    BY <1>1, <1>8, HandledOK DEF Calls
  <2>2. Show(l)
    BY <1>8 DEF PageRead
  <2> HIDE DEF l
  <2> QED
    BY <2>1, <2>2, ShownOK
<1>9. ASSUME NEW i \in Calls, PageAnswered(i)
      PROVE  ListInv'
  <2> DEFINE page == list.calls[i].page
             l == [Ended(Listed(list, page), i)
                     EXCEPT !.hasMore = @ /\ Len(page) = PageSize]
  <2>1. l \in Screen /\ ListOK(l, n)
    BY <1>1, <1>9, AnsweredOK DEF Calls, PageAnswered
  <2>2. Show(l)
    BY <1>9 DEF PageAnswered
  <2> HIDE DEF l
  <2> QED
    BY <2>1, <2>2, ShownOK
<1>10. ASSUME NEW i \in Calls, PageFails(i)
       PROVE  ListInv'
  <2>1. Ended(list, i) \in Screen /\ ListOK(Ended(list, i), n)
    BY <1>1, EndedOK DEF Calls
  <2> QED
    BY <1>10, <2>1, ShownOK DEF PageFails
<1>11. CASE \/ \E won \in BOOLEAN : RecordResult(won)
            \/ ReportArrives
  BY <1>2, <1>11 DEF RecordResult, ReportArrives
<1>12. CASE \/ \E result \in Reports : HandleGameEnd(result)
            \/ ReportAnswered \/ ReportFails \/ OpenSettings
            \/ \E f \in Fetch : FetchRead(f) \/ FetchAnswered(f) \/ FetchFails(f)
  BY <1>3, <1>12 DEF HandleGameEnd, ReportAnswered, ReportFails, OpenSettings,
                     FetchRead, FetchAnswered, FetchFails
<1>13. CASE UNCHANGED vars
  BY <1>3, <1>13 DEF vars
<1> QED
  BY <1>4, <1>5, <1>6, <1>7, <1>8, <1>9, <1>10, <1>11, <1>12, <1>13 DEF Next

-----------------------------------------------------------------------------
(* The refreshes.                                                           *)

LEMMA FreshOutlivesGames ==
  ASSUME NEW n \in Nat, NEW f, Fresh(f, n)
  PROVE  Fresh(f, n + 1)
BY DEF Fresh

(* A refresh is asked for to show what is recorded.                         *)
LEMMA RefreshedOK ==
  ASSUME FetchInv, Len(games) \in Nat, NEW due \in Nat, due <= Len(games),
         RefreshStats(due), UNCHANGED games
  PROVE  /\ DOMAIN fetches' = Fetch
         /\ \A f \in Fetch : Fresh(fetches'[f], Len(games'))
<1> DEFINE new == [due |-> due, played |-> Unread, history |-> Unread]
<1>1. PICK f \in Fetch \ InFlight : fetches' = [fetches EXCEPT ![f] = new]
  BY DEF RefreshStats
<1>2. Fresh(new, Len(games))
  BY DEF Fresh, Unread
<1> HIDE DEF new
<1> QED
  BY <1>1, <1>2 DEF FetchInv

(* A refresh changes to one that is as fresh.                               *)
LEMMA RefetchedOK ==
  ASSUME FetchInv, NEW f \in Fetch, NEW new, Fresh(new, Len(games)),
         fetches' = [fetches EXCEPT ![f] = new], UNCHANGED <<games, report>>
  PROVE  FetchInv'
BY DEF FetchInv

LEMMA FetchStep ==
  ASSUME GamesInv, FetchInv, [Next]_vars
  PROVE  FetchInv'
<1> DEFINE n == Len(games)
<1>1. games \in Seq(BOOLEAN) /\ n \in Nat
  BY LenProperties DEF GamesInv
<1>2. ASSUME NEW won \in BOOLEAN, RecordGame(won)
      PROVE  /\ Len(games') = n + 1
             /\ \A f \in Fetch : Fresh(fetches[f], n + 1)
  BY <1>1, <1>2, RecordedGame, FreshOutlivesGames DEF FetchInv
<1>3. ASSUME NEW won \in BOOLEAN, RecordResult(won)
      PROVE  FetchInv'
  <2>1. /\ Len(games') = n + 1 /\ UNCHANGED <<report, fetches>>
        /\ \A f \in Fetch : Fresh(fetches[f], n + 1)
    BY <1>2, <1>3 DEF RecordResult
  <2>2. report.due \in Nat /\ report.due <= n
    BY DEF FetchInv
  <2>3. report'.due <= Len(games')
    BY <1>1, <2>1, <2>2
  <2> QED
    BY <2>1, <2>3 DEF FetchInv
<1>4. ASSUME NEW result \in Reports, HandleGameEnd(result)
      PROVE  FetchInv'
  <2>1. /\ report' = [result |-> result, due |-> 0]
        /\ UNCHANGED <<games, fetches>>
    BY <1>4 DEF HandleGameEnd, NoReport, RefreshLater
  <2> QED
    BY <1>1, <2>1 DEF FetchInv
<1>5. CASE ReportArrives
  <2>1. RecordGame(report.result = "win") /\ UNCHANGED fetches
        /\ report' = [report EXCEPT !.due = Len(games')]
    BY <1>5 DEF ReportArrives
  <2>2. /\ Len(games') = n + 1
        /\ \A f \in Fetch : Fresh(fetches[f], n + 1)
    BY <1>2, <2>1
  <2>3. /\ report' \in [result : {"none"} \cup Reports, due : Nat]
        /\ report'.due = Len(games')
    BY <1>1, <2>1, <2>2 DEF FetchInv
  <2> QED
    BY <1>1, <2>1, <2>2, <2>3 DEF FetchInv
<1>6. CASE ReportAnswered
  <2>1. /\ RefreshStats(report.due) /\ UNCHANGED games
        /\ report' = [result |-> "none", due |-> 0]
    BY <1>6 DEF ReportAnswered, NoReport
  <2>2. report.due \in Nat /\ report.due <= n
    BY DEF FetchInv
  <2>3. /\ DOMAIN fetches' = Fetch
        /\ \A f \in Fetch : Fresh(fetches'[f], Len(games'))
    BY <1>1, <2>1, <2>2, RefreshedOK
  <2> QED
    BY <1>1, <2>1, <2>3 DEF FetchInv
<1>7. CASE ReportFails
  <2>1. UNCHANGED <<games, fetches>> /\ report' = [result |-> "none", due |-> 0]
    BY <1>7 DEF ReportFails, NoReport
  <2> QED
    BY <1>1, <2>1 DEF FetchInv
<1>8. CASE OpenSettings
  <2>1. RefreshStats(0) /\ UNCHANGED <<games, report>>
    BY <1>8 DEF OpenSettings
  <2>2. /\ DOMAIN fetches' = Fetch
        /\ \A f \in Fetch : Fresh(fetches'[f], Len(games'))
    BY <1>1, <2>1, RefreshedOK
  <2> QED
    BY <2>1, <2>2 DEF FetchInv
<1>9. ASSUME NEW f \in Fetch, FetchRead(f)
      PROVE  FetchInv'
  <2>1. Fresh(fetches[f], n)
    BY DEF FetchInv
  <2>2. PICK new : /\ fetches' = [fetches EXCEPT ![f] = new]
                   /\ \/ new = [fetches[f] EXCEPT !.played = row.played]
                      \/ new = [fetches[f] EXCEPT !.history = n]
    BY <1>9 DEF FetchRead
  <2>3. row.played = n
    BY DEF GamesInv, StatsMatchGames
  <2>4. Fresh(new, n)
    BY <1>1, <2>1, <2>2, <2>3 DEF Fresh
  <2> QED
    BY <1>9, <2>2, <2>4, RefetchedOK DEF FetchRead
<1>10. ASSUME NEW f \in Fetch, FetchAnswered(f) \/ FetchFails(f)
       PROVE  FetchInv'
  <2>1. Fresh(Idle, n)
    BY <1>1 DEF Fresh, Idle, Unread
  <2> QED
    BY <1>10, <2>1, RefetchedOK DEF FetchAnswered, FetchFails
<1>11. CASE UNCHANGED <<games, report, fetches>>
  BY <1>11 DEF FetchInv
<1>12. CASE \/ OpenHistory \/ CloseHistory \/ EndInView \/ EndOutOfView
            \/ \E i \in Calls : PageRead(i) \/ PageAnswered(i) \/ PageFails(i)
  BY <1>11, <1>12 DEF OpenHistory, CloseHistory, EndInView, EndOutOfView,
                      PageRead, PageAnswered, PageFails, Show
<1>13. CASE UNCHANGED vars
  BY <1>11, <1>13 DEF vars
<1> QED
  BY <1>3, <1>4, <1>5, <1>6, <1>7, <1>8, <1>9, <1>10, <1>12, <1>13 DEF Next

LEMMA ResultsInvariant == Spec => []ResultsInv
<1>1. Init => ResultsInv
  BY InitResults
<1>2. ResultsInv /\ [Next]_vars => ResultsInv'
  BY GamesStep, ListStep, FetchStep DEF ResultsInv
<1> QED
  BY <1>1, <1>2, PTL DEF Spec

-----------------------------------------------------------------------------
(* What follows.                                                            *)

(* The row of user_stats says what the table of games says, however the     *)
(* games went and however many there are (store.go:89).                     *)
THEOREM StatsTheorem == Spec => []StatsMatchGames
<1>1. ResultsInv => StatsMatchGames
  BY DEF ResultsInv, GamesInv
<1> QED
  BY <1>1, ResultsInvariant, PTL

(* How many games are listed, counted once.                                 *)
LEMMA ListedOnce ==
  ASSUME NEW l \in Screen, NEW n \in Nat, ListOK(l, n)
  PROVE  Len(l.items) - Cardinality(Range(l.items)) <= n - l.known
<1> DEFINE items == Range(l.items)
<1>1. PICK t \in Int : DownTo(l, n, t)
  BY DEF ListOK
<1>2. /\ l.items \in Seq(Nat) /\ l.known \in Nat /\ l.offset \in Nat
      /\ l.offset = Len(l.items) /\ l.known <= n /\ l.offset <= n
  BY DEF ListOK, Screen
<1>3. /\ t <= l.known /\ t + l.offset <= n
      /\ \A g \in 1..l.known : g > t => g \in items
  BY <1>1 DEF DownTo
<1>4. IsFiniteSet(items) /\ Cardinality(items) \in Nat
  <2> DEFINE S == 1..Len(l.items)
  <2>1. IsFiniteSet(S)
    BY <1>2, FS_Interval
  <2>2. l.items \in Surjection(S, items)
    <3>1. DOMAIN l.items = S
      BY <1>2, LenProperties
    <3>2. l.items \in [S -> items]
      BY <1>2, <3>1, LenProperties DEF Range
    <3>3. \A g \in items : \E k \in S : l.items[k] = g
      BY <3>1 DEF Range
    <3> HIDE DEF S, items
    <3> QED
      BY <3>2, <3>3 DEF Surjection
  <2> HIDE DEF S, items
  <2> QED
    BY <2>1, <2>2, FS_Surjection, FS_CardinalityType
<1> DEFINE u == IF t < 0 THEN 0 ELSE t
<1>5. u \in Nat /\ u <= l.known
  BY <1>2, <1>3
<1>6. u + 1..l.known \in SUBSET items
  BY <1>2, <1>3, <1>5
<1>7. u + l.offset <= n
  <2> DEFINE o == l.offset
  <2>1. t + o <= n /\ o <= n /\ o \in Nat
    BY <1>2, <1>3
  <2> HIDE DEF o
  <2>2. u + o <= n
    BY <2>1
  <2> QED
    BY <2>2 DEF o
<1> HIDE DEF u, items
<1>8. Cardinality(u + 1..l.known) = l.known - u
  <2>1. u + 1 \in Int /\ l.known \in Int
    BY <1>2, <1>5
  <2>2. Cardinality(u + 1..l.known)
          = IF u + 1 > l.known THEN 0 ELSE l.known - (u + 1) + 1
    BY <2>1, FS_Interval
  <2> QED
    BY <1>2, <1>5, <2>2
<1>9. Cardinality(u + 1..l.known) <= Cardinality(items)
  BY <1>4, <1>6, FS_Subset
<1>10. l.known - u <= Cardinality(items)
  BY <1>8, <1>9
<1> DEFINE c == Cardinality(items)
           o == l.offset
           k == l.known
<1>11. /\ c \in Nat /\ o \in Nat /\ k \in Nat /\ k - u <= c
       /\ u + o <= n
  BY <1>2, <1>4, <1>7, <1>10
<1> HIDE DEF c, o, k
<1>12. o - c <= n - k
  BY <1>5, <1>11
<1> QED
  BY <1>2, <1>12 DEF c, o, k, items

(* The list of all games has no gap below what was there when it was        *)
(* opened, and repeats no more games than were recorded since               *)
(* (HistoryScreen.jsx:23).                                                  *)
THEOREM ListTheorem == Spec => []ListFits
<1>1. ResultsInv => ListFits
  <2>1. SUFFICES ASSUME ResultsInv PROVE ListFits
    OBVIOUS
  <2>2. list \in Screen /\ ListOK(list, Len(games)) /\ Len(games) \in Nat
    BY <2>1, LenProperties DEF ResultsInv, GamesInv, ListInv
  <2>3. NothingSkipped
    <3>1. PICK t \in Int : DownTo(list, Len(games), t)
      BY <2>2 DEF ListOK
    <3>2. /\ \A g \in Range(list.items) : g > t
          /\ \A g \in 1..list.known : g > t => g \in Range(list.items)
          /\ ~list.hasMore => t <= 0
      BY <3>1 DEF DownTo
    <3>3. Range(list.items) \subseteq Int /\ list.known \in Nat
      BY <2>2, LenProperties, ElementOfSeq DEF Range, Screen
    <3> QED
      BY <3>2, <3>3 DEF NothingSkipped
  <2>4. RepeatsAreNew
    BY <2>2, ListedOnce DEF RepeatsAreNew
  <2> QED
    BY <2>3, <2>4 DEF ListFits
<1> QED
  BY <1>1, ResultsInvariant, PTL

(* The refresh that follows a reported game shows that game (App.jsx:194).  *)
THEOREM ReportTheorem == Spec => ReportedGameShown
<1>1. ResultsInv /\ [Next]_vars => ShowsWhatIsDue
  <2>1. SUFFICES ASSUME ResultsInv, [Next]_vars, NEW f \in Fetch,
                        fetches[f] # Idle, fetches'[f] = Idle, stats' # stats
                 PROVE  /\ stats'.played >= fetches[f].due
                        /\ stats'.history >= fetches[f].due
    BY DEF ShowsWhatIsDue
  <2>2. PICK h \in Fetch : FetchAnswered(h)
    BY <2>1 DEF Next, vars, RecordResult, HandleGameEnd, ReportArrives,
                ReportAnswered, ReportFails, OpenSettings, FetchRead,
                FetchFails, OpenHistory, CloseHistory, EndInView,
                EndOutOfView, PageRead, PageAnswered, PageFails, Show
  <2>3. h = f
    BY <2>1, <2>2 DEF FetchAnswered, ResultsInv, FetchInv
  <2>4. Fresh(fetches[f], Len(games))
    BY <2>1 DEF ResultsInv, FetchInv
  <2>5. /\ stats'.played = fetches[f].played
        /\ stats'.history = fetches[f].history
        /\ fetches[f].played # Unread /\ fetches[f].history # Unread
    BY <2>2, <2>3 DEF FetchAnswered
  <2> QED
    BY <2>4, <2>5 DEF Fresh
<1> QED
  BY <1>1, ResultsInvariant, PTL DEF Spec, ReportedGameShown

=============================================================================

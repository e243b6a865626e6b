--------------------------- MODULE OfflineProofs ----------------------------
(***************************************************************************)
(* Theorems about the offline game screen, for every deck, every number of *)
(* seats and any number of deals: prompts, countdowns, pauses and reports  *)
(* belong to the game on the table, the bots remember right, and the rules *)
(* keep the promise of TurnGame.                                           *)
(***************************************************************************)
EXTENDS OfflineGame, AceRulesProofs

-----------------------------------------------------------------------------
(* The game the screen shows, as it is between two events.                  *)

(* Taking a seat out of a list is the code's removal only if it is there    *)
(* once, and who runs out of cards is listed, and nobody else.              *)
ListsOK(g) ==
  /\ NoRepeats(g.roundOrder) /\ NoRepeats(g.finished)
  /\ \A s \in Seats : s \in Range(g.finished) <=> g.hands[s] = {}

(* In a trick the led suit is on the table, played by seats of the order,   *)
(* and nobody who is still to act has finished.                             *)
TrickOK(g) ==
  g.phase = "playing" =>
    /\ g.turnIdx < Len(g.roundOrder)
    /\ \A p \in g.roundCards : p.player \in Range(g.roundOrder)
    /\ g.ledSuit # NoSuit => \E p \in g.roundCards : p.card.suit = g.ledSuit
    /\ \A j \in g.turnIdx + 1 .. Len(g.roundOrder) :
         g.roundOrder[j] \notin Range(g.finished)
    /\ g.loser = NoSeat

(* After a trick its winner is known, and the loser if there is one.        *)
ResultOK(g) ==
  /\ g.phase = "result" => g.nextLeader \in Seats
  /\ g.phase # "playing" => g.loser = TerminalLoser(g.finished, {})
  /\ g.phase = "gameOver" => Cardinality(ActiveSeats(g.finished, {})) <= 1

GameOK(g) == g \in Game /\ ListsOK(g) /\ TrickOK(g) /\ ResultOK(g)

-----------------------------------------------------------------------------
(* The screen around it.                                                    *)

BotPause == [seat : Seats \ {Me}, card : Card]
AfkType ==
  [timer : BOOLEAN, phase : {"none", "board", "popup"}, retries : Nat]

ThinkingOK(timer) == timer = NoTimer \/ timer \in BotPause

Counting(a) == a.timer \/ a.phase # "none"

(* The away countdown a fits the turn of game g, the d-th of the screen.    *)
IdleFits(g, a, d) ==
  /\ Counting(a) => MyTurn(g)
  /\ MyTurn(g) /\ d = 1 => Counting(a)

(* What was reported, and that no seat that finished earlier or with it     *)
(* plays on: a cut takes nobody before it out of the list.                  *)
ReportFits(g, rep) ==
  /\ rep \in [won : BOOLEAN, placement : Nat]
  /\ rep.won =>
       /\ Me \in Range(g.finished)
       /\ IndexOf(g.finished, Me) = rep.placement
       /\ g.phase = "playing" =>
            \A j \in 1 .. rep.placement : g.finished[j] \notin Range(g.roundOrder)
  /\ rep # Unreported /\ ~rep.won => g.phase = "gameOver" /\ g.loser = Me
  /\ g.phase = "gameOver" => rep # Unreported

WatchFits(g, w) == w.prompt \/ w.watching => Me \in Range(g.finished)

ScreenInv ==
  /\ GameOK(game) /\ ThinkingOK(botTimer) /\ afk \in AfkType
  /\ deals \in Nat \ {0}
  /\ PauseIsItsOwn
  /\ WatchFits(game, watch)
  /\ IdleFits(game, afk, deals)
  /\ ReportFits(game, reported)

-----------------------------------------------------------------------------
(* Cards and deals.                                                         *)
LEMMA DeckIsFinite == IsFiniteSet(Card) /\ Cardinality(Card) \in Nat
<1> DEFINE pair == [c \in Card |-> <<c.suit, c.rank>>]
<1>1. pair \in Injection(Card, Suits \X Ranks)
  BY DEF Card, Injection, IsInjective
<1>2. IsFiniteSet(Suits \X Ranks)
  BY LocalDeckAssumption, FS_Product
<1> HIDE DEF pair
<1> QED
  BY <1>1, <1>2, FS_Injection, FS_CardinalityType

LEMMA DivIsPositive ==
  ASSUME NEW n \in Nat, n > 0, NEW a \in Int, a >= n
  PROVE  a \div n >= 1
OBVIOUS

(* deal gives every seat a card, and one of them the card that starts.      *)
LEMMA DealFillsHands ==
  ASSUME NEW hands \in Deals
  PROVE  /\ hands \in [Seats -> SUBSET Card]
         /\ \A s \in Seats : hands[s] # {}
         /\ FindStarter(hands) \in Seats
<1>1. PICK owner \in [Card -> Seats] :
        /\ \A s \in Seats : Cardinality({c \in Card : owner[c] = s}) = DealtTo(s)
        /\ hands = [s \in Seats |-> {c \in Card : owner[c] = s}]
  BY DEF Deals
<1>2. ASSUME NEW s \in Seats
      PROVE  hands[s] # {}
  <2> DEFINE a == Cardinality(Card) - s + N - 1
  <2>1. N \in Nat /\ N > 0 /\ a \in Int /\ a >= N
    BY SeatsAssumption, LocalDeckAssumption, DeckIsFinite DEF Seats
  <2>2. DealtTo(s) = a \div N
    BY DEF DealtTo
  <2>3. DealtTo(s) >= 1
    <3> HIDE DEF a
    <3> QED
      BY <2>1, <2>2, DivIsPositive
  <2>4. Cardinality(hands[s]) = DealtTo(s)
    BY <1>1
  <2> QED
    BY <2>3, <2>4, FS_EmptySet
<1>3. \E s \in Seats : Opener \in hands[s]
  BY <1>1, LocalDeckAssumption
<1> QED
  BY <1>1, <1>2, <1>3 DEF FindStarter

(* Whoever holds the highest card of a suit on the table is one who played  *)
(* that suit.                                                               *)
LEMMA HighestIsPlayed ==
  ASSUME NEW played \in SUBSET Played, NEW suit,
         \E p \in played : p.card.suit = suit
  PROVE  HighestOf(played, suit) \in played
<1> DEFINE same == {p \in played : p.card.suit = suit}
           ranks == {p.card.rank : p \in same}
           value == [x \in ranks |-> x]
<1>1. ranks \subseteq Ranks /\ ranks \subseteq Int
  BY LocalDeckAssumption DEF Played, Card
<1>2. IsFiniteSet(ranks) /\ ranks # {}
  <2>1. PICK p \in played : p.card.suit = suit
    OBVIOUS
  <2>2. p.card.rank \in ranks
    BY <2>1
  <2> QED
    BY <1>1, <2>2, LocalDeckAssumption, FS_Subset
<1>3. value \in [ranks -> Int]
  BY <1>1
<1>4. PICK x \in ranks : \A y \in ranks : value[y] <= value[x]
  <2> HIDE DEF value, ranks
  <2> QED
    BY <1>2, <1>3, HighestExists
<1>5. \E p \in same : \A q \in same : q.card.rank <= p.card.rank
  BY <1>4
<1> QED
  BY <1>5 DEF HighestOf

(* A bot picks one of the cards it holds.                                   *)
LEMMA PickIsHeld ==
  ASSUME NEW g, NEW s, NEW card \in PickMove(g, s)
  PROVE  card \in g.hands[s]
<1>1. LegalMoves(g, s) \subseteq g.hands[s]
  BY DEF LegalMoves, OfSuit
<1>2. ASSUME NEW cards
      PROVE  HighestCards(cards) \subseteq cards /\ LowestCards(cards) \subseteq cards
  BY DEF HighestCards, LowestCards
<1>3. ASSUME NEW valid, NEW out
      PROVE  /\ ChooseCut(g, valid, out) \subseteq valid
             /\ ChooseFollow(g, valid, out) \subseteq valid
             /\ ChooseLead(g, s, valid, out) \subseteq valid
  <2>1. ChooseCut(g, valid, out) \subseteq valid
    BY <1>2 DEF ChooseCut
  <2>2. ChooseFollow(g, valid, out) \subseteq valid
    <3> DEFINE safe == {c \in valid : \E p \in g.roundCards :
                          p.card.suit = g.ledSuit /\ c.rank < p.card.rank}
    <3>1. HighestCards(safe) \subseteq valid
      BY <1>2
    <3>2. LowestCards(valid) \subseteq valid /\ HighestCards(valid) \subseteq valid
      BY <1>2
    <3> QED
      BY <3>1, <3>2 DEF ChooseFollow
  <2>3. ChooseLead(g, s, valid, out) \subseteq valid
    <3>1. \A suit : LowestCards(OfSuit(valid, suit)) \subseteq valid
      BY <1>2 DEF OfSuit
    <3>2. UNION {LowestCards(OfSuit(valid, suit)) : suit \in Suits} \subseteq valid
      BY <3>1
    <3> QED
      BY <3>2 DEF ChooseLead
  <2> QED
    BY <2>1, <2>2, <2>3
<1> QED
  BY <1>1, <1>3 DEF PickMove

-----------------------------------------------------------------------------
(* The operations of the engine keep a game whole.                          *)

(* A new game.                                                              *)
LEMMA NewGameOK ==
  ASSUME NEW hands \in Deals
  PROVE  /\ GameOK(InitGame(hands))
         /\ CurrentSeat(InitGame(hands)) \in Seats
<1> DEFINE order == GetRoundOrder(FindStarter(hands), {})
<1>1. /\ hands \in [Seats -> SUBSET Card]
      /\ \A s \in Seats : hands[s] # {}
      /\ FindStarter(hands) \in Seats
  BY DealFillsHands
<1>2. /\ order \in Seq(Seats) /\ NoRepeats(order)
      /\ Len(order) = N
  <2>1. Cardinality(Seats) = N /\ Seats \ {} = Seats
    BY SeatsAssumption, FS_Interval DEF Seats
  <2> QED
    BY <1>1, <2>1, RoundOrderListsSeated
<1>3. /\ InitGame(hands).hands = hands
      /\ InitGame(hands).roundCards = {} /\ InitGame(hands).ledSuit = NoSuit
      /\ InitGame(hands).roundOrder = order /\ InitGame(hands).turnIdx = 0
      /\ InitGame(hands).finished = <<>> /\ InitGame(hands).phase = "playing"
      /\ InitGame(hands).loser = NoSeat
  BY DEF InitGame
<1>4. InitGame(hands) \in Game
  <2> HIDE DEF order
  <2>1. [s \in Seats |-> {}] \in [Seats -> SUBSET Suits]
    OBVIOUS
  <2> QED
    BY <1>1, <1>2, <2>1 DEF InitGame, Game, order
<1>5. NoRepeats(<<>>) /\ Range(<<>>) = {}
  BY DEF NoRepeats, IsInjective, Range
<1>6. ListsOK(InitGame(hands))
  <2> HIDE DEF order
  <2> QED
    BY <1>1, <1>2, <1>3, <1>5 DEF ListsOK
<1>7. TrickOK(InitGame(hands)) /\ ResultOK(InitGame(hands))
  <2> HIDE DEF order
  <2> QED
    BY <1>2, <1>3, <1>5, SeatsAssumption DEF TrickOK, ResultOK
<1>8. CurrentSeat(InitGame(hands)) \in Seats
  <2>1. 1 \in 1 .. Len(order)
    BY <1>2, SeatsAssumption
  <2>2. order[1] \in Seats
    <3> HIDE DEF order
    <3> QED
      BY <1>2, <2>1
  <2> QED
    BY <1>3, <2>2 DEF CurrentSeat
<1> QED
  BY <1>4, <1>6, <1>7, <1>8 DEF GameOK

(* Games that differ at most in pendingAI.                                  *)
SameGame(g, h) ==
  /\ h.hands = g.hands /\ h.roundCards = g.roundCards
  /\ h.suitVoids = g.suitVoids /\ h.roundHistory = g.roundHistory
  /\ h.discard = g.discard
  /\ h.ledSuit = g.ledSuit /\ h.roundOrder = g.roundOrder
  /\ h.turnIdx = g.turnIdx /\ h.finished = g.finished /\ h.phase = g.phase
  /\ h.nextLeader = g.nextLeader /\ h.loser = g.loser

(* The seat whose turn it is has not finished.                              *)
LEMMA TurnIsPlayable ==
  ASSUME NEW g, GameOK(g), g.phase = "playing"
  PROVE  /\ g.turnIdx + 1 \in 1 .. Len(g.roundOrder)
         /\ CurrentSeat(g) = g.roundOrder[g.turnIdx + 1]
         /\ CurrentSeat(g) \in Seats \ Range(g.finished)
         /\ g.hands[CurrentSeat(g)] # {}
<1>1. g.roundOrder \in Seq(Seats) /\ g.turnIdx \in Nat
  BY DEF GameOK, Game
<1>2. Len(g.roundOrder) \in Nat /\ g.turnIdx < Len(g.roundOrder)
  BY <1>1 DEF GameOK, TrickOK
<1>3. g.turnIdx + 1 \in 1 .. Len(g.roundOrder)
  BY <1>1, <1>2
<1>4. g.roundOrder[g.turnIdx + 1] \in Seats
  BY <1>1, <1>3
<1>5. g.roundOrder[g.turnIdx + 1] \notin Range(g.finished)
  BY <1>1, <1>2 DEF GameOK, TrickOK
<1> QED
  BY <1>3, <1>4, <1>5 DEF GameOK, ListsOK, CurrentSeat

(* pendingAI is nobody's business but the screen's.                         *)
LEMMA FlagKeepsGame ==
  ASSUME NEW g, GameOK(g), NEW b \in BOOLEAN
  PROVE  /\ GameOK([g EXCEPT !.pendingAI = b])
         /\ SameGame(g, [g EXCEPT !.pendingAI = b])
<1> DEFINE h == [g EXCEPT !.pendingAI = b]
<1>1. h \in Game
  BY DEF GameOK, Game
<1>2. SameGame(g, h)
  BY DEF GameOK, Game, SameGame
<1> HIDE DEF h
<1>3. ListsOK(h) /\ TrickOK(h) /\ ResultOK(h)
  BY <1>2 DEF GameOK, ListsOK, TrickOK, ResultOK, SameGame
<1> QED
  BY <1>1, <1>2, <1>3 DEF GameOK, h

(* The end of a pause: the trick's winner leads the seats still in the      *)
(* game, or the game is over.                                               *)
Resumes(g, h) ==
  LET left == ActiveSeats(g.finished, {})
  IN  /\ h.finished = g.finished
      /\ IF Cardinality(left) <= 1
         THEN h.phase = "gameOver" /\ h.loser = TerminalLoser(g.finished, {})
         ELSE /\ h.phase = "playing" /\ h.loser = NoSeat /\ g.loser = NoSeat
              /\ CurrentSeat(h) \in left
              /\ Range(h.roundOrder) = left

LEMMA ResolvedGameOK ==
  ASSUME NEW g, GameOK(g), g.phase = "result"
  PROVE  GameOK(ResolveRound(g)) /\ Resumes(g, ResolveRound(g))
<1> DEFINE h == ResolveRound(g)
           left == ActiveSeats(g.finished, {})
           order == NextRoundOrder(g)
<1>1. /\ g \in Game /\ g.nextLeader \in Seats
      /\ g.loser = TerminalLoser(g.finished, {})
  BY DEF GameOK, ResultOK
<1>2. left = Seats \ Range(g.finished) /\ Cardinality(left) \in Nat
  BY SeatsAreFinite DEF ActiveSeats
<1>3. CASE Cardinality(left) <= 1
  <2>1. h = [g EXCEPT !.phase = "gameOver", !.roundCards = {},
                      !.loser = TerminalLoser(g.finished, {})]
    BY <1>3 DEF ResolveRound
  <2>2. TerminalLoser(g.finished, {}) \in Seats \cup {NoSeat}
    BY LoserIsSeat
  <2> HIDE DEF h
  <2>3. /\ h.phase = "gameOver" /\ h.roundOrder = g.roundOrder
        /\ h.finished = g.finished /\ h.hands = g.hands
        /\ h.loser = TerminalLoser(g.finished, {})
    BY <1>1, <2>1 DEF Game
  <2>4. h \in Game
    BY <1>1, <2>1, <2>2 DEF Game
  <2>5. ListsOK(h) /\ TrickOK(h) /\ ResultOK(h)
    BY <1>3, <2>3 DEF GameOK, ListsOK, TrickOK, ResultOK
  <2> QED
    BY <1>3, <2>3, <2>4, <2>5 DEF GameOK, Resumes, h
<1>4. CASE ~(Cardinality(left) <= 1)
  <2>1. h = [g EXCEPT !.roundCards = {}, !.ledSuit = NoSuit, !.turnIdx = 0,
                      !.phase = "playing", !.roundOrder = order,
                      !.nextLeader = NoSeat, !.pendingAI = FALSE]
    BY <1>4 DEF ResolveRound
  <2>2. /\ order \in Seq(Seats) /\ NoRepeats(order)
        /\ Range(order) = left /\ Len(order) = Cardinality(left)
    BY <1>1, <1>2, RoundOrderListsSeated DEF NextRoundOrder
  <2>3. g.loser = NoSeat
    BY <1>1, <1>4, <1>2 DEF TerminalLoser
  <2> HIDE DEF h, order
  <2>4. /\ h.phase = "playing" /\ h.roundOrder = order /\ h.turnIdx = 0
        /\ h.finished = g.finished /\ h.hands = g.hands
        /\ h.roundCards = {} /\ h.ledSuit = NoSuit /\ h.loser = g.loser
    BY <1>1, <2>1 DEF Game
  <2>5. h \in Game
    BY <1>1, <2>1, <2>2 DEF Game
  <2>6. 1 <= Len(order) /\ \A j \in 1 .. Len(order) : order[j] \in left
    BY <1>2, <1>4, <2>2 DEF Range
  <2>7. ListsOK(h) /\ ResultOK(h)
    BY <2>2, <2>4 DEF GameOK, ListsOK, ResultOK
  <2>8. TrickOK(h)
    BY <1>2, <2>3, <2>4, <2>6 DEF TrickOK
  <2>9. CurrentSeat(h) \in left
    BY <1>2, <2>2, <2>4, <2>6 DEF CurrentSeat
  <2> QED
    BY <1>4, <2>2, <2>3, <2>4, <2>5, <2>7, <2>8, <2>9 DEF GameOK, Resumes, h
<1> QED
  BY <1>3, <1>4

-----------------------------------------------------------------------------
(* One play, in the two steps of applyPlay: the card is put on the table,   *)
(* then the next seat acts or the trick ends.                               *)
OnTable(g, s, card) ==
  [g EXCEPT !.hands[s] = @ \ {card},
            !.roundCards = @ \cup {[player |-> s, card |-> card]},
            !.ledSuit = IF @ = NoSuit THEN card.suit ELSE @,
            !.suitVoids[s] = IF IsCut(g, card) THEN @ \cup {g.ledSuit} ELSE @]

(* The list of finished seats belongs to these hands.                       *)
ListsEmpty(fin, hands) ==
  /\ fin \in Seq(Seats) /\ NoRepeats(fin)
  /\ \A s \in Seats : s \in Range(fin) <=> hands[s] = {}

TableOK(g, t, fin) ==
  /\ t \in Game
  /\ t.roundOrder = g.roundOrder /\ t.turnIdx = g.turnIdx
  /\ t.phase = "playing" /\ t.loser = NoSeat /\ t.ledSuit # NoSuit
  /\ \A p \in t.roundCards : p.player \in Range(g.roundOrder)
  /\ \E p \in t.roundCards : p.card.suit = t.ledSuit
  /\ ListsEmpty(fin, t.hands)
  /\ fin \in {g.finished, Append(g.finished, CurrentSeat(g))}
  /\ Range(fin) \subseteq Range(g.finished) \cup {CurrentSeat(g)}

LEMMA CardIsOnTable ==
  ASSUME NEW g, GameOK(g), g.phase = "playing", NEW card \in Card
  PROVE  TableOK(g, OnTable(g, CurrentSeat(g), card),
                 FinishedAfter(g, CurrentSeat(g),
                               OnTable(g, CurrentSeat(g), card).hands))
<1> DEFINE s == CurrentSeat(g)
           t == OnTable(g, s, card)
           h == [g.hands EXCEPT ![s] = @ \ {card}]
           r == g.roundCards \cup {[player |-> s, card |-> card]}
           l == IF g.ledSuit = NoSuit THEN card.suit ELSE g.ledSuit
           v == [g.suitVoids EXCEPT ![s] =
                   IF IsCut(g, card) THEN @ \cup {g.ledSuit} ELSE @]
           fin == FinishedAfter(g, s, h)
<1>1. /\ s \in Seats \ Range(g.finished)
      /\ s \in Range(g.roundOrder)
      /\ g \in Game /\ ListsOK(g) /\ TrickOK(g)
  BY TurnIsPlayable DEF GameOK, Range, Game
<1>2. h \in [Seats -> SUBSET Card]
  BY <1>1 DEF Game
<1>3. r \in SUBSET Played
  BY <1>1 DEF Game, Played
<1>4. card.suit \in Suits /\ card.suit # NoSuit /\ l \in Suits /\ l # NoSuit
  BY <1>1, LocalDeckAssumption DEF Card, Game
<1>5. v \in [Seats -> SUBSET Suits]
  BY <1>1, LocalDeckAssumption DEF Game, IsCut
<1>6. t = [g EXCEPT !.hands = h, !.roundCards = r, !.ledSuit = l, !.suitVoids = v]
  BY <1>1 DEF OnTable, Game
<1>7. g.loser = NoSeat
  BY <1>1 DEF TrickOK
<1>8. \A p \in r : p.player \in Range(g.roundOrder)
  BY <1>1 DEF TrickOK
<1>9. \E p \in r : p.card.suit = l
  <2>1. CASE g.ledSuit = NoSuit
    <3>1. [player |-> s, card |-> card] \in r
      OBVIOUS
    <3> QED
      BY <2>1, <3>1
  <2>2. CASE g.ledSuit # NoSuit
    BY <1>1, <2>2 DEF TrickOK
  <2> QED
    BY <2>1, <2>2
<1>10. /\ ListsEmpty(fin, h)
       /\ fin = g.finished \/ fin = Append(g.finished, s)
       /\ Range(fin) \subseteq Range(g.finished) \cup {s}
  <2>1. /\ g.finished \in Seq(Seats) /\ NoRepeats(g.finished)
        /\ \A p \in Seats : p \in Range(g.finished) <=> g.hands[p] = {}
        /\ g.hands \in [Seats -> SUBSET Card]
    BY <1>1 DEF ListsOK, Game
  <2>2. h[s] = g.hands[s] \ {card} /\ \A p \in Seats \ {s} : h[p] = g.hands[p]
    BY <1>1, <2>1
  <2> HIDE DEF h, s
  <2>3. CASE h[s] = {}
    <3>1. fin = Append(g.finished, s)
      BY <1>1, <2>3 DEF FinishedAfter
    <3>2. /\ Append(g.finished, s) \in Seq(Seats)
          /\ NoRepeats(Append(g.finished, s))
          /\ Range(Append(g.finished, s)) = Range(g.finished) \cup {s}
      BY <1>1, <2>1, AppendKeepsDistinct
    <3> HIDE DEF fin
    <3> QED
      BY <1>1, <2>1, <2>2, <2>3, <3>1, <3>2 DEF ListsEmpty
  <2>4. CASE h[s] # {}
    <3>1. fin = g.finished
      BY <2>4 DEF FinishedAfter
    <3> HIDE DEF fin
    <3> QED
      BY <1>1, <2>1, <2>2, <2>4, <3>1 DEF ListsEmpty
  <2> QED
    BY <2>3, <2>4
<1> HIDE DEF h, r, l, v, t
<1>11. /\ t.hands = h /\ t.roundCards = r /\ t.ledSuit = l
       /\ t.roundOrder = g.roundOrder /\ t.turnIdx = g.turnIdx
       /\ t.finished = g.finished /\ t.phase = g.phase /\ t.loser = g.loser
  BY <1>1, <1>6 DEF Game
<1>12. t \in Game
  BY <1>1, <1>2, <1>3, <1>4, <1>5, <1>6 DEF Game
<1> QED
  BY <1>1, <1>4, <1>7, <1>8, <1>9, <1>10, <1>11, <1>12 DEF TableOK, TrickOK, h, r, l, t

(* The trick ends: its winner played in it, takes the pile if somebody cut, *)
(* and is then no longer among the finished.                                *)
LEMMA EndedRoundOK ==
  ASSUME NEW g, GameOK(g), NEW t, NEW fin, TableOK(g, t, fin),
         NEW cut \in BOOLEAN
  PROVE  LET h == EndRound(t, cut, fin)
         IN  /\ GameOK(h)
             /\ h.phase = "result" /\ h.roundOrder = g.roundOrder
             /\ h.loser = TerminalLoser(h.finished, {})
             /\ \/ h.finished = fin
                \/ \E w \in Range(g.roundOrder) : h.finished = RemoveInt(fin, w)
<1> DEFINE w == HighestOf(t.roundCards, t.ledSuit).player
           pile == CardsOf(t.roundCards)
           back == IF cut THEN RemoveInt(fin, w) ELSE fin
           hands == [t.hands EXCEPT ![w] = IF cut THEN @ \cup pile ELSE @]
           dead == DiscardAfter(t, cut)
           h == EndRound(t, cut, fin)
<1>1. /\ t \in Game /\ t.roundOrder = g.roundOrder
      /\ NoRepeats(t.roundOrder) /\ ListsEmpty(fin, t.hands)
      /\ \A p \in t.roundCards : p.player \in Range(t.roundOrder)
      /\ HighestOf(t.roundCards, t.ledSuit) \in t.roundCards
  BY HighestIsPlayed DEF TableOK, GameOK, ListsOK, Game
<1>2. w \in Range(t.roundOrder) /\ w \in Seats
  BY <1>1 DEF Game, Played
<1>3. pile \in SUBSET Card /\ pile # {}
  BY <1>1 DEF CardsOf, Game, Played
<1>4. dead \in SUBSET Card
  BY <1>1, <1>3 DEF DiscardAfter, Game
<1>5. /\ hands \in [Seats -> SUBSET Card]
      /\ \A s \in Seats :
           hands[s] = IF cut /\ s = w THEN t.hands[s] \cup pile ELSE t.hands[s]
  <2> HIDE DEF w, pile
  <2> QED
    BY <1>1, <1>2, <1>3 DEF Game
<1>6. /\ fin \in Seq(Seats) /\ NoRepeats(fin)
      /\ \A s \in Seats : s \in Range(fin) <=> t.hands[s] = {}
  BY <1>1 DEF ListsEmpty
<1>7. /\ back \in Seq(Seats) /\ NoRepeats(back)
      /\ Range(back) = IF cut THEN Range(fin) \ {w} ELSE Range(fin)
  <2>1. CASE cut
    <3>1. back = RemoveInt(fin, w)
      BY <2>1
    <3> HIDE DEF w, back
    <3> QED
      BY <1>6, <2>1, <3>1, RemoveIntRemoves
  <2>2. CASE ~cut
    BY <1>6, <2>2
  <2> QED
    BY <2>1, <2>2
<1>8. \A s \in Seats : s \in Range(back) <=> hands[s] = {}
  <2> HIDE DEF hands, back, w, pile
  <2> QED
    BY <1>3, <1>5, <1>6, <1>7
<1>9. TerminalLoser(back, {}) \in Seats \cup {NoSeat}
  BY LoserIsSeat
<1>10. h = [t EXCEPT !.hands = hands, !.finished = back,
                     !.roundHistory = @ \cup pile, !.discard = dead,
                     !.phase = "result", !.nextLeader = w, !.pendingAI = FALSE,
                     !.loser = TerminalLoser(back, {})]
  BY <1>1 DEF EndRound, Game
<1>11. back = fin \/ back = RemoveInt(fin, w)
  OBVIOUS
<1> HIDE DEF h, hands, back, w, pile, dead
<1>12. h \in Game
  BY <1>1, <1>2, <1>3, <1>4, <1>5, <1>7, <1>9, <1>10 DEF Game
<1>13. /\ h.hands = hands /\ h.finished = back /\ h.phase = "result"
       /\ h.nextLeader = w /\ h.loser = TerminalLoser(back, {})
       /\ h.roundOrder = t.roundOrder
  BY <1>1, <1>10 DEF Game
<1>14. ListsOK(h)
  BY <1>1, <1>7, <1>8, <1>13 DEF ListsOK
<1>15. TrickOK(h) /\ ResultOK(h)
  BY <1>2, <1>13 DEF TrickOK, ResultOK
<1> QED
  BY <1>1, <1>2, <1>11, <1>12, <1>13, <1>14, <1>15 DEF GameOK, h

(* The next seat of the trick acts.                                         *)
LEMMA NextSeatOK ==
  ASSUME NEW g, GameOK(g), g.phase = "playing", ~LastInRound(g),
         NEW t, NEW fin, TableOK(g, t, fin)
  PROVE  LET h == NextInRound(t, fin)
         IN  /\ GameOK(h)
             /\ h.phase = "playing" /\ h.roundOrder = g.roundOrder
             /\ h.turnIdx = g.turnIdx + 1
             /\ h.finished = fin /\ h.loser = NoSeat
             /\ CurrentSeat(h) \in ActiveSeats(fin, {}) \ {CurrentSeat(g)}
<1> DEFINE h == NextInRound(t, fin)
           order == g.roundOrder
           n == g.turnIdx
<1>1. /\ order \in Seq(Seats) /\ n \in Nat /\ n + 1 \in 1 .. Len(order)
      /\ Len(order) \in Nat /\ NoRepeats(order)
      /\ CurrentSeat(g) = order[n + 1]
      /\ \A j \in n + 1 .. Len(order) : order[j] \notin Range(g.finished)
  <2>1. g \in Game /\ ListsOK(g) /\ TrickOK(g)
    BY DEF GameOK
  <2>2. order \in Seq(Seats) /\ n \in Nat /\ Len(order) \in Nat
    BY <2>1 DEF Game
  <2> QED
    BY <2>1, <2>2, TurnIsPlayable DEF ListsOK, TrickOK
<1>2. n + 1 < Len(order)
  BY <1>1 DEF LastInRound
<1>5. /\ t \in Game /\ t.roundOrder = order /\ t.turnIdx = n
      /\ t.phase = "playing" /\ t.loser = NoSeat
      /\ \A p \in t.roundCards : p.player \in Range(order)
      /\ \E p \in t.roundCards : p.card.suit = t.ledSuit
      /\ ListsEmpty(fin, t.hands)
      /\ Range(fin) \subseteq Range(g.finished) \cup {CurrentSeat(g)}
  BY DEF TableOK
<1>3. \A j \in n + 2 .. Len(order) :
        order[j] \in Seats \ Range(fin) /\ order[j] # CurrentSeat(g)
  <2> TAKE j \in n + 2 .. Len(order)
  <2>1. j \in 1 .. Len(order) /\ j # n + 1 /\ j \in n + 1 .. Len(order)
    BY <1>1
  <2>2. order[j] \in Seats /\ order[j] # order[n + 1]
    BY <1>1, <2>1 DEF NoRepeats, IsInjective
  <2> QED
    BY <1>1, <1>5, <2>1, <2>2
<1>4. PICK bots \in BOOLEAN :
        h = [t EXCEPT !.turnIdx = n + 1, !.finished = fin, !.pendingAI = bots]
  BY <1>5 DEF NextInRound, Game
<1>6. fin \in Seq(Seats) /\ NoRepeats(fin)
      /\ \A s \in Seats : s \in Range(fin) <=> t.hands[s] = {}
  BY <1>5 DEF ListsEmpty
<1> HIDE DEF h, order, n
<1>7. h \in Game
  <2> DEFINE next == n + 1
  <2>1. t \in Game /\ next \in Nat /\ fin \in Seq(Seats)
    BY <1>1, <1>5, <1>6
  <2>2. h = [t EXCEPT !.turnIdx = next, !.finished = fin, !.pendingAI = bots]
    BY <1>4
  <2> HIDE DEF next
  <2> QED
    BY <2>1, <2>2 DEF Game
<1>8. /\ h.phase = "playing" /\ h.roundOrder = order /\ h.turnIdx = n + 1
      /\ h.finished = fin /\ h.loser = NoSeat /\ h.hands = t.hands
      /\ h.roundCards = t.roundCards /\ h.ledSuit = t.ledSuit
  BY <1>4, <1>5 DEF Game
<1>9. ListsOK(h) /\ ResultOK(h)
  BY <1>1, <1>6, <1>8 DEF ListsOK, ResultOK
<1>10. TrickOK(h)
  <2>1. \A p \in h.roundCards : p.player \in Range(h.roundOrder)
    BY <1>8, <1>5
  <2>2. \A j \in h.turnIdx + 1 .. Len(h.roundOrder) :
          h.roundOrder[j] \notin Range(h.finished)
    BY <1>1, <1>3, <1>8
  <2> QED
    BY <1>1, <1>2, <1>8, <1>5, <2>1, <2>2 DEF TrickOK
<1>11. CurrentSeat(h) \in ActiveSeats(fin, {}) \ {CurrentSeat(g)}
  <2>1. CurrentSeat(h) = order[n + 2]
    BY <1>1, <1>8 DEF CurrentSeat
  <2>2. n + 2 \in n + 2 .. Len(order)
    BY <1>1, <1>2
  <2>3. order[n + 2] \in Seats \ Range(fin) /\ order[n + 2] # CurrentSeat(g)
    BY <1>3, <2>2
  <2> QED
    BY <2>1, <2>3 DEF ActiveSeats
<1> QED
  BY <1>7, <1>8, <1>9, <1>10, <1>11 DEF GameOK, h, order, n

(* What a play that is not refused does to the turn and the finished.       *)
Advances(g, h) ==
  \E fin \in {g.finished, Append(g.finished, CurrentSeat(g))} :
    /\ Range(fin) \subseteq Range(g.finished) \cup {CurrentSeat(g)}
    /\ fin \in Seq(Seats) /\ NoRepeats(fin)
    /\ h.roundOrder = g.roundOrder
    /\ \/ /\ h.phase = "playing" /\ h.turnIdx = g.turnIdx + 1
          /\ h.finished = fin /\ h.loser = NoSeat
          /\ CurrentSeat(h) \in ActiveSeats(fin, {}) \ {CurrentSeat(g)}
       \/ /\ h.phase = "result" /\ h.loser = TerminalLoser(h.finished, {})
          /\ \/ h.finished = fin
             \/ \E w \in Range(g.roundOrder) : h.finished = RemoveInt(fin, w)

LEMMA PlayedGameOK ==
  ASSUME NEW g, GameOK(g), g.phase = "playing", NEW card \in Card
  PROVE  LET h == ApplyPlay(g, CurrentSeat(g), card)
         IN  GameOK(h) /\ IF Refused(g, CurrentSeat(g), card)
                         THEN h = g ELSE Advances(g, h)
<1> DEFINE s == CurrentSeat(g)
           t == OnTable(g, s, card)
           fin == FinishedAfter(g, s, t.hands)
           h == ApplyPlay(g, s, card)
<1>1. TableOK(g, t, fin)
  BY CardIsOnTable
<1>2. h = IF Refused(g, s, card) THEN g
          ELSE IF IsCut(g, card) \/ LastInRound(g)
               THEN EndRound(t, IsCut(g, card), fin)
          ELSE NextInRound(t, fin)
  BY DEF ApplyPlay, OnTable
<1>3. /\ IsCut(g, card) \in BOOLEAN
      /\ fin \in {g.finished, Append(g.finished, s)}
      /\ fin \in Seq(Seats) /\ NoRepeats(fin)
      /\ Range(fin) \subseteq Range(g.finished) \cup {s}
  BY <1>1 DEF TableOK, IsCut, ListsEmpty
<1> HIDE DEF t, fin, h
<1>4. CASE Refused(g, s, card)
  BY <1>2, <1>4 DEF h
<1>5. CASE ~Refused(g, s, card) /\ (IsCut(g, card) \/ LastInRound(g))
  <2> DEFINE e == EndRound(t, IsCut(g, card), fin)
  <2>1. /\ GameOK(e) /\ e.phase = "result" /\ e.roundOrder = g.roundOrder
        /\ e.loser = TerminalLoser(e.finished, {})
        /\ \/ e.finished = fin
           \/ \E w \in Range(g.roundOrder) : e.finished = RemoveInt(fin, w)
    BY <1>1, <1>3, EndedRoundOK
  <2>2. h = e
    BY <1>2, <1>5
  <2> HIDE DEF e
  <2> QED
    BY <1>3, <1>5, <2>1, <2>2 DEF Advances, h
<1>6. CASE ~Refused(g, s, card) /\ ~(IsCut(g, card) \/ LastInRound(g))
  <2> DEFINE e == NextInRound(t, fin)
  <2>1. /\ GameOK(e) /\ e.phase = "playing" /\ e.roundOrder = g.roundOrder
        /\ e.turnIdx = g.turnIdx + 1 /\ e.finished = fin /\ e.loser = NoSeat
        /\ CurrentSeat(e) \in ActiveSeats(fin, {}) \ {s}
    BY <1>1, <1>6, NextSeatOK
  <2>2. h = e
    BY <1>2, <1>6
  <2> HIDE DEF e
  <2> QED
    BY <1>3, <1>6, <2>1, <2>2 DEF Advances, h
<1> QED
  BY <1>4, <1>5, <1>6

-----------------------------------------------------------------------------
(* What the effects of a commit make of the screen.                         *)
LEMMA SameTurn ==
  ASSUME NEW g, NEW h, SameGame(g, h)
  PROVE  CurrentSeat(h) = CurrentSeat(g)
BY DEF SameGame, CurrentSeat

LEMMA Committed ==
  ASSUME NEW g, GameOK(g), NEW still, NEW busy,
         NEW thinking, ThinkingOK(thinking),
         NEW armed, NEW rep, NEW w, NEW a,
         Commit(g, still, busy, thinking, armed, rep, w, a)
  PROVE  /\ GameOK(game') /\ SameGame(g, game')
         /\ ThinkingOK(botTimer')
         /\ pauses' = PauseEffect(g, armed)
         /\ reported' = ReportEffect(g, rep)
         /\ watch' = WatchEffect(g, w)
         /\ afk' = AfkEffect(g, a)
<1>1. PICK starts \in {StartsBot(g, still, busy)} :
        /\ game' = [g EXCEPT !.pendingAI = @ \/ starts]
        /\ IF starts
           THEN \E card \in PickMove(g, CurrentSeat(g)) :
                  botTimer' = [seat |-> CurrentSeat(g), card |-> card]
           ELSE botTimer' = thinking
  BY DEF Commit
<1>2. GameOK(game') /\ SameGame(g, game')
  <2> DEFINE b == g.pendingAI \/ starts
  <2>1. b \in BOOLEAN
    OBVIOUS
  <2>2. game' = [g EXCEPT !.pendingAI = b]
    BY <1>1
  <2> HIDE DEF b
  <2> QED
    BY <2>1, <2>2, FlagKeepsGame
<1>3. ThinkingOK(botTimer')
  <2>1. CASE starts
    <3>1. PICK card \in PickMove(g, CurrentSeat(g)) :
            botTimer' = [seat |-> CurrentSeat(g), card |-> card]
      BY <1>1, <2>1
    <3>2. BotsTurn(g)
      BY <2>1 DEF StartsBot
    <3>3. g.phase = "playing"
      BY <3>2 DEF BotsTurn, CurrentSeat
    <3>4. CurrentSeat(g) \in Seats \ {Me}
      BY <3>2, <3>3, TurnIsPlayable DEF BotsTurn
    <3>5. card \in Card
      <4>1. card \in g.hands[CurrentSeat(g)]
        BY PickIsHeld
      <4>2. g.hands \in [Seats -> SUBSET Card]
        BY DEF GameOK, Game
      <4> QED
        BY <3>4, <4>1, <4>2
    <3> QED
      BY <3>1, <3>4, <3>5 DEF ThinkingOK, BotPause
  <2>2. CASE ~starts
    BY <1>1, <2>2
  <2> QED
    BY <2>1, <2>2
<1>4. /\ pauses' = PauseEffect(g, armed) /\ reported' = ReportEffect(g, rep)
      /\ watch' = WatchEffect(g, w) /\ afk' = AfkEffect(g, a)
  BY DEF Commit
<1> QED
  BY <1>2, <1>3, <1>4

(* The prompt is never left open for a person who is back in the game.      *)
LEMMA WatchFollows ==
  ASSUME NEW g, NEW w
  PROVE  WatchFits(g, WatchEffect(g, w))
BY DEF WatchFits, WatchEffect, NotWatching

(* The countdown is armed or stopped whenever the turn changes.             *)
LEMMA IdleFollows ==
  ASSUME NEW g, NEW a \in AfkType, NEW d,
         TurnChanged(g) \/ IdleFits(g, a, d)
  PROVE  IdleFits(g, AfkEffect(g, a), d) /\ AfkEffect(g, a) \in AfkType
<1>1. /\ ResetAfk \in AfkType /\ ~Counting(ResetAfk)
      /\ ArmAfk(a) \in AfkType /\ Counting(ArmAfk(a))
  BY DEF ResetAfk, ArmAfk, AfkType, Counting
<1> QED
  BY <1>1 DEF IdleFits, AfkEffect

(* A result that was told once is told for good; the first one is true.     *)
LEMMA ReportFollows ==
  ASSUME NEW g, GameOK(g), NEW rep,
         rep # Unreported => ReportFits(g, rep)
  PROVE  ReportFits(g, ReportEffect(g, rep))
<1> DEFINE won == [won |-> TRUE, placement |-> IndexOf(g.finished, Me)]
           end == [won |-> FALSE, placement |-> N]
<1>1. Unreported \in [won : BOOLEAN, placement : Nat] /\ Unreported.won = FALSE
  BY DEF Unreported
<1>2. CASE rep # Unreported
  BY <1>2 DEF ReportEffect
<1>3. CASE rep = Unreported /\ g.phase \in {"result", "gameOver"}
             /\ Me \in Range(g.finished)
  <2>1. ReportEffect(g, rep) = won
    BY <1>3 DEF ReportEffect
  <2>2. IndexOf(g.finished, Me) \in Nat
    <3>1. g.finished \in Seq(Seats) /\ NoRepeats(g.finished)
      BY DEF GameOK, Game, ListsOK
    <3>2. IndexOf(g.finished, Me) \in 1 .. Len(g.finished)
      BY <1>3, <3>1, RemoveIntRemoves
    <3> QED
      BY <3>1, <3>2
  <2>3. /\ won \in [won : BOOLEAN, placement : Nat] /\ won.won
        /\ won.placement = IndexOf(g.finished, Me) /\ won # Unreported
    BY <2>2 DEF Unreported
  <2> HIDE DEF won
  <2> QED
    BY <1>3, <2>1, <2>3 DEF ReportFits
<1>4. CASE rep = Unreported /\ g.phase = "gameOver" /\ Me \notin Range(g.finished)
  <2>2. g.loser = Me
    <3> DEFINE left == ActiveSeats(g.finished, {})
    <3>1. Me \in left /\ left \in SUBSET Seats
      BY <1>4, SeatsAssumption DEF ActiveSeats, Me, Seats
    <3>2. Cardinality(left) <= 1 /\ IsFiniteSet(left) /\ Cardinality(left) \in Nat
      BY <1>4, <3>1, SeatsAreFinite DEF GameOK, ResultOK
    <3>3. Cardinality(left) = 1
      BY <3>1, <3>2, FS_EmptySet
    <3>4. TerminalLoser(g.finished, {}) \in left
      BY <3>1, <3>3 DEF TerminalLoser
    <3>5. left = {Me}
      <4> HIDE DEF left
      <4>1. PICK x : left = {x}
        BY <3>2, <3>3, FS_Singleton
      <4> QED
        BY <3>1, <4>1
    <3> QED
      BY <1>4, <3>4, <3>5 DEF GameOK, ResultOK
  <2>1. ReportEffect(g, rep) = end
    BY <1>4, <2>2 DEF ReportEffect
  <2>3. /\ end \in [won : BOOLEAN, placement : Nat] /\ ~end.won
        /\ end # Unreported
    BY SeatsAssumption DEF Unreported
  <2> HIDE DEF end
  <2> QED
    BY <1>4, <2>1, <2>2, <2>3 DEF ReportFits
<1>5. CASE rep = Unreported /\ g.phase \notin {"result", "gameOver"}
  <2>1. ReportEffect(g, rep) = Unreported
    BY <1>5 DEF ReportEffect
  <2> QED
    BY <1>5, <1>1, <2>1 DEF ReportFits
<1>6. CASE rep = Unreported /\ g.phase = "result" /\ Me \notin Range(g.finished)
  <2>1. ReportEffect(g, rep) = Unreported
    BY <1>6 DEF ReportEffect
  <2> QED
    BY <1>6, <1>1, <2>1 DEF ReportFits
<1>7. g.phase \in {"playing", "result", "gameOver"}
  BY DEF GameOK, Game
<1> QED
  BY <1>2, <1>3, <1>4, <1>5, <1>6, <1>7

-----------------------------------------------------------------------------
(* What was told stays true.                                                *)
LEMMA ReportOfSameGame ==
  ASSUME NEW g, NEW h, SameGame(g, h), NEW rep, ReportFits(g, rep)
  PROVE  ReportFits(h, rep)
BY DEF SameGame, ReportFits

(* A list keeps the places before one that is added or taken out.           *)
LEMMA PlaceKept ==
  ASSUME NEW xs \in Seq(Seats), NoRepeats(xs), NEW k \in 1 .. Len(xs),
         NEW ys \in Seq(Seats), NoRepeats(ys), Len(ys) \in Nat, k <= Len(ys),
         \A j \in 1 .. k : ys[j] = xs[j]
  PROVE  IndexOf(ys, xs[k]) = k /\ xs[k] \in Range(ys)
<1>1. /\ k \in DOMAIN ys /\ ys[k] = xs[k]
      /\ \A i, j \in DOMAIN ys : ys[i] = ys[j] => i = j
  BY DEF NoRepeats, IsInjective
<1> QED
  BY <1>1 DEF IndexOf, Range

LEMMA ReportOfPlay ==
  ASSUME NEW g, GameOK(g), g.phase = "playing", NEW h, GameOK(h), Advances(g, h),
         NEW rep, rep # Unreported, ReportFits(g, rep)
  PROVE  ReportFits(h, rep)
<1> DEFINE k == rep.placement
           xs == g.finished
           ys == h.finished
<1>1. /\ rep \in [won : BOOLEAN, placement : Nat] /\ rep.won
      /\ Me \in Range(xs) /\ IndexOf(xs, Me) = k
      /\ \A j \in 1 .. k : xs[j] \notin Range(g.roundOrder)
  BY DEF ReportFits
<1>2. xs \in Seq(Seats) /\ NoRepeats(xs) /\ ys \in Seq(Seats) /\ NoRepeats(ys)
  BY DEF GameOK, ListsOK, Game
<1>3. k \in 1 .. Len(xs) /\ xs[k] = Me
  BY <1>1, <1>2, RemoveIntRemoves
<1>4. PICK fin \in {xs, Append(xs, CurrentSeat(g))} :
        /\ fin \in Seq(Seats) /\ NoRepeats(fin)
        /\ h.roundOrder = g.roundOrder /\ h.phase \in {"playing", "result"}
        /\ \/ ys = fin
           \/ \E w \in Range(g.roundOrder) : ys = RemoveInt(fin, w)
  BY DEF Advances
<1>5. CurrentSeat(g) \in Seats
  BY TurnIsPlayable
<1>6. k <= Len(fin) /\ Len(fin) \in Nat /\ \A j \in 1 .. k : fin[j] = xs[j]
  BY <1>2, <1>3, <1>4, <1>5
<1>7. k <= Len(ys) /\ \A j \in 1 .. k : ys[j] = xs[j]
  <2>1. CASE ys = fin
    BY <1>6, <2>1
  <2>2. ASSUME NEW w \in Range(g.roundOrder), ys = RemoveInt(fin, w), ys # fin
        PROVE  k <= Len(ys) /\ \A j \in 1 .. k : ys[j] = xs[j]
    <3> DEFINE i == IndexOf(fin, w)
    <3>1. /\ i \in 1 .. Len(fin) /\ fin[i] = w /\ Len(ys) = Len(fin) - 1
          /\ \A j \in 1 .. Len(fin) - 1 :
               ys[j] = IF j < i THEN fin[j] ELSE fin[j + 1]
      BY <1>4, <2>2, RemoveIntRemoves DEF RemoveInt
    <3> HIDE DEF i
    <3>2. k < i
      BY <1>1, <1>3, <1>6, <3>1
    <3> QED
      BY <1>3, <1>6, <3>1, <3>2
  <2> QED
    BY <1>4, <2>1, <2>2
<1>8. IndexOf(ys, Me) = k /\ Me \in Range(ys)
  <2>1. Len(ys) \in Nat
    BY <1>2
  <2> HIDE DEF k, xs, ys
  <2> QED
    BY <1>2, <1>3, <1>7, <2>1, PlaceKept
<1> QED
  BY <1>1, <1>4, <1>7, <1>8 DEF ReportFits

LEMMA ReportOfResume ==
  ASSUME NEW g, GameOK(g), g.phase = "result", NEW h, Resumes(g, h),
         NEW rep, rep # Unreported, ReportFits(g, rep)
  PROVE  ReportFits(h, rep)
<1> DEFINE k == rep.placement
           xs == g.finished
<1>1. /\ rep \in [won : BOOLEAN, placement : Nat] /\ rep.won
      /\ Me \in Range(xs) /\ IndexOf(xs, Me) = k
      /\ h.finished = xs
  BY DEF ReportFits, Resumes
<1>2. xs \in Seq(Seats) /\ NoRepeats(xs)
  BY DEF GameOK, ListsOK, Game
<1>3. k \in 1 .. Len(xs) /\ Len(xs) \in Nat
  BY <1>1, <1>2, RemoveIntRemoves
<1>4. \A j \in 1 .. k : xs[j] \in Range(xs)
  BY <1>2, <1>3 DEF Range
<1>5. h.phase = "playing" => Range(h.roundOrder) = Seats \ Range(xs)
  BY DEF Resumes, ActiveSeats
<1> QED
  BY <1>1, <1>4, <1>5 DEF ReportFits

-----------------------------------------------------------------------------
(* The steps of the screen.                                                 *)

(* What an event does to the game.                                          *)
Restarts(h) ==
  /\ h.phase = "playing" /\ CurrentSeat(h) \in Seats
  /\ h.finished = <<>> /\ h.loser = NoSeat

GameStep ==
  \/ SameGame(game, game')
  \/ game.phase = "playing" /\ Advances(game, game')
  \/ game.phase = "result" /\ Resumes(game, game')
  \/ Restarts(game')

LEMMA CommitKeeps ==
  ASSUME NEW g, GameOK(g), NEW still, NEW busy,
         NEW thinking, ThinkingOK(thinking), NEW armed,
         NEW rep, rep # Unreported => ReportFits(g, rep),
         NEW w, NEW a \in AfkType,
         Commit(g, still, busy, thinking, armed, rep, w, a),
         PauseEffect(g, armed) = IF g.phase = "result" THEN 1 ELSE 0,
         TurnChanged(g) \/ IdleFits(g, a, deals'), deals' \in Nat \ {0}
  PROVE  ScreenInv' /\ SameGame(g, game')
<1>1. /\ GameOK(game') /\ SameGame(g, game')
      /\ ThinkingOK(botTimer')
      /\ pauses' = PauseEffect(g, armed)
      /\ reported' = ReportEffect(g, rep)
      /\ watch' = WatchEffect(g, w)
      /\ afk' = AfkEffect(g, a)
  BY Committed
<1>2. ReportFits(game', reported')
  <2>1. ReportFits(g, ReportEffect(g, rep))
    BY ReportFollows
  <2> QED
    BY <1>1, <2>1, ReportOfSameGame
<1>3. IdleFits(game', afk', deals') /\ afk' \in AfkType
  <2>1. IdleFits(g, AfkEffect(g, a), deals') /\ AfkEffect(g, a) \in AfkType
    BY IdleFollows
  <2>2. CurrentSeat(game') = CurrentSeat(g)
    BY <1>1, SameTurn
  <2> QED
    BY <1>1, <2>1, <2>2 DEF IdleFits, MyTurn
<1>4. WatchFits(game', watch')
  BY <1>1, WatchFollows DEF WatchFits, SameGame
<1>5. PauseIsItsOwn'
  BY <1>1 DEF PauseIsItsOwn, SameGame
<1> QED
  BY <1>1, <1>2, <1>3, <1>4, <1>5 DEF ScreenInv

(* A play changes the phase or the turn, and leaves one timer to a pause.   *)
LEMMA PlayFollows ==
  ASSUME ScreenInv, game.phase = "playing", NEW h, GameOK(h), Advances(game, h)
  PROVE  /\ TurnChanged(h)
         /\ PauseEffect(h, pauses) = IF h.phase = "result" THEN 1 ELSE 0
         /\ reported # Unreported => ReportFits(h, reported)
<1>1. /\ h.phase \in {"playing", "result"}
      /\ h.phase = "playing" => h.turnIdx = game.turnIdx + 1
  BY DEF Advances
<1>2. game.turnIdx \in Nat /\ GameOK(game) /\ pauses = 0
      /\ ReportFits(game, reported)
  BY DEF ScreenInv, GameOK, Game, PauseIsItsOwn
<1>3. reported # Unreported => ReportFits(h, reported)
  BY <1>2, ReportOfPlay
<1> QED
  BY <1>1, <1>2, <1>3 DEF TurnChanged, PauseEffect

LEMMA DealDoneKeeps ==
  ASSUME ScreenInv, DealDone
  PROVE  ScreenInv' /\ GameStep
<1>1. /\ Commit(game, FALSE, inFlight, botTimer, pauses, reported, watch, afk)
      /\ deals' = deals
  BY DEF DealDone
<1>2. /\ GameOK(game) /\ ThinkingOK(botTimer) /\ afk \in AfkType
      /\ deals \in Nat \ {0} /\ IdleFits(game, afk, deals)
      /\ ReportFits(game, reported)
      /\ pauses = IF game.phase = "result" THEN 1 ELSE 0
  BY DEF ScreenInv, PauseIsItsOwn
<1>3. PauseEffect(game, pauses) = IF game.phase = "result" THEN 1 ELSE 0
  BY <1>2 DEF PauseEffect
<1>4. ScreenInv' /\ SameGame(game, game')
  BY <1>1, <1>2, <1>3, CommitKeeps
<1> QED
  BY <1>4 DEF GameStep

LEMMA PlayCardKeeps ==
  ASSUME ScreenInv, NEW card \in Card, PlayCard(card)
  PROVE  ScreenInv' /\ GameStep
<1> DEFINE g == ApplyPlay(game, Me, card)
<1>1. /\ Commit(g, dealing, inFlight, botTimer, pauses, reported, watch, ResetAfk)
      /\ deals' = deals /\ CurrentSeat(game) = Me /\ card \in ValidSet
  BY DEF PlayCard, Clickable, MyTurn
<1>2. game.phase = "playing" /\ GameOK(game) /\ ThinkingOK(botTimer)
      /\ deals \in Nat \ {0}
  BY <1>1 DEF CurrentSeat, Me, NoSeat, ScreenInv
<1>3. ~Refused(game, Me, card)
  BY <1>1 DEF Refused, ValidSet, OfSuit, MyTurn
<1>4. GameOK(g) /\ Advances(game, g)
  BY <1>1, <1>2, <1>3, PlayedGameOK
<1> HIDE DEF g
<1>5. /\ TurnChanged(g)
      /\ PauseEffect(g, pauses) = IF g.phase = "result" THEN 1 ELSE 0
      /\ reported # Unreported => ReportFits(g, reported)
  BY <1>2, <1>4, PlayFollows
<1>6. ResetAfk \in AfkType
  BY DEF ResetAfk, AfkType
<1>7. ScreenInv' /\ SameGame(g, game')
  BY <1>1, <1>2, <1>4, <1>5, <1>6, CommitKeeps
<1>8. Advances(game, game')
  BY <1>4, <1>7, SameTurn DEF SameGame, Advances
<1> QED
  BY <1>2, <1>7, <1>8 DEF GameStep

LEMMA BotPlaysKeeps ==
  ASSUME ScreenInv, BotPlays
  PROVE  ScreenInv' /\ GameStep
<1> DEFINE s == botTimer.seat
           card == botTimer.card
           played == ApplyPlay(game, s, card)
           g == IF CurrentSeat(game) = s
                THEN [played EXCEPT !.pendingAI = FALSE]
                ELSE game
<1>1. /\ Commit(g, dealing, Freed, NoTimer, pauses, reported, watch, afk)
      /\ deals' = deals /\ botTimer # NoTimer
  BY DEF BotPlays
<1>2. /\ GameOK(game) /\ afk \in AfkType /\ deals \in Nat \ {0}
      /\ IdleFits(game, afk, deals) /\ ReportFits(game, reported)
      /\ pauses = IF game.phase = "result" THEN 1 ELSE 0
      /\ ThinkingOK(NoTimer)
      /\ s \in Seats /\ card \in Card
  BY <1>1 DEF ScreenInv, PauseIsItsOwn, ThinkingOK, BotPause
<1>3. \/ GameOK(g) /\ SameGame(game, g)
      \/ GameOK(g) /\ game.phase = "playing" /\ Advances(game, g)
  <2>1. CASE CurrentSeat(game) = s
    <3>1. game.phase = "playing"
      BY <1>2, <2>1, SeatsAssumption DEF CurrentSeat, NoSeat, Seats
    <3>2. GameOK(played) /\ (played = game \/ Advances(game, played))
      BY <1>2, <2>1, <3>1, PlayedGameOK
    <3> HIDE DEF played
    <3>3. GameOK([played EXCEPT !.pendingAI = FALSE])
          /\ SameGame(played, [played EXCEPT !.pendingAI = FALSE])
      BY <3>2, FlagKeepsGame
    <3>4. g = [played EXCEPT !.pendingAI = FALSE]
      BY <2>1
    <3> HIDE DEF g
    <3>5. GameOK(g) /\ SameGame(played, g)
      BY <3>3, <3>4
    <3>6. Advances(game, played) => Advances(game, g)
      BY <3>5, SameTurn DEF SameGame, Advances
    <3> QED
      BY <3>1, <3>2, <3>5, <3>6
  <2>2. CASE CurrentSeat(game) # s
    BY <1>2, <2>2 DEF SameGame
  <2> QED
    BY <2>1, <2>2
<1> HIDE DEF g
<1>4. CASE SameGame(game, g)
  <2>1. PauseEffect(g, pauses) = IF g.phase = "result" THEN 1 ELSE 0
    BY <1>2, <1>4 DEF SameGame, PauseEffect
  <2>2. ReportFits(g, reported)
    BY <1>2, <1>4, ReportOfSameGame
  <2>3. IdleFits(g, afk, deals)
    BY <1>2, <1>4, SameTurn DEF IdleFits, MyTurn
  <2>4. ScreenInv' /\ SameGame(g, game')
    BY <1>1, <1>2, <1>3, <2>1, <2>2, <2>3, CommitKeeps
  <2>5. SameGame(game, game')
    BY <1>4, <2>4 DEF SameGame
  <2> QED
    BY <2>4, <2>5 DEF GameStep
<1>5. CASE game.phase = "playing" /\ Advances(game, g)
  <2>1. /\ TurnChanged(g)
        /\ PauseEffect(g, pauses) = IF g.phase = "result" THEN 1 ELSE 0
        /\ reported # Unreported => ReportFits(g, reported)
    BY <1>3, <1>5, PlayFollows
  <2>2. ScreenInv' /\ SameGame(g, game')
    BY <1>1, <1>2, <1>3, <2>1, CommitKeeps
  <2>3. Advances(game, game')
    BY <1>5, <2>2, SameTurn DEF SameGame, Advances
  <2> QED
    BY <1>5, <2>2, <2>3 DEF GameStep
<1> QED
  BY <1>3, <1>4, <1>5

LEMMA PauseOverKeeps ==
  ASSUME ScreenInv, PauseOver
  PROVE  ScreenInv' /\ GameStep
<1> DEFINE next == ResolveRound(game)
           g == [next EXCEPT !.pendingAI = BotsTurn(next)]
<1>1. /\ GameOK(game) /\ afk \in AfkType /\ deals \in Nat \ {0}
      /\ ThinkingOK(botTimer) /\ ReportFits(game, reported)
      /\ pauses = IF game.phase = "result" THEN 1 ELSE 0
  BY DEF ScreenInv, PauseIsItsOwn
<1>2. game.phase = "result" /\ deals' = deals
  BY <1>1 DEF PauseOver
<1>3. Commit(g, dealing, inFlight, botTimer, pauses - 1, reported, watch, afk)
  BY <1>2 DEF PauseOver
<1>4. GameOK(next) /\ Resumes(game, next)
  BY <1>1, <1>2, ResolvedGameOK
<1> HIDE DEF next
<1>5. GameOK(g) /\ SameGame(next, g)
  <2>1. BotsTurn(next) \in BOOLEAN
    BY DEF BotsTurn
  <2> QED
    BY <1>4, <2>1, FlagKeepsGame
<1> HIDE DEF g
<1>6. Resumes(game, g) /\ g.phase \in {"playing", "gameOver"}
  BY <1>4, <1>5, SameTurn DEF SameGame, Resumes
<1>7. /\ TurnChanged(g)
      /\ PauseEffect(g, pauses - 1) = IF g.phase = "result" THEN 1 ELSE 0
  BY <1>2, <1>6 DEF TurnChanged, PauseEffect
<1>8. reported # Unreported => ReportFits(g, reported)
  BY <1>1, <1>2, <1>6, ReportOfResume
<1>9. ScreenInv' /\ SameGame(g, game')
  BY <1>1, <1>2, <1>3, <1>5, <1>7, <1>8, CommitKeeps
<1>10. Resumes(game, game')
  BY <1>6, <1>9, SameTurn DEF SameGame, Resumes
<1> QED
  BY <1>2, <1>9, <1>10 DEF GameStep

LEMMA StartNewGameKeeps ==
  ASSUME ScreenInv, StartNewGame
  PROVE  ScreenInv' /\ GameStep
<1>1. PICK hands \in Deals :
        Commit(InitGame(hands), TRUE, FALSE, botTimer, pauses, Unreported,
               NotWatching, AfkOfNewGame)
  BY DEF StartNewGame
<1> DEFINE g == InitGame(hands)
<1>2. /\ ThinkingOK(botTimer) /\ deals \in Nat \ {0} /\ deals' = deals + 1
      /\ pauses = IF game.phase = "result" THEN 1 ELSE 0
  BY DEF ScreenInv, PauseIsItsOwn, StartNewGame
<1>3. GameOK(g) /\ Restarts(g)
  BY NewGameOK DEF Restarts, InitGame
<1> HIDE DEF g
<1>4. PauseEffect(g, pauses) = IF g.phase = "result" THEN 1 ELSE 0
  BY <1>2, <1>3 DEF PauseEffect, Restarts
<1>5. /\ AfkOfNewGame \in AfkType /\ deals' \in Nat \ {0}
      /\ IdleFits(g, AfkOfNewGame, deals')
  BY <1>2 DEF AfkOfNewGame, ResetAfk, AfkType, IdleFits, Counting
<1>6. ScreenInv' /\ SameGame(g, game')
  <2>1. Commit(g, TRUE, FALSE, botTimer, pauses, Unreported, NotWatching,
               AfkOfNewGame)
    BY <1>1 DEF g
  <2> QED
    BY <1>2, <1>3, <1>4, <1>5, <2>1, CommitKeeps
<1>7. Restarts(game')
  BY <1>3, <1>6, SameTurn DEF SameGame, Restarts
<1> QED
  BY <1>6, <1>7 DEF GameStep

(* A click or a countdown that leaves the game and its effects alone.       *)
LEMMA IdleKeeps ==
  ASSUME ScreenInv, UNCHANGED <<game, botTimer, pauses, reported, deals>>,
         afk' \in AfkType, Counting(afk') <=> Counting(afk),
         WatchFits(game, watch')
  PROVE  ScreenInv' /\ GameStep
<1>1. MyTurn(game)' <=> MyTurn(game)
  BY DEF MyTurn, CurrentSeat
<1>2. IdleFits(game, afk, deals)'
  BY <1>1 DEF ScreenInv, IdleFits
<1>3. SameGame(game, game')
  BY DEF SameGame
<1> QED
  BY <1>2, <1>3 DEF ScreenInv, PauseIsItsOwn, GameStep, WatchFits

LEMMA ScreenInvStep ==
  ASSUME ScreenInv, [Next]_vars
  PROVE  ScreenInv' /\ GameStep
<1>1. afk \in AfkType /\ WatchFits(game, watch)
  BY DEF ScreenInv
<1>2. ASSUME UNCHANGED <<game, botTimer, pauses, reported, deals>>,
             UNCHANGED <<watch, afk>>
      PROVE  ScreenInv' /\ GameStep
  BY <1>1, <1>2, IdleKeeps DEF WatchFits
<1>3. OnExit => ScreenInv' /\ GameStep
  BY <1>2 DEF OnExit
<1>4. CASE DealDone
  BY <1>4, DealDoneKeeps
<1>5. ASSUME NEW card \in Card, PlayCard(card)
      PROVE  ScreenInv' /\ GameStep
  BY <1>5, PlayCardKeeps
<1>6. CASE BotPlays
  BY <1>6, BotPlaysKeeps
<1>7. CASE PauseOver
  BY <1>7, PauseOverKeeps
<1>8. CASE ClickRedeal \/ ConfirmRedeal \/ KeepPlaying
  <2>1. StartNewGame \/ UNCHANGED <<game, botTimer, pauses, reported, deals, watch, afk>>
    BY <1>8 DEF ClickRedeal, ConfirmRedeal, KeepPlaying
  <2> QED
    BY <1>2, <2>1, StartNewGameKeeps
<1>9. CASE ClickLobby \/ ConfirmLeave \/ Banner
  <2>1. \/ OnExit \/ StartNewGame
        \/ UNCHANGED <<game, botTimer, pauses, reported, deals, watch, afk>>
    BY <1>9 DEF ClickLobby, ConfirmLeave, Banner
  <2> QED
    BY <1>2, <1>3, <2>1, StartNewGameKeeps
<1>10. CASE WatchGame
  <2>1. WatchFits(game, watch')
    BY <1>1, <1>10 DEF WatchGame, WatchFits
  <2> QED
    BY <1>1, <1>10, <2>1, IdleKeeps DEF WatchGame
<1>11. CASE WatchEnds \/ AfkEnds
  BY <1>3, <1>11 DEF WatchEnds, AfkEnds
<1>12. CASE AfkWarns
  <2>1. /\ afk' = [afk EXCEPT !.timer = FALSE, !.phase = "board"] /\ afk.timer
        /\ UNCHANGED <<game, botTimer, pauses, reported, deals, watch>>
    BY <1>12 DEF AfkWarns
  <2>2. afk' \in AfkType /\ Counting(afk) /\ Counting(afk')
    BY <1>1, <2>1 DEF AfkType, Counting
  <2> QED
    BY <1>1, <2>1, <2>2, IdleKeeps DEF WatchFits
<1>13. CASE AfkPopsUp
  <2>1. /\ afk' = [afk EXCEPT !.phase = "popup"] /\ afk.phase = "board"
        /\ UNCHANGED <<game, botTimer, pauses, reported, deals, watch>>
    BY <1>13 DEF AfkPopsUp
  <2>2. afk' \in AfkType /\ Counting(afk) /\ Counting(afk')
    BY <1>1, <2>1 DEF AfkType, Counting
  <2> QED
    BY <1>1, <2>1, <2>2, IdleKeeps DEF WatchFits
<1>14. CASE ImHere
  <2>1. CASE OnExit
    BY <1>3, <2>1
  <2>2. CASE ~OnExit
    <3>1. /\ afk' = ArmAfk([afk EXCEPT !.retries = @ + 1])
          /\ afk.phase = "popup"
          /\ UNCHANGED <<game, botTimer, pauses, reported, deals, watch>>
      BY <1>14, <2>2 DEF ImHere
    <3> DEFINE a == [afk EXCEPT !.retries = @ + 1]
    <3>2. a \in AfkType
      BY <1>1 DEF AfkType
    <3> HIDE DEF a
    <3>3. ArmAfk(a) \in AfkType /\ Counting(ArmAfk(a))
      BY <3>2 DEF ArmAfk, AfkType, Counting
    <3>4. afk' \in AfkType /\ Counting(afk) /\ Counting(afk')
      BY <3>1, <3>3 DEF Counting, a
    <3> QED
      BY <1>1, <3>1, <3>4, IdleKeeps DEF WatchFits
  <2> QED
    BY <2>1, <2>2
<1>15. CASE UNCHANGED vars
  BY <1>2, <1>15 DEF vars, uiVars
<1> QED
  BY <1>4, <1>5, <1>6, <1>7, <1>8, <1>9, <1>10, <1>11, <1>12, <1>13, <1>14,
     <1>15 DEF Next

LEMMA ScreenInvInit == Init => ScreenInv
<1> SUFFICES ASSUME Init PROVE ScreenInv
  OBVIOUS
<1>1. PICK hands \in Deals : game = InitGame(hands)
  BY DEF Init
<1>2. GameOK(game) /\ Restarts(game)
  BY <1>1, NewGameOK DEF Restarts, InitGame
<1>3. deals = 1 /\ pauses = 0 /\ botTimer = NoTimer /\ reported = Unreported
      /\ watch = NotWatching
      /\ afk = IF MyTurn(game) THEN ArmAfk(ResetAfk) ELSE ResetAfk
  BY DEF Init
<1>4. IdleFits(game, afk, deals) /\ afk \in AfkType
  BY <1>3 DEF IdleFits, Counting, ArmAfk, ResetAfk, AfkType
<1>5. ReportFits(game, reported)
  <2>1. Unreported \in [won : BOOLEAN, placement : Nat] /\ Unreported.won = FALSE
    BY DEF Unreported
  <2> QED
    BY <1>2, <1>3, <2>1 DEF ReportFits, Restarts
<1>6. PauseIsItsOwn /\ WatchFits(game, watch) /\ ThinkingOK(botTimer)
  BY <1>2, <1>3 DEF PauseIsItsOwn, Restarts, WatchFits, NotWatching, ThinkingOK
<1> QED
  BY <1>2, <1>3, <1>4, <1>5, <1>6 DEF ScreenInv

LEMMA ScreenInvariant == Spec => []ScreenInv
<1>1. ScreenInv /\ [Next]_vars => ScreenInv'
  BY ScreenInvStep
<1> QED
  BY <1>1, ScreenInvInit, PTL DEF Spec

-----------------------------------------------------------------------------
(* The theorems.                                                            *)

(* PauseIsItsOwn: the pause after a trick has one timer, and nothing else   *)
(* has, so a new deal never meets the timer of an old trick.                *)
THEOREM PausesAreTheirOwn == Spec => []PauseIsItsOwn
<1>1. ScreenInv => PauseIsItsOwn
  BY DEF ScreenInv
<1> QED
  BY <1>1, ScreenInvariant, PTL

(* PromptFits: the prompt to watch or leave, and watching, are only for a   *)
(* person without cards; a pile taken or a new deal takes both back.        *)
THEOREM PromptsFit == Spec => []PromptFits
<1>1. ScreenInv => PromptFits
  BY SeatsAssumption
     DEF ScreenInv, PromptFits, WatchFits, GameOK, ListsOK, Me, Seats
<1> QED
  BY <1>1, ScreenInvariant, PTL

(* IdleWatchFits: the away countdown runs in no turn but the person's own,  *)
(* and in the first game of the screen in each of these.                    *)
THEOREM CountdownsFit == Spec => []IdleWatchFits
<1>1. ScreenInv => IdleWatchFits
  BY DEF ScreenInv, IdleWatchFits, IdleFits, Counting
<1> QED
  BY <1>1, ScreenInvariant, PTL

(* Who has finished is not the loser.                                       *)
LEMMA LoserHasNotFinished ==
  ASSUME NEW g, GameOK(g), Me \in Range(g.finished)
  PROVE  g.loser # Me
<1>1. g.loser = NoSeat \/ g.loser = TerminalLoser(g.finished, {})
  BY DEF GameOK, Game, TrickOK, ResultOK
<1>2. ASSUME TerminalLoser(g.finished, {}) # NoSeat
      PROVE  TerminalLoser(g.finished, {}) \notin Range(g.finished)
  BY <1>2, LoserIsOnlyActive DEF ActiveSeats
<1> QED
  BY <1>1, <1>2 DEF Me, NoSeat

(* ReportIsFinal: what onGameEnd was told of this game stays true to its    *)
(* end, though it is told long before, and a game that is over was reported.*)
THEOREM ReportsAreFinal == Spec => []ReportIsFinal
<1>1. ScreenInv => ReportIsFinal
  BY LoserHasNotFinished DEF ScreenInv, ReportIsFinal, ReportFits
<1> QED
  BY <1>1, ScreenInvariant, PTL

-----------------------------------------------------------------------------
(* The offline game keeps the promise of TurnGame.                          *)
LEMMA SameTerms ==
  /\ Promise!Seats = Seats /\ Promise!NoSeat = NoSeat
  /\ Promise!Active = ActiveSeats(game.finished, {})
  /\ \A S : Promise!Cardinality(S) = Cardinality(S)
  /\ \A xs : Promise!Range(xs) = Range(xs)
  /\ \A fin, rem : Promise!ActiveSeats(fin, rem) = ActiveSeats(fin, rem)
  /\ \A fin, rem : Promise!TerminalLoser(fin, rem) = TerminalLoser(fin, rem)
  /\ \A xs, v : Promise!RemoveInt(xs, v) = RemoveInt(xs, v)
<1>1. \A S : Promise!Cardinality(S) = Cardinality(S)
  BY DEF Promise!Cardinality, Cardinality, Promise!IsFiniteSet, IsFiniteSet
<1>2. \A xs : Promise!Range(xs) = Range(xs)
  BY DEF Promise!Range, Range
<1>3. \A xs, i : Promise!RemoveAt(xs, i) = RemoveAt(xs, i)
  BY DEF Promise!RemoveAt, RemoveAt
<1>4. Promise!Seats = Seats /\ Promise!NoSeat = NoSeat
  BY DEF Promise!Seats, Promise!NoSeat, Seats, NoSeat
<1>5. \A fin, rem : Promise!ActiveSeats(fin, rem) = ActiveSeats(fin, rem)
  BY <1>2, <1>4 DEF Promise!ActiveSeats, ActiveSeats
<1>6. \A fin, rem : Promise!TerminalLoser(fin, rem) = TerminalLoser(fin, rem)
  <2>1. TAKE fin, rem
  <2> DEFINE active == ActiveSeats(fin, rem)
  <2>2. Promise!ActiveSeats(fin, rem) = active
    BY <1>5
  <2>3. Promise!TerminalLoser(fin, rem) =
          IF Promise!Cardinality(active) = 1 /\ rem = {}
          THEN CHOOSE s \in active : TRUE
          ELSE Promise!NoSeat
    BY <2>2 DEF Promise!TerminalLoser
  <2> QED
    BY <1>1, <1>4, <2>3 DEF TerminalLoser
<1>7. \A xs, v : Promise!IndexOf(xs, v) = IndexOf(xs, v)
  BY DEF Promise!IndexOf, IndexOf
<1>8. \A xs, v : Promise!RemoveInt(xs, v) = RemoveInt(xs, v)
  BY <1>2, <1>3, <1>7 DEF Promise!RemoveInt, RemoveInt
<1>9. Promise!Active = ActiveSeats(game.finished, {})
  BY <1>5 DEF Promise!Active
<1> QED
  BY <1>1, <1>2, <1>4, <1>5, <1>6, <1>8, <1>9

LEMMA PromiseInitially == Init => Promise!GameInit
<1> SUFFICES ASSUME Init PROVE Promise!GameInit
  OBVIOUS
<1>1. PICK hands \in Deals : game = InitGame(hands)
  BY DEF Init
<1>2. Restarts(game)
  BY <1>1, NewGameOK DEF Restarts, InitGame
<1> QED
  BY <1>2, SameTerms DEF Restarts, Promise!GameInit

LEMMA StepPromised ==
  ScreenInv /\ [Next]_vars =>
    [Promise!GameNext \/ Promise!GameInit']_(Promise!gameVars)
<1> SUFFICES ASSUME ScreenInv, [Next]_vars
             PROVE  [Promise!GameNext \/ Promise!GameInit']_(Promise!gameVars)
  OBVIOUS
<1>1. GameOK(game) /\ GameOK(game') /\ GameStep
  <2>1. ScreenInv' /\ GameStep
    BY ScreenInvStep
  <2> QED
    BY <2>1 DEF ScreenInv
<1>2. \A g : g.phase # "playing" => CurrentSeat(g) = NoSeat
  BY DEF CurrentSeat
<1>3. CASE SameGame(game, game')
  BY <1>3, SameTurn DEF Promise!gameVars, SameGame
<1>4. CASE game.phase = "playing" /\ Advances(game, game')
  <2> DEFINE s == CurrentSeat(game)
  <2>1. s \in Seats /\ game.loser = NoSeat
    BY <1>1, <1>4, TurnIsPlayable DEF GameOK, TrickOK
  <2>2. PICK fin \in {game.finished, Append(game.finished, s)} :
          \/ /\ game'.phase = "playing" /\ game'.finished = fin
             /\ game'.loser = NoSeat
             /\ CurrentSeat(game') \in ActiveSeats(fin, {}) \ {s}
          \/ /\ game'.phase = "result"
             /\ game'.loser = TerminalLoser(game'.finished, {})
             /\ \/ game'.finished = fin
                \/ \E w \in Range(game.roundOrder) :
                     game'.finished = RemoveInt(fin, w)
    BY <1>4 DEF Advances
  <2> HIDE DEF s
  <2>3. CASE game'.phase = "playing"
    <3>1. /\ game'.finished = fin /\ game'.loser = NoSeat
          /\ CurrentSeat(game') \in ActiveSeats(fin, {}) \ {s}
      BY <2>2, <2>3
    <3>2. Promise!Move(s)
      BY <1>4, <2>1, <2>2, <2>3, <3>1, SameTerms DEF Promise!Move, s
    <3> QED
      BY <2>1, <3>2, SameTerms DEF Promise!GameNext
  <2>4. CASE game'.phase # "playing"
    <3>1. game'.phase = "result" /\ game'.loser = TerminalLoser(game'.finished, {})
      BY <2>2, <2>4
    <3>2. game'.finished \in {fin} \cup {RemoveInt(fin, w) : w \in Range(fin)}
      <4>1. \A w : w \notin Range(fin) => RemoveInt(fin, w) = fin
        BY DEF RemoveInt
      <4> QED
        BY <2>2, <2>4, <4>1
    <3>3. Promise!Settle(fin, {})
      BY <1>2, <3>1, <3>2, SameTerms DEF Promise!Settle
    <3>4. Promise!Move(s)
      BY <1>4, <2>1, <2>2, <3>3 DEF Promise!Move, s
    <3> QED
      BY <2>1, <3>4, SameTerms DEF Promise!GameNext
  <2> QED
    BY <2>3, <2>4
<1>5. CASE game.phase = "result" /\ Resumes(game, game')
  <2>1. CurrentSeat(game) = NoSeat
    BY <1>2, <1>5
  <2>2. Promise!NextRound
    <3>1. CASE Cardinality(ActiveSeats(game.finished, {})) <= 1
      <4>1. /\ game'.phase = "gameOver" /\ game'.finished = game.finished
            /\ game'.loser = TerminalLoser(game.finished, {})
        BY <1>5, <3>1 DEF Resumes
      <4>2. CurrentSeat(game') = NoSeat
        BY <1>2, <4>1
      <4> QED
        BY <1>5, <2>1, <3>1, <4>1, <4>2, SameTerms DEF Promise!NextRound
    <3>2. CASE ~(Cardinality(ActiveSeats(game.finished, {})) <= 1)
      <4>1. /\ game'.phase = "playing" /\ game'.finished = game.finished
            /\ game'.loser = NoSeat /\ game.loser = NoSeat
            /\ CurrentSeat(game') \in ActiveSeats(game.finished, {})
        BY <1>5, <3>2 DEF Resumes
      <4> QED
        BY <1>5, <3>2, <4>1, SameTerms DEF Promise!NextRound
    <3> QED
      BY <3>1, <3>2
  <2> QED
    BY <2>2 DEF Promise!GameNext
<1>6. CASE Restarts(game')
  <2>1. Promise!GameInit'
    BY <1>6, SameTerms DEF Restarts, Promise!GameInit
  <2> QED
    BY <2>1
<1> QED
  BY <1>1, <1>3, <1>4, <1>5, <1>6 DEF GameStep

(* ImplementsTurnGame: every step of the offline game is one that the room  *)
(* is promised of the online engine with nobody removed, or a new game.     *)
THEOREM OfflineIsTurnGame == Spec => ImplementsTurnGame
  BY PromiseInitially, StepPromised, ScreenInvariant, PTL
  DEF Spec, ImplementsTurnGame

-----------------------------------------------------------------------------
(* What the bots remember.                                                  *)

(* No card is in two places; the table counts while the trick is played.    *)
DeckOK(g) ==
  /\ \A s, t \in Seats : s # t => g.hands[s] \cap g.hands[t] = {}
  /\ \A s \in Seats : g.hands[s] \cap g.discard = {}
  /\ g.phase = "playing" =>
       /\ \A s \in Seats : g.hands[s] \cap CardsOf(g.roundCards) = {}
       /\ CardsOf(g.roundCards) \cap g.discard = {}
       /\ \A p, q \in g.roundCards : p.card = q.card => p = q

(* A seat holds no card of a suit it cut that did not lie on the table.     *)
VoidsOK(g) ==
  \A s \in Seats : \A suit \in g.suitVoids[s] :
    OfSuit(g.hands[s], suit) \subseteq g.roundHistory

MemoryInv ==
  /\ ~phantom => DeckOK(game)
  /\ VoidsOK(game)

(* A suit whose cards all lie in my hand, on the table or on the dead pile  *)
(* is in no other hand.                                                     *)
LEMMA ExhaustedIsGone ==
  ASSUME NEW g, GameOK(g), DeckOK(g), g.phase = "playing",
         NEW me \in Seats, NEW suit \in ExhaustedSuits(g, me),
         NEW p \in Seats \ {me}
  PROVE  OfSuit(g.hands[p], suit) = {}
<1> DEFINE A == OfSuit(g.hands[me], suit)
           B == OfSuit(g.discard, suit)
           P == {q \in g.roundCards : q.card.suit = suit}
           C == OfSuit(CardsOf(g.roundCards), suit)
           All == OfSuit(Card, suit)
           U == A \cup B \cup C
           rankOf == [c \in All |-> c.rank]
           cardOf == [q \in P |-> q.card]
<1>1. /\ g.hands \in [Seats -> SUBSET Card] /\ g.discard \in SUBSET Card
      /\ g.roundCards \in SUBSET Played /\ CardsOf(g.roundCards) \in SUBSET Card
  BY DEF GameOK, Game, CardsOf, Played
<1>2. /\ suit \in Suits
      /\ Cardinality(A) + Cardinality(B) + Cardinality(P) >= Cardinality(Ranks)
  BY DEF ExhaustedSuits
<1>3. A \in SUBSET All /\ B \in SUBSET All /\ C \in SUBSET All /\ U \in SUBSET All
  BY <1>1 DEF OfSuit
<1>4. IsFiniteSet(All) /\ Cardinality(All) <= Cardinality(Ranks)
      /\ Cardinality(Ranks) \in Nat
  <2>1. rankOf \in Injection(All, Ranks)
    BY DEF OfSuit, Card, Injection, IsInjective
  <2> HIDE DEF rankOf, All
  <2> QED
    BY <2>1, LocalDeckAssumption, FS_Injection, FS_CardinalityType
<1>5. /\ IsFiniteSet(A) /\ IsFiniteSet(B) /\ IsFiniteSet(C) /\ IsFiniteSet(U)
      /\ Cardinality(A) \in Nat /\ Cardinality(B) \in Nat
      /\ Cardinality(C) \in Nat /\ Cardinality(U) \in Nat
      /\ Cardinality(All) \in Nat
  <2> HIDE DEF A, B, C, U, All
  <2> QED
    BY <1>3, <1>4, FS_Subset, FS_CardinalityType
<1>6. Cardinality(P) \in Nat /\ Cardinality(P) <= Cardinality(C)
  <2>1. cardOf \in Injection(P, C)
    BY DEF OfSuit, CardsOf, DeckOK, Injection, IsInjective
  <2> HIDE DEF cardOf, P, C
  <2> QED
    BY <1>5, <2>1, FS_Injection, FS_CardinalityType
<1>7. Cardinality(U) = Cardinality(A) + Cardinality(B) + Cardinality(C)
  <2>1. A \cap B = {} /\ (A \cup B) \cap C = {}
    BY DEF DeckOK, OfSuit
  <2> HIDE DEF A, B, C
  <2>2. Cardinality(A \cap B) = 0 /\ Cardinality((A \cup B) \cap C) = 0
    BY <2>1, FS_EmptySet
  <2>3. /\ IsFiniteSet(A \cup B)
        /\ Cardinality(A \cup B) =
             Cardinality(A) + Cardinality(B) - Cardinality(A \cap B)
    BY <1>5, FS_Union
  <2>4. Cardinality((A \cup B) \cup C) =
          Cardinality(A \cup B) + Cardinality(C) - Cardinality((A \cup B) \cap C)
    BY <1>5, <2>3, FS_Union
  <2> QED
    BY <1>5, <2>2, <2>3, <2>4
<1>8. U = All
  <2> HIDE DEF A, B, C, P, U, All
  <2>1. Cardinality(U) <= Cardinality(All)
    BY <1>3, <1>4, FS_Subset
  <2>2. Cardinality(U) = Cardinality(All)
    BY <1>2, <1>4, <1>5, <1>6, <1>7, <2>1
  <2> QED
    BY <1>3, <1>4, <2>2, FS_Subset
<1>9. \A c \in OfSuit(g.hands[p], suit) : c \in All /\ c \notin U
  BY <1>1 DEF OfSuit, DeckOK
<1> QED
  BY <1>8, <1>9

-----------------------------------------------------------------------------
(* What one play does to the cards: a card leaves the hand for the table,   *)
(* and a trick that ends puts its pile into one hand or on the dead pile.   *)
CardsMove(g, h, card) ==
  LET s == CurrentSeat(g)
      table == g.roundCards \cup {[player |-> s, card |-> card]}
      hands == [g.hands EXCEPT ![s] = @ \ {card}]
  IN  /\ \A p \in Seats :
           \A suit \in h.suitVoids[p] \ g.suitVoids[p] :
             p = s /\ OfSuit(g.hands[s], suit) = {}
      /\ h.phase \in {"playing", "result"}
      /\ h.roundHistory = IF h.phase = "playing" THEN g.roundHistory
                          ELSE g.roundHistory \cup CardsOf(table)
      /\ \/ /\ h.phase = "playing" /\ h.hands = hands
            /\ h.roundCards = table /\ h.discard = g.discard
         \/ /\ h.phase = "result" /\ h.discard = g.discard
            /\ \E w \in Seats :
                 h.hands = [hands EXCEPT ![w] = @ \cup CardsOf(table)]
         \/ /\ h.phase = "result" /\ h.hands = hands
            /\ h.discard = g.discard \cup CardsOf(table)

LEMMA PlayMovesCards ==
  ASSUME NEW g, GameOK(g), g.phase = "playing", NEW card \in Card,
         ~Refused(g, CurrentSeat(g), card)
  PROVE  CardsMove(g, ApplyPlay(g, CurrentSeat(g), card), card)
<1> DEFINE s == CurrentSeat(g)
           cut == IsCut(g, card)
           t == OnTable(g, s, card)
           fin == FinishedAfter(g, s, t.hands)
           h == ApplyPlay(g, s, card)
           table == g.roundCards \cup {[player |-> s, card |-> card]}
           hands == [g.hands EXCEPT ![s] = @ \ {card}]
           voids == [g.suitVoids EXCEPT ![s] = IF cut THEN @ \cup {g.ledSuit} ELSE @]
           w == HighestOf(table, t.ledSuit).player
<1>1. /\ g \in Game /\ s \in Seats /\ cut \in BOOLEAN
      /\ g.suitVoids \in [Seats -> SUBSET Suits]
      /\ TableOK(g, t, fin)
  BY TurnIsPlayable, CardIsOnTable DEF GameOK, IsCut, Game
<1>2. /\ t.hands = hands /\ t.roundCards = table /\ t.suitVoids = voids
      /\ t.discard = g.discard /\ t.phase = "playing"
      /\ t.roundHistory = g.roundHistory
  BY <1>1 DEF OnTable, Game
<1>3. cut => OfSuit(g.hands[s], g.ledSuit) = {}
  BY DEF Refused, IsCut
<1>4. \A p \in Seats : \A suit \in voids[p] \ g.suitVoids[p] :
        p = s /\ OfSuit(g.hands[s], suit) = {}
  <2> HIDE DEF s, cut
  <2> QED
    BY <1>1, <1>3
<1>5. h = IF cut \/ LastInRound(g) THEN EndRound(t, cut, fin)
          ELSE NextInRound(t, fin)
  BY DEF ApplyPlay, OnTable
<1>6. t \in Game /\ w \in Seats
  <2>1. /\ t \in Game /\ t.roundCards \in SUBSET Played
        /\ \E p \in t.roundCards : p.card.suit = t.ledSuit
    BY <1>1 DEF TableOK, Game
  <2>2. HighestOf(t.roundCards, t.ledSuit) \in Played
    BY <2>1, HighestIsPlayed
  <2> QED
    BY <1>2, <2>1, <2>2 DEF Played
<1> HIDE DEF h, t, fin, w, voids
<1>7. CASE cut \/ LastInRound(g)
  <2>1. h = EndRound(t, cut, fin)
    BY <1>5, <1>7
  <2>2. /\ h.phase = "result" /\ h.suitVoids = voids
        /\ h.discard = DiscardAfter(t, cut)
        /\ h.roundHistory = g.roundHistory \cup CardsOf(table)
        /\ h.hands = [t.hands EXCEPT ![w] =
                        IF cut THEN @ \cup CardsOf(table) ELSE @]
    BY <1>2, <1>6, <2>1 DEF EndRound, Game, w
  <2>3. CASE cut
    <3>1. /\ h.discard = g.discard
          /\ h.hands = [hands EXCEPT ![w] = @ \cup CardsOf(table)]
      BY <1>2, <2>2, <2>3 DEF DiscardAfter
    <3> HIDE DEF cut, hands, table
    <3> QED
      BY <1>4, <1>6, <2>2, <3>1 DEF CardsMove, h, hands, table
  <2>4. CASE ~cut
    <3>1. h.discard = g.discard \cup CardsOf(table)
      BY <1>2, <2>2, <2>4 DEF DiscardAfter
    <3>2. h.hands = hands
      <4>1. hands \in [Seats -> SUBSET Card]
        BY <1>1 DEF Game
      <4>2. h.hands = [hands EXCEPT ![w] = @]
        BY <1>2, <2>2, <2>4
      <4> HIDE DEF hands
      <4> QED
        BY <1>6, <4>1, <4>2
    <3> HIDE DEF cut, hands, table
    <3> QED
      BY <1>4, <2>2, <3>1, <3>2 DEF CardsMove, h, hands, table
  <2> QED
    BY <2>3, <2>4
<1>8. CASE ~(cut \/ LastInRound(g))
  <2>1. h = NextInRound(t, fin)
    BY <1>5, <1>8
  <2>2. /\ h.phase = "playing" /\ h.suitVoids = voids
        /\ h.discard = g.discard /\ h.hands = hands /\ h.roundCards = table
        /\ h.roundHistory = g.roundHistory
    BY <1>2, <1>6, <2>1 DEF NextInRound, Game
  <2> HIDE DEF cut, hands, table
  <2> QED
    BY <1>4, <2>2 DEF CardsMove, h, hands, table
<1> QED
  BY <1>7, <1>8

(* A card that was held moves without being in two places.                  *)
LEMMA DeckAfterPlay ==
  ASSUME NEW g, GameOK(g), g.phase = "playing", DeckOK(g),
         NEW card \in g.hands[CurrentSeat(g)], NEW h, CardsMove(g, h, card)
  PROVE  DeckOK(h)
<1> DEFINE s == CurrentSeat(g)
           e == [player |-> s, card |-> card]
           table == g.roundCards \cup {e}
           hands == [g.hands EXCEPT ![s] = @ \ {card}]
           pile == CardsOf(table)
<1>1. s \in Seats /\ g.hands \in [Seats -> SUBSET Card]
  BY TurnIsPlayable DEF GameOK, Game
<1>2. hands \in [Seats -> SUBSET Card]
      /\ \A p \in Seats : hands[p] = IF p = s THEN g.hands[p] \ {card} ELSE g.hands[p]
  <2> HIDE DEF s
  <2> QED
    BY <1>1
<1>3. pile = CardsOf(g.roundCards) \cup {card}
  <2>1. e.card = card
    OBVIOUS
  <2> HIDE DEF e
  <2> QED
    BY <2>1 DEF CardsOf
<1>4. /\ \A p, q \in Seats : p # q => hands[p] \cap hands[q] = {}
      /\ \A p \in Seats : hands[p] \cap (g.discard \cup pile) = {}
      /\ pile \cap g.discard = {}
  <2> HIDE DEF hands, pile, s
  <2> QED
    BY <1>1, <1>2, <1>3 DEF DeckOK, s
<1>5. \A p, q \in table : p.card = q.card => p = q
  <2>1. card \notin CardsOf(g.roundCards)
    BY <1>1 DEF DeckOK
  <2>2. e.card = card /\ \A p \in g.roundCards : p.card # card
    BY <2>1 DEF CardsOf
  <2> HIDE DEF e
  <2> QED
    BY <2>2 DEF DeckOK
<1>6. /\ h.phase \in {"playing", "result"}
      /\ \/ /\ h.phase = "playing" /\ h.hands = hands
            /\ h.roundCards = table /\ h.discard = g.discard
         \/ /\ h.phase = "result" /\ h.discard = g.discard
            /\ \E w \in Seats : h.hands = [hands EXCEPT ![w] = @ \cup pile]
         \/ /\ h.phase = "result" /\ h.hands = hands
            /\ h.discard = g.discard \cup pile
  BY DEF CardsMove
<1> HIDE DEF hands, table
<1>7. CASE h.phase = "playing"
  BY <1>4, <1>5, <1>6, <1>7 DEF DeckOK
<1> HIDE DEF pile
<1>8. CASE h.phase = "result" /\ h.discard = g.discard
           /\ \E w \in Seats : h.hands = [hands EXCEPT ![w] = @ \cup pile]
  <2>1. PICK w \in Seats : h.hands = [hands EXCEPT ![w] = @ \cup pile]
    BY <1>8
  <2>2. \A p \in Seats : h.hands[p] = IF p = w THEN hands[p] \cup pile ELSE hands[p]
    BY <1>2, <2>1
  <2> QED
    BY <1>4, <1>8, <2>2 DEF DeckOK
<1>9. CASE h.phase = "result" /\ h.hands = hands
           /\ h.discard = g.discard \cup pile
  BY <1>4, <1>9 DEF DeckOK
<1> QED
  BY <1>6, <1>7, <1>8, <1>9

(* Whatever a seat holds that it did not hold before came with the pile.    *)
LEMMA VoidsAfterPlay ==
  ASSUME NEW g, GameOK(g), NEW card, NEW h, CardsMove(g, h, card), VoidsOK(g)
  PROVE  VoidsOK(h)
<1> DEFINE s == CurrentSeat(g)
           hands == [g.hands EXCEPT ![s] = @ \ {card}]
           pile == CardsOf(g.roundCards \cup {[player |-> s, card |-> card]})
<1> SUFFICES ASSUME NEW p \in Seats, NEW suit \in h.suitVoids[p],
                    NEW c \in OfSuit(h.hands[p], suit)
             PROVE  c \in h.roundHistory
  BY DEF VoidsOK
<1>1. hands \in [Seats -> SUBSET Card] /\ hands[p] \subseteq g.hands[p]
  <2>1. g.hands \in [Seats -> SUBSET Card]
    BY DEF GameOK, Game
  <2> HIDE DEF s
  <2> QED
    BY <2>1
<1>2. /\ g.roundHistory \subseteq h.roundHistory
      /\ c \in g.hands[p] \/ c \in h.roundHistory
  <2>1. /\ h.phase \in {"playing", "result"}
        /\ h.roundHistory = IF h.phase = "playing" THEN g.roundHistory
                            ELSE g.roundHistory \cup pile
        /\ \/ h.hands = hands
           \/ /\ h.phase = "result"
              /\ \E w \in Seats : h.hands = [hands EXCEPT ![w] = @ \cup pile]
    BY DEF CardsMove
  <2>2. c \in h.hands[p]
    BY DEF OfSuit
  <2> HIDE DEF hands, pile
  <2> QED
    BY <1>1, <2>1, <2>2
<1>3. OfSuit(g.hands[p], suit) \subseteq g.roundHistory
  <2>1. CASE suit \in g.suitVoids[p]
    BY <2>1 DEF VoidsOK
  <2>2. CASE suit \notin g.suitVoids[p]
    BY <2>2 DEF CardsMove
  <2> QED
    BY <2>1, <2>2
<1>4. c.suit = suit
  BY DEF OfSuit
<1> QED
  BY <1>2, <1>3, <1>4 DEF OfSuit

LEMMA MemoryOfSameGame ==
  ASSUME NEW g, NEW h, SameGame(g, h)
  PROVE  /\ DeckOK(g) <=> DeckOK(h)
         /\ VoidsOK(g) <=> VoidsOK(h)
BY DEF SameGame, DeckOK, VoidsOK

(* A play refreshes what a bot remembers, whoever makes it.                 *)
LEMMA MemoryAfterPlay ==
  ASSUME ScreenInv, MemoryInv, game.phase = "playing",
         NEW card \in Card, ~Refused(game, CurrentSeat(game), card),
         NEW g, SameGame(ApplyPlay(game, CurrentSeat(game), card), g),
         SameGame(g, game'),
         ~phantom' => ~phantom /\ card \in game.hands[CurrentSeat(game)]
  PROVE  MemoryInv'
<1> DEFINE h == ApplyPlay(game, CurrentSeat(game), card)
<1>1. /\ GameOK(game) /\ GameOK(h) /\ CardsMove(game, h, card)
  BY PlayMovesCards, PlayedGameOK DEF ScreenInv
<1> HIDE DEF h
<1>2. ~phantom' => DeckOK(h)
  BY <1>1, DeckAfterPlay DEF MemoryInv
<1>3. VoidsOK(h)
  BY <1>1, VoidsAfterPlay DEF MemoryInv
<1>4. SameGame(h, game')
  BY DEF SameGame, h
<1> QED
  BY <1>2, <1>3, <1>4, MemoryOfSameGame DEF MemoryInv

(* A new deal.                                                              *)
LEMMA MemoryOfNewGame ==
  ASSUME NEW hands \in Deals
  PROVE  DeckOK(InitGame(hands)) /\ VoidsOK(InitGame(hands))
<1>1. PICK owner \in [Card -> Seats] :
        hands = [s \in Seats |-> {c \in Card : owner[c] = s}]
  BY DEF Deals
<1>2. \A s, t \in Seats : s # t => hands[s] \cap hands[t] = {}
  BY <1>1
<1>3. /\ InitGame(hands).hands = hands /\ InitGame(hands).roundCards = {}
      /\ InitGame(hands).discard = {}
      /\ InitGame(hands).suitVoids = [s \in Seats |-> {}]
  BY DEF InitGame
<1> QED
  BY <1>2, <1>3 DEF DeckOK, VoidsOK, CardsOf

(* The table is cleared.                                                    *)
LEMMA MemoryAfterPause ==
  ASSUME NEW g, GameOK(g)
  PROVE  /\ DeckOK(g) => DeckOK(ResolveRound(g))
         /\ VoidsOK(g) => VoidsOK(ResolveRound(g))
<1> DEFINE h == ResolveRound(g)
<1>1. /\ h.hands = g.hands /\ h.discard = g.discard
      /\ h.suitVoids = g.suitVoids /\ h.roundCards = {}
      /\ h.roundHistory = g.roundHistory
  BY DEF ResolveRound, GameOK, Game
<1> HIDE DEF h
<1>2. (DeckOK(g) => DeckOK(h)) /\ (VoidsOK(g) => VoidsOK(h))
  BY <1>1 DEF DeckOK, VoidsOK, CardsOf
<1> QED
  BY <1>2 DEF h

LEMMA MemoryInvInit == Init => MemoryInv
  BY MemoryOfNewGame DEF Init, MemoryInv

LEMMA MemoryInvStep == ScreenInv /\ MemoryInv /\ [Next]_vars => MemoryInv'
<1> SUFFICES ASSUME ScreenInv, MemoryInv, [Next]_vars
             PROVE  MemoryInv'
  OBVIOUS
<1>1. /\ GameOK(game) /\ ThinkingOK(botTimer) /\ ThinkingOK(NoTimer)
      /\ ~phantom => DeckOK(game)
      /\ VoidsOK(game)
  BY DEF ScreenInv, MemoryInv, ThinkingOK
<1>2. ASSUME SameGame(game, game'), ~phantom' => ~phantom
      PROVE  MemoryInv'
  <2>1. (~phantom' => DeckOK(game')) /\ VoidsOK(game')
    BY <1>1, <1>2, MemoryOfSameGame
  <2> QED
    BY <1>2, <2>1 DEF MemoryInv, VoidsOK
<1>3. ASSUME UNCHANGED <<game, phantom>>
      PROVE  MemoryInv'
  BY <1>2, <1>3 DEF SameGame
<1>4. ASSUME StartNewGame
      PROVE  MemoryInv'
  <2>1. PICK hands \in Deals :
          Commit(InitGame(hands), TRUE, FALSE, botTimer, pauses, Unreported,
                 NotWatching, AfkOfNewGame)
    BY <1>4 DEF StartNewGame
  <2> DEFINE g == InitGame(hands)
  <2>2. GameOK(g) /\ DeckOK(g) /\ VoidsOK(g)
    BY NewGameOK, MemoryOfNewGame
  <2> HIDE DEF g
  <2>3. SameGame(g, game')
    <3>1. Commit(g, TRUE, FALSE, botTimer, pauses, Unreported,
                 NotWatching, AfkOfNewGame)
      BY <2>1 DEF g
    <3> QED
      BY <1>1, <2>2, <3>1, Committed
  <2> QED
    BY <2>2, <2>3, MemoryOfSameGame DEF MemoryInv
<1>5. CASE DealDone
  <2>1. /\ Commit(game, FALSE, inFlight, botTimer, pauses, reported, watch, afk)
        /\ phantom' = phantom
    BY <1>5 DEF DealDone
  <2>2. SameGame(game, game')
    BY <1>1, <2>1, Committed
  <2> QED
    BY <1>2, <2>1, <2>2
<1>6. ASSUME NEW card \in Card, PlayCard(card)
      PROVE  MemoryInv'
  <2> DEFINE g == ApplyPlay(game, Me, card)
  <2>1. /\ Commit(g, dealing, inFlight, botTimer, pauses, reported, watch, ResetAfk)
        /\ phantom' = phantom
        /\ CurrentSeat(game) = Me /\ card \in ValidSet
    BY <1>6 DEF PlayCard, Clickable, MyTurn
  <2>2. game.phase = "playing" /\ card \in game.hands[Me]
    BY <2>1 DEF CurrentSeat, Me, NoSeat, ValidSet, OfSuit
  <2>3. ~Refused(game, Me, card)
    BY <2>1 DEF Refused, ValidSet, OfSuit, MyTurn
  <2>4. GameOK(g)
    BY <1>1, <2>1, <2>2, PlayedGameOK
  <2> HIDE DEF g
  <2>5. SameGame(g, game')
    BY <1>1, <2>1, <2>4, Committed
  <2>6. g = ApplyPlay(game, CurrentSeat(game), card) /\ SameGame(g, g)
    BY <2>1 DEF g, SameGame
  <2> QED
    BY <2>1, <2>2, <2>3, <2>5, <2>6, MemoryAfterPlay
<1>7. CASE BotPlays
  <2> DEFINE s == botTimer.seat
             card == botTimer.card
             played == ApplyPlay(game, s, card)
             g == IF CurrentSeat(game) = s
                  THEN [played EXCEPT !.pendingAI = FALSE]
                  ELSE game
  <2>1. /\ Commit(g, dealing, Freed, NoTimer, pauses, reported, watch, afk)
        /\ phantom' = (phantom \/ (g # game /\ card \notin game.hands[s]))
        /\ botTimer # NoTimer
    BY <1>7 DEF BotPlays
  <2>2. s \in Seats /\ card \in Card
    BY <1>1, <2>1 DEF ThinkingOK, BotPause
  <2>3. CASE CurrentSeat(game) = s /\ ~Refused(game, s, card)
    <3>1. game.phase = "playing"
      BY <2>2, <2>3, SeatsAssumption DEF CurrentSeat, NoSeat, Seats
    <3>2. GameOK(played) /\ Advances(game, played)
      BY <1>1, <2>2, <2>3, <3>1, PlayedGameOK
    <3>3. g = [played EXCEPT !.pendingAI = FALSE]
      BY <2>3
    <3> HIDE DEF played, g
    <3>4. GameOK(g) /\ SameGame(played, g)
      BY <3>2, <3>3, FlagKeepsGame
    <3>5. SameGame(g, game')
      BY <1>1, <2>1, <3>4, Committed
    <3>6. g # game
      <4>1. game.turnIdx \in Nat
        BY <1>1 DEF GameOK, Game
      <4>2. played.phase = "playing" => played.turnIdx # game.turnIdx
        BY <3>2, <4>1 DEF Advances
      <4> QED
        BY <3>1, <3>4, <4>2 DEF SameGame
    <3>7. SameGame(ApplyPlay(game, CurrentSeat(game), card), g)
      BY <2>3, <3>4 DEF played
    <3>8. ~phantom' => ~phantom /\ card \in game.hands[CurrentSeat(game)]
      BY <2>1, <2>3, <3>6
    <3> HIDE DEF card
    <3> QED
      BY <2>1, <2>2, <2>3, <3>1, <3>5, <3>7, <3>8, MemoryAfterPlay
  <2>4. CASE ~(CurrentSeat(game) = s /\ ~Refused(game, s, card))
    <3>1. GameOK(g) /\ SameGame(game, g)
      <4>1. CASE CurrentSeat(game) = s
        <5>1. played = game
          BY <2>4, <4>1 DEF ApplyPlay
        <5>2. g = [game EXCEPT !.pendingAI = FALSE]
          BY <4>1, <5>1
        <5> HIDE DEF g
        <5> QED
          BY <1>1, <5>2, FlagKeepsGame
      <4>2. CASE CurrentSeat(game) # s
        BY <1>1, <4>2 DEF SameGame
      <4> QED
        BY <4>1, <4>2
    <3> HIDE DEF g
    <3>2. SameGame(g, game')
      BY <1>1, <2>1, <3>1, Committed
    <3>3. SameGame(game, game')
      BY <3>1, <3>2 DEF SameGame
    <3> QED
      BY <1>2, <2>1, <3>3
  <2> QED
    BY <2>3, <2>4
<1>8. CASE PauseOver
  <2> DEFINE next == ResolveRound(game)
             g == [next EXCEPT !.pendingAI = BotsTurn(next)]
  <2>1. game.phase = "result" /\ phantom' = phantom
    BY <1>8 DEF PauseOver, ScreenInv, PauseIsItsOwn
  <2>2. Commit(g, dealing, inFlight, botTimer, pauses - 1, reported, watch, afk)
    BY <1>8, <2>1 DEF PauseOver
  <2>3. GameOK(next) /\ (~phantom => DeckOK(next)) /\ VoidsOK(next)
    BY <1>1, <2>1, ResolvedGameOK, MemoryAfterPause
  <2> HIDE DEF next
  <2>4. GameOK(g) /\ SameGame(next, g)
    <3>1. BotsTurn(next) \in BOOLEAN
      BY DEF BotsTurn
    <3> QED
      BY <2>3, <3>1, FlagKeepsGame
  <2> HIDE DEF g
  <2>5. SameGame(g, game')
    BY <1>1, <2>2, <2>4, Committed
  <2>6. SameGame(next, game')
    BY <2>4, <2>5 DEF SameGame
  <2> QED
    BY <2>1, <2>3, <2>6, MemoryOfSameGame DEF MemoryInv
<1>9. CASE \/ ClickRedeal \/ ConfirmRedeal \/ KeepPlaying
           \/ ClickLobby \/ ConfirmLeave \/ Banner
  <2>1. StartNewGame \/ UNCHANGED <<game, phantom>>
    BY <1>9 DEF ClickRedeal, ConfirmRedeal, KeepPlaying, ClickLobby,
                ConfirmLeave, Banner, OnExit
  <2> QED
    BY <1>3, <1>4, <2>1
<1>10. CASE \/ WatchGame \/ WatchEnds
            \/ AfkWarns \/ AfkPopsUp \/ ImHere \/ AfkEnds \/ UNCHANGED vars
  <2>1. UNCHANGED <<game, phantom>>
    BY <1>10 DEF WatchGame, WatchEnds, AfkWarns, AfkPopsUp, ImHere, AfkEnds,
                 OnExit, vars
  <2> QED
    BY <1>3, <2>1
<1> QED
  BY <1>5, <1>6, <1>7, <1>8, <1>9, <1>10 DEF Next

(* As long as no move of an old deal was played in this one, a suit that a  *)
(* bot takes for exhausted is in no other hand; and whatever is played, a   *)
(* seat taken to be void, because it cut, holds only cards of that suit     *)
(* which came back to it with a pile.                                       *)
THEOREM MemoryErrsByPiles == Spec => []MemoryErrsByPilesOnly
<1>1. ScreenInv /\ MemoryInv => MemoryErrsByPilesOnly
  BY ExhaustedIsGone DEF ScreenInv, MemoryInv, VoidsOK, MemoryErrsByPilesOnly
<1> QED
  BY <1>1, ScreenInvariant, MemoryInvInit, MemoryInvStep, PTL DEF Spec
=============================================================================

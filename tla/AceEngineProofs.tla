--------------------------- MODULE AceEngineProofs --------------------------
(***************************************************************************)
(* Theorems about the rules engine, for every number of seats and every    *)
(* deck that satisfy its assumptions: every card stays in one place and    *)
(* none comes back, the finished seats are those without cards, every seat *)
(* acts once in a trick, the turn can always be taken, who leads, who      *)
(* loses, and that the engine keeps the promise TurnGame states to the     *)
(* room.                                                                   *)
(***************************************************************************)
EXTENDS AceEngine, AceRulesProofs

(* TypeOK alone is not inductive: the seat that leads the next trick is a   *)
(* seat only because the pause began with a winner, and taking a seat out   *)
(* of a list is well behaved only if the list holds it once.                *)
WinnerKnown == phase = "result" => nextLeader \in Seats
ListsOK == NoRepeats(roundOrder) /\ NoRepeats(finished)

TypeInv == TypeOK /\ WinnerKnown /\ ListsOK

-----------------------------------------------------------------------------
(* Whoever wins a trick is a seat.                                          *)
LEMMA HighestIsPlayed ==
  ASSUME NEW played \in SUBSET Played, NEW suit, OfSuit(played, suit) # {}
  PROVE  /\ HighestOf(played, suit) \in OfSuit(played, suit)
         /\ \A q \in OfSuit(played, suit) :
              q.card.rank <= HighestOf(played, suit).card.rank
<1> DEFINE same == OfSuit(played, suit)
           ranks == {p.card.rank : p \in same}
           value == [x \in ranks |-> x]
<1>1. same \subseteq Played
  BY DEF OfSuit
<1>2. ranks \subseteq Ranks /\ ranks \subseteq Int
  BY <1>1, DeckAssumption DEF Played, Card
<1>3. IsFiniteSet(ranks) /\ ranks # {}
  BY <1>2, DeckAssumption, FS_Subset
<1>4. value \in [ranks -> Int]
  BY <1>2
<1>5. PICK x \in ranks : \A y \in ranks : value[y] <= value[x]
  <2> HIDE DEF value, ranks
  <2> QED
    BY <1>3, <1>4, HighestExists
<1>6. \E p \in same : \A q \in same : q.card.rank <= p.card.rank
  BY <1>5
<1> QED
  BY <1>6 DEF HighestOf

LEMMA WinnerIsSeat ==
  ASSUME NEW played \in SUBSET Played, NEW led, leader \in Seats
  PROVE  TrickWinner(played, led) \in Seats
<1>1. CASE OfSuit(played, led) = {}
  BY <1>1 DEF TrickWinner
<1>2. CASE OfSuit(played, led) # {}
  <2>1. HighestOf(played, led) \in OfSuit(played, led)
    BY <1>2, HighestIsPlayed
  <2>2. HighestOf(played, led) \in Played
    BY <2>1 DEF OfSuit
  <2> QED
    BY <1>2, <2>2 DEF TrickWinner, Played
<1> QED
  BY <1>1, <1>2

(* A deal gives every card to one seat.                                     *)
LEMMA DealIsTyped ==
  ASSUME NEW h, Deal(h)
  PROVE  /\ h \in [Seats -> SUBSET Card]
         /\ \A c \in Card : \E s \in Seats : c \in h[s]
         /\ \A s, t \in Seats : s # t => h[s] \cap h[t] = {}
<1>1. PICK owner \in [Card -> Seats] :
        h = [s \in Seats |-> {c \in Card : owner[c] = s}]
  BY DEF Deal
<1> QED
  BY <1>1

(* Settling a trick keeps the types.                                        *)
LEMMA ResolveTrickTyped ==
  ASSUME NEW h \in [Seats -> SUBSET Card], NEW fin \in Seq(Seats),
         NoRepeats(fin), NEW rem, NEW played \in SUBSET Played, NEW led,
         leader \in Seats, ResolveTrick(h, fin, rem, played, led)
  PROVE  /\ hands' \in [Seats -> SUBSET Card]
         /\ finished' \in Seq(Seats) /\ NoRepeats(finished')
         /\ nextLeader' \in Seats
         /\ resultType' \in {"none", "dead", "cut"}
         /\ loser' \in Seats \cup {NoSeat}
         /\ phase' = "result"
<1> DEFINE w == TrickWinner(played, led)
<1>1. w \in Seats
  BY WinnerIsSeat
<1>2. CardsOf(played) \in SUBSET Card
  BY DEF CardsOf, Played
<1> HIDE DEF w
<1>3. hands' \in [Seats -> SUBSET Card]
  <2>1. hands' = IF IsCut(played, led)
                 THEN [h EXCEPT ![w] = @ \cup CardsOf(played)] ELSE h
    BY DEF ResolveTrick, w
  <2> QED
    BY <1>1, <1>2, <2>1
<1>4. finished' \in Seq(Seats) /\ NoRepeats(finished')
  <2>1. finished' = IF IsCut(played, led) THEN RemoveInt(fin, w) ELSE fin
    BY DEF ResolveTrick, FinishedAfterTrick, w
  <2> QED
    BY <2>1, RemoveIntRemoves
<1> QED
  BY <1>1, <1>3, <1>4, LoserIsSeat DEF ResolveTrick, w

-----------------------------------------------------------------------------
LEMMA TypeInvInit == Init => TypeInv
<1> SUFFICES ASSUME Init PROVE TypeInv
  OBVIOUS
<1>1. hands \in [Seats -> SUBSET Card]
  BY DealIsTyped DEF Init
<1>2. leader \in Seats
  <2>1. \E s \in Seats : Opener \in hands[s]
    BY DealIsTyped, DeckAssumption DEF Init
  <2> QED
    BY <2>1 DEF Init, FindStarter
<1>3. roundOrder \in Seq(Seats) /\ NoRepeats(roundOrder)
  BY <1>2, RoundOrderListsSeated DEF Init
<1>4. finished \in Seq(Seats) /\ NoRepeats(finished)
  BY EmptySeq DEF Init, NoRepeats, IsInjective
<1>5. /\ roundCards \in SUBSET Played
      /\ ledSuit \in Suits \cup {NoSuit}
      /\ turnIdx \in Nat
      /\ removed \in SUBSET Seats
      /\ phase \in {"playing", "result", "gameOver"}
      /\ resultType \in {"none", "dead", "cut"}
      /\ nextLeader \in Seats \cup {NoSeat}
      /\ loser \in Seats \cup {NoSeat}
      /\ WinnerKnown
  BY DEF Init, WinnerKnown
<1> QED
  BY <1>1, <1>2, <1>3, <1>4, <1>5 DEF TypeInv, TypeOK, ListsOK

(* A legal play keeps the types of what it touches before the trick ends.   *)
LEMMA PlayTyped ==
  ASSUME TypeInv, NEW seat \in Seats, NEW card \in hands[seat]
  PROVE  /\ card \in Card
         /\ HandsAfter(seat, card) \in [Seats -> SUBSET Card]
         /\ TableAfter(seat, card) \in SUBSET Played
         /\ LedAfter(card) \in Suits
         /\ FinishedAfter(seat, card) \in Seq(Seats)
         /\ NoRepeats(FinishedAfter(seat, card))
<1>1. card \in Card /\ card.suit \in Suits
  BY DEF TypeInv, TypeOK, Card
<1>2. HandsAfter(seat, card) \in [Seats -> SUBSET Card]
  BY DEF TypeInv, TypeOK, HandsAfter
<1>3. TableAfter(seat, card) \in SUBSET Played
  BY <1>1 DEF TypeInv, TypeOK, TableAfter, Played
<1>4. LedAfter(card) \in Suits
  BY <1>1 DEF TypeInv, TypeOK, LedAfter
<1>5. /\ FinishedAfter(seat, card) \in Seq(Seats)
      /\ NoRepeats(FinishedAfter(seat, card))
  <2>1. finished \in Seq(Seats) /\ NoRepeats(finished)
    BY DEF TypeInv, TypeOK, ListsOK
  <2>2. ASSUME seat \notin Range(finished)
        PROVE  /\ Append(finished, seat) \in Seq(Seats)
               /\ NoRepeats(Append(finished, seat))
    BY <2>1, <2>2, AppendKeepsDistinct
  <2> QED
    BY <2>1, <2>2 DEF FinishedAfter
<1> QED
  BY <1>1, <1>2, <1>3, <1>4, <1>5

(* A seat that drops out leaves a list and an index of the same types.      *)
LEMMA ForfeitTyped ==
  ASSUME TypeInv, NEW seat \in Seats
  PROVE  /\ OrderWithout(seat) \in Seq(Seats)
         /\ NoRepeats(OrderWithout(seat))
         /\ TurnIdxWithout(seat) \in Nat
         /\ [hands EXCEPT ![seat] = {}] \in [Seats -> SUBSET Card]
<1>1. roundOrder \in Seq(Seats) /\ NoRepeats(roundOrder) /\ turnIdx \in Nat
  BY DEF TypeInv, TypeOK, ListsOK
<1>2. OrderWithout(seat) \in Seq(Seats) /\ NoRepeats(OrderWithout(seat))
  BY <1>1, RemoveIntRemoves DEF OrderWithout
<1>3. TurnIdxWithout(seat) \in Nat
  <2>1. IsListed(seat) => IndexInOrder(seat) \in Nat
    BY <1>1, RemoveIntRemoves, LenProperties DEF IsListed, IndexInOrder
  <2> QED
    BY <1>1, <2>1 DEF TurnIdxWithout
<1> QED
  BY <1>2, <1>3 DEF TypeInv, TypeOK

LEMMA TypeInvStep == TypeInv /\ [Next]_vars => TypeInv'
<1> SUFFICES ASSUME TypeInv, [Next]_vars PROVE TypeInv'
  OBVIOUS
<1> USE DEF TypeInv, TypeOK, WinnerKnown, ListsOK
<1>1. ASSUME NEW seat \in Seats, NEW card \in hands[seat], PlayOn(seat, card)
      PROVE  TypeInv'
  BY <1>1, PlayTyped DEF PlayOn
<1>2. ASSUME NEW seat \in Seats, NEW card \in hands[seat], PlayLast(seat, card)
      PROVE  TypeInv'
  <2>1. /\ roundCards' = TableAfter(seat, card)
        /\ ledSuit' = LedAfter(card)
        /\ ResolveTrick(HandsAfter(seat, card), FinishedAfter(seat, card),
                        removed, TableAfter(seat, card), LedAfter(card))
        /\ UNCHANGED <<leader, roundOrder, turnIdx, removed>>
    BY <1>2 DEF PlayLast
  <2>2. /\ HandsAfter(seat, card) \in [Seats -> SUBSET Card]
        /\ TableAfter(seat, card) \in SUBSET Played
        /\ LedAfter(card) \in Suits
        /\ FinishedAfter(seat, card) \in Seq(Seats)
        /\ NoRepeats(FinishedAfter(seat, card))
    BY PlayTyped
  <2>3. /\ hands' \in [Seats -> SUBSET Card]
        /\ finished' \in Seq(Seats) /\ NoRepeats(finished')
        /\ nextLeader' \in Seats
        /\ resultType' \in {"none", "dead", "cut"}
        /\ loser' \in Seats \cup {NoSeat}
        /\ phase' = "result"
    BY <2>1, <2>2, ResolveTrickTyped
  <2> QED
    BY <2>1, <2>2, <2>3
<1>3. ASSUME NEW seat \in Seats, ForfeitSettles(seat)
      PROVE  TypeInv'
  <2>1. /\ removed' = removed \cup {seat}
        /\ roundOrder' = OrderWithout(seat)
        /\ turnIdx' = TurnIdxWithout(seat)
        /\ ResolveTrick([hands EXCEPT ![seat] = {}], finished, removed',
                        roundCards, ledSuit)
        /\ UNCHANGED <<roundCards, ledSuit, leader>>
    BY <1>3 DEF ForfeitSettles
  <2>2. /\ hands' \in [Seats -> SUBSET Card]
        /\ finished' \in Seq(Seats) /\ NoRepeats(finished')
        /\ nextLeader' \in Seats
        /\ resultType' \in {"none", "dead", "cut"}
        /\ loser' \in Seats \cup {NoSeat}
        /\ phase' = "result"
    BY <2>1, ForfeitTyped, ResolveTrickTyped
  <2> QED
    BY <2>1, <2>2, ForfeitTyped
<1>4. ASSUME NEW seat \in Seats, ForfeitEnds(seat)
      PROVE  TypeInv'
  BY <1>4, ForfeitTyped, LoserIsSeat DEF ForfeitEnds
<1>5. ASSUME NEW seat \in Seats, ForfeitGoesOn(seat)
      PROVE  TypeInv'
  BY <1>5, ForfeitTyped DEF ForfeitGoesOn
<1>6. ASSUME ResolveRoundEnds
      PROVE  TypeInv'
  BY <1>6, LoserIsSeat DEF ResolveRoundEnds
<1>7. ASSUME ResolveRoundLeads
      PROVE  TypeInv'
  <2>1. nextLeader \in Seats
    BY <1>7 DEF ResolveRoundLeads
  <2>2. roundOrder' \in Seq(Seats) /\ NoRepeats(roundOrder')
    BY <1>7, <2>1, RoundOrderListsSeated DEF ResolveRoundLeads
  <2> QED
    BY <1>7, <2>1, <2>2 DEF ResolveRoundLeads
<1>8. ASSUME UNCHANGED vars
      PROVE  TypeInv'
  BY <1>8 DEF vars
<1> QED
  BY <1>1, <1>2, <1>3, <1>4, <1>5, <1>6, <1>7, <1>8 DEF Next

LEMMA TypeInvariant == Spec => []TypeInv
  BY TypeInvInit, TypeInvStep, PTL DEF Spec

(* TypeOK: whatever is played and whoever drops out, every variable of the  *)
(* engine keeps its type; in particular TurnIdx never becomes negative and  *)
(* the taker of a pile and the loser are seats of the table.                *)
THEOREM TypeCorrect == Spec => []TypeOK
<1>1. TypeInv => TypeOK
  BY DEF TypeInv
<1> QED
  BY <1>1, TypeInvariant, PTL

-----------------------------------------------------------------------------
(* No card is in two places.                                                *)

(* The taker of a pile that nobody holds shares no card with another seat.  *)
LEMMA PileKeepsHandsApart ==
  ASSUME NEW h \in [Seats -> SUBSET Card], NEW fin, NEW rem,
         NEW played \in SUBSET Played, NEW led, leader \in Seats,
         \A s, t \in Seats : s # t => h[s] \cap h[t] = {},
         \A s \in Seats : h[s] \cap CardsOf(played) = {},
         ResolveTrick(h, fin, rem, played, led)
  PROVE  \A s, t \in Seats : s # t => hands'[s] \cap hands'[t] = {}
<1> DEFINE w == TrickWinner(played, led)
<1>1. w \in Seats
  BY WinnerIsSeat
<1>2. hands' = IF IsCut(played, led)
               THEN [h EXCEPT ![w] = @ \cup CardsOf(played)] ELSE h
  BY DEF ResolveTrick
<1> HIDE DEF w
<1> QED
  BY <1>1, <1>2

(* A card that is played leaves its hand for the table.                     *)
LEMMA PlayedCardMoves ==
  ASSUME TypeInv, CardsInOnePlace, phase = "playing",
         NEW seat \in Seats, NEW card \in hands[seat]
  PROVE  LET h == HandsAfter(seat, card)
             table == TableAfter(seat, card)
         IN  /\ \A s, t \in Seats : s # t => h[s] \cap h[t] = {}
             /\ \A s \in Seats : h[s] \cap CardsOf(table) = {}
             /\ \A p, q \in table : p.card = q.card => p = q
<1> DEFINE h == HandsAfter(seat, card)
           table == TableAfter(seat, card)
           new == [player |-> seat, card |-> card]
<1>1. /\ hands \in [Seats -> SUBSET Card]
      /\ roundCards \in SUBSET Played
      /\ \A s, t \in Seats : s # t => hands[s] \cap hands[t] = {}
      /\ \A s \in Seats : hands[s] \cap CardsOf(roundCards) = {}
      /\ \A p, q \in roundCards : p.card = q.card => p = q
  BY DEF TypeInv, TypeOK, CardsInOnePlace, Held
<1>2. \A s \in Seats : h[s] = IF s = seat THEN hands[s] \ {card} ELSE hands[s]
  BY <1>1 DEF HandsAfter
<1>3. \A c \in CardsOf(table) : c \in CardsOf(roundCards) \/ c = card
  <2>1. table = roundCards \cup {new} /\ new.card = card
    BY DEF TableAfter
  <2> HIDE DEF table, new
  <2> QED
    BY <2>1 DEF CardsOf
<1>4. \A p, q \in table : p.card = q.card => p = q
  <2>1. table = roundCards \cup {new} /\ new.card = card
    BY DEF TableAfter
  <2>2. card \notin CardsOf(roundCards)
    BY <1>1
  <2>3. \A p \in roundCards : p.card # card
    BY <2>2 DEF CardsOf
  <2> QED
    BY <1>1, <2>1, <2>3
<1> HIDE DEF h, table
<1>5. \A s, t \in Seats : s # t => h[s] \cap h[t] = {}
  BY <1>1, <1>2
<1>6. \A s \in Seats : h[s] \cap CardsOf(table) = {}
  <2>1. ASSUME NEW s \in Seats, NEW c \in h[s], c \in CardsOf(table)
        PROVE  FALSE
    <3>1. c \in hands[s] /\ c # card
      BY <1>1, <1>2
    <3> QED
      BY <1>1, <1>3, <2>1, <3>1
  <2> QED
    BY <2>1
<1> QED
  BY <1>4, <1>5, <1>6 DEF h, table

LEMMA CardsInOnePlaceInit == Init => CardsInOnePlace
  BY DealIsTyped DEF Init, CardsInOnePlace, CardsOf

LEMMA CardsInOnePlaceStep ==
  TypeInv /\ CardsInOnePlace /\ [Next]_vars => CardsInOnePlace'
<1> SUFFICES ASSUME TypeInv, CardsInOnePlace, [Next]_vars
             PROVE  CardsInOnePlace'
  OBVIOUS
<1>1. /\ hands \in [Seats -> SUBSET Card]
      /\ roundCards \in SUBSET Played
      /\ leader \in Seats
      /\ \A s, t \in Seats : s # t => hands[s] \cap hands[t] = {}
      /\ phase = "playing" =>
           /\ \A s \in Seats : hands[s] \cap CardsOf(roundCards) = {}
           /\ \A p, q \in roundCards : p.card = q.card => p = q
  BY DEF TypeInv, TypeOK, CardsInOnePlace, Held
<1>2. ASSUME NEW seat \in Seats, NEW card \in hands[seat], PlayOn(seat, card)
      PROVE  CardsInOnePlace'
  <2>1. hands' = HandsAfter(seat, card) /\ roundCards' = TableAfter(seat, card)
    BY <1>2 DEF PlayOn
  <2>2. phase = "playing"
    BY <1>2 DEF PlayOn, Legal
  <2>3. /\ \A s, t \in Seats : s # t => hands'[s] \cap hands'[t] = {}
        /\ \A s \in Seats : hands'[s] \cap CardsOf(roundCards') = {}
        /\ \A p, q \in roundCards' : p.card = q.card => p = q
    BY <2>1, <2>2, PlayedCardMoves
  <2> QED
    BY <2>3 DEF CardsInOnePlace, Held, CardsOf
<1>3. ASSUME NEW seat \in Seats, NEW card \in hands[seat], PlayLast(seat, card)
      PROVE  CardsInOnePlace'
  <2>1. ResolveTrick(HandsAfter(seat, card), FinishedAfter(seat, card), removed,
                     TableAfter(seat, card), LedAfter(card))
    BY <1>3 DEF PlayLast
  <2>2. phase = "playing"
    BY <1>3 DEF PlayLast, Legal
  <2>3. /\ HandsAfter(seat, card) \in [Seats -> SUBSET Card]
        /\ TableAfter(seat, card) \in SUBSET Played
    BY PlayTyped
  <2>4. \A s, t \in Seats : s # t => hands'[s] \cap hands'[t] = {}
    BY <1>1, <2>1, <2>2, <2>3, PlayedCardMoves, PileKeepsHandsApart
  <2>5. phase' = "result"
    BY <2>1 DEF ResolveTrick
  <2> QED
    BY <2>4, <2>5 DEF CardsInOnePlace
<1>4. ASSUME NEW seat \in Seats, ForfeitSettles(seat)
      PROVE  CardsInOnePlace'
  <2> DEFINE h == [hands EXCEPT ![seat] = {}]
  <2>1. ResolveTrick(h, finished, removed', roundCards, ledSuit)
    BY <1>4 DEF ForfeitSettles
  <2>2. phase = "playing"
    BY <1>4 DEF ForfeitSettles, LeaverSettles
  <2>3. /\ h \in [Seats -> SUBSET Card]
        /\ \A s, t \in Seats : s # t => h[s] \cap h[t] = {}
        /\ \A s \in Seats : h[s] \cap CardsOf(roundCards) = {}
    BY <1>1, <2>2
  <2>4. phase' = "result"
    BY <2>1 DEF ResolveTrick
  <2> HIDE DEF h
  <2>5. \A s, t \in Seats : s # t => hands'[s] \cap hands'[t] = {}
    BY <1>1, <2>1, <2>3, PileKeepsHandsApart
  <2> QED
    BY <2>4, <2>5 DEF CardsInOnePlace
<1>5. ASSUME NEW seat \in Seats, ForfeitEnds(seat)
      PROVE  CardsInOnePlace'
  BY <1>1, <1>5 DEF ForfeitEnds, CardsInOnePlace
<1>6. ASSUME NEW seat \in Seats, ForfeitGoesOn(seat)
      PROVE  CardsInOnePlace'
  <2>1. /\ hands' = [hands EXCEPT ![seat] = {}]
        /\ UNCHANGED <<roundCards, phase>>
    BY <1>6 DEF ForfeitGoesOn
  <2>2. /\ \A s, t \in Seats : s # t => hands'[s] \cap hands'[t] = {}
        /\ phase = "playing" =>
             \A s \in Seats : hands'[s] \cap CardsOf(roundCards) = {}
    BY <1>1, <2>1
  <2> QED
    BY <1>1, <2>1, <2>2 DEF CardsInOnePlace, Held, CardsOf
<1>7. ASSUME ResolveRoundEnds
      PROVE  CardsInOnePlace'
  BY <1>1, <1>7 DEF ResolveRoundEnds, CardsInOnePlace
<1>8. ASSUME ResolveRoundLeads
      PROVE  CardsInOnePlace'
  BY <1>1, <1>8 DEF ResolveRoundLeads, CardsInOnePlace, CardsOf
<1>9. ASSUME UNCHANGED vars
      PROVE  CardsInOnePlace'
  BY <1>9 DEF vars, CardsInOnePlace, Held, CardsOf
<1> QED
  BY <1>2, <1>3, <1>4, <1>5, <1>6, <1>7, <1>8, <1>9 DEF Next

(* CardsInOnePlace: no card is ever in two hands, in a hand and on the      *)
(* table, or on the table twice, for every deck, every number of seats and  *)
(* every order of plays, piles taken and seats forfeited.                   *)
THEOREM CardsStayInOnePlace == Spec => []CardsInOnePlace
  BY TypeInvInit, TypeInvStep, CardsInOnePlaceInit, CardsInOnePlaceStep, PTL
  DEF Spec

-----------------------------------------------------------------------------
(* The deck is finite, and a deal leaves no hand empty.                     *)
LEMMA DeckIsFinite == IsFiniteSet(Card) /\ Cardinality(Card) \in Nat
<1> DEFINE pair == [c \in Card |-> <<c.suit, c.rank>>]
<1>1. pair \in Injection(Card, Suits \X Ranks)
  BY DEF Card, Injection, IsInjective
<1>2. IsFiniteSet(Suits \X Ranks)
  BY DeckAssumption, FS_Product
<1> HIDE DEF pair
<1> QED
  BY <1>1, <1>2, FS_Injection, FS_CardinalityType

LEMMA DivIsPositive ==
  ASSUME NEW n \in Nat, n > 0, NEW a \in Int, a >= n
  PROVE  a \div n >= 1
OBVIOUS

LEMMA DealFillsHands ==
  ASSUME NEW h, Deal(h), NEW s \in Seats
  PROVE  h[s] # {}
<1>1. PICK owner \in [Card -> Seats] :
        /\ \A t \in Seats : Cardinality({c \in Card : owner[c] = t}) = DealtTo(t)
        /\ h = [t \in Seats |-> {c \in Card : owner[c] = t}]
  BY DEF Deal
<1>2. DealtTo(s) >= 1
  <2> DEFINE a == Cardinality(Card) - s + N - 1
  <2>1. N \in Nat /\ N > 0 /\ a \in Int /\ a >= N
    BY SeatsAssumption, DeckAssumption, DeckIsFinite DEF Seats
  <2>2. DealtTo(s) = a \div N
    BY DEF DealtTo
  <2> HIDE DEF a
  <2> QED
    BY <2>1, <2>2, DivIsPositive
<1>3. Cardinality(h[s]) = DealtTo(s)
  BY <1>1
<1> QED
  BY <1>2, <1>3, FS_EmptySet

-----------------------------------------------------------------------------
(* The finished seats are those without cards.                              *)

(* The seats listed in fin are, apart from those of rem, the seats whose    *)
(* hand in h is empty.                                                      *)
ListsEmptyHands(fin, rem, h) ==
  \A s \in Seats \ rem : s \in Range(fin) <=> h[s] = {}

LEMMA PlayListsEmptyHands ==
  ASSUME TypeInv, FinishedAreEmptyHanded,
         NEW seat \in Seats, NEW card \in hands[seat]
  PROVE  ListsEmptyHands(FinishedAfter(seat, card), removed,
                         HandsAfter(seat, card))
<1>1. /\ hands \in [Seats -> SUBSET Card]
      /\ finished \in Seq(Seats) /\ NoRepeats(finished)
      /\ \A s \in Seats \ removed : s \in Range(finished) <=> hands[s] = {}
  BY DEF TypeInv, TypeOK, ListsOK, FinishedAreEmptyHanded
<1>2. \A s \in Seats :
        HandsAfter(seat, card)[s] =
          IF s = seat THEN hands[s] \ {card} ELSE hands[s]
  BY <1>1 DEF HandsAfter
<1>3. \A s : s \in Range(FinishedAfter(seat, card))
              <=> s \in Range(finished) \/ (s = seat /\ hands[seat] = {card})
  <2>1. CASE hands[seat] = {card} /\ seat \notin Range(finished)
    <3>1. Range(Append(finished, seat)) = Range(finished) \cup {seat}
      BY <1>1, <2>1, AppendKeepsDistinct
    <3>2. FinishedAfter(seat, card) = Append(finished, seat)
      BY <2>1 DEF FinishedAfter
    <3> QED
      BY <2>1, <3>1, <3>2
  <2>2. CASE ~(hands[seat] = {card} /\ seat \notin Range(finished))
    <3>1. FinishedAfter(seat, card) = finished
      BY <2>2 DEF FinishedAfter
    <3> QED
      BY <2>2, <3>1
  <2> QED
    BY <2>1, <2>2
<1>4. ASSUME NEW s \in Seats \ removed
      PROVE  s \in Range(FinishedAfter(seat, card))
               <=> HandsAfter(seat, card)[s] = {}
  <2>1. CASE s = seat
    <3>1. HandsAfter(seat, card)[s] = {} <=> hands[seat] = {card}
      BY <1>2, <2>1
    <3>2. s \notin Range(finished)
      BY <1>1, <2>1
    <3> QED
      BY <1>3, <2>1, <3>1, <3>2
  <2>2. CASE s # seat
    BY <1>1, <1>2, <1>3, <2>2
  <2> QED
    BY <2>1, <2>2
<1> QED
  BY <1>4 DEF ListsEmptyHands

LEMMA SettleListsEmptyHands ==
  ASSUME NEW h \in [Seats -> SUBSET Card], NEW fin \in Seq(Seats),
         NoRepeats(fin), NEW rem, ListsEmptyHands(fin, rem, h),
         NEW played \in SUBSET Played, played # {}, NEW led, leader \in Seats,
         NEW by, ResolveTrick(h, fin, by, played, led)
  PROVE  ListsEmptyHands(finished', rem, hands')
<1> DEFINE w == TrickWinner(played, led)
<1>1. w \in Seats
  BY WinnerIsSeat
<1>2. /\ hands' = IF IsCut(played, led)
                  THEN [h EXCEPT ![w] = @ \cup CardsOf(played)] ELSE h
      /\ finished' = IF IsCut(played, led) THEN RemoveInt(fin, w) ELSE fin
  BY DEF ResolveTrick, FinishedAfterTrick
<1>3. CardsOf(played) # {}
  BY DEF CardsOf
<1>4. Range(RemoveInt(fin, w)) = Range(fin) \ {w}
  BY RemoveIntRemoves
<1> HIDE DEF w
<1> QED
  BY <1>1, <1>2, <1>3, <1>4 DEF ListsEmptyHands

LEMMA FinishedInit == Init => FinishedAreEmptyHanded
<1> SUFFICES ASSUME Init PROVE FinishedAreEmptyHanded
  OBVIOUS
<1>1. \A s \in Seats : hands[s] # {}
  BY DealFillsHands DEF Init
<1>2. finished = <<>> /\ Range(finished) = {}
  BY DEF Init, Range
<1> QED
  BY <1>1, <1>2 DEF FinishedAreEmptyHanded, NoRepeats, IsInjective

LEMMA FinishedStep ==
  TypeInv /\ TypeInv' /\ FinishedAreEmptyHanded /\ [Next]_vars
    => FinishedAreEmptyHanded'
<1> SUFFICES ASSUME TypeInv, TypeInv', FinishedAreEmptyHanded, [Next]_vars
             PROVE  ListsEmptyHands(finished', removed', hands')
  BY DEF FinishedAreEmptyHanded, ListsEmptyHands, TypeInv, ListsOK
<1>1. /\ hands \in [Seats -> SUBSET Card]
      /\ roundCards \in SUBSET Played
      /\ finished \in Seq(Seats) /\ NoRepeats(finished)
      /\ leader \in Seats
      /\ ListsEmptyHands(finished, removed, hands)
  BY DEF TypeInv, TypeOK, ListsOK, FinishedAreEmptyHanded, ListsEmptyHands
<1>2. ASSUME NEW seat \in Seats
      PROVE  ListsEmptyHands(finished, removed \cup {seat},
                             [hands EXCEPT ![seat] = {}])
  BY <1>1 DEF ListsEmptyHands
<1>3. ASSUME NEW seat \in Seats, NEW card \in hands[seat], PlayOn(seat, card)
      PROVE  ListsEmptyHands(finished', removed', hands')
  BY <1>3, PlayListsEmptyHands DEF PlayOn
<1>4. ASSUME NEW seat \in Seats, NEW card \in hands[seat], PlayLast(seat, card)
      PROVE  ListsEmptyHands(finished', removed', hands')
  <2>1. /\ ResolveTrick(HandsAfter(seat, card), FinishedAfter(seat, card),
                        removed, TableAfter(seat, card), LedAfter(card))
        /\ removed' = removed
    BY <1>4 DEF PlayLast
  <2>2. TableAfter(seat, card) # {}
    BY DEF TableAfter
  <2>3. ListsEmptyHands(FinishedAfter(seat, card), removed,
                        HandsAfter(seat, card))
    BY PlayListsEmptyHands
  <2>4. /\ HandsAfter(seat, card) \in [Seats -> SUBSET Card]
        /\ TableAfter(seat, card) \in SUBSET Played
        /\ FinishedAfter(seat, card) \in Seq(Seats)
        /\ NoRepeats(FinishedAfter(seat, card))
    BY PlayTyped
  <2>5. ListsEmptyHands(finished', removed, hands')
    BY <1>1, <2>1, <2>2, <2>3, <2>4, SettleListsEmptyHands
  <2> QED
    BY <2>1, <2>5
<1>5. ASSUME NEW seat \in Seats, ForfeitSettles(seat)
      PROVE  ListsEmptyHands(finished', removed', hands')
  <2>1. /\ ResolveTrick([hands EXCEPT ![seat] = {}], finished, removed',
                        roundCards, ledSuit)
        /\ roundCards # {}
        /\ removed' = removed \cup {seat}
    BY <1>5 DEF ForfeitSettles, LeaverSettles
  <2>2. [hands EXCEPT ![seat] = {}] \in [Seats -> SUBSET Card]
    BY <1>1
  <2>3. ListsEmptyHands(finished', removed \cup {seat}, hands')
    BY <1>1, <1>2, <2>1, <2>2, SettleListsEmptyHands
  <2> QED
    BY <2>1, <2>3
<1>6. ASSUME NEW seat \in Seats, ForfeitEnds(seat) \/ ForfeitGoesOn(seat)
      PROVE  ListsEmptyHands(finished', removed', hands')
  BY <1>2, <1>6 DEF ForfeitEnds, ForfeitGoesOn
<1>7. ASSUME ResolveRoundEnds \/ ResolveRoundLeads
      PROVE  ListsEmptyHands(finished', removed', hands')
  BY <1>1, <1>7 DEF ResolveRoundEnds, ResolveRoundLeads
<1>8. ASSUME UNCHANGED vars
      PROVE  ListsEmptyHands(finished', removed', hands')
  BY <1>1, <1>8 DEF vars
<1> QED
  BY <1>3, <1>4, <1>5, <1>6, <1>7, <1>8 DEF Next

(* FinishedAreEmptyHanded: at every moment the list of finished seats holds *)
(* no seat twice and, removed seats aside, exactly the seats without cards: *)
(* a seat that has to take a pile is always struck from the list again.     *)
THEOREM FinishedSeatsHoldNoCards == Spec => []FinishedAreEmptyHanded
  BY TypeInvInit, TypeInvStep, FinishedInit, FinishedStep, PTL DEF Spec

-----------------------------------------------------------------------------
(* Turns.                                                                   *)

(* What is left of a list behind its first k places.                        *)
Rest(xs, k) == {xs[j] : j \in k + 1 .. Len(xs)}

(* A seat taken out of a list leaves the rest of the list as it was, if the *)
(* index moves along whenever the seat stood before it.                     *)
LEMMA RestAfterRemoval ==
  ASSUME NEW S, NEW xs \in Seq(S), NoRepeats(xs), NEW k \in Nat,
         NEW v \in Range(xs)
  PROVE  Rest(RemoveInt(xs, v), IF IndexOf(xs, v) <= k THEN k - 1 ELSE k)
           = Rest(xs, k) \ {v}
<1> DEFINE i == IndexOf(xs, v)
           ys == RemoveInt(xs, v)
           m == IF i <= k THEN k - 1 ELSE k
<1>1. /\ Len(xs) \in Nat /\ DOMAIN xs = 1 .. Len(xs)
      /\ \A p, q \in 1 .. Len(xs) : xs[p] = xs[q] => p = q
  BY LenProperties DEF NoRepeats, IsInjective
<1>2. /\ i \in 1 .. Len(xs) /\ xs[i] = v
      /\ Len(ys) = Len(xs) - 1
      /\ \A j \in 1 .. Len(xs) - 1 :
           ys[j] = IF j < i THEN xs[j] ELSE xs[j + 1]
  BY RemoveIntRemoves
<1> HIDE DEF i, ys
<1>3. ASSUME NEW j \in m + 1 .. Len(xs) - 1
      PROVE  ys[j] \in Rest(xs, k) \ {v}
  <2> DEFINE J == IF j < i THEN j ELSE j + 1
  <2>1. J \in k + 1 .. Len(xs) /\ J \in 1 .. Len(xs) /\ J # i
    BY <1>1, <1>2
  <2>2. ys[j] = xs[J]
    BY <1>1, <1>2
  <2>3. xs[J] # v
    BY <1>1, <1>2, <2>1
  <2> QED
    BY <2>1, <2>2, <2>3 DEF Rest
<1>4. ASSUME NEW j \in k + 1 .. Len(xs), xs[j] # v
      PROVE  xs[j] \in Rest(ys, m)
  <2> DEFINE J == IF j < i THEN j ELSE j - 1
  <2>1. j # i
    BY <1>2, <1>4
  <2>2. /\ J \in m + 1 .. Len(xs) - 1 /\ J \in 1 .. Len(xs) - 1
        /\ (IF J < i THEN J ELSE J + 1) = j
    BY <1>1, <1>2, <2>1
  <2>3. ys[J] = xs[j]
    BY <1>2, <2>2
  <2> QED
    BY <1>2, <2>2, <2>3 DEF Rest
<1>5. Rest(ys, m) \subseteq Rest(xs, k) \ {v}
  BY <1>2, <1>3 DEF Rest
<1>6. Rest(xs, k) \ {v} \subseteq Rest(ys, m)
  BY <1>4 DEF Rest
<1> QED
  BY <1>5, <1>6 DEF i, ys

(* Taking a seat out shifts the places after its own.                       *)
LEMMA PlacesAfterRemoval ==
  ASSUME NEW S, NEW xs \in Seq(S), NoRepeats(xs), NEW v \in Range(xs)
  PROVE  /\ IndexOf(xs, v) \in 1 .. Len(xs) /\ xs[IndexOf(xs, v)] = v
         /\ Len(RemoveInt(xs, v)) = Len(xs) - 1
         /\ \A j \in 1 .. Len(xs) - 1 :
              RemoveInt(xs, v)[j] =
                IF j < IndexOf(xs, v) THEN xs[j] ELSE xs[j + 1]
BY RemoveIntRemoves

(* A round order that has just been built is still to act from end to end.  *)
LEMMA RestOfNewOrder ==
  ASSUME NEW S, NEW xs \in Seq(S)
  PROVE  Rest(xs, 0) = Range(xs)
  BY LenProperties DEF Rest, Range

(* The strengthening that makes EverySeatActsOnce inductive: the index      *)
(* points into the order, and to its first place while the table is empty;  *)
(* only this justifies the reset of TurnIdx to 0 in Forfeit.                *)
IndexOK ==
  phase = "playing" =>
    /\ turnIdx < Len(roundOrder)
    /\ roundCards = {} => turnIdx = 0

TurnInv == EverySeatActsOnce /\ IndexOK

LEMMA TurnInit == Init /\ TypeInv => TurnInv
<1> SUFFICES ASSUME Init, TypeInv PROVE TurnInv
  OBVIOUS
<1>1. roundOrder = GetRoundOrder(leader, {}) /\ leader \in Seats
  BY DEF Init, TypeInv, TypeOK
<1>2. /\ roundOrder \in Seq(Seats) /\ NoRepeats(roundOrder)
      /\ Range(roundOrder) = Seats \ {}
      /\ Len(roundOrder) = Cardinality(Seats \ {})
  BY <1>1, RoundOrderListsSeated
<1>3. Len(roundOrder) = N
  <2>1. Seats \ {} = Seats
    OBVIOUS
  <2> QED
    BY <1>2, <2>1, SeatsAssumption, FS_Interval DEF Seats
<1>4. turnIdx = 0 /\ roundCards = {} /\ Active = Seats
  BY DEF Init, Active, ActiveSeats, Range
<1>5. ToAct = Seats
  BY <1>2, <1>4, RestOfNewOrder DEF ToAct, Rest
<1>6. PlayersOf(roundCards) = {}
  BY <1>4 DEF PlayersOf
<1> QED
  BY <1>2, <1>3, <1>4, <1>5, <1>6, SeatsAssumption
  DEF TurnInv, EverySeatActsOnce, IndexOK

LEMMA TurnStep ==
  TypeInv /\ TypeInv' /\ TurnInv /\ [Next]_vars => TurnInv'
<1> SUFFICES ASSUME TypeInv, TypeInv', TurnInv, [Next]_vars, phase' = "playing"
             PROVE  /\ ToAct' \subseteq Active'
                    /\ Active' \subseteq ToAct' \cup PlayersOf(roundCards')
                    /\ ToAct' \cap PlayersOf(roundCards') = {}
                    /\ turnIdx' < Len(roundOrder')
                    /\ roundCards' = {} => turnIdx' = 0
  BY DEF TurnInv, EverySeatActsOnce, IndexOK, TypeInv, ListsOK, PlayersOf
<1> DEFINE Goal == /\ ToAct' \subseteq Active'
                   /\ Active' \subseteq ToAct' \cup PlayersOf(roundCards')
                   /\ ToAct' \cap PlayersOf(roundCards') = {}
                   /\ turnIdx' < Len(roundOrder')
                   /\ roundCards' = {} => turnIdx' = 0
<1>1. /\ roundOrder \in Seq(Seats) /\ NoRepeats(roundOrder)
      /\ Len(roundOrder) \in Nat /\ turnIdx \in Nat
      /\ \A p, q \in 1 .. Len(roundOrder) : roundOrder[p] = roundOrder[q] => p = q
      /\ finished \in Seq(Seats) /\ NoRepeats(finished)
  BY LenProperties DEF TypeInv, TypeOK, ListsOK, NoRepeats, IsInjective
<1>2. ASSUME phase = "playing"
      PROVE  /\ ToAct \subseteq Active
             /\ Active \subseteq ToAct \cup PlayersOf(roundCards)
             /\ ToAct \cap PlayersOf(roundCards) = {}
             /\ turnIdx < Len(roundOrder)
             /\ roundCards = {} => turnIdx = 0
  BY <1>2 DEF TurnInv, EverySeatActsOnce, IndexOK
<1>3. ASSUME NEW seat \in Seats, NEW card \in hands[seat], PlayOn(seat, card)
      PROVE  Goal
  <2>1. /\ phase = "playing"
        /\ seat = roundOrder[turnIdx + 1]
        /\ turnIdx # Len(roundOrder) - 1
        /\ roundCards' = TableAfter(seat, card)
        /\ finished' = FinishedAfter(seat, card)
        /\ turnIdx' = turnIdx + 1
        /\ UNCHANGED <<roundOrder, removed>>
    BY <1>1, <1>2, <1>3 DEF PlayOn, Legal, CurrentSeat, EndsTrick
  <2>2. turnIdx' < Len(roundOrder')
    BY <1>1, <1>2, <2>1
  <2>3. roundCards' # {} /\ PlayersOf(roundCards') = PlayersOf(roundCards) \cup {seat}
    <3> DEFINE new == [player |-> seat, card |-> card]
    <3>1. roundCards' = roundCards \cup {new} /\ new.player = seat
      BY <2>1 DEF TableAfter
    <3> HIDE DEF new
    <3> QED
      BY <3>1 DEF PlayersOf
  <2>4. ToAct' = ToAct \ {seat}
    BY <1>1, <1>2, <2>1 DEF ToAct
  <2>5. Range(finished') \in {Range(finished), Range(finished) \cup {seat}}
    BY <1>1, <2>1, AppendKeepsDistinct DEF FinishedAfter
  <2>6. Active' \subseteq Active /\ Active \ {seat} \subseteq Active'
    BY <2>1, <2>5 DEF Active, ActiveSeats
  <2> QED
    BY <1>2, <2>1, <2>2, <2>3, <2>4, <2>6
<1>4. ASSUME NEW seat \in Seats, ForfeitGoesOn(seat)
      PROVE  Goal
  <2>1. /\ phase = "playing"
        /\ ~LeaverSettles(seat) /\ ~Decided(Active \ {seat})
        /\ removed' = removed \cup {seat}
        /\ roundOrder' = OrderWithout(seat)
        /\ turnIdx' = IF TurnIdxWithout(seat) >= Len(OrderWithout(seat))
                      THEN 0 ELSE TurnIdxWithout(seat)
        /\ UNCHANGED <<roundCards, finished>>
    BY <1>4 DEF ForfeitGoesOn
  <2>2. Active' = Active \ {seat}
    BY <2>1 DEF Active, ActiveSeats
  <2>3. PlayersOf(roundCards') = PlayersOf(roundCards)
    BY <2>1
  <2>4. /\ Rest(OrderWithout(seat), TurnIdxWithout(seat)) = ToAct \ {seat}
        /\ TurnIdxWithout(seat) < Len(OrderWithout(seat))
        /\ turnIdx = 0 => TurnIdxWithout(seat) = 0
    <3>1. CASE ~IsListed(seat)
      <4>1. /\ OrderWithout(seat) = roundOrder
            /\ TurnIdxWithout(seat) = turnIdx
        BY <3>1 DEF IsListed, OrderWithout, RemoveInt, TurnIdxWithout
      <4>2. seat \notin ToAct
        BY <1>1, <3>1, LenProperties DEF IsListed, ToAct, Range
      <4> QED
        BY <1>2, <2>1, <4>1, <4>2 DEF Rest, ToAct
    <3>2. CASE IsListed(seat)
      <4> DEFINE i == IndexOf(roundOrder, seat)
      <4>1. /\ i \in 1 .. Len(roundOrder) /\ roundOrder[i] = seat
            /\ Len(OrderWithout(seat)) = Len(roundOrder) - 1
        BY <1>1, <3>2, RemoveIntRemoves DEF IsListed, OrderWithout
      <4>2. TurnIdxWithout(seat) = IF i <= turnIdx THEN turnIdx - 1 ELSE turnIdx
        BY <1>1, <3>2, <4>1 DEF TurnIdxWithout, IndexInOrder
      <4>3. Rest(OrderWithout(seat), TurnIdxWithout(seat)) = ToAct \ {seat}
        <5>1. Rest(RemoveInt(roundOrder, seat),
                   IF IndexOf(roundOrder, seat) <= turnIdx
                   THEN turnIdx - 1 ELSE turnIdx)
                = Rest(roundOrder, turnIdx) \ {seat}
          BY <1>1, <3>2, RestAfterRemoval DEF IsListed
        <5>2. ToAct = Rest(roundOrder, turnIdx)
          BY DEF ToAct, Rest
        <5> QED
          BY <4>2, <5>1, <5>2 DEF OrderWithout
      <4>4. ASSUME i > turnIdx, turnIdx >= Len(roundOrder) - 1
            PROVE  FALSE
        <5>1. turnIdx = Len(roundOrder) - 1 /\ i = Len(roundOrder)
          BY <1>1, <1>2, <2>1, <4>1, <4>4
        <5>2. WasLast(seat)
          BY <3>2, <5>1 DEF WasLast, IndexInOrder
        <5>3. roundCards = {}
          BY <2>1, <5>2 DEF LeaverSettles
        <5>4. ToAct \subseteq {seat}
          BY <1>1, <4>1, <5>1 DEF ToAct
        <5>5. Active \ {seat} = {}
          BY <1>2, <2>1, <5>3, <5>4 DEF PlayersOf
        <5> QED
          BY <2>1, <5>5, FS_EmptySet DEF Decided
      <4> QED
        BY <1>1, <1>2, <2>1, <4>1, <4>2, <4>3, <4>4
    <3> QED
      BY <3>1, <3>2
  <2>5. turnIdx' = TurnIdxWithout(seat)
    <3>1. OrderWithout(seat) \in Seq(Seats) /\ TurnIdxWithout(seat) \in Nat
      BY ForfeitTyped
    <3> QED
      BY <2>1, <2>4, <3>1, LenProperties
  <2>6. ToAct' = ToAct \ {seat}
    BY <2>1, <2>4, <2>5 DEF ToAct, Rest
  <2> QED
    BY <1>2, <2>1, <2>2, <2>3, <2>4, <2>5, <2>6
<1>5. ASSUME ResolveRoundLeads
      PROVE  Goal
  <2>1. /\ phase = "result"
        /\ ~Decided(Active)
        /\ roundCards' = {}
        /\ roundOrder' = GetRoundOrder(nextLeader, Range(finished) \cup removed)
        /\ turnIdx' = 0
        /\ UNCHANGED <<finished, removed>>
    BY <1>5 DEF ResolveRoundLeads
  <2>2. nextLeader \in Seats
    BY <2>1 DEF TypeInv, WinnerKnown
  <2>3. /\ roundOrder' \in Seq(Seats)
        /\ Range(roundOrder') = Active
        /\ Len(roundOrder') = Cardinality(Active)
    BY <2>1, <2>2, RoundOrderListsSeated DEF Active, ActiveSeats
  <2>4. Cardinality(Active) > 1
    <3>1. Cardinality(Active) \in Nat
      BY SeatsAreFinite DEF Active, ActiveSeats
    <3> QED
      BY <2>1, <3>1 DEF Decided
  <2>5. Active' = Active
    BY <2>1 DEF Active, ActiveSeats
  <2>6. ToAct' = Active
    BY <2>1, <2>3, RestOfNewOrder DEF ToAct, Rest
  <2>7. PlayersOf(roundCards') = {}
    BY <2>1 DEF PlayersOf
  <2> QED
    BY <2>1, <2>3, <2>4, <2>5, <2>6, <2>7
<1>6. ASSUME UNCHANGED vars
      PROVE  Goal
  BY <1>2, <1>6 DEF vars, ToAct, Active, PlayersOf
<1>7. ASSUME NEW seat \in Seats, NEW card \in hands[seat], PlayLast(seat, card)
      PROVE  FALSE
  BY <1>7 DEF PlayLast, ResolveTrick
<1>8. ASSUME NEW seat \in Seats, ForfeitSettles(seat) \/ ForfeitEnds(seat)
      PROVE  FALSE
  BY <1>8 DEF ForfeitSettles, ForfeitEnds, ResolveTrick
<1>9. ~ResolveRoundEnds
  BY DEF ResolveRoundEnds
<1> QED
  BY <1>3, <1>4, <1>5, <1>6, <1>7, <1>8, <1>9 DEF Next

(* EverySeatActsOnce: whatever happens to the order in the middle of a      *)
(* trick, the seats from TurnIdx on are seats still in the game that have   *)
(* not played, and every seat in the game is among them or has played.      *)
THEOREM NobodyIsPassedOver == Spec => []EverySeatActsOnce
<1>1. TurnInv => EverySeatActsOnce
  BY DEF TurnInv
<1> QED
  BY <1>1, TypeInvInit, TypeInvStep, TurnInit, TurnStep, PTL DEF Spec

LEMMA PlayableTurn ==
  TypeInv /\ FinishedAreEmptyHanded /\ TurnInv => TurnIsPlayable
<1> SUFFICES ASSUME TypeInv, FinishedAreEmptyHanded, TurnInv,
                    phase = "playing"
             PROVE  /\ CurrentSeat \in Active
                    /\ hands[CurrentSeat] # {}
                    /\ CurrentSeat \notin PlayersOf(roundCards)
  BY DEF TurnIsPlayable
<1>1. CurrentSeat \in ToAct
  BY LenProperties
  DEF TurnInv, IndexOK, TypeInv, TypeOK, CurrentSeat, ToAct
<1>2. CurrentSeat \in Active /\ CurrentSeat \notin PlayersOf(roundCards)
  BY <1>1 DEF TurnInv, EverySeatActsOnce
<1>3. hands[CurrentSeat] # {}
  BY <1>2 DEF FinishedAreEmptyHanded, Active, ActiveSeats
<1> QED
  BY <1>2, <1>3

(* TurnIsPlayable: in play CurrentSeat is a seat of the game that holds a   *)
(* card and has none on the table, so the game never waits for a seat that  *)
(* cannot move.                                                             *)
THEOREM TurnIsAlwaysPlayable == Spec => []TurnIsPlayable
  BY PlayableTurn, TypeInvInit, TypeInvStep, FinishedInit, FinishedStep,
     TurnInit, TurnStep, PTL DEF Spec

-----------------------------------------------------------------------------
(* Everything proved so far is invariant together.                          *)
EngineInv == TypeInv /\ FinishedAreEmptyHanded /\ TurnInv

LEMMA EngineInvStep == EngineInv /\ [Next]_vars => EngineInv'
BY TypeInvStep, FinishedStep, TurnStep DEF EngineInv

LEMMA Playable == EngineInv => TurnIsPlayable
BY PlayableTurn DEF EngineInv

LEMMA PlayableNext == EngineInv' => TurnIsPlayable'
BY Playable, PTL

LEMMA EngineInvariant == Spec => []EngineInv
<1>1. Init => EngineInv
  BY TypeInvInit, FinishedInit, TurnInit DEF EngineInv
<1> QED
  BY <1>1, EngineInvStep, PTL DEF Spec

-----------------------------------------------------------------------------
(* Where the cards go.                                                      *)

CardsStep ==
  /\ InPlay' \subseteq InPlay
  /\ InPlay \ InPlay' \subseteq
       (IF resultType' = "dead" \/ phase' = "gameOver"
        THEN CardsOf(roundCards \cup roundCards') ELSE {})
       \cup UNION {hands[s] : s \in removed' \ removed}

InHands(h) == UNION {h[s] : s \in Seats}

LEMMA CardInHands ==
  ASSUME NEW h, NEW c
  PROVE  c \in InHands(h) <=> \E s \in Seats : c \in h[s]
BY DEF InHands

LEMMA HeldIsInHands == Held = InHands(hands) /\ Held' = InHands(hands')
BY DEF Held, InHands

LEMMA CardOnTable ==
  ASSUME NEW played, NEW c
  PROVE  c \in CardsOf(played) <=> \E p \in played : p.card = c
BY DEF CardsOf

(* After a trick every card of it is dead or with the taker.                *)
LEMMA PileIsKeptOrDead ==
  ASSUME NEW h \in [Seats -> SUBSET Card], NEW fin, NEW rem,
         NEW played \in SUBSET Played, NEW led, leader \in Seats,
         ResolveTrick(h, fin, rem, played, led)
  PROVE  LET before == InHands(h) \cup CardsOf(played)
         IN  /\ phase' = "result"
             /\ Held' \subseteq before
             /\ before \ Held' \subseteq
                  IF resultType' = "dead" THEN CardsOf(played) ELSE {}
<1> DEFINE w == TrickWinner(played, led)
<1>1. w \in Seats
  BY WinnerIsSeat
<1>2. /\ hands' = IF IsCut(played, led)
                  THEN [h EXCEPT ![w] = @ \cup CardsOf(played)] ELSE h
      /\ resultType' = IF IsCut(played, led) THEN "cut" ELSE "dead"
      /\ phase' = "result"
  BY DEF ResolveTrick
<1> HIDE DEF w
<1>3. CASE IsCut(played, led)
  <2>1. /\ \A s \in Seats : hands'[s] =
             IF s = w THEN h[s] \cup CardsOf(played) ELSE h[s]
        /\ resultType' = "cut"
    BY <1>1, <1>2, <1>3
  <2>2. \A c : c \in InHands(hands') <=>
               c \in InHands(h) \/ c \in CardsOf(played)
    <3>1. TAKE c
    <3>2. (\E s \in Seats : c \in hands'[s]) <=>
            (\E s \in Seats : c \in h[s]) \/ c \in CardsOf(played)
      BY <1>1, <2>1
    <3> QED
      BY <3>2, CardInHands
  <2> QED
    BY <1>2, <2>1, <2>2, HeldIsInHands
<1>4. CASE ~IsCut(played, led)
  <2>1. hands' = h /\ resultType' = "dead"
    BY <1>2, <1>4
  <2>2. Held' = InHands(h)
    BY <2>1, HeldIsInHands
  <2> QED
    BY <1>2, <2>1, <2>2
<1> QED
  BY <1>3, <1>4

LEMMA CardsStepTaken == TypeInv /\ [Next]_vars => CardsStep
<1> SUFFICES ASSUME TypeInv, [Next]_vars PROVE CardsStep
  OBVIOUS
<1>1. /\ hands \in [Seats -> SUBSET Card] /\ roundCards \in SUBSET Played
      /\ leader \in Seats
  BY DEF TypeInv, TypeOK
<1>2. ASSUME NEW seat \in Seats, NEW card \in hands[seat],
             phase = "playing"
      PROVE  /\ HandsAfter(seat, card) \in [Seats -> SUBSET Card]
             /\ TableAfter(seat, card) \in SUBSET Played
             /\ InHands(HandsAfter(seat, card))
                  \cup CardsOf(TableAfter(seat, card)) = InPlay
  <2>1. \A s \in Seats : HandsAfter(seat, card)[s] =
          IF s = seat THEN hands[s] \ {card} ELSE hands[s]
    BY <1>1 DEF HandsAfter
  <2>2. CardsOf(TableAfter(seat, card)) = CardsOf(roundCards) \cup {card}
    <3>1. \A c : c \in CardsOf(TableAfter(seat, card)) <=>
                 c \in CardsOf(roundCards) \/ c = card
      <4>1. TAKE c
      <4>2. (\E p \in TableAfter(seat, card) : p.card = c) <=>
              (\E p \in roundCards : p.card = c) \/ c = card
        <5> DEFINE e == [player |-> seat, card |-> card]
        <5>1. e.card = card /\ TableAfter(seat, card) = roundCards \cup {e}
          BY DEF TableAfter
        <5> HIDE DEF e
        <5> QED
          BY <5>1
      <4> QED
        BY <4>2, CardOnTable
    <3> QED
      BY <3>1
  <2>3. \A c : c \in InHands(HandsAfter(seat, card)) \/ c = card <=>
               c \in InHands(hands)
    <3>1. TAKE c
    <3>2. (\E s \in Seats : c \in HandsAfter(seat, card)[s]) \/ c = card <=>
            \E s \in Seats : c \in hands[s]
      BY <2>1
    <3> QED
      BY <3>2, CardInHands
  <2>4. InPlay = InHands(hands) \cup CardsOf(roundCards)
    BY <1>2, HeldIsInHands DEF InPlay
  <2> QED
    BY <2>2, <2>3, <2>4, PlayTyped
<1>3. ASSUME NEW seat \in Seats, NEW card \in hands[seat], PlayOn(seat, card)
      PROVE  CardsStep
  <2>1. /\ phase = "playing" /\ phase' = phase
        /\ hands' = HandsAfter(seat, card)
        /\ roundCards' = TableAfter(seat, card)
    BY <1>3 DEF PlayOn, Legal
  <2>2. InPlay' = InPlay
    <3>1. InPlay' = Held' \cup CardsOf(roundCards')
      BY <2>1 DEF InPlay
    <3> QED
      BY <1>2, <2>1, <3>1, HeldIsInHands
  <2> QED
    BY <2>2 DEF CardsStep
<1>4. ASSUME NEW seat \in Seats, NEW card \in hands[seat],
             PlayLast(seat, card)
      PROVE  CardsStep
  <2>1. /\ phase = "playing" /\ roundCards' = TableAfter(seat, card)
        /\ ResolveTrick(HandsAfter(seat, card), FinishedAfter(seat, card),
                        removed, TableAfter(seat, card), LedAfter(card))
    BY <1>4 DEF PlayLast, Legal
  <2>2. /\ phase' = "result" /\ Held' \subseteq InPlay
        /\ InPlay \ Held' \subseteq
             IF resultType' = "dead" THEN CardsOf(TableAfter(seat, card)) ELSE {}
    BY <1>1, <1>2, <2>1, PileIsKeptOrDead
  <2>3. InPlay' = Held'
    BY <2>2 DEF InPlay
  <2>4. CardsOf(TableAfter(seat, card)) \subseteq CardsOf(roundCards \cup roundCards')
    BY <2>1 DEF CardsOf
  <2> QED
    BY <2>2, <2>3, <2>4 DEF CardsStep
<1>5. ASSUME NEW seat \in Seats
      PROVE  LET h == [hands EXCEPT ![seat] = {}]
             IN  /\ h \in [Seats -> SUBSET Card]
                 /\ InHands(h) \subseteq Held
                 /\ Held \subseteq InHands(h) \cup hands[seat]
  <2> DEFINE h == [hands EXCEPT ![seat] = {}]
  <2>1. /\ h \in [Seats -> SUBSET Card]
        /\ \A s \in Seats : h[s] = IF s = seat THEN {} ELSE hands[s]
    BY <1>1
  <2> HIDE DEF h
  <2>2. \A c : /\ c \in InHands(h) => c \in InHands(hands)
               /\ c \in InHands(hands) => c \in InHands(h) \/ c \in hands[seat]
    <3>1. TAKE c
    <3>2. /\ (\E s \in Seats : c \in h[s]) => \E s \in Seats : c \in hands[s]
          /\ (\E s \in Seats : c \in hands[s]) =>
               (\E s \in Seats : c \in h[s]) \/ c \in hands[seat]
      BY <2>1
    <3> QED
      BY <3>2, CardInHands
  <2> QED
    BY <2>1, <2>2, HeldIsInHands DEF h
<1>6. ASSUME NEW seat \in Seats, ForfeitSettles(seat)
      PROVE  CardsStep
  <2> DEFINE h == [hands EXCEPT ![seat] = {}]
  <2>1. /\ phase = "playing" /\ seat \in removed' \ removed
        /\ roundCards' = roundCards
        /\ ResolveTrick(h, finished, removed', roundCards, ledSuit)
    BY <1>6 DEF ForfeitSettles, MayForfeit, LeaverSettles
  <2>2. /\ h \in [Seats -> SUBSET Card]
        /\ InHands(h) \subseteq Held
        /\ Held \subseteq InHands(h) \cup hands[seat]
    BY <1>5
  <2> HIDE DEF h
  <2>3. LET before == InHands(h) \cup CardsOf(roundCards)
        IN  /\ phase' = "result" /\ Held' \subseteq before
            /\ before \ Held' \subseteq
                 IF resultType' = "dead" THEN CardsOf(roundCards) ELSE {}
    BY <1>1, <2>1, <2>2, PileIsKeptOrDead
  <2>4. InPlay' = Held' /\ InPlay = Held \cup CardsOf(roundCards)
    BY <2>1, <2>3 DEF InPlay
  <2>5. roundCards \cup roundCards' = roundCards
    BY <2>1
  <2>6. hands[seat] \subseteq UNION {hands[s] : s \in removed' \ removed}
    BY <2>1
  <2> HIDE <2>1
  <2> QED
    BY <2>2, <2>3, <2>4, <2>5, <2>6 DEF CardsStep
<1>7. ASSUME NEW seat \in Seats, ForfeitEnds(seat) \/ ForfeitGoesOn(seat)
      PROVE  CardsStep
  <2> DEFINE h == [hands EXCEPT ![seat] = {}]
  <2>1. hands' = h /\ seat \in removed' \ removed
    BY <1>7 DEF ForfeitEnds, ForfeitGoesOn, MayForfeit
  <2>2. /\ h \in [Seats -> SUBSET Card]
        /\ InHands(h) \subseteq Held
        /\ Held \subseteq InHands(h) \cup hands[seat]
    BY <1>5
  <2> HIDE DEF h
  <2>3. Held' \subseteq Held /\ Held \subseteq Held' \cup hands[seat]
    BY <2>1, <2>2, HeldIsInHands
  <2>4. CASE ForfeitEnds(seat)
    <3>1. phase' = "gameOver" /\ roundCards' = {} /\ phase = "playing"
      BY <2>4 DEF ForfeitEnds
    <3>2. InPlay' = Held' /\ InPlay = Held \cup CardsOf(roundCards)
      BY <3>1 DEF InPlay
    <3>3. roundCards \cup roundCards' = roundCards
      BY <3>1
    <3> QED
      BY <2>1, <2>3, <3>1, <3>2, <3>3 DEF CardsStep
  <2>5. CASE ForfeitGoesOn(seat)
    <3>1. phase' = phase /\ roundCards' = roundCards
      BY <2>5 DEF ForfeitGoesOn
    <3>2. InPlay' \subseteq InPlay /\ InPlay \ InPlay' \subseteq hands[seat]
      BY <2>3, <3>1 DEF InPlay
    <3> QED
      BY <2>1, <3>2 DEF CardsStep
  <2> QED
    BY <1>7, <2>4, <2>5
<1>8. CASE ResolveRoundEnds \/ ResolveRoundLeads
  <2>1. phase = "result" /\ hands' = hands /\ roundCards' = {}
    BY <1>8 DEF ResolveRoundEnds, ResolveRoundLeads
  <2>2. InPlay' = InPlay
    BY <2>1 DEF InPlay, Held, CardsOf
  <2> QED
    BY <2>2 DEF CardsStep
<1>9. CASE UNCHANGED vars
  BY <1>9 DEF vars, CardsStep, InPlay, Held
<1> QED
  BY <1>3, <1>4, <1>6, <1>7, <1>8, <1>9 DEF Next

(* CardsLeaveForGood: a card leaves the game only in a dead trick or with a *)
(* seat that drops out, and none comes back.                                *)
THEOREM CardsNeverComeBack == Spec => CardsLeaveForGood
  BY CardsStepTaken, TypeInvariant, PTL DEF Spec, CardsLeaveForGood, CardsStep

-----------------------------------------------------------------------------
(* Whose turn it is when a seat drops out.                                  *)

TurnKept ==
  removed' # removed /\ phase = "playing" /\ phase' = "playing"
    /\ CurrentSeat \notin removed'
  => CurrentSeat' = CurrentSeat

LEMMA TurnKeptByLeaver ==
  ASSUME TypeInv, IndexOK, phase = "playing",
         NEW seat \in Seats, ForfeitGoesOn(seat), CurrentSeat # seat
  PROVE  CurrentSeat' = CurrentSeat
<1> DEFINE xs == roundOrder
           ys == OrderWithout(seat)
           k == turnIdx + 1
           m == TurnIdxWithout(seat)
<1>1. /\ xs \in Seq(Seats) /\ NoRepeats(xs) /\ turnIdx \in Nat
      /\ turnIdx < Len(xs) /\ Len(xs) \in Nat /\ DOMAIN xs = 1 .. Len(xs)
  BY LenProperties DEF TypeInv, TypeOK, ListsOK, IndexOK
<1>2. CurrentSeat = xs[k]
  BY <1>1 DEF CurrentSeat
<1>3. /\ m \in Nat /\ m < Len(ys) /\ ys[m + 1] = xs[k]
      /\ Len(ys) \in Nat
  <2>1. CASE seat \notin Range(xs)
    BY <1>1, <2>1 DEF OrderWithout, RemoveInt, TurnIdxWithout, IsListed
  <2>2. CASE seat \in Range(xs)
    <3> DEFINE i == IndexOf(xs, seat)
    <3>1. /\ i \in 1 .. Len(xs) /\ xs[i] = seat /\ Len(ys) = Len(xs) - 1
          /\ \A j \in 1 .. Len(xs) - 1 :
               ys[j] = IF j < i THEN xs[j] ELSE xs[j + 1]
      <4>1. ys = RemoveInt(xs, seat)
        BY DEF OrderWithout
      <4>2. xs \in Seq(Seats) /\ NoRepeats(xs) /\ seat \in Range(xs)
        BY <1>1, <2>2
      <4> HIDE DEF xs, ys, i
      <4> QED
        BY <4>1, <4>2, PlacesAfterRemoval DEF i
    <3>2. m = IF i - 1 < turnIdx THEN turnIdx - 1 ELSE turnIdx
      BY <2>2 DEF TurnIdxWithout, IsListed, IndexInOrder
    <3>3. i # k
      BY <1>2, <3>1
    <3> HIDE DEF i, m, ys, xs
    <3> QED
      BY <1>1, <3>1, <3>2, <3>3
  <2> QED
    BY <2>1, <2>2
<1>4. roundOrder' = ys /\ phase' = "playing" /\ turnIdx' = m
  <2>1. /\ roundOrder' = ys /\ phase' = phase
        /\ turnIdx' = IF phase = "playing" /\ m >= Len(ys) THEN 0 ELSE m
    BY DEF ForfeitGoesOn
  <2> HIDE DEF m, ys
  <2> QED
    BY <1>3, <2>1
<1> HIDE DEF m, ys
<1>5. CurrentSeat' = ys[m + 1]
  BY <1>3, <1>4 DEF CurrentSeat
<1> QED
  BY <1>2, <1>3, <1>5

LEMMA TurnKeptByStep == EngineInv /\ [Next]_vars => TurnKept
<1> SUFFICES ASSUME EngineInv, [Next]_vars, removed' # removed,
                    phase = "playing", phase' = "playing",
                    CurrentSeat \notin removed'
             PROVE  CurrentSeat' = CurrentSeat
  BY DEF TurnKept
<1>1. PICK seat \in Seats : ForfeitGoesOn(seat)
  BY DEF Next, vars, PlayOn, PlayLast, ForfeitSettles, ForfeitEnds,
     ResolveTrick, ResolveRoundEnds, ResolveRoundLeads
<1>2. CurrentSeat # seat
  BY <1>1 DEF ForfeitGoesOn
<1> QED
  BY <1>1, <1>2, TurnKeptByLeaver DEF EngineInv, TurnInv

(* TurnSurvivesLeavers: as long as the trick goes on, a seat that drops out *)
(* out of turn leaves the turn with the seat that has it.                   *)
THEOREM LeaversLeaveTheTurn == Spec => TurnSurvivesLeavers
  BY TurnKeptByStep, EngineInvariant, PTL
  DEF Spec, TurnSurvivesLeavers, TurnKept

-----------------------------------------------------------------------------
(* Who leads after the pause.                                               *)

(* In play the led suit is on the table as soon as a card is; during the    *)
(* pause the next leader is whoever played the highest card of it, and is   *)
(* not finished if it took the pile.                                        *)
LedOK ==
  phase = "playing" =>
    /\ roundCards = {} => ledSuit = NoSuit
    /\ roundCards # {} => OfSuit(roundCards, ledSuit) # {}

PauseOK ==
  phase = "result" =>
    /\ OfSuit(roundCards, ledSuit) # {}
    /\ nextLeader = HighestOf(roundCards, ledSuit).player
    /\ resultType = "cut" => nextLeader \notin Range(finished)

TrickInv == LedOK /\ PauseOK

WinnerKept ==
  phase = "result" /\ phase' = "playing" =>
    LET winner == HighestOf(roundCards, ledSuit).player
    IN  /\ winner \in Active => CurrentSeat' = winner
        /\ resultType = "cut" => winner \in Active \cup removed

LEMMA LedSuitIsPlayed ==
  ASSUME TypeInv, LedOK, phase = "playing",
         NEW seat \in Seats, NEW card \in hands[seat]
  PROVE  OfSuit(TableAfter(seat, card), LedAfter(card)) # {}
<1> DEFINE e == [player |-> seat, card |-> card]
<1>1. e.card = card /\ TableAfter(seat, card) = roundCards \cup {e}
  BY DEF TableAfter
<1> HIDE DEF e
<1>2. CASE ledSuit = NoSuit
  <2>1. e \in OfSuit(TableAfter(seat, card), LedAfter(card))
    BY <1>1, <1>2 DEF OfSuit, LedAfter
  <2> QED
    BY <2>1
<1>3. CASE ledSuit # NoSuit
  <2>1. PICK p : p \in OfSuit(roundCards, ledSuit)
    BY <1>3 DEF LedOK
  <2>2. p \in OfSuit(TableAfter(seat, card), LedAfter(card))
    BY <1>1, <1>3, <2>1 DEF OfSuit, LedAfter
  <2> QED
    BY <2>2
<1> QED
  BY <1>2, <1>3

LEMMA SettledByWinner ==
  ASSUME NEW h, NEW fin \in Seq(Seats), NoRepeats(fin), NEW rem,
         NEW played, NEW led, OfSuit(played, led) # {},
         ResolveTrick(h, fin, rem, played, led),
         roundCards' = played, ledSuit' = led
  PROVE  TrickInv'
<1> DEFINE w == HighestOf(played, led).player
<1>1. TrickWinner(played, led) = w
  BY DEF TrickWinner
<1>2. /\ phase' = "result" /\ nextLeader' = w
      /\ resultType' = "cut" => IsCut(played, led)
      /\ finished' = IF IsCut(played, led) THEN RemoveInt(fin, w) ELSE fin
  BY <1>1 DEF ResolveTrick, FinishedAfterTrick
<1>3. w \notin Range(RemoveInt(fin, w))
  BY RemoveIntRemoves
<1>4. HighestOf(roundCards, ledSuit)' = HighestOf(played, led)
  BY DEF HighestOf, OfSuit
<1>5. OfSuit(roundCards, ledSuit)' # {}
  BY DEF OfSuit
<1> QED
  BY <1>2, <1>3, <1>4, <1>5 DEF TrickInv, LedOK, PauseOK

LEMMA TrickInvStep == TypeInv /\ TrickInv /\ [Next]_vars => TrickInv'
<1> SUFFICES ASSUME TypeInv, TrickInv, [Next]_vars PROVE TrickInv'
  OBVIOUS
<1>1. ASSUME NEW seat \in Seats, NEW card \in hands[seat], PlayOn(seat, card)
      PROVE  TrickInv'
  <2>1. /\ phase = "playing" /\ phase' = phase
        /\ roundCards' = TableAfter(seat, card) /\ ledSuit' = LedAfter(card)
    BY <1>1 DEF PlayOn, Legal
  <2>2. OfSuit(roundCards', ledSuit') # {}
    BY <2>1, LedSuitIsPlayed DEF TrickInv
  <2>3. roundCards' # {}
    BY <2>1 DEF TableAfter
  <2> QED
    BY <2>1, <2>2, <2>3 DEF TrickInv, LedOK, PauseOK, OfSuit
<1>2. ASSUME NEW seat \in Seats, NEW card \in hands[seat], PlayLast(seat, card)
      PROVE  TrickInv'
  <2>1. /\ phase = "playing" /\ roundCards' = TableAfter(seat, card)
        /\ ledSuit' = LedAfter(card)
        /\ ResolveTrick(HandsAfter(seat, card), FinishedAfter(seat, card),
                        removed, TableAfter(seat, card), LedAfter(card))
    BY <1>2 DEF PlayLast, Legal
  <2>2. OfSuit(TableAfter(seat, card), LedAfter(card)) # {}
    BY <2>1, LedSuitIsPlayed DEF TrickInv
  <2>3. FinishedAfter(seat, card) \in Seq(Seats)
        /\ NoRepeats(FinishedAfter(seat, card))
    BY PlayTyped
  <2> QED
    BY <2>1, <2>2, <2>3, SettledByWinner
<1>3. ASSUME NEW seat \in Seats, ForfeitSettles(seat)
      PROVE  TrickInv'
  <2>1. /\ phase = "playing" /\ roundCards # {}
        /\ roundCards' = roundCards /\ ledSuit' = ledSuit
        /\ ResolveTrick([hands EXCEPT ![seat] = {}], finished, removed',
                        roundCards, ledSuit)
    BY <1>3 DEF ForfeitSettles, LeaverSettles
  <2>2. OfSuit(roundCards, ledSuit) # {}
    BY <2>1 DEF TrickInv, LedOK
  <2>3. finished \in Seq(Seats) /\ NoRepeats(finished)
    BY DEF TypeInv, TypeOK, ListsOK
  <2> QED
    BY <2>1, <2>2, <2>3, SettledByWinner
<1>4. CASE \/ \E seat \in Seats : ForfeitEnds(seat)
           \/ ResolveRoundEnds \/ ResolveRoundLeads
  BY <1>4 DEF ForfeitEnds, ResolveRoundEnds, ResolveRoundLeads, TrickInv,
     LedOK, PauseOK
<1>5. CASE (\E seat \in Seats : ForfeitGoesOn(seat)) \/ UNCHANGED vars
  <2>1. UNCHANGED <<phase, roundCards, ledSuit, nextLeader, resultType, finished>>
    BY <1>5 DEF ForfeitGoesOn, vars
  <2>2. /\ OfSuit(roundCards, ledSuit)' = OfSuit(roundCards, ledSuit)
        /\ HighestOf(roundCards, ledSuit)' = HighestOf(roundCards, ledSuit)
    BY <2>1 DEF OfSuit, HighestOf
  <2> QED
    BY <2>1, <2>2 DEF TrickInv, LedOK, PauseOK
<1> QED
  BY <1>1, <1>2, <1>3, <1>4, <1>5 DEF Next

LEMMA TrickInvInit == Init => TrickInv
BY DEF Init, TrickInv, LedOK, PauseOK

LEMMA WinnerLeadsStep ==
  EngineInv /\ TrickInv /\ [Next]_vars => WinnerKept
<1> SUFFICES ASSUME EngineInv, TrickInv, [Next]_vars,
                    phase = "result", phase' = "playing"
             PROVE  LET winner == HighestOf(roundCards, ledSuit).player
                    IN  /\ winner \in Active => CurrentSeat' = winner
                        /\ resultType = "cut" => winner \in Active \cup removed
  BY DEF WinnerKept
<1>1. ResolveRoundLeads
  BY DEF Next, vars, PlayOn, PlayLast, Legal, ForfeitSettles, LeaverSettles,
     ForfeitEnds, ForfeitGoesOn, ResolveRoundEnds
<1> DEFINE w == nextLeader
<1>2. /\ w = HighestOf(roundCards, ledSuit).player
      /\ resultType = "cut" => w \notin Range(finished)
      /\ w \in Seats
  BY DEF TrickInv, PauseOK, EngineInv, TypeInv, WinnerKnown
<1>3. w \in Active => CurrentSeat' = w
  <2> DEFINE order == GetRoundOrder(w, Range(finished) \cup removed)
  <2>1. SUFFICES ASSUME w \in Active PROVE CurrentSeat' = w
    OBVIOUS
  <2>2. w \notin Range(finished) \cup removed
    BY <2>1 DEF Active, ActiveSeats
  <2>3. order[1] = w
    BY <1>2, <2>2, LeaderIsFirst
  <2>4. order \in Seq(Seats) /\ w \in Range(order)
    BY <1>2, <2>2, RoundOrderListsSeated
  <2>5. Len(order) >= 1 /\ Len(order) \in Nat
    BY <2>4, LenProperties DEF Range
  <2>6. roundOrder' = order /\ turnIdx' = 0
    BY <1>1 DEF ResolveRoundLeads
  <2> HIDE DEF order
  <2> QED
    BY <2>3, <2>5, <2>6 DEF CurrentSeat
<1>4. resultType = "cut" => w \in Active \cup removed
  BY <1>2 DEF Active, ActiveSeats
<1> QED
  BY <1>2, <1>3, <1>4

(* WinnerLeads: whoever played the highest card of the led suit leads the   *)
(* next trick if it is still in the game, and a seat that took a pile is.   *)
THEOREM TrickWinnerLeads == Spec => WinnerLeads
<1>1. Init => EngineInv /\ TrickInv
  BY TypeInvInit, FinishedInit, TurnInit, TrickInvInit DEF EngineInv
<1>2. EngineInv /\ TrickInv /\ [Next]_vars => (EngineInv /\ TrickInv)'
  BY EngineInvStep, TrickInvStep DEF EngineInv
<1> QED
  BY <1>1, <1>2, WinnerLeadsStep, PTL DEF Spec, WinnerLeads, WinnerKept

-----------------------------------------------------------------------------
(* Who loses.                                                               *)

(* The only seat that is active when nobody was removed holds all cards.    *)
LEMMA LoserIsLast ==
  ASSUME NEW fin, NEW rem, NEW h, ListsEmptyHands(fin, rem, h),
         TerminalLoser(fin, rem) # NoSeat
  PROVE  /\ rem = {} /\ h[TerminalLoser(fin, rem)] # {}
         /\ \A s \in Seats \ {TerminalLoser(fin, rem)} : h[s] = {}
<1> DEFINE l == TerminalLoser(fin, rem)
<1>1. rem = {} /\ ActiveSeats(fin, rem) = {l}
  BY LoserIsOnlyActive
<1>2. \A s \in Seats : s \in ActiveSeats(fin, rem) <=> h[s] # {}
  BY <1>1 DEF ActiveSeats, ListsEmptyHands
<1>3. l \in Seats
  BY <1>1 DEF ActiveSeats
<1> QED
  BY <1>1, <1>2, <1>3

LEMMA DecidedSet ==
  ASSUME NEW T \in SUBSET Seats
  PROVE  /\ Decided(T) => T = {} \/ \E x \in Seats : T = {x}
         /\ \A x : T \subseteq {x} => Decided(T)
<1>1. IsFiniteSet(T) /\ Cardinality(T) \in Nat
  BY SeatsAreFinite
<1>2. ASSUME Decided(T)
      PROVE  T = {} \/ \E x \in Seats : T = {x}
  <2>1. Cardinality(T) = 0 \/ Cardinality(T) = 1
    BY <1>1, <1>2 DEF Decided
  <2> QED
    BY <1>1, <2>1, FS_EmptySet, FS_Singleton
<1>3. ASSUME NEW x, T \subseteq {x}
      PROVE  Decided(T)
  <2>1. T = {} \/ T = {x}
    BY <1>3
  <2>2. Cardinality(T) = 0 \/ Cardinality(T) = 1
    BY <2>1, FS_EmptySet, FS_Singleton
  <2> QED
    BY <2>2 DEF Decided
<1> QED
  BY <1>2, <1>3

(* What OnlyLastHolderLoses says of one step.                               *)
LoserNamedRightly ==
  loser' \notin {loser, NoSeat} =>
    /\ removed' = {}
    /\ hands'[loser'] # {}
    /\ \A s \in Seats \ {loser'} : hands'[s] = {}

OverNamesLoser ==
  phase' = "gameOver" => (loser' # NoSeat <=> removed' = {} /\ Held' # {})

TrickNeedsTwo ==
  phase' = "playing" /\ roundCards' = {} => Cardinality(Active') >= 2

LEMMA NamedRightly ==
  ASSUME FinishedAreEmptyHanded', loser' = TerminalLoser(finished', removed')
  PROVE  LoserNamedRightly
<1>1. ListsEmptyHands(finished', removed', hands')
  BY DEF FinishedAreEmptyHanded, ListsEmptyHands
<1> QED
  BY <1>1, LoserIsLast DEF LoserNamedRightly

LEMMA LoserStep ==
  EngineInv /\ Next => LoserNamedRightly /\ OverNamesLoser /\ TrickNeedsTwo
<1> SUFFICES ASSUME EngineInv, Next
             PROVE  LoserNamedRightly /\ OverNamesLoser /\ TrickNeedsTwo
  OBVIOUS
<1>1. /\ FinishedAreEmptyHanded /\ FinishedAreEmptyHanded'
      /\ hands \in [Seats -> SUBSET Card]
      /\ ListsEmptyHands(finished, removed, hands)
      /\ Active \in SUBSET Seats /\ Cardinality(Active) \in Nat
  BY EngineInvStep, SeatsAreFinite DEF EngineInv, TypeInv, TypeOK,
     FinishedAreEmptyHanded, ListsEmptyHands, Active, ActiveSeats
<1>2. ASSUME NEW seat \in Seats, NEW card \in hands[seat], PlayOn(seat, card)
      PROVE  LoserNamedRightly /\ OverNamesLoser /\ TrickNeedsTwo
  <2>1. phase' = "playing" /\ loser' = loser /\ roundCards' # {}
    BY <1>2 DEF PlayOn, Legal, TableAfter
  <2> QED
    BY <2>1 DEF LoserNamedRightly, OverNamesLoser, TrickNeedsTwo
<1>3. ASSUME phase' = "result", loser' = TerminalLoser(finished', removed')
      PROVE  LoserNamedRightly /\ OverNamesLoser /\ TrickNeedsTwo
  BY <1>1, <1>3, NamedRightly DEF OverNamesLoser, TrickNeedsTwo
<1>4. ASSUME NEW seat \in Seats, NEW card \in hands[seat], PlayLast(seat, card)
      PROVE  LoserNamedRightly /\ OverNamesLoser /\ TrickNeedsTwo
  BY <1>3, <1>4 DEF PlayLast, ResolveTrick
<1>5. ASSUME NEW seat \in Seats, ForfeitSettles(seat)
      PROVE  LoserNamedRightly /\ OverNamesLoser /\ TrickNeedsTwo
  BY <1>3, <1>5 DEF ForfeitSettles, ResolveTrick
<1>6. ASSUME NEW seat \in Seats, ForfeitEnds(seat)
      PROVE  LoserNamedRightly /\ OverNamesLoser /\ TrickNeedsTwo
  <2>1. /\ removed' # {} /\ phase' = "gameOver"
        /\ loser' = TerminalLoser(finished, removed')
    BY <1>6 DEF ForfeitEnds
  <2>2. loser' = NoSeat
    BY <2>1 DEF TerminalLoser
  <2> QED
    BY <2>1, <2>2 DEF LoserNamedRightly, OverNamesLoser, TrickNeedsTwo
<1>7. ASSUME NEW seat \in Seats, ForfeitGoesOn(seat)
      PROVE  LoserNamedRightly /\ OverNamesLoser /\ TrickNeedsTwo
  <2>1. /\ removed' = removed \cup {seat} /\ phase # "gameOver"
        /\ UNCHANGED <<phase, loser, roundCards, finished>>
        /\ phase = "playing" => ~Decided(Active \ {seat})
    BY <1>7 DEF ForfeitGoesOn, MayForfeit
  <2>2. Active' = Active \ {seat}
    BY <2>1 DEF Active, ActiveSeats
  <2>3. Cardinality(Active') \in Nat
    BY <1>1, <2>2, SeatsAreFinite
  <2> QED
    BY <2>1, <2>2, <2>3
    DEF LoserNamedRightly, OverNamesLoser, TrickNeedsTwo, Decided
<1>8. CASE ResolveRoundEnds
  <2>1. /\ phase' = "gameOver" /\ UNCHANGED <<hands, finished, removed>>
        /\ loser' = TerminalLoser(finished, removed) /\ Decided(Active)
    BY <1>8 DEF ResolveRoundEnds
  <2>2. LoserNamedRightly
    BY <1>1, <2>1, NamedRightly
  <2>3. ASSUME loser' # NoSeat
        PROVE  removed' = {} /\ Held' # {}
    <3>1. removed' = {} /\ Active = {loser'}
      BY <2>1, <2>3, LoserIsOnlyActive DEF Active
    <3>2. loser' \in Seats /\ hands'[loser'] # {}
      BY <1>1, <2>1, <2>3, <3>1, LoserIsLast DEF ListsEmptyHands
    <3> QED
      BY <3>1, <3>2 DEF Held
  <2>4. ASSUME removed' = {}, Held' # {}
        PROVE  loser' # NoSeat
    <3>1. Active # {}
      <4>1. SUFFICES ASSUME Active = {} PROVE FALSE
        OBVIOUS
      <4>2. \A s \in Seats : hands[s] = {}
        BY <1>1, <2>1, <2>4, <4>1 DEF Active, ActiveSeats, ListsEmptyHands
      <4>3. \A c : c \notin InHands(hands)
        BY <4>2, CardInHands
      <4> QED
        BY <2>1, <2>4, <4>3, HeldIsInHands
    <3>2. PICK x \in Seats : Active = {x}
      BY <1>1, <2>1, <3>1, DecidedSet
    <3>3. Cardinality(Active) = 1
      BY <3>2, FS_Singleton
    <3>4. loser' = CHOOSE s \in Active : TRUE
      BY <2>1, <2>4, <3>3 DEF TerminalLoser, Active
    <3>5. loser' = x
      BY <3>2, <3>4
    <3> QED
      BY <3>2, <3>5 DEF Seats, NoSeat
  <2> QED
    BY <2>1, <2>2, <2>3, <2>4 DEF OverNamesLoser, TrickNeedsTwo
<1>9. CASE ResolveRoundLeads
  <2>1. /\ phase' = "playing" /\ UNCHANGED <<finished, removed, loser>>
        /\ ~Decided(Active)
    BY <1>9 DEF ResolveRoundLeads
  <2>2. Active' = Active
    BY <2>1 DEF Active
  <2> QED
    BY <1>1, <2>1, <2>2
    DEF LoserNamedRightly, OverNamesLoser, TrickNeedsTwo, Decided
<1> QED
  BY <1>2, <1>4, <1>5, <1>6, <1>7, <1>8, <1>9 DEF Next

(* OnlyLastHolderLoses: setTerminalLoser names a seat only when nobody has  *)
(* been removed and that seat alone holds cards; a game that is over has a  *)
(* loser exactly when nobody left and cards remain; and no trick starts     *)
(* with fewer than two seats.                                               *)
THEOREM LastHolderLoses == Spec => OnlyLastHolderLoses
<1>1. EngineInv /\ [Next]_vars
        => [LoserNamedRightly /\ OverNamesLoser /\ TrickNeedsTwo]_vars
  BY LoserStep
<1> QED
  BY <1>1, EngineInvariant, PTL
  DEF Spec, OnlyLastHolderLoses, LoserNamedRightly, OverNamesLoser, TrickNeedsTwo

-----------------------------------------------------------------------------
(* The engine implements TurnGame.                                          *)

LEMMA SameTerms ==
  /\ Game!Seats = Seats /\ Game!NoSeat = NoSeat /\ Game!Active = Active
  /\ \A S : Game!Cardinality(S) = Cardinality(S)
  /\ \A xs : Game!Range(xs) = Range(xs)
  /\ \A fin, rem : Game!ActiveSeats(fin, rem) = ActiveSeats(fin, rem)
  /\ \A fin, rem : Game!TerminalLoser(fin, rem) = TerminalLoser(fin, rem)
  /\ \A xs, v : Game!RemoveInt(xs, v) = RemoveInt(xs, v)
<1>1. \A S : Game!Cardinality(S) = Cardinality(S)
  BY DEF Game!Cardinality, Cardinality, Game!IsFiniteSet, IsFiniteSet
<1>2. \A xs : Game!Range(xs) = Range(xs)
  BY DEF Game!Range, Range
<1>3. \A xs, i : Game!RemoveAt(xs, i) = RemoveAt(xs, i)
  BY DEF Game!RemoveAt, RemoveAt
<1>4. Game!Seats = Seats /\ Game!NoSeat = NoSeat
  BY DEF Game!Seats, Game!NoSeat, Seats, NoSeat
<1>5. \A fin, rem : Game!ActiveSeats(fin, rem) = ActiveSeats(fin, rem)
  BY <1>2, <1>4 DEF Game!ActiveSeats, ActiveSeats
<1>6. \A fin, rem : Game!TerminalLoser(fin, rem) = TerminalLoser(fin, rem)
  <2>1. TAKE fin, rem
  <2> DEFINE active == ActiveSeats(fin, rem)
  <2>2. Game!ActiveSeats(fin, rem) = active
    BY <1>5
  <2>3. Game!TerminalLoser(fin, rem) =
          IF Game!Cardinality(active) = 1 /\ rem = {}
          THEN CHOOSE s \in active : TRUE
          ELSE Game!NoSeat
    BY <2>2 DEF Game!TerminalLoser
  <2> QED
    BY <1>1, <1>4, <2>3 DEF TerminalLoser
<1>7. \A xs, v : Game!IndexOf(xs, v) = IndexOf(xs, v)
  BY DEF Game!IndexOf, IndexOf
<1>8. \A xs, v : Game!RemoveInt(xs, v) = RemoveInt(xs, v)
  BY <1>2, <1>3, <1>7 DEF Game!RemoveInt, RemoveInt
<1>9. Game!Active = Active
  BY <1>5 DEF Game!Active, Active
<1> QED
  BY <1>1, <1>2, <1>4, <1>5, <1>6, <1>8, <1>9

LEMMA GameInitially == Init => Game!GameInit
<1> SUFFICES ASSUME Init PROVE Game!GameInit
  OBVIOUS
<1>1. EngineInv
  BY TypeInvInit, FinishedInit, TurnInit DEF EngineInv
<1>2. TurnIsPlayable
  BY <1>1, Playable
<1>3. CurrentSeat \in Seats
  BY <1>2 DEF Init, TurnIsPlayable, Active, ActiveSeats
<1> QED
  BY <1>3, SameTerms DEF Init, Game!GameInit

(* The end of a trick is a Settle.                                          *)
LEMMA SettleRefined ==
  ASSUME NEW h, NEW fin, NEW rem, NEW played, NEW led,
         ResolveTrick(h, fin, rem, played, led)
  PROVE  Game!Settle(fin, rem)
<1> DEFINE w == TrickWinner(played, led)
<1>1. /\ phase' = "result"
      /\ finished' = IF IsCut(played, led) THEN RemoveInt(fin, w) ELSE fin
      /\ loser' = TerminalLoser(finished', rem)
  BY DEF ResolveTrick, FinishedAfterTrick
<1>2. CurrentSeat' = NoSeat
  BY <1>1 DEF CurrentSeat
<1>3. w \notin Range(fin) => RemoveInt(fin, w) = fin
  BY DEF RemoveInt
<1> HIDE DEF w
<1>4. finished' \in {fin} \cup {RemoveInt(fin, taker) : taker \in Range(fin)}
  BY <1>1, <1>3
<1> QED
  BY <1>1, <1>2, <1>4, SameTerms DEF Game!Settle

LEMMA StepRefined == EngineInv /\ [Next]_vars => [Game!GameNext]_(Game!gameVars)
<1> SUFFICES ASSUME EngineInv, [Next]_vars
             PROVE  [Game!GameNext]_(Game!gameVars)
  OBVIOUS
<1>1. TurnIsPlayable /\ TurnIsPlayable'
  BY EngineInvStep, Playable, PlayableNext
<1>2. /\ phase = "playing" => CurrentSeat \in Active
      /\ phase' = "playing" =>
           /\ CurrentSeat' \in Active'
           /\ CurrentSeat' \notin PlayersOf(roundCards')
  BY <1>1 DEF TurnIsPlayable
<1>3. /\ phase # "playing" => CurrentSeat = NoSeat
      /\ phase' # "playing" => CurrentSeat' = NoSeat
  BY DEF CurrentSeat
<1>4. /\ Active \in SUBSET Seats /\ Cardinality(Active) \in Nat
      /\ \A s : Cardinality(Active \ {s}) \in Nat
  BY SeatsAreFinite DEF Active, ActiveSeats
<1>5. ASSUME NEW seat \in Seats, NEW card \in hands[seat],
             PlayOn(seat, card) \/ PlayLast(seat, card)
      PROVE  Game!Move(seat)
  <2> DEFINE fin == FinishedAfter(seat, card)
  <2>1. /\ phase = "playing" /\ CurrentSeat = seat /\ UNCHANGED removed
    BY <1>5 DEF PlayOn, PlayLast, Legal
  <2>2. fin \in {finished, Append(finished, seat)}
    BY DEF FinishedAfter
  <2>3. CASE PlayOn(seat, card)
    <3>1. /\ finished' = fin /\ UNCHANGED <<phase, loser>>
          /\ roundCards' = TableAfter(seat, card)
      BY <2>3 DEF PlayOn
    <3>2. seat \in PlayersOf(roundCards')
      <4> DEFINE e == [player |-> seat, card |-> card]
      <4>1. e.player = seat /\ roundCards' = roundCards \cup {e}
        BY <3>1 DEF TableAfter
      <4> HIDE DEF e
      <4> QED
        BY <4>1 DEF PlayersOf
    <3>3. CurrentSeat' \in ActiveSeats(fin, removed) \ {seat}
      BY <1>2, <2>1, <3>1, <3>2 DEF Active
    <3> HIDE DEF fin
    <3> QED
      BY <2>1, <2>2, <3>1, <3>3, SameTerms DEF Game!Move
  <2>4. CASE PlayLast(seat, card)
    <3>1. Game!Settle(fin, removed)
      BY <2>4, SettleRefined DEF PlayLast
    <3> HIDE DEF fin
    <3> QED
      BY <2>1, <2>2, <3>1 DEF Game!Move
  <2> QED
    BY <1>5, <2>3, <2>4
<1>6. ASSUME NEW seat \in Seats,
             ForfeitSettles(seat) \/ ForfeitEnds(seat) \/ ForfeitGoesOn(seat)
      PROVE  Game!Leave(seat)
  <2>1. /\ seat \in Seats \ removed /\ phase # "gameOver"
        /\ removed' = removed \cup {seat}
    BY <1>6 DEF ForfeitSettles, ForfeitEnds, ForfeitGoesOn, MayForfeit
  <2>2. CASE ForfeitSettles(seat)
    <3>1. phase = "playing" /\ Game!Settle(finished, removed')
      BY <2>2, SettleRefined DEF ForfeitSettles, LeaverSettles
    <3> QED
      BY <2>1, <3>1, SameTerms DEF Game!Leave
  <2>3. CASE ForfeitEnds(seat)
    <3>1. /\ phase = "playing" /\ Decided(Active \ {seat})
          /\ phase' = "gameOver" /\ UNCHANGED finished
          /\ loser' = TerminalLoser(finished, removed')
      BY <2>3 DEF ForfeitEnds
    <3>2. loser' = NoSeat /\ CurrentSeat' = NoSeat
      BY <1>3, <2>1, <3>1 DEF TerminalLoser
    <3>3. Cardinality(Active \ {seat}) <= 1
      BY <3>1 DEF Decided
    <3> QED
      BY <2>1, <3>1, <3>2, <3>3, SameTerms DEF Game!Leave
  <2>4. CASE ForfeitGoesOn(seat)
    <3>1. /\ UNCHANGED <<phase, finished, loser>>
          /\ phase = "playing" => ~Decided(Active \ {seat})
      BY <2>4 DEF ForfeitGoesOn
    <3>2. CASE phase = "playing"
      <4>1. Cardinality(Active \ {seat}) > 1
        BY <1>4, <3>1, <3>2 DEF Decided
      <4>2. Active' = Active \ {seat}
        BY <2>1, <3>1 DEF Active, ActiveSeats
      <4>3. IF CurrentSeat = seat THEN CurrentSeat' \in Active \ {seat}
            ELSE CurrentSeat' = CurrentSeat
        BY <1>2, <2>4, <3>1, <3>2, <4>2, TurnKeptByLeaver
        DEF EngineInv, TurnInv
      <4> QED
        BY <2>1, <3>1, <3>2, <4>1, <4>3, SameTerms DEF Game!Leave
    <3>3. CASE phase = "result"
      BY <1>3, <2>1, <3>1, <3>3, SameTerms DEF Game!Leave
    <3> QED
      BY <2>1, <3>2, <3>3 DEF EngineInv, TypeInv, TypeOK
  <2> QED
    BY <1>6, <2>2, <2>3, <2>4
<1>7. ASSUME ResolveRoundEnds \/ ResolveRoundLeads
      PROVE  Game!NextRound
  <2>1. CASE ResolveRoundEnds
    <3>1. /\ phase = "result" /\ phase' = "gameOver" /\ Decided(Active)
          /\ loser' = TerminalLoser(finished, removed)
          /\ UNCHANGED <<finished, removed>>
      BY <2>1 DEF ResolveRoundEnds
    <3>2. UNCHANGED CurrentSeat
      BY <1>3, <3>1
    <3> QED
      BY <3>1, <3>2, SameTerms DEF Game!NextRound, Decided
  <2>2. CASE ResolveRoundLeads
    <3>1. /\ phase = "result" /\ phase' = "playing" /\ ~Decided(Active)
          /\ UNCHANGED <<finished, removed, loser>>
      BY <2>2 DEF ResolveRoundLeads
    <3>2. CurrentSeat' \in Active
      BY <1>2, <3>1 DEF Active
    <3> QED
      BY <3>1, <3>2, SameTerms DEF Game!NextRound, Decided
  <2> QED
    BY <1>7, <2>1, <2>2
<1>8. CASE UNCHANGED vars
  BY <1>8 DEF vars, Game!gameVars, CurrentSeat
<1>9. CASE Next
  BY <1>5, <1>6, <1>7, <1>9, SameTerms DEF Next, Game!GameNext
<1> QED
  BY <1>8, <1>9

(* ImplementsTurnGame: whatever hands are dealt, every step of the engine   *)
(* is one TurnGame allows, with CurrentSeat() as the turn, so what is true  *)
(* of the abstract game the room is built on is true of the engine.         *)
THEOREM EngineIsTurnGame == Spec => ImplementsTurnGame
<1>1. Init => Game!GameInit
  BY GameInitially
<1> QED
  BY <1>1, StepRefined, EngineInvariant, PTL
  DEF Spec, ImplementsTurnGame, Game!GameSpec
=============================================================================

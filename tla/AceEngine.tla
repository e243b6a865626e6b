----------------------------- MODULE AceEngine ------------------------------
(***************************************************************************)
(* The authoritative rules engine of an online game, be/game/engine.go:    *)
(* a deal, then plays by the seat whose turn it is, seats pushed out at    *)
(* any moment (Forfeit), and the end of the pause after every trick        *)
(* (ResolveRound).                                                         *)
(*                                                                         *)
(* Hands and the table are sets: no rule reads the order of the cards in a *)
(* hand or on the table, and CardsInOnePlace shows that no card is in two  *)
(* places.  Log, ResultMsg, RoundHistory and SuitVoids are written by the  *)
(* engine and read by nothing in the backend; they are left out.           *)
(***************************************************************************)
EXTENDS AceRules

CONSTANTS
  Suits,      \* the suits of the deck
  Ranks,      \* the ranks, by their rankVal
  NoSuit,     \* LedSuit before the first card of a trick, ""
  OpenSuit,   \* the suit and
  OpenRank    \*   rank of the card whose holder starts, the ace of spades

Card == [suit : Suits, rank : Ranks]
Opener == [suit |-> OpenSuit, rank |-> OpenRank]

ASSUME DeckAssumption ==
  /\ IsFiniteSet(Suits) /\ NoSuit \notin Suits
  /\ IsFiniteSet(Ranks) /\ Ranks \subseteq Int
  /\ Opener \in Card
  /\ Cardinality(Card) >= N          \* Deal leaves no hand empty

VARIABLES
  hands,       \* Hands: the cards each seat holds
  roundCards,  \* RoundCards: who played what in the current trick
  ledSuit,     \* LedSuit
  leader,      \* Leader: the seat that led the trick
  roundOrder,  \* RoundOrder: the seats of the trick, in turn order
  turnIdx,     \* TurnIdx: index into roundOrder, counted from 0
  finished,    \* Finished: the seats that ran out of cards, in that order
  removed,     \* Removed, as a set: it is only searched and measured
  phase,       \* Phase
  resultType,  \* ResultType: "none" (the code's ""), "dead" or "cut"
  nextLeader,  \* NextLeader
  loser        \* Loser

vars == <<hands, roundCards, ledSuit, leader, roundOrder, turnIdx, finished,
          removed, phase, resultType, nextLeader, loser>>

Played == [player : Seats, card : Card]
Active == ActiveSeats(finished, removed)
CardsOf(played) == {p.card : p \in played}
PlayersOf(played) == {p.player : p \in played}

(* len(s.active()) <= 1                                                     *)
Decided(active) == Cardinality(active) <= 1

CurrentSeat ==
  IF phase # "playing" \/ turnIdx >= Len(roundOrder)
  THEN NoSeat
  ELSE roundOrder[turnIdx + 1]

-----------------------------------------------------------------------------
(* Deal goes round the table, so the first |Card| % N seats hold one card   *)
(* more than the others; which cards they are is up to the shuffle.         *)
DealtTo(s) == (Cardinality(Card) - s + N - 1) \div N

Deal(h) ==
  \E owner \in [Card -> Seats] :
    /\ \A s \in Seats : Cardinality({c \in Card : owner[c] = s}) = DealtTo(s)
    /\ h = [s \in Seats |-> {c \in Card : owner[c] = s}]

FindStarter(h) == CHOOSE s \in Seats : Opener \in h[s]

Init ==
  /\ Deal(hands)
  /\ roundCards = {}
  /\ ledSuit = NoSuit
  /\ leader = FindStarter(hands)
  /\ roundOrder = GetRoundOrder(leader, {})
  /\ turnIdx = 0
  /\ finished = <<>>
  /\ removed = {}
  /\ phase = "playing"
  /\ resultType = "none"
  /\ nextLeader = NoSeat
  /\ loser = NoSeat

-----------------------------------------------------------------------------
OfSuit(played, suit) == {p \in played : p.card.suit = suit}

(* HighestOf, for a suit somebody played.                                   *)
HighestOf(played, suit) ==
  CHOOSE p \in OfSuit(played, suit) :
    \A q \in OfSuit(played, suit) : q.card.rank <= p.card.rank

(* The seat that wins the trick, and whether it has to take the pile: it    *)
(* does when anybody played off the led suit.                               *)
TrickWinner(played, led) ==
  IF OfSuit(played, led) = {} THEN leader ELSE HighestOf(played, led).player

IsCut(played, led) == OfSuit(played, led) \notin {{}, played}

(* Broken: a finished seat that takes the pile stays among the finished.    *)
FinishedKeepsTaker(fin, played, led) == fin

FinishedAfterTrick(fin, played, led) ==
  IF IsCut(played, led) THEN RemoveInt(fin, TrickWinner(played, led)) ELSE fin

(* resolveTrick: after a cut the holder of the highest led card takes the   *)
(* pile and is back in the game; otherwise the cards go dead.  That seat    *)
(* leads next.                                                              *)
ResolveTrick(h, fin, rem, played, led) ==
  LET winner == TrickWinner(played, led)
  IN  /\ hands' = IF IsCut(played, led)
                  THEN [h EXCEPT ![winner] = @ \cup CardsOf(played)]
                  ELSE h
      /\ finished' = FinishedAfterTrick(fin, played, led)
      /\ nextLeader' = winner
      /\ resultType' = IF IsCut(played, led) THEN "cut" ELSE "dead"
      /\ loser' = TerminalLoser(finished', rem)
      /\ phase' = "result"

-----------------------------------------------------------------------------
HasSuit(seat, suit) == \E c \in hands[seat] : c.suit = suit

(* Broken: a seat acts out of turn.                                         *)
LegalOutOfTurn(seat, card) ==
  /\ phase = "playing"
  /\ card \in hands[seat]
  /\ ledSuit # NoSuit /\ card.suit # ledSuit => ~HasSuit(seat, ledSuit)

(* ApplyPlay's guards: the phase, the seat's turn, a card it holds, and the *)
(* led suit whenever it holds one of that suit.                             *)
Legal(seat, card) ==
  /\ phase = "playing"
  /\ CurrentSeat = seat
  /\ ledSuit # NoSuit /\ card.suit # ledSuit => ~HasSuit(seat, ledSuit)
  /\ card \in hands[seat]

(* What a legal play leaves behind before the trick goes on or ends.        *)

(* Broken: the card stays in the hand, or the table forgets the others.     *)
HandsUntouched(seat, card) == hands
TableReplaced(seat, card) == {[player |-> seat, card |-> card]}

HandsAfter(seat, card) == [hands EXCEPT ![seat] = @ \ {card}]
TableAfter(seat, card) == roundCards \cup {[player |-> seat, card |-> card]}
LedAfter(card) == IF ledSuit = NoSuit THEN card.suit ELSE ledSuit

FinishedAfter(seat, card) ==
  IF hands[seat] = {card} /\ seat \notin Range(finished)
  THEN Append(finished, seat)
  ELSE finished

(* A play that ends the trick: a cut, or the last seat to act.              *)
EndsTrick(card) ==
  \/ ledSuit # NoSuit /\ card.suit # ledSuit
  \/ turnIdx = Len(roundOrder) - 1

(* ApplyPlay, mid-round: the turn passes to the next seat of the order.     *)
PlayOn(seat, card) ==
  /\ Legal(seat, card)
  /\ ~EndsTrick(card)
  /\ hands' = HandsAfter(seat, card)
  /\ roundCards' = TableAfter(seat, card)
  /\ ledSuit' = LedAfter(card)
  /\ finished' = FinishedAfter(seat, card)
  /\ turnIdx' = turnIdx + 1
  /\ UNCHANGED <<leader, roundOrder, removed, phase, resultType, nextLeader,
                 loser>>

(* ApplyPlay, end of the round: the trick is settled.                       *)
PlayLast(seat, card) ==
  /\ Legal(seat, card)
  /\ EndsTrick(card)
  /\ roundCards' = TableAfter(seat, card)
  /\ ledSuit' = LedAfter(card)
  /\ ResolveTrick(HandsAfter(seat, card), FinishedAfter(seat, card), removed,
                  TableAfter(seat, card), LedAfter(card))
  /\ UNCHANGED <<leader, roundOrder, turnIdx, removed>>

-----------------------------------------------------------------------------
(* Forfeit(seat): what becomes of the turn order when a seat drops out.     *)
IsListed(seat) == seat \in Range(roundOrder)
IndexInOrder(seat) == IndexOf(roundOrder, seat) - 1      \* counted from 0
WasLast(seat) == IsListed(seat) /\ IndexInOrder(seat) = Len(roundOrder) - 1
OrderWithout(seat) == RemoveInt(roundOrder, seat)

(* Broken: the index moves whoever drops out.                               *)
TurnIdxAlwaysMoves(seat) == turnIdx - 1

(* Broken: the index is not moved along with the shortened order.           *)
TurnIdxUnmoved(seat) == turnIdx

(* TurnIdx keeps pointing at the seat in progress.                          *)
TurnIdxWithout(seat) ==
  IF IsListed(seat) /\ IndexInOrder(seat) < turnIdx
  THEN turnIdx - 1
  ELSE turnIdx

(* The trick is settled when the seat that drops out stood last in the      *)
(* order of a trick with cards on the table.                                *)
LeaverSettles(seat) == phase = "playing" /\ WasLast(seat) /\ roundCards # {}

MayForfeit(seat) == seat \notin removed /\ phase # "gameOver"

(* A seat drops out and the trick is settled on the spot.                   *)
ForfeitSettles(seat) ==
  /\ MayForfeit(seat) /\ LeaverSettles(seat)
  /\ removed' = removed \cup {seat}
  /\ roundOrder' = OrderWithout(seat)
  /\ turnIdx' = TurnIdxWithout(seat)
  /\ ResolveTrick([hands EXCEPT ![seat] = {}], finished, removed', roundCards,
                  ledSuit)
  /\ UNCHANGED <<roundCards, ledSuit, leader>>

(* A seat drops out and at most one is left: the game is over.              *)
ForfeitEnds(seat) ==
  /\ MayForfeit(seat) /\ ~LeaverSettles(seat)
  /\ phase = "playing" /\ Decided(Active \ {seat})
  /\ removed' = removed \cup {seat}
  /\ hands' = [hands EXCEPT ![seat] = {}]
  /\ roundOrder' = OrderWithout(seat)
  /\ turnIdx' = IF TurnIdxWithout(seat) >= Len(OrderWithout(seat))
                THEN 0 ELSE TurnIdxWithout(seat)
  /\ loser' = TerminalLoser(finished, removed')
  /\ phase' = "gameOver"
  /\ roundCards' = {}
  /\ UNCHANGED <<ledSuit, leader, finished, resultType, nextLeader>>

(* A seat drops out and the others play on, or wait for the pause to end.   *)
ForfeitGoesOn(seat) ==
  /\ MayForfeit(seat) /\ ~LeaverSettles(seat)
  /\ phase = "playing" => ~Decided(Active \ {seat})
  /\ removed' = removed \cup {seat}
  /\ hands' = [hands EXCEPT ![seat] = {}]
  /\ roundOrder' = OrderWithout(seat)
  /\ turnIdx' = IF /\ phase = "playing"
                   /\ TurnIdxWithout(seat) >= Len(OrderWithout(seat))
                THEN 0 ELSE TurnIdxWithout(seat)
  /\ UNCHANGED <<roundCards, ledSuit, leader, finished, phase, resultType,
                 nextLeader, loser>>

-----------------------------------------------------------------------------
(* ResolveRound after the pause.  Its caller, onResolve of room.go, checks  *)
(* the phase.                                                               *)

(* Too few seats hold cards: the game is over.                              *)
ResolveRoundEnds ==
  /\ phase = "result"
  /\ Decided(Active)
  /\ loser' = TerminalLoser(finished, removed)
  /\ phase' = "gameOver"
  /\ roundCards' = {}
  /\ UNCHANGED <<hands, ledSuit, leader, roundOrder, turnIdx, finished,
                 removed, resultType, nextLeader>>

(* The next trick is led by the winner of the last, or by the first seat    *)
(* after it that is still in the game.                                      *)
ResolveRoundLeads ==
  /\ phase = "result"
  /\ ~Decided(Active)
  /\ roundCards' = {}
  /\ ledSuit' = NoSuit
  /\ leader' = nextLeader
  /\ roundOrder' = GetRoundOrder(nextLeader, Range(finished) \cup removed)
  /\ turnIdx' = 0
  /\ phase' = "playing"
  /\ resultType' = "none"
  /\ nextLeader' = NoSeat
  /\ UNCHANGED <<hands, finished, removed, loser>>

Next ==
  \/ \E seat \in Seats : \E card \in hands[seat] :
       PlayOn(seat, card) \/ PlayLast(seat, card)
  \/ \E seat \in Seats :
       ForfeitSettles(seat) \/ ForfeitEnds(seat) \/ ForfeitGoesOn(seat)
  \/ ResolveRoundEnds
  \/ ResolveRoundLeads

Spec == Init /\ [][Next]_vars

-----------------------------------------------------------------------------
(* Every variable keeps its type.                                           *)
TypeOK ==
  /\ hands \in [Seats -> SUBSET Card]
  /\ roundCards \in SUBSET Played
  /\ ledSuit \in Suits \cup {NoSuit}
  /\ leader \in Seats
  /\ roundOrder \in Seq(Seats)
  /\ turnIdx \in Nat
  /\ finished \in Seq(Seats)
  /\ removed \in SUBSET Seats
  /\ phase \in {"playing", "result", "gameOver"}
  /\ resultType \in {"none", "dead", "cut"}
  /\ nextLeader \in Seats \cup {NoSeat}
  /\ loser \in Seats \cup {NoSeat}

(* The cards still in the game.  During the pause the table only shows      *)
(* cards that are dead or already in the taker's hand.                      *)
Held == UNION {hands[s] : s \in Seats}
InPlay == Held \cup (IF phase = "playing" THEN CardsOf(roundCards) ELSE {})

(* A card is in one hand or on the table, never in two places: whatever     *)
(* piles are taken and seats forfeited, ApplyPlay's removeCard and          *)
(* resolveTrick's append neither duplicate a card nor leave a copy behind.  *)
CardsInOnePlace ==
  /\ \A s, t \in Seats : s # t => hands[s] \cap hands[t] = {}
  /\ phase = "playing" =>
       /\ Held \cap CardsOf(roundCards) = {}
       /\ \A p, q \in roundCards : p.card = q.card => p = q

(* Apart from removed seats, the finished seats are exactly those without a *)
(* card: the empty hand is noticed when it happens and undone when the seat *)
(* has to take a pile.                                                      *)
FinishedAreEmptyHanded ==
  /\ NoRepeats(finished)
  /\ \A s \in Seats \ removed : s \in Range(finished) <=> hands[s] = {}

(* In play it is always the turn of a seat that is in the game, holds a     *)
(* card and has not played in this trick: neither a forfeit in the middle   *)
(* of the order nor a finished leader lets the turn rest on a seat that     *)
(* cannot move.                                                             *)
TurnIsPlayable ==
  phase = "playing" =>
    /\ CurrentSeat \in Active
    /\ hands[CurrentSeat] # {}
    /\ CurrentSeat \notin PlayersOf(roundCards)

(* The seats of this trick that are still to act.                           *)
ToAct == {roundOrder[i] : i \in turnIdx + 1 .. Len(roundOrder)}

(* In play every seat in the game either has a card on the table or is      *)
(* still to act, and not both: nobody is passed over and nobody acts twice  *)
(* in one trick.                                                            *)
EverySeatActsOnce ==
  phase = "playing" =>
    /\ ToAct \subseteq Active
    /\ Active \subseteq ToAct \cup PlayersOf(roundCards)
    /\ ToAct \cap PlayersOf(roundCards) = {}
    /\ NoRepeats(roundOrder)

-----------------------------------------------------------------------------
(* Cards leave the game for two reasons only, a dead trick and a seat that  *)
(* drops out (with the trick on the table if that ends the game); no card   *)
(* ever comes back.                                                         *)
CardsLeaveForGood ==
  [][/\ InPlay' \subseteq InPlay
     /\ InPlay \ InPlay' \subseteq
          (IF resultType' = "dead" \/ phase' = "gameOver"
           THEN CardsOf(roundCards \cup roundCards') ELSE {})
          \cup UNION {hands[s] : s \in removed' \ removed}]_vars

(* A seat is named the loser only at a table nobody has left, when it is    *)
(* the last to hold cards (setTerminalLoser, engine.go:295-299); if anybody *)
(* was removed the lone survivor wins, also when a loser had been named and *)
(* leaves during the pause.  So a game that is over has a loser exactly if  *)
(* nobody left and cards remain, and a game that is decided ends: no trick  *)
(* starts with fewer than two seats in the game.                            *)
OnlyLastHolderLoses ==
  [][/\ loser' \notin {loser, NoSeat} =>
          /\ removed' = {}
          /\ hands'[loser'] # {}
          /\ \A s \in Seats \ {loser'} : hands'[s] = {}
     /\ phase' = "gameOver" => (loser' # NoSeat <=> removed' = {} /\ Held' # {})
     /\ phase' = "playing" /\ roundCards' = {} =>
          Cardinality(Active') >= 2]_vars

(* A seat that drops out out of turn does not move the turn: while the      *)
(* trick goes on, the seat in progress stays the same.                      *)
TurnSurvivesLeavers ==
  [][removed' # removed /\ phase = "playing" /\ phase' = "playing"
       /\ CurrentSeat \notin removed'
     => CurrentSeat' = CurrentSeat]_vars

(* The trick after the pause is led by the seat that played the highest     *)
(* card of the led suit, unless that seat finished or dropped out; a seat   *)
(* that took a pile leads the next trick itself.                            *)
WinnerLeads ==
  [][phase = "result" /\ phase' = "playing" =>
       LET winner == HighestOf(roundCards, ledSuit).player
       IN  /\ winner \in Active => CurrentSeat' = winner
           /\ resultType = "cut" => winner \in Active \cup removed]_vars

-----------------------------------------------------------------------------
(* What be/game/engine.go says of Forfeit and the code does not do.         *)

(* "everyone else already played -> settle the trick" (engine.go:333): when *)
(* a seat that drops out settles the trick, every other seat of the trick   *)
(* has played.                                                              *)
LeaverSettlesOnlyIfAllPlayed ==
  [][phase = "playing" /\ phase' = "result" /\ removed' # removed =>
       Range(roundOrder) \ removed' \subseteq PlayersOf(roundCards)]_vars

-----------------------------------------------------------------------------
(* The engine implements the abstract game the room is built on.            *)
Game == INSTANCE TurnGame WITH turn <- CurrentSeat

ImplementsTurnGame == Game!GameSpec
=============================================================================

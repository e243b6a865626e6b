---------------------------- MODULE LocalEngine -----------------------------
(***************************************************************************)
(* The rules of an offline game, fe/src/game/engine.js with the helpers of *)
(* fe/src/utils/deck.js.  The source is a set of pure functions from a     *)
(* game to a game, and so is this module: a game is a record, and each     *)
(* exported function is an operator.                                       *)
(*                                                                         *)
(* Hands and piles are sets: no rule reads the order of their cards.  The  *)
(* log, resultMsg, resultType and leader are only displayed and left out;  *)
(* a loser that is undefined or null is NoSeat.                            *)
(***************************************************************************)
EXTENDS AceRules

CONSTANTS
  Suits,      \* SUITS
  Ranks,      \* RANKS, by their RANK_VAL
  NoSuit,     \* ledSuit before the first card of a trick, null
  OpenSuit,   \* the suit and
  OpenRank    \*   rank of the card whose holder starts, the ace of spades

Card == [suit : Suits, rank : Ranks]
Opener == [suit |-> OpenSuit, rank |-> OpenRank]

ASSUME LocalDeckAssumption ==
  /\ IsFiniteSet(Suits) /\ NoSuit \notin Suits
  /\ IsFiniteSet(Ranks) /\ Ranks \subseteq Int
  /\ Opener \in Card
  /\ Cardinality(Card) >= N          \* deal leaves no hand empty

Played == [player : Seats, card : Card]
CardsOf(played) == {p.card : p \in played}
OfSuit(cards, suit) == {c \in cards : c.suit = suit}

Game ==
  [hands : [Seats -> SUBSET Card],
   roundCards : SUBSET Played,      \* the current trick, kept while it is shown
   ledSuit : Suits \cup {NoSuit},
   roundOrder : Seq(Seats),         \* the seats of the trick, in turn order
   turnIdx : Nat,                   \* index into roundOrder, counted from 0
   finished : Seq(Seats),
   phase : {"playing", "result", "gameOver"},
   suitVoids : [Seats -> SUBSET Suits],   \* the suits each seat has cut
   roundHistory : SUBSET Card,      \* the cards of all past tricks
   discard : SUBSET Card,           \* the cards that went dead
   nextLeader : Seats \cup {NoSeat},
   pendingAI : BOOLEAN,
   loser : Seats \cup {NoSeat}]

CurrentSeat(g) ==
  IF g.phase = "playing" THEN g.roundOrder[g.turnIdx + 1] ELSE NoSeat

-----------------------------------------------------------------------------
(* deal goes round the table, so the first |Card| % N seats hold one card   *)
(* more than the others; which cards they are is up to the shuffle.         *)
DealtTo(s) == (Cardinality(Card) - s + N - 1) \div N

Deals ==
  {[s \in Seats |-> {c \in Card : owner[c] = s}] :
     owner \in {o \in [Card -> Seats] :
                  \A s \in Seats :
                    Cardinality({c \in Card : o[c] = s}) = DealtTo(s)}}

FindStarter(hands) == CHOOSE s \in Seats : Opener \in hands[s]

InitGame(hands) ==
  [hands |-> hands, roundCards |-> {}, ledSuit |-> NoSuit,
   roundOrder |-> GetRoundOrder(FindStarter(hands), {}), turnIdx |-> 0,
   finished |-> <<>>, phase |-> "playing",
   suitVoids |-> [s \in Seats |-> {}], roundHistory |-> {}, discard |-> {},
   nextLeader |-> NoSeat, pendingAI |-> FALSE, loser |-> NoSeat]

HighestOf(played, suit) ==
  CHOOSE p \in played :
    /\ p.card.suit = suit
    /\ \A q \in played : q.card.suit = suit => q.card.rank <= p.card.rank

-----------------------------------------------------------------------------
(* Broken: the seats that have finished are dealt into the next trick.      *)
NextRoundOrderOfAll(g) == GetRoundOrder(g.nextLeader, {})

NextRoundOrder(g) == GetRoundOrder(g.nextLeader, Range(g.finished))

(* The end of the pause after a trick: a new trick, or the end of the game. *)
ResolveRound(g) ==
  IF Cardinality(ActiveSeats(g.finished, {})) <= 1
  THEN [g EXCEPT !.phase = "gameOver", !.roundCards = {},
                 !.loser = TerminalLoser(g.finished, {})]
  ELSE [g EXCEPT !.roundCards = {}, !.ledSuit = NoSuit, !.turnIdx = 0,
                 !.phase = "playing",
                 !.roundOrder = NextRoundOrder(g),
                 !.nextLeader = NoSeat, !.pendingAI = FALSE]

(* The cards a seat may play.                                               *)
LegalMoves(g, s) ==
  LET suited == OfSuit(g.hands[s], g.ledSuit)
  IN  IF g.ledSuit = NoSuit \/ suited = {} THEN g.hands[s] ELSE suited

-----------------------------------------------------------------------------
(* applyPlay refuses a card out of turn or off the led suit.  It does not   *)
(* ask whether the seat holds the card.                                     *)
Refused(g, s, card) ==
  \/ CurrentSeat(g) # s
  \/ /\ g.ledSuit \notin {NoSuit, card.suit}
     /\ OfSuit(g.hands[s], g.ledSuit) # {}

IsCut(g, card) == g.ledSuit \notin {NoSuit, card.suit}

LastInRound(g) == g.turnIdx = Len(g.roundOrder) - 1

FinishedAfter(g, s, hands) ==
  IF hands[s] = {} /\ s \notin Range(g.finished)
  THEN Append(g.finished, s)
  ELSE g.finished

(* In the middle of a trick the next seat acts.                             *)
NextInRound(g, fin) ==
  [g EXCEPT !.turnIdx = @ + 1,
            !.finished = fin,
            !.pendingAI = g.roundOrder[g.turnIdx + 2] # 0]

(* Broken: a taken pile is remembered as dead as well.                      *)
DiscardAlways(g, cut) == g.discard \cup CardsOf(g.roundCards)

(* Only the cards of a trick nobody cut leave the game.                     *)
DiscardAfter(g, cut) ==
  IF cut THEN g.discard ELSE g.discard \cup CardsOf(g.roundCards)

(* A trick ends with a cut, whose pile goes to the holder of the highest    *)
(* led card, who is back in the game; or when everybody has played.         *)
EndRound(g, cut, played) ==
  LET winner == HighestOf(g.roundCards, g.ledSuit).player
      back   == IF cut THEN RemoveInt(played, winner) ELSE played
  IN  [g EXCEPT !.hands[winner] = IF cut THEN @ \cup CardsOf(g.roundCards) ELSE @,
                !.finished = back,
                !.roundHistory = @ \cup CardsOf(g.roundCards),
                !.discard = DiscardAfter(g, cut),
                !.phase = "result",
                !.nextLeader = winner,
                !.pendingAI = FALSE,
                !.loser = TerminalLoser(back, {})]

ApplyPlay(g, s, card) ==
  LET cut    == IsCut(g, card)
      onTable ==
        [g EXCEPT !.hands[s] = @ \ {card},
                  !.roundCards = @ \cup {[player |-> s, card |-> card]},
                  !.ledSuit = IF @ = NoSuit THEN card.suit ELSE @,
                  !.suitVoids[s] = IF cut THEN @ \cup {g.ledSuit} ELSE @]
      fin    == FinishedAfter(g, s, onTable.hands)
  IN  IF Refused(g, s, card) THEN g
      ELSE IF cut \/ LastInRound(g) THEN EndRound(onTable, cut, fin)
      ELSE NextInRound(onTable, fin)
=============================================================================

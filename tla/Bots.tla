-------------------------------- MODULE Bots --------------------------------
(***************************************************************************)
(* The opponents of an offline game, fe/src/game/ai.js: what a bot         *)
(* remembers of the cards it has seen, whom it takes to be void in a suit, *)
(* and the card it plays.                                                  *)
(*                                                                         *)
(* Where several cards are equally good the code takes the first of them   *)
(* in the order of the hand; hands are sets here, and each of them may be  *)
(* taken.                                                                  *)
(***************************************************************************)
EXTENDS LocalEngine

HighestCards(cards) == {c \in cards : \A d \in cards : d.rank <= c.rank}
LowestCards(cards)  == {c \in cards : \A d \in cards : d.rank >= c.rank}

-----------------------------------------------------------------------------
(* Card memory.                                                             *)

SeenKeys(g, me) == g.roundHistory \cup CardsOf(g.roundCards) \cup g.hands[me]

(* The suits of which my cards, the table and the dead pile add up to all.  *)
ExhaustedSuits(g, me) ==
  {suit \in Suits :
     Cardinality(OfSuit(g.hands[me], suit))
       + Cardinality(OfSuit(g.discard, suit))
       + Cardinality({p \in g.roundCards : p.card.suit = suit})
         >= Cardinality(Ranks)}

IsVoid(g, p, suit, exhausted) == suit \in exhausted \cup g.suitVoids[p]

PlayersAfter(g) == SubSeq(g.roundOrder, g.turnIdx + 2, Len(g.roundOrder))

VoidBehind(g, suit, exhausted) ==
  \E p \in Range(PlayersAfter(g)) : IsVoid(g, p, suit, exhausted)

(* What leading a card would come to: the first void player behind me cuts, *)
(* and somebody who acts before may or may not outrank me.                  *)
LeadOutcome(g, me, lead, exhausted) ==
  LET after   == PlayersAfter(g)
      between == SelectInSeq(after, LAMBDA p :
                               IsVoid(g, p, lead.suit, exhausted)) - 1
      higherOut == \E c \in Card \ SeenKeys(g, me) :
                     c.suit = lead.suit /\ c.rank > lead.rank
  IN  IF ~VoidBehind(g, lead.suit, exhausted) THEN "safe"
      ELSE IF between > 0 /\ higherOut THEN "trap"
      ELSE "scoop"

-----------------------------------------------------------------------------
(* The decision.                                                            *)

ChooseCut(g, valid, exhausted) ==
  LET dumpable == HighestCards(valid)
      void == {c \in dumpable : VoidBehind(g, c.suit, exhausted)}
  IN  IF void # {} THEN void ELSE dumpable

ChooseFollow(g, valid, exhausted) ==
  LET safe == {c \in valid : \E p \in g.roundCards :
                 p.card.suit = g.ledSuit /\ c.rank < p.card.rank}
  IN  IF safe # {} THEN HighestCards(safe)
      ELSE IF VoidBehind(g, g.ledSuit, exhausted) THEN LowestCards(valid)
      ELSE HighestCards(valid)

(* The score of a lead, times ten to keep it whole.                         *)
LeadScore(g, me, lead, valid, exhausted) ==
  [safe |-> 0, trap |-> 400, scoop |-> -1000][LeadOutcome(g, me, lead, exhausted)]
  + 20 * Cardinality(OfSuit(valid, lead.suit)) - lead.rank

ChooseLead(g, me, valid, exhausted) ==
  LET leads == UNION {LowestCards(OfSuit(valid, suit)) : suit \in Suits}
      score == [c \in leads |-> LeadScore(g, me, c, valid, exhausted)]
  IN  {c \in leads : \A d \in leads : score[d] <= score[c]}

(* decideMove: the cards pickMove may return.                               *)
PickMove(g, me) ==
  LET valid     == LegalMoves(g, me)
      exhausted == ExhaustedSuits(g, me)
  IN  IF Cardinality(valid) = 1 THEN valid
      ELSE IF g.ledSuit = NoSuit THEN ChooseLead(g, me, valid, exhausted)
      ELSE IF \A c \in valid : c.suit = g.ledSuit
           THEN ChooseFollow(g, valid, exhausted)
      ELSE ChooseCut(g, valid, exhausted)
=============================================================================

\* Four seats, two suits of three ranks: all 180 deals of 2, 2, 1 and 1 cards.
SPECIFICATION Spec
CONSTANTS
  N = 4
  Suits <- MCSuits
  Ranks <- MCRanks
  NoSuit = "none"
  OpenSuit = "S"
  OpenRank = 14
INVARIANTS
  TypeOK
  CardsInOnePlace
  FinishedAreEmptyHanded
  TurnIsPlayable
  EverySeatActsOnce
PROPERTIES
  CardsLeaveForGood
  
  TurnSurvivesLeavers
  WinnerLeads
  ImplementsTurnGame
\* A game that is over accepts no more events.
CHECK_DEADLOCK FALSE

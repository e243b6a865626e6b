SPECIFICATION Spec
CONSTANTS
  N = 3
  Suits <- MCSuits
  Ranks <- MCRanks
  NoSuit = "none"
  OpenSuit = "S"
  OpenRank = 14
PROPERTIES
  LeaverSettlesOnlyIfAllPlayed
\* A game that is over accepts no more events.
CHECK_DEADLOCK FALSE

SPECIFICATION Spec
CONSTANTS
  N = 3
  Suits <- MCSuits
  Ranks <- MCRanks
  NoSuit = "none"
  OpenSuit = "S"
  OpenRank = 14
  MaxRetries = 1
  MaxDeals = 2
  NoTimer = NoTimer
\* A screen that was left does nothing any more.
CHECK_DEADLOCK FALSE
INVARIANTS
  ReportIsFinal
  PromptFits
  IdleWatchFits
  PauseIsItsOwn
  MemoryErrsByPilesOnly
PROPERTIES
  BotsMoveOn
  ImplementsTurnGame

SPECIFICATION FairSpec
CONSTANTS
  N = 3
  Reconnecting = {0}
  Twice = TRUE
  Users = {0, 1, 2}
  Sockets <- MCSockets
  Owner <- MCOwner
  Tables <- MCTables
  AwayAtStart = {0}
  MaxRetries = 1
INVARIANTS
  TypeOK
  WatchdogArmed
  NotServedOnGoneSocket
  ResultsFit
PROPERTIES
  BurnedAfterWarning
  DetachedByItsOwnSocket
  GameMovesOn
  AbandonedGameCloses
\* A game that is over handles no more events.
CHECK_DEADLOCK FALSE

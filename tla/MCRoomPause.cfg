SPECIFICATION Spec
CONSTANTS
  N = 3
  Reconnecting = {}
  Twice = FALSE
  Users = {0, 1, 2}
  Sockets <- MCSockets
  Owner <- MCOwner
  Tables <- MCTables
  AwayAtStart = {}
  MaxRetries = 1
PROPERTIES
  PauseRunsItsTime
\* A game that is over handles no more events.
CHECK_DEADLOCK FALSE

SPECIFICATION FairSpec
CONSTANTS
  Rooms = {r1, r2}
  CmdsBound = 2
  EventsBound = 2
PROPERTIES
  OverIsReleased
\* That the goroutines may all wait for each other is what the property shows.
CHECK_DEADLOCK FALSE

SPECIFICATION Spec
CONSTANTS
  a = a
  b = b
  a1 = a1
  a2 = a2
  b1 = b1
  c1 = c1
  c2 = c2
  Users = {a, b}
  Sockets = {a1, a2, b1}
  Owner <- MCOwner
  Codes = {c1, c2}
  MinPlayers = 2
  MaxPlayers = 3
  MaxRooms = 2
  EventsBound = 1
SYMMETRY Interchangeable
INVARIANTS
  TypeOK
  ByUIDIsLatest
  WaitersFit
  WaitsOnce
PROPERTIES
  SeatsAreHeld
  HostStays
  OnePlaceAtATime
\* Once every connection is gone and every game closed nothing happens.
CHECK_DEADLOCK FALSE

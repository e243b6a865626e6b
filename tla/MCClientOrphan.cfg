SPECIFICATION Spec
CONSTANTS
  MaxSockets = 2
  MaxPending = 1
  MaxStrays = 1
  MaxCreates = 2
  Waits = {"delete"}
  MaxOrphans = 1
INVARIANTS
  TornDown

SPECIFICATION FairSpec
CONSTANTS
  MaxSockets = 2
  MaxPending = 1
  MaxStrays = 1
  MaxCreates = 2
  Waits = {"delete"}
  MaxOrphans = 0
INVARIANTS
  SessionIsWhole
  QueueIsOurs
  WaitersAreQueued
PROPERTIES
  OpensOnlyOnline
  RequestsGoOut

\* Failures, disconnections and restarts at every point of the login and the
\* loop, for one room.
CONSTANTS
  r1 = r1
  r2 = r2
  k1 = k1
  k2 = k2
  None = None
  Rooms = {r1}
  Keys = {k1, k2}
  MaxEvents = 2
  MaxTroubles = 2
SPECIFICATION FairSpec
INVARIANTS
  TablesComplete
  OnlyNewShown
PROPERTIES
  ImplementsSyncLoop
  LoginSettles
  CatchesUp
CHECK_DEADLOCK FALSE

\* A failed attempt to leave one of two rooms.
CONSTANTS
  r1 = r1
  r2 = r2
  k1 = k1
  k2 = k2
  None = None
  Rooms = {r1, r2}
  Keys = {k1, k2}
  MaxEvents = 2
  MaxTroubles = 1
SPECIFICATION FairSpec
PROPERTY Resynced
CHECK_DEADLOCK FALSE

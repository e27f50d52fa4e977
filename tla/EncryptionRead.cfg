\* Room keys over up to two sessions of a device, disconnections and restarts.
CONSTANTS
  d1 = d1
  d2 = d2
  r1 = r1
  r2 = r2
  n1 = n1
  n2 = n2
  None = None
  Devices = {d1}
  Rooms = {r1, r2}
  Numbers = {n1, n2}
  MaxSent = 4
  MaxTroubles = 2
SPECIFICATION Spec
SYMMETRY Symmetry
INVARIANTS
  KeyedMessagesRead
  OpenedOnce
CHECK_DEADLOCK FALSE

\* An access token that is no longer good.
CONSTANTS
  r1 = r1
  r2 = r2
  k1 = k1
  k2 = k2
  None = None
  Rooms = {r1}
  Keys = {k1}
  MaxEvents = 1
  MaxTroubles = 2
SPECIFICATION Spec
INVARIANT PromptOnlyWithoutPassword
CHECK_DEADLOCK FALSE

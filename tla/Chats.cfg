\* Two rooms, through invitations, joins, departures and reconnections.
CONSTANTS
  r1 = r1
  r2 = r2
  Rooms = {r1, r2}
  None = None
  MaxEvents = 3
  MaxTroubles = 2
SPECIFICATION FairSpec
INVARIANTS
  JoinedToCome
  ConversationsAreJoined
  WishHonoured
  InvitesRaised
  MessagesShown
PROPERTIES
  JoinedShown
CHECK_DEADLOCK FALSE

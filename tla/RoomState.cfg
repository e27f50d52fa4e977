\* Members who come and go, the user list and the room's title.
CONSTANTS
  me = me
  u1 = u1
  u2 = u2
  u3 = u3
  n1 = n1
  n2 = n2
  Me = me
  RoomId = room
  None = None
  Users = {me, u1, u2, u3}
  Displaynames = {n1}
  Values = {v1}
  Memberships = {"join", "leave", "invite"}
  NameKeys = {"m.room.name", "m.room.canonical_alias"}
  MaxChanges = 3
SPECIFICATION Spec
SYMMETRY Symmetry
INVARIANTS
  TypeOK
  AssertsHold
  UserListMirrors
  TitleCurrent
CHECK_DEADLOCK FALSE

\* A room that has aliases and no name.
CONSTANTS
  me = me
  u1 = u1
  u2 = u2
  u3 = u3
  n1 = n1
  n2 = n2
  Me = me
  RoomId = room
  None = None
  Users = {me, u1}
  Displaynames = {n1}
  Values = {v1}
  Memberships = {"join"}
  NameKeys = {"m.room.aliases"}
  MaxChanges = 2
SPECIFICATION Spec
INVARIANT TitleCurrent
CHECK_DEADLOCK FALSE

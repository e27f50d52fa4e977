\* A plain attachment is received while a message is being sent.
CONSTANTS
  t1 = t1
  t2 = t2
  i1 = i1
  h1 = h1
  h2 = h2
  h3 = h3
  None = None
  Events = {t1, t2, i1}
  Images = {i1}
  Handles = {h1, h2}
  Inputs = {"plain"}
  MaxFailures = 0
SPECIFICATION Spec
INVARIANT LeaveCancelsSend
CHECK_DEADLOCK FALSE

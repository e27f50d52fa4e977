\* Failures, reconnections and vanishing images; text and images are sent,
\* nothing is received: the properties of the queue, the channel and progress.
CONSTANTS
  t1 = t1
  t2 = t2
  i1 = i1
  h1 = h1
  h2 = h2
  h3 = h3
  None = None
  Events = {t1, t2, i1}
  Images = {i1}
  Handles = {h1, h2}
  Inputs = {"uiRelease"}
  MaxFailures = 3
SPECIFICATION FairSpec
INVARIANTS
  NothingLost
  InOrder
  SlotGuardsSend
  NoBadAccess
  UploadKeepsImage
  SlotIsLive
  IdleOnlyAfterFailure
PROPERTIES
  ImplementsFifo
  SendingSettles
CHECK_DEADLOCK FALSE

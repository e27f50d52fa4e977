\* Every kind of input, attachments that share the slot included.
CONSTANTS
  t1 = t1
  t2 = t2
  i1 = i1
  h1 = h1
  h2 = h2
  h3 = h3
  None = None
  Events = {t1, t2, i1}
  Images = {i1}
  Handles = {h1, h2, h3}
  Inputs = {"plain", "crypt", "nofetch", "noUri", "uiRelease"}
  MaxFailures = 2
SPECIFICATION Spec
SYMMETRY Symmetry
INVARIANTS
  TypeOK
  OnlyHeadEverSent
CHECK_DEADLOCK FALSE

\* The same clients: the check of a transition is stale where they overlap.
SPECIFICATION HplbaSpec
CONSTANTS
  b1 = b1
  b2 = b2
  c1 = c1
  c2 = c2
  Lba = {b1, b2}
  Client = {c1, c2}
  Opens <- MCOpens
  Populated = {b1, b2}
  chip <- MCchip
  CntrMod = 1
  MaxReloads = 1
PROPERTIES LegalTransitions
CHECK_DEADLOCK TRUE

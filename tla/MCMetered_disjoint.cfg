\* Two pcitops at the same time, each with a bridge of its own.
SPECIFICATION MeteredSpec
CONSTANTS
  b1 = b1
  b2 = b2
  b3 = b3
  p1 = p1
  Lba = {b1, b3}
  Client = {p1, p2}
  Populated = {b1, b3}
  CntrMod = 2
  MaxReloads = 0
  Opens <- MCOpens
  Display <- MCDisplay
  chip <- MCchip
  NSamples = 1
  Endless = FALSE
  UTIL_ROWS = 1
  WordMod = 4
  MaxKills = 0
  MaxTicks = 1
INVARIANTS NoStoreRejected CountersStoppedAtExit
PROPERTIES ImplementsMeter
CHECK_DEADLOCK FALSE

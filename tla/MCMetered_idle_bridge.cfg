\* A bridge with no device behind it.
SPECIFICATION MeteredSpec
CONSTANTS
  b1 = b1
  b2 = b2
  b3 = b3
  p1 = p1
  Lba = {b1}
  Client = {p1}
  Populated = {}
  CntrMod = 2
  MaxReloads = 0
  Opens <- MCOpens
  Display <- MCDisplay
  chip <- MCchip
  NSamples = 2
  Endless = FALSE
  UTIL_ROWS = 1
  WordMod = 4
  MaxKills = 0
  MaxTicks = 1
INVARIANTS IdleBridgeShowsZero
CHECK_DEADLOCK FALSE

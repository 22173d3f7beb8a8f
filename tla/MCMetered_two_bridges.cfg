\* One pcitop with two bridges, interrupted at any moment; the driver may go.
SPECIFICATION MeteredSpec
CONSTANTS
  b1 = b1
  b2 = b2
  b3 = b3
  p1 = p1
  Lba = {b1, b2}
  Client = {p1}
  Populated = {b1, b2}
  CntrMod = 2
  MaxReloads = 1
  Opens <- MCOpens
  Display <- MCDisplay
  chip <- MCchip
  NSamples = 2
  Endless = FALSE
  UTIL_ROWS = 2
  WordMod = 4
  MaxKills = 0
  MaxTicks = 1
PROPERTIES ImplementsMeter
CHECK_DEADLOCK FALSE

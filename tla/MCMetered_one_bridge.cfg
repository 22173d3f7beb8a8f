\* One bridge, no end of samples, counters that wrap; pcitop is interrupted, killed
\* and run again, the driver removed and inserted again.
SPECIFICATION MeteredSpec
CONSTANTS
  b1 = b1
  b2 = b2
  b3 = b3
  p1 = p1
  Lba = {b1}
  Client = {p1}
  Populated = {b1}
  CntrMod = 3
  MaxReloads = 1
  Opens <- MCOpens
  Display <- MCDisplay
  chip <- MCchip
  NSamples = 1
  Endless = TRUE
  UTIL_ROWS = 1
  WordMod = 6
  MaxKills = 1
  MaxTicks = 3
INVARIANTS MeasureTypeOK SampleAccurate AverageAccurate InterruptBounded NoStoreRejected CountersStoppedAtExit
PROPERTIES RefusedForGood InterruptEnds
CHECK_DEADLOCK FALSE

\* Any call may fail.
SPECIFICATION StartupSpec
CONSTANTS
  r1 = r1
  r2 = r2
  r3 = r3
  b1 = b1
  b2 = b2
  b3 = b3
  s1 = s1
  s2 = s2
  s3 = s3
  eth0 = eth0
  eth1 = eth1
  NULL = NULL
  RootBridges = {r1, r2}
  Lbas = {r1, r2}
  Buses = {b1, b2, b3}
  Slots = {s1, s2, s3}
  Link <- MCLink
  Address <- MCAddress
  PciId <- MCPciId
  SlotName <- MCSlotName
  Interfaces <- MCInterfaces
  NoAddress = {s3}
  Args <- TextArgs
  MaxArgs = 1
  PrintedWidths <- Widths
  Faults = {"opendir", "calloc", "driver", "user"}
INVARIANTS StartupTypeOK SlotUnderOwnBridge ListsAgree CrashNeedsLostBridge
  LateCrashNeedsLostBridge DisplayCount MeasureReady
  BannerFitsWhenLastShown LineFitsExactly
CHECK_DEADLOCK FALSE

\* Two bridges, of which two clients use one and one client the other; the
\* driver reloaded once.  No property looks at the counts.
SPECIFICATION HplbaSpec
CONSTANTS
  b1 = b1
  b2 = b2
  c1 = c1
  c2 = c2
  Lba = {b1, b2}
  Client = {c1, c2}
  Opens <- MCOpens
  Populated = {b1, b2}
  chip <- MCchip
  CntrMod = 1
  MaxReloads = 1
INVARIANTS TypeOK StateMatchesHw ProgrammedWhenQuiet
PROPERTIES ExclusiveTransitions InitFirst
CHECK_DEADLOCK TRUE

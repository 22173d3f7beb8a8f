\* Three bridges, two readers with a call each; names of five digits; lines of up to
\* three characters; two lists with three nodes.
SPECIFICATION Spec
CONSTANTS
  a = a
  b = b
  g = g
  p1 = p1
  p2 = p2
  Lba = {a, b, g}
  Reader = {p1, p2}
  RegisterSets <- AllRegisterSets
  MaxReads = 1
  lba = lba
  slot = slot
  Callers = {lba, slot}
  N <- MCN
  PageSize = 5
  Chars = {"0", "1"}
  MaxText = 3
  h1 = h1
  h2 = h2
  n1 = n1
  n2 = n2
  n3 = n3
  NULL = NULL
  Heads = {h1, h2}
  Nodes = {n1, n2, n3}
  NameDigits = {0, 1, 2, 5, 9}
INVARIANTS ModeAndSpeedFit NamesSurvive RevisionOfChipset AttributesOwn PlaceIsWXYZZ ShowsLastRead
  Linked AnswersAgree LoopKeepsPlace
CHECK_DEADLOCK FALSE

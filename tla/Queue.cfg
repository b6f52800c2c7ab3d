SPECIFICATION Spec
CONSTANTS
  a1 = a1
  a2 = a2
  r = r
  p1 = p1
  p2 = p2
  Names = {"s", "t"}
  Creators = {a1, a2}
  Removers = {r}
  Pushers = {p1, p2}
  Scenarios <- MCScenarios
INVARIANTS
  TypeOK
  AcceptedIsKept
  TailIsStored
  ListedHasCursors
CHECK_DEADLOCK FALSE

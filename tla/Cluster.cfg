SPECIFICATION Spec
CONSTANTS
  i1 = i1
  i2 = i2
  i3 = i3
  Instances = {i1, i2, i3}
  Topics = {t}
  Lines = {x}
  Scenarios <- MCScenarios
CHECK_DEADLOCK FALSE
INVARIANTS
  TypeOK
  MissingIsExplained
  GhostIsExplained
PROPERTIES
  FallsSilent

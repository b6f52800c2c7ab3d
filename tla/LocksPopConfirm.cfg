SPECIFICATION Spec
CONSTANTS
  Procs = {p1, p2}
  Mixes = {{"pop", "confirm"}}
INVARIANTS
  NoWaitCycle

SPECIFICATION Spec
CONSTANTS
  Procs = {p1, p2, p3}
  Mixes = {{"pop", "stat", "empty", "push", "create", "removeLine", "createTopic", "remove", "backup", "clean", "close"},
           {"confirm", "stat", "push", "create", "removeLine", "createTopic", "remove", "backup", "clean", "close"}}
INVARIANTS
  NoWaitCycle

SPECIFICATION Spec
CONSTANTS
  Topics = {t}
  MaxOps = 2
  MaxFaults = 1
CHECK_DEADLOCK FALSE
INVARIANTS
  TypeOK
  NobodyWritesLate
  ClosedIsUnlisted
  OneWatcher
PROPERTIES
  StopsInTheEnd
  QueueIsClosed
  WatchComesBack

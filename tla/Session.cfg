SPECIFICATION Spec
CONSTANTS
  EntryConns = {c1}
  AdminConns = {c2}
  Topics = {"t"}
  Lines = {"x", "y"}
  LongNames = {"y"}
  OddNames = {"y"}
  Numerals <- MCNumerals
  Recycles = {0, 1}
  Mixes = {{"x", "push", "pop", "del"}, {"x", "mpush", "mpop", "mdel"}, {"x", "push", "long", "quit", "other", "stat"}, {"x", "pop", "empty", "del"}, {"x", "rm", "pop", "del"}, {"y", "add", "pop"}}
  MaxSent = 4
  MaxPipe = 2
  MaxMessages = 2
  MaxCuts = 1
CHECK_DEADLOCK FALSE
INVARIANTS
  TypeOK
  RepliesInStep
  IdsAreGood
  ToldIsTrue
  ConfirmedWasReceived
PROPERTIES
  HandlersRest

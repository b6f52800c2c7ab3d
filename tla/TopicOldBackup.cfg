SPECIFICATION Spec
CONSTANTS
  w1 = w1
  w2 = w2
  Names = {"x", "y"}
  RecycleOf <- MCRecycleOf
  Workers = {w1, w2}
  MaxTail = 2
  Scenarios <- MCOldBackup
INVARIANTS
  PopFindsItsMessage

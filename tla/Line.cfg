SPECIFICATION LiveSpec
CONSTANTS
  Recycles = {0, 2}
  MaxTail = 4
  MaxBatch = 2
  StoreFaults = TRUE
INVARIANTS
  TypeOK
  NothingLost
  FlightTracked
  CursorsOrdered
  IHeadTight
PROPERTIES
  NeverAgain
  ImplementsDelivery
  ExpiryOrdered
  ExpiredIsRedelivered
  PassedIsReclaimed

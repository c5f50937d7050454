SPECIFICATION FairCoordinatorSpec
CONSTANTS
  Requests = {r1, r2, r3, r4}
  QueueLimit = 2
  r1 = r1
  r2 = r2
  r3 = r3
  r4 = r4
INVARIANTS
  WaitersAreSuspended
PROPERTIES
  ImplementsSerialQueue
  CancelledWaiterReturns
  EveryCallReturns

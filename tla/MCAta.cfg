SPECIFICATION AFairSpec
CONSTANTS
  t1 = t1
  t2 = t2
  t3 = t3
  none = none
  Thread <- ThreeThreads
  NoThread = none
  MaxNest = 2
  Requests <- MCRequests
  Buses <- MCBuses
  Far = 2
  Byte = 3
  NoX = NoX
  Ended = Ended
INVARIANTS
  MovesItsSectors
  IrqComes
PROPERTIES
  ImplementsMutex
  WaiterServed
\* the model ends where two transfers mix
CHECK_DEADLOCK FALSE

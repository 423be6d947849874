SPECIFICATION KeyFilesSpec
CONSTANTS
  N = 3
  Keyed <- SomeKeys
  MaxUnread = 4
  init = init
  sh = sh
  f1 = f1
  f2 = f2
  none = none
  Thread <- TwoThreads
  Init0 = init
  File <- TwoFiles
  Null = none
  FdMax = 3
  MaxStrays = 1
INVARIANTS
  NeverWokenForNothing
  InOrder
  RefExact
  NoDangling
SYMMETRY Files2
\* a thread's life ends, and a null thread to wake stops the machine
CHECK_DEADLOCK FALSE

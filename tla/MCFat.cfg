SPECIFICATION Spec
CONSTANTS
  Files = {a, b}
  NE = 8
  WS = 4
  CS = 2
  DS = 1
  Bad = {5}
  LastUseful = 6
  MaxLen = 4
  Lens = {2, 3}
  Zero = Zero
  Junk = Junk
  NoBuf = NoBuf
  NoFile = NoFile
  Missing = Missing
  Lost = Lost
  Idle = Idle
INVARIANTS
  CacheAgrees
  ChainsApart
  SizeIsChain
PROPERTIES
  ImplementsStore
SYMMETRY Alike
\* the model ends where the driver goes on with a freed buffer
CHECK_DEADLOCK FALSE

SPECIFICATION Spec
CONSTANTS
  Frames = {3,4,5,6,7,8,9,10,11,16,17,18,19,20}
  KPages = {1,2,3,4,5,6,7,8,9,10,11,12,13,14,15}
  Procs = {p, q}
  Pages = {0, 1, 2, 3}
  ArgsPage = 3
  StackPages = {2}
  Area <- MCArea
  FilePages = 1
  TcbPages = 1
  DirPages = 1
  Loads <- MCLoads
  Images <- MCImages
  Breaks <- MCBreaks
  Values = {1}
  Code = 0
  Bound <- MCBound
  None = None
SYMMETRY Alike
INVARIANTS
  OneOwner
  BreakMapped
PROPERTY
  ForkCopies
\* memory is bounded, and a race stops the model
CHECK_DEADLOCK FALSE

SPECIFICATION VfsSpec
CONSTANTS
  Threads = {t, u}
  Names = {"root", "boot", "dev", "mnt", "sub", "cfg", "kbd", "log", "old", "new", "x"}
  Dirs <- MCDirs
  Root = "root"
  Kind <- MCKind
  Disc <- MCDisc
  Behind <- MCBehind
  Booted <- MCBooted
  Slots = {f, g}
  Opens <- MCOpens
  Sizes = {2}
  Offsets = {0, 2}
  CS = 2
  MaxOff = 3
  MaxDents = 5
  MaxCalls = 4
  Dot = "."
  DotDot = ".."
  NoDir = NoDir
  Free = Free
  Idle = Idle
INVARIANTS
  LookupRight
  OneOfEach
  ReferCounts
  OwnPlace
SYMMETRY Alike
\* the calls are bounded, and a null function stops the machine
CHECK_DEADLOCK FALSE

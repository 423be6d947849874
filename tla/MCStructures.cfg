SPECIFICATION StructuresSpec
CONSTANTS
  FirstPage = 3
  EndPage = 11
  MaxOrder = 2
  Size <- MCSize
  Classes <- TwoClasses
  N = 4
  MaxSlabs = 2
  k1 = k1
  k2 = k2
  k3 = k3
  k4 = k4
  Keys = {k1, k2, k3, k4}
  MapValues = {1, 2}
  HashOf <- MCHash
  InitialSize = 8
  ChainLength = 2
  MaxTable = 16
  Nothing = 0
  t1 = t1
  t2 = t2
  t3 = t3
  ata0 = ata0
  fb = fb
  kbd = kbd
  Tcbs = {t1, t2, t3}
  MainTcb = t1
  LastPid = 2
  PidUnit = 2
  Devices <- MCDevices
  DevMax = 2
  Null = Null
  Garbage = Garbage
  HeapRequests = {2, 3, 5}
  CoreUnits = 4
  OwnUnits = 1
  HeapTop = 13
  Width = 8
  FormatChars = {"%", "d", "u", "x", "s", "c", "0", "3"}
  FormatLength = 4
  Numbers <- MCNumbers
  Strings <- MCStrings
  PipeSize = 5
  Byte <- TwoBytes
  MaxWrite = 3
  MaxRead = 4
  Lists = {1, 2}
  Elems <- MCElems
  HeadOf <- MCHead
  TailOf <- MCTail
  NoLink = NoLink
  CellCount = 5
  TextBytes = {65, 97}
INVARIANTS
  NoOverlap
  UnitsApart
  MapHoldsLast
  DevicesShown
  PidMap
  HeapWhole
  ReadsBack
  InOrder
  LinksHold
  StringsRight
PROPERTIES
  ImplementsPool
\* a format ends, a kernel page fault and a full pid map stop the machine
CHECK_DEADLOCK FALSE

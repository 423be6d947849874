SPECIFICATION BootSpec
CONSTANTS
  main = main
  init = init
  none = none
  Thread <- BootAndInit
  Main = main
  KThread <- NoKThread
  NoThread = none
  TimeCont = 1
  TickMod = 11
  SleepTimes <- LongNap
PROPERTIES
  BlockedNotRun

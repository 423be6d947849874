SPECIFICATION FairSpec
CONSTANTS
  main = main
  key = key
  init = init
  sh = sh
  none = none
  Thread <- WithKeyThread
  Main = main
  KThread <- KeyOnly
  NoThread = none
  TimeCont = 1
  TickMod = 9
  SleepTimes <- Naps
PROPERTIES
  WaitReturns

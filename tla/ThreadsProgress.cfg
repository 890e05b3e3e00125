CONSTANTS
  Clock = 4
  Short = 2
  MinSleep = 1
  MaxSleep = 1
  MaxKernelSleep = 1
  MaxMs = 1
  MaxDelay = 1
  Window = TRUE
SPECIFICATION FairSpec
PROPERTIES RadioServed AlarmServed WaiterEnters SleepEnds

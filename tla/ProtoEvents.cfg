CONSTANTS
  Process = {a, b}
  ETimer = etimer_process
  Radio = radio_process
  NULL = NULL
  NumEvents = 1
  Clock = 7
  MaxDelay = 1
  MaxLag = 1
  MaxLate = 1
  Correction = 2
  MaxOdd = 1
  Uses <- AllUses
SPECIFICATION FairSpec
CHECK_DEADLOCK FALSE
INVARIANTS TypeOK ExitsSound OneCallEach SleepsOnlyIdle
PROPERTIES PollServed TimersFireUnlessMissed

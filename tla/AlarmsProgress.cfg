CONSTANTS
  Alarm = {a1, a2}
  NULL = NULL
  Clock = 12
  MaxDelay = 2
  MaxPass = 1
  MaxLag = 2
  Uses = {"once", "others"}
SPECIFICATION FairSpec
INVARIANT TypeOK
PROPERTY AlarmsFire

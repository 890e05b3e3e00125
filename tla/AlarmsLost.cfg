CONSTANTS
  Alarm = {a1, a2, a3}
  NULL = NULL
  Clock = 8
  MaxDelay = 1
  MaxPass = 1
  MaxLag = 1
  Uses = {"once", "remove"}
SPECIFICATION Spec
INVARIANT ListSound

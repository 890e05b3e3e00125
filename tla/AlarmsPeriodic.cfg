CONSTANTS
  Alarm = {a1, a2, a3}
  NULL = NULL
  Clock = 12
  MaxDelay = 2
  MaxPass = 1
  MaxLag = 2
  Uses = {"others", "now", "remove"}
SPECIFICATION Spec
SYMMETRY Symmetry
INVARIANT ListSound
PROPERTY ImplementsAlarmSpec

CONSTANTS
  Thread = {t1, t2}
  Name = {n1, n2}
  Mode = {"read", "append"}
  Entries = 2
  MaxOpen = 2
  Segments = 1
  PerSegment = 2
  BlockData = 2
  MaxSize = 3
SPECIFICATION Spec
 
SYMMETRY Symmetry
VIEW View
ACTION_CONSTRAINT FirstOfEquals
INVARIANTS TypeOK     HandlesSound SomeCallGoesOn
CHECK_DEADLOCK FALSE

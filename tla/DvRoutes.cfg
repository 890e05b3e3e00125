CONSTANTS
  Node = {n1, n2}
  Root = root
  NULL = NULL
  MaxHop = 3
  Seqnums = 5
SPECIFICATION Spec
SYMMETRY Symmetry
INVARIANTS TypeOK NextHopCloser NoFlood NewsScheduled

CONSTANTS
  Node = {n1, n2}
  Sender = {n1}
  Nexthop = {n2, n3, "any"}
  MaxAttempts = 2
  Tries = 4
  Seqnums = 3
SPECIFICATION FairSpec
CHECK_DEADLOCK FALSE
INVARIANTS TypeOK QueueSound NeverForgotten
PROPERTIES AckMeansDelivered SlotFreedUnlessTorn

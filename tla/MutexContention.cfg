CONSTANTS
  Thread = {kernel, user0, user1, user2, user3}
  NoThread = NoThread
SPECIFICATION Spec
INVARIANTS TypeOK MutualExclusion NoLostWaiter
CHECK_DEADLOCK FALSE

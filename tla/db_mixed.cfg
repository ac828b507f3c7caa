SPECIFICATION Spec
CONSTANTS
  t1 = t1
  t2 = t2
  t3 = t3
  NoThread = NoThread
  ServiceThreads <- Threads3
  Tuples <- TwoTuples
  Patterns <- TwoPatterns
  Commands <- AllCommands
  MaxCommands = 4
SYMMETRY Symmetry
CHECK_DEADLOCK FALSE
INVARIANTS
  TypeOK
  ReplyMatchesRequest
  BlockedWaiterIsQueued
  OnlyBlockedWaitersNotified
  NoWaiterPassedOver
  NoDuplicateTuples
  IInv

SPECIFICATION FairSpec
CONSTANTS
  c1 = c1
  c2 = c2
  Clients <- Clients2
  Tuples <- BothTuples
  Patterns <- BothPatterns
  Commands <- AllCommands
  MaxCommands = 3
  MayDie = FALSE
  Arrives <- Whole
CHECK_DEADLOCK FALSE
PROPERTIES
  CommandReturns
  GoodbyeEndsThread

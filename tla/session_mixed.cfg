SPECIFICATION Spec
CONSTANTS
  c1 = c1
  c2 = c2
  Clients <- Clients2
  Tuples <- AllTuples
  Patterns <- AllPatterns
  Commands <- AllCommands
  MaxCommands = 3
  MayDie = TRUE
  Arrives <- Damaged
SYMMETRY Symmetry
CHECK_DEADLOCK FALSE
INVARIANTS
  TypeOK
  AnswersCommand
  ExchangeIsOver
  ThrowsOnlyIfDamaged
PROPERTIES
  ImplementsTupleSpace

SPECIFICATION MCSpec
CONSTANTS
  INT_MAX = 99
  Lines <- AllLines
  Messages <- AllMessages
  DoubleBytes <- SampleDouble
  CommandLines <- UpToThree
  Depth = 2
CHECK_DEADLOCK FALSE
INVARIANTS
  ProgramTypeOK
  AcceptsTheGrammar
  ShownIsTypeable
  CommandArrives
  MessagesArrive
  CutoffIsExact
  CommandLineIsRead

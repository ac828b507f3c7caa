SPECIFICATION FairSpec
CONSTANTS
  main = main
  s1 = s1
  Threads <- TwoThreads
  Signals <- FromUser
  MaxLines = 1
  g_stderr_verbosity = 1
  MayInterruptMalloc = TRUE
CHECK_DEADLOCK FALSE
INVARIANTS
  TypeOK
  SinksAgree
  KilledIsLogged
PROPERTIES
  CleansUp

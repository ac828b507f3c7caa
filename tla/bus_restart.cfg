SPECIFICATION Spec
CONSTANTS
  c1 = c1
  c2 = c2
  c3 = c3
  Clients <- Clients3
  MaxPairs = 3
  MaxStarts = 2
  Faults <- AllFaults
SYMMETRY Symmetry
CHECK_DEADLOCK FALSE
INVARIANTS
  TypeOK
  BusMutex
  PairsAreOwn
  ExchangesAreSerial
  ServedByOwnThread

SPECIFICATION FairSpec
CONSTANTS
  c1 = c1
  c2 = c2
  c3 = c3
  Clients <- Clients3
  MaxPairs = 3
  MaxStarts = 1
  Faults <- NoFaults
CHECK_DEADLOCK FALSE
PROPERTY
  ClientConnects

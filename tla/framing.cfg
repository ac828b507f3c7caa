SPECIFICATION FairSpec
CONSTANTS
  Messages <- AllMessages
  MaxMessages = 4
  PipeSize = 6
  PIPE_READ_SIZE = 4
  max_size_ = 8
CHECK_DEADLOCK FALSE
INVARIANTS
  TypeOK
  NothingWithheld
PROPERTIES
  ImplementsChannel
  EveryMessageArrives

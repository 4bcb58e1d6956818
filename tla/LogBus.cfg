SPECIFICATION Spec
CONSTANTS
  Producers = {server, s1}
  BufferSize = 2
  MaxLogs = 3
INVARIANTS
  TypeOK
  LoggedInOrder
  NoLostWakeup
PROPERTIES
  DueWritten
  BlockedPushReturns
CHECK_DEADLOCK FALSE

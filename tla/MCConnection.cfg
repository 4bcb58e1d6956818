SPECIFICATION Spec
CONSTANTS
  Streams <- MCStreams
  HeaderSize = 2
  PayloadSize <- MCPayloadSize
  BufSize = 6
  SendBuffer = 2
  HighWatermark = 4
  MaxBusPackets = 1
INVARIANTS
  TypeOK
  PacketsInOrder
  PayloadIntact
  RepliesInOrder
  OutputWatched
  InputWatched
PROPERTIES
  QueueEmptied
CHECK_DEADLOCK FALSE

CONSTANTS
  t1 = t1
  t2 = t2
  c1 = c1
  c2 = c2
  c3 = c3
  NoThread = NoThread
  NoChunk = NoChunk
  Threads <- TwoThreads
  ChunkIds = {c1, c2, c3}
  ChunkSize = 2
  Replies = {1}
  BufferSize = 2
  BufferCount = 4
  HeaderSize = 2
  MaxPacket = 3
  MaxPackets = 3
  MaxMessages = 1
SYMMETRY Symmetry
SPECIFICATION Spec
INVARIANTS
  StreamIsWhole
  RoomToRead
  QueuedBytesIntact
  ChunkHasOnePlace
CHECK_DEADLOCK FALSE

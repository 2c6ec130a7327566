SPECIFICATION Spec
CONSTANTS
  HeaderSize = 64
  ChunkHeaderSize = 24
  MinChunkSize = 4
  MaxChunkSize = 12
  MaxPlaintextSize = 144
  U32 = 512
  SizeMax = 511
  Noise = Noise
  NoPlain = NoPlain
  Threads = {"t1"}
  Keys = {"k1", "k2"}
  Prefixes = {7}
  ShrinkThreshold = 3
  KeySize = 32
  MaxCalls = 1
  Requests <- MCRequests
CHECK_DEADLOCK FALSE
INVARIANTS TypeOK RoomForChunk IssuesFinishedFiles

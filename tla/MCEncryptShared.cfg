SPECIFICATION Spec
CONSTANTS
  HeaderSize = 64
  ChunkHeaderSize = 24
  MinChunkSize = 2
  MaxChunkSize = 4
  MaxPlaintextSize = 4
  U32 = 512
  SizeMax = 65535
  Noise = Noise
  NoPlain = NoPlain
  Threads = {t1, t2}
  Keys = {"k1", "k2"}
  Prefixes = {7, 8}
  ShrinkThreshold = 3
  KeySize = 32
  MaxCalls = 2
  Requests <- SharedRequests
SYMMETRY ThreadSymmetry
CHECK_DEADLOCK FALSE
INVARIANTS NonceNeverReused WithinReadLimit
PROPERTY ImplementsContract

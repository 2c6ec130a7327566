SPECIFICATION FairSpec
CONSTANTS
  HeaderSize = 64
  ChunkHeaderSize = 24
  MinChunkSize = 4
  MaxChunkSize = 400
  MaxPlaintextSize = 8000
  U32 = 2048
  SizeMax = 2047
  Noise = Noise
  NoInput = NoInput
  Keys = {"k1", "k2", "k3"}
  ShortKeys = {"short"}
  Written <- MCWritten
  Inputs <- MCInputs
  EntrySize = 28
  KeySize = 32
INVARIANTS TypeOK AcceptsOnlySealed IntactOpens AllocationBound
  WalkStaysInside WritesHaveRoom
PROPERTIES CallsReturn ImplementsContract

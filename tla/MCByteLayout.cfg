\* Headers and records one byte of which changes, and records that move.
SPECIFICATION LayoutSpec
CONSTANTS
  HeaderSize = 64
  ChunkHeaderSize = 24
  MinChunkSize = 16
  MaxChunkSize = 60000
  MaxPlaintextSize = 1000000
  U32 = 65536
  SizeMax = 1000000000
  Base = 16
  Magic <- MCMagic
  Headers <- MCHeaders
  Chunks <- MCChunks
  TagBytes <- MCTag
  Indices <- MCIndices
  Changed = {0, 1, 2, 7}
  MaxChanges = 1
INVARIANTS ReadsWhatWasWritten NoByteIsIgnored ChunksAreToldApart
\* Nothing is left to change.
CHECK_DEADLOCK FALSE

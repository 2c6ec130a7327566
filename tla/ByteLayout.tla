----------------------------- MODULE ByteLayout -----------------------------
(***************************************************************************)
(* The bytes under Format.tla (src/src/crypt/format.cc): where each field  *)
(* of the header and of a chunk record lies, how integers are written and  *)
(* read, and what bytes the associated data and the nonce of a chunk are.  *)
(*                                                                         *)
(* A file is written, some of its bytes change on their way or a record is *)
(* looked at in another place, and it is read.  Format.tla treats a header *)
(* as the record of its fields; the properties here are what allows that.  *)
(***************************************************************************)
EXTENDS Format, Sequences

CONSTANTS
  Base,        \* how many values a byte has, 256
  Magic,       \* the eight bytes of kMagic
  Headers,     \* headers written
  Chunks,      \* [stored, flags]: chunk records written
  TagBytes,    \* the sixteen bytes of a tag
  Indices,     \* chunk indices
  Changed,     \* values a changed byte takes
  MaxChanges   \* bytes that change, at most

Byte == 0..(Base - 1)
U16 == Base * Base

\* The fields fill header and record (static_asserts, format.cc:92-95).
ASSUME ByteLayoutAssumption ==
  /\ HeaderSize = 64 /\ ChunkHeaderSize = 24
  /\ Base \in Nat \ {0, 1} /\ U32 = U16 * U16 /\ MaxChanges \in Nat
  /\ Magic \in [1..8 -> Byte] /\ TagBytes \in [1..16 -> Byte]
  /\ Changed \subseteq Byte /\ Indices \subseteq 0..(U32 - 1)

\* A FileHeader: each field within its C type, the reserved one 0.
IsFileHeader(h) ==
  /\ h = [magic |-> kMagic, format_version |-> h.format_version,
          kdf_id |-> h.kdf_id, aead_id |-> h.aead_id,
          compression_id |-> h.compression_id,
          kdf |-> [log_n |-> h.kdf.log_n, r |-> h.kdf.r, p |-> h.kdf.p],
          salt |-> h.salt, nonce_prefix |-> h.nonce_prefix,
          chunk_size |-> h.chunk_size, plaintext_size |-> h.plaintext_size,
          chunk_count |-> h.chunk_count, reserved |-> 0]
  /\ {h.kdf_id, h.aead_id, h.compression_id, h.kdf.log_n} \subseteq Byte
  /\ h.format_version \in 0..(U16 - 1)
  /\ h.plaintext_size \in Nat /\ h.plaintext_size \div U32 \in 0..(U32 - 1)
  /\ {h.kdf.r, h.kdf.p, h.chunk_size, h.chunk_count} \subseteq 0..(U32 - 1)
  /\ h.salt \in [1..16 -> Byte] /\ h.nonce_prefix \in [1..8 -> Byte]

ASSUME WrittenAssumption ==
  /\ \A h \in Headers : IsFileHeader(h)
  /\ \A c \in Chunks : c = [stored |-> c.stored, flags |-> c.flags]
       /\ c.stored \in 0..(U32 - 1) /\ c.flags \in SUBSET {"compressed"}

VARIABLES
  written,  \* [hdr, chunk, index]: what was written, and sealed
  bytes,    \* the header's bytes
  record,   \* the record's bytes, before its ciphertext
  index,    \* which chunk the reader takes the record for
  changes   \* how many bytes have changed

layoutVars == <<written, bytes, record, index, changes>>

----------------------------------------------------------------------------
(* The codecs: WriteU8 to WriteU64, ReadU8 to ReadU64.                     *)

\* Base^k: shifting right by k bytes divides by it.
Weight(k) ==
  (IF k >= 4 THEN U32 ELSE 1) * (IF k % 4 >= 2 THEN U16 ELSE 1)
    * (IF k % 2 = 1 THEN Base ELSE 1)

LittleEndianMutant(n, k) == (n \div Weight(IF k = 3 THEN 2 ELSE k)) % Base
\* Byte k of n, the least significant first.
LittleEndian(n, k) == (n \div Weight(k)) % Base

\* The integer in the bytes of s from `at`.
ReadU16(s, at) == s[at] + Base * s[at + 1]
ReadU32(s, at) == ReadU16(s, at) + U16 * ReadU16(s, at + 2)
ReadU64(s, at) == ReadU32(s, at) + U32 * ReadU32(s, at + 4)

Slice(s, at, width) == [k \in 1..width |-> s[at + k - 1]]

\* Bytes of `to` from `at` replaced by the `width` bytes byte[0], byte[1], ...
Put(to, at, width, byte) ==
  [k \in DOMAIN to |-> IF k \in at..(at + width - 1) THEN byte[k - at] ELSE to[k]]
PutInteger(to, at, width, n) ==
  Put(to, at, width, [k \in 0..(width - 1) |-> LittleEndian(n, k)])
PutBytes(to, at, s) == Put(to, at, Len(s), [k \in 0..(Len(s) - 1) |-> s[k + 1]])

Zeros(n) == [k \in 0..(n - 1) |-> 0]

----------------------------------------------------------------------------
(* The file header.                                                        *)

OffsetMutant == [version |-> 8, kdf_id |-> 10, aead_id |-> 11,
  compression_id |-> 12, log_n |-> 13, r |-> 14, p |-> 17, salt |-> 22,
  nonce_prefix |-> 38, chunk_size |-> 46, plaintext_size |-> 50,
  chunk_count |-> 58, reserved |-> 62]
Offset == [version |-> 8, kdf_id |-> 10, aead_id |-> 11,
  compression_id |-> 12, log_n |-> 13, r |-> 14, p |-> 18, salt |-> 22,
  nonce_prefix |-> 38, chunk_size |-> 46, plaintext_size |-> 50,
  chunk_count |-> 58, reserved |-> 62]

SerializeFileHeader(h) ==
  LET magic == PutBytes(Zeros(HeaderSize), 0, Magic)
      version == PutInteger(magic, Offset.version, 2, h.format_version)
      kdf_id == PutInteger(version, Offset.kdf_id, 1, h.kdf_id)
      aead_id == PutInteger(kdf_id, Offset.aead_id, 1, h.aead_id)
      compression == PutInteger(aead_id, Offset.compression_id, 1, h.compression_id)
      log_n == PutInteger(compression, Offset.log_n, 1, h.kdf.log_n)
      r == PutInteger(log_n, Offset.r, 4, h.kdf.r)
      p == PutInteger(r, Offset.p, 4, h.kdf.p)
      salt == PutBytes(p, Offset.salt, h.salt)
      prefix == PutBytes(salt, Offset.nonce_prefix, h.nonce_prefix)
      chunk == PutInteger(prefix, Offset.chunk_size, 4, h.chunk_size)
      plaintext == PutInteger(chunk, Offset.plaintext_size, 8, h.plaintext_size)
      count == PutInteger(plaintext, Offset.chunk_count, 4, h.chunk_count)
  IN  PutInteger(count, Offset.reserved, 2, 0)

ReservedMutant(s) == s[Offset.reserved]
\* The reserved field, which has to be 0.
Reserved(s) == ReadU16(s, Offset.reserved)

\* The fields ParseFileHeader reads, before any check.
DecodeFileHeader(s) ==
  [magic |-> IF Slice(s, 0, 8) = Magic THEN kMagic ELSE "other",
   format_version |-> ReadU16(s, Offset.version),
   kdf_id |-> s[Offset.kdf_id], aead_id |-> s[Offset.aead_id],
   compression_id |-> s[Offset.compression_id],
   kdf |-> [log_n |-> s[Offset.log_n], r |-> ReadU32(s, Offset.r),
            p |-> ReadU32(s, Offset.p)],
   salt |-> Slice(s, Offset.salt, 16),
   nonce_prefix |-> Slice(s, Offset.nonce_prefix, 8),
   chunk_size |-> ReadU32(s, Offset.chunk_size),
   plaintext_size |-> ReadU64(s, Offset.plaintext_size),
   chunk_count |-> ReadU32(s, Offset.chunk_count), reserved |-> Reserved(s)]

HeaderAccepted(s) == ParseFileHeader(DecodeFileHeader(s), HeaderSize) = "MC_OK"

----------------------------------------------------------------------------
(* A chunk record: stored size at 0, flags at 4, reserved at 5, tag at 8.  *)

Flags(set) == IF "compressed" \in set THEN 1 ELSE 0

SerializeChunkHeader(c) ==
  PutBytes(PutInteger(PutInteger(Zeros(ChunkHeaderSize), 0, 4, c.stored),
                      4, 1, Flags(c.flags)),
           8, TagBytes)

ReservedWidthMutant == 2
\* How many bytes from 5 have to be 0.
ReservedWidth == 3

DecodeChunkHeader(s) ==
  [stored |-> ReadU32(s, 0),
   flags |-> {f \in {"compressed", "unknown"} :
               IF f = "compressed" THEN s[4] % 2 = 1 ELSE s[4] \div 2 # 0},
   reserved |-> IF \A k \in 0..(ReservedWidth - 1) : s[5 + k] = 0 THEN 0 ELSE 1]

RecordAccepted(s, hdr) ==
  ParseChunkHeader(DecodeChunkHeader(s), MaxStoredSizeFor(hdr.chunk_size)) = "MC_OK"

----------------------------------------------------------------------------
(* What a tag covers, and the nonce, as bytes.                             *)

AadBytesMutant(s, i, c) ==
  PutInteger(PutInteger(PutInteger(PutBytes(Zeros(HeaderSize + 9), 0, s),
    HeaderSize, 2, i), HeaderSize + 4, 4, c.stored), HeaderSize + 8, 1, Flags(c.flags))
\* The header's bytes as they stand in the file, index, stored size, flags.
AadBytes(s, i, c) ==
  PutInteger(PutInteger(PutInteger(PutBytes(Zeros(HeaderSize + 9), 0, s),
    HeaderSize, 4, i), HeaderSize + 4, 4, c.stored), HeaderSize + 8, 1, Flags(c.flags))

CounterByteMutant(i, k) == IF k = 0 THEN 0 ELSE LittleEndian(i, 3 - k)
\* Byte k of the counter, the most significant first.
CounterByte(i, k) == LittleEndian(i, 3 - k)
NonceBytes(prefix, i) ==
  Put(PutBytes(Zeros(12), 0, prefix), 8, 4, [k \in 0..3 |-> CounterByte(i, k)])

----------------------------------------------------------------------------
InOrder(s) == Slice(s, 0, HeaderSize)   \* numbered from 1

InitLayout ==
  /\ written \in [hdr : Headers, chunk : Chunks, index : Indices]
  /\ bytes = SerializeFileHeader(written.hdr)
  /\ record = SerializeChunkHeader(written.chunk)
  /\ index = written.index /\ changes = 0

\* A byte of the file changes after it was written.
ChangeHeader(k, v) ==
  /\ changes < MaxChanges /\ bytes[k] # v
  /\ bytes' = [bytes EXCEPT ![k] = v] /\ changes' = changes + 1
  /\ UNCHANGED <<written, record, index>>

ChangeRecord(k, v) ==
  /\ changes < MaxChanges /\ record[k] # v
  /\ record' = [record EXCEPT ![k] = v] /\ changes' = changes + 1
  /\ UNCHANGED <<written, bytes, index>>

\* The record is read in another place of the file.
Move(i) ==
  /\ index = written.index /\ i # index /\ index' = i
  /\ UNCHANGED <<written, bytes, record, changes>>

NextLayout ==
  \/ \E k \in 0..(HeaderSize - 1), v \in Changed : ChangeHeader(k, v)
  \/ \E k \in 0..(ChunkHeaderSize - 1), v \in Changed : ChangeRecord(k, v)
  \/ \E i \in Indices : Move(i)

LayoutSpec == InitLayout /\ [][NextLayout]_layoutVars

----------------------------------------------------------------------------
(* Properties.                                                             *)

(***************************************************************************)
(* A header written and left alone is read back, field by field, on any    *)
(* host (format.cc:20-29): no field lies over another, and reading is the  *)
(* inverse of writing.                                                     *)
(***************************************************************************)
ReadsWhatWasWritten ==
  bytes = SerializeFileHeader(written.hdr) => DecodeFileHeader(bytes) = written.hdr

(***************************************************************************)
(* No byte of an accepted header or record is ignored: the fields that     *)
(* were read write the same bytes again (format.cc:175-179,                *)
(* format.h:184-186), but for the tag, which Open compares.  So what       *)
(* Format.tla holds equal is equal on disk.                                *)
(***************************************************************************)
NoByteIsIgnored ==
  /\ HeaderAccepted(bytes) => SerializeFileHeader(DecodeFileHeader(bytes)) = bytes
  /\ RecordAccepted(record, written.hdr) =>
       \A k \in 0..7 : SerializeChunkHeader(DecodeChunkHeader(record))[k] = record[k]

(***************************************************************************)
(* Chunks are told apart, as bytes.  A reader that accepts header and      *)
(* record and builds the associated data the writer sealed holds the       *)
(* writer's header, index, stored size and flags (format.h:20-26); and two *)
(* chunks of a file never have the same nonce (format.h:61-66).            *)
(***************************************************************************)
ChunksAreToldApart ==
  LET c == DecodeChunkHeader(record) IN
  /\ (/\ HeaderAccepted(bytes) /\ RecordAccepted(record, written.hdr)
      /\ AadBytes(InOrder(bytes), index, c)
           = AadBytes(InOrder(SerializeFileHeader(written.hdr)), written.index, written.chunk))
       => /\ DecodeFileHeader(bytes) = written.hdr /\ index = written.index
          /\ c.stored = written.chunk.stored /\ c.flags = written.chunk.flags
  /\ index # written.index =>
       NonceBytes(written.hdr.nonce_prefix, index)
         # NonceBytes(written.hdr.nonce_prefix, written.index)
=============================================================================

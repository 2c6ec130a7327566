------------------------------- MODULE Format -------------------------------
(***************************************************************************)
(* The container format of src/src/crypt/format.cc: the arithmetic that    *)
(* splits a plaintext into chunks, the checks a file header and a chunk    *)
(* record go through when they are read, and what the associated data and  *)
(* the nonce of a chunk are built from.                                    *)
(*                                                                         *)
(* A header is the record of its decoded fields.  The fields fill the 64   *)
(* bytes exactly (static_assert, format.cc:94) and every byte codec is     *)
(* one to one, so two headers are the same record exactly when they are    *)
(* the same bytes; the same goes for the 24 bytes of a chunk record.       *)
(***************************************************************************)
EXTENDS Integers

CONSTANTS
  HeaderSize,        \* format::kHeaderSize, 64
  ChunkHeaderSize,   \* format::kChunkHeaderSize, 24
  MinChunkSize,      \* format::kMinChunkSize, 4 KiB
  MaxChunkSize,      \* format::kMaxChunkSize, 64 MiB
  MaxPlaintextSize,  \* MC_MAX_PLAINTEXT_SIZE, 64 GiB
  U32,               \* 2^32, where a uint32_t wraps
  SizeMax            \* SIZE_MAX, the largest size_t of the host

(***************************************************************************)
(* What the constants of the source satisfy.  The conjunct on              *)
(* MaxPlaintextSize is the condition format.h:139-141 relies on, the one   *)
(* on MaxChunkSize keeps MaxStoredSizeFor inside a uint32_t.               *)
(***************************************************************************)
ASSUME FormatAssumption ==
  /\ HeaderSize \in Nat \ {0} /\ ChunkHeaderSize \in Nat \ {0}
  /\ MinChunkSize \in Nat \ {0} /\ MaxChunkSize \in Nat
  /\ MinChunkSize <= MaxChunkSize
  /\ MaxPlaintextSize \in Nat /\ U32 \in Nat /\ SizeMax \in Nat
  /\ MaxChunkSize + MaxChunkSize \div 1000 + 64 < U32
  /\ MaxPlaintextSize <= MinChunkSize * (U32 - 1)
  /\ MinChunkSize <= MaxPlaintextSize
  /\ MaxPlaintextSize % MinChunkSize = 0
  /\ HeaderSize <= SizeMax /\ U32 - 1 <= SizeMax

\* An unsigned integer of `width` values, where narrowing or adding wraps:
\* n % width, with the case that does not wrap written first.
Wrap(n, width) == IF n < width THEN n ELSE n % width
UInt32(n) == Wrap(n, U32)
SizeT(n) == Wrap(n, SizeMax + 1)

Statuses == {"MC_OK", "MC_ERR_INVALID_ARG", "MC_ERR_FORMAT",
             "MC_ERR_UNSUPPORTED", "MC_ERR_AUTH", "MC_ERR_COMPRESS",
             "MC_ERR_CRYPTO", "MC_ERR_MEMORY", "MC_ERR_IO",
             "MC_ERR_TOO_LARGE"}

MC_COMPRESS_NONE == 0
MC_COMPRESS_ZLIB == 1

kMagic == "MCRYPT02"
MC_FORMAT_VERSION == 2
kKdfScrypt == 1
kAeadAes256Gcm == 1

(***************************************************************************)
(* The scrypt parameters this build uses.  128 * 2^log_n * r <= 2^30 is    *)
(* written with both sides divided by 128.                                 *)
(***************************************************************************)
KdfSupported(kdf) ==
  /\ kdf.log_n \in 14..20 /\ kdf.r \in 1..32 /\ kdf.p \in 1..16
  /\ 2^kdf.log_n * kdf.r <= 2^23

ChunkSizeSupported(chunk) == chunk \in MinChunkSize..MaxChunkSize

\* The count is computed in 64 bits and narrowed to a uint32_t.
ChunkCountFor(plaintext, chunk) ==
  IF plaintext = 0 THEN 1
  ELSE UInt32((plaintext + chunk - 1) \div chunk)

MaxStoredSizeFor(chunk) == UInt32(chunk + chunk \div 1000 + 64)

kMaxFileSizeMutant ==
  MaxPlaintextSize + (MaxPlaintextSize \div MaxChunkSize) * ChunkHeaderSize
                   + HeaderSize
\* The largest file read: every chunk at the smallest size.
kMaxFileSize ==
  MaxPlaintextSize + (MaxPlaintextSize \div MinChunkSize) * ChunkHeaderSize
                   + HeaderSize

\* Plaintext bytes of chunk i: full, short for the last, 0 past the end.
ChunkPlainSize(plaintext, chunk, i) ==
  IF i * chunk >= plaintext THEN 0
  ELSE IF plaintext - i * chunk < chunk THEN plaintext - i * chunk
  ELSE chunk

(***************************************************************************)
(* ParseFileHeader: the first check that fails decides the status.         *)
(* `size` is how many bytes were handed in.                                *)
(***************************************************************************)
ParseFileHeader(h, size) ==
  IF size < HeaderSize \/ h.magic # kMagic THEN "MC_ERR_FORMAT"
  ELSE IF
     \/ h.format_version # MC_FORMAT_VERSION
     \/ h.kdf_id # kKdfScrypt \/ h.aead_id # kAeadAes256Gcm
     \/ h.compression_id \notin {MC_COMPRESS_NONE, MC_COMPRESS_ZLIB}
  THEN "MC_ERR_UNSUPPORTED"
  ELSE IF h.reserved # 0 THEN "MC_ERR_FORMAT"
  ELSE IF ~KdfSupported(h.kdf) THEN "MC_ERR_UNSUPPORTED"
  ELSE IF ~ChunkSizeSupported(h.chunk_size) THEN "MC_ERR_FORMAT"
  ELSE IF h.plaintext_size > MaxPlaintextSize THEN "MC_ERR_TOO_LARGE"
  ELSE IF h.chunk_count # ChunkCountFor(h.plaintext_size, h.chunk_size)
  THEN "MC_ERR_FORMAT"
  ELSE "MC_OK"

(***************************************************************************)
(* A chunk record.  `flags` is the set of bits that are set, "unknown"     *)
(* standing for any bit outside kChunkFlagMask.                            *)
(***************************************************************************)
Compressed(rec) == "compressed" \in rec.flags

ParseChunkHeader(rec, maxStored) ==
  IF \/ rec.flags \notin SUBSET {"compressed"}
     \/ rec.reserved # 0
     \/ rec.stored > maxStored
  THEN "MC_ERR_FORMAT" ELSE "MC_OK"

\* What a chunk's tag covers besides its ciphertext.
BuildAad(h, i, rec) ==
  [header |-> h, index |-> UInt32(i), stored |-> rec.stored, flags |-> rec.flags]

BuildNonceMutant(prefix, i) == [prefix |-> prefix, counter |-> 0]
\* Eight bytes of the file, four of the chunk.
BuildNonce(prefix, i) == [prefix |-> prefix, counter |-> UInt32(i)]

=============================================================================

------------------------------ MODULE Decrypt -------------------------------
(***************************************************************************)
(* decrypt::DecryptBuffer and decrypt::InspectBuffer                       *)
(* (src/src/crypt/decrypt.cc): one thread's calls, one after the other,    *)
(* each on any key and any input, with one action per step of the code     *)
(* that can fail or that allocates.                                        *)
(***************************************************************************)
EXTENDS Container, FiniteSets

CONSTANTS
  Keys,        \* keys of at least MC_MIN_KEY_SIZE bytes
  ShortKeys,   \* keys below it
  Inputs,      \* files handed in, whole or damaged
  Written,     \* [key, plain, file]: the encryptions that were finished
  NoInput,     \* the null pointer
  EntrySize,   \* sizeof(ChunkEntry), 32 on a 64-bit host
  KeySize      \* format::kKeySize, 32

(***************************************************************************)
(* Inputs are files of any contents; Written are finished ones, which      *)
(* Encrypt.tla shows of every file its calls return.  The conjunct on      *)
(* MaxChunkSize holds of 64 MiB: what a chunk may be stored in is an int.  *)
(***************************************************************************)
ASSUME DecryptAssumption ==
  /\ EntrySize \in Nat \ {0} /\ KeySize \in 1..SizeMax
  /\ MaxChunkSize + MaxChunkSize \div 1000 + 64 <= U32 \div 2 - 1
  /\ Keys \cap ShortKeys = {}
  /\ \A f \in Inputs \cup {w.file : w \in Written} : f # NoInput /\ IsFile(f)
  /\ \A f \in Inputs :
       /\ f.size \in 0..SizeMax
       /\ f.hdr.chunk_size \in Nat /\ f.hdr.plaintext_size \in Nat
       /\ f.hdr.chunk_count \in 0..(U32 - 1)
       /\ \A i \in DOMAIN f.recs : f.recs[i].stored \in 0..(U32 - 1)
  /\ \A w \in Written :
       /\ w.key \in Keys /\ FinishedFile(w)
       /\ \A i \in DOMAIN w.file.recs : w.file.recs[i].tag # Noise

\* Ideal primitives: whatever tag an input carries was computed by Seal.
ASSUME TagsAreSealed ==
  \A f \in Inputs : \A i \in DOMAIN f.recs :
    \/ f.recs[i].tag = Noise
    \/ \E w \in Written : \E j \in DOMAIN w.file.recs :
         f.recs[i].tag = w.file.recs[j].tag

\* Two finished encryptions have different headers, their salts being fresh.
ASSUME HeadersAreFresh ==
  \A w1, w2 \in Written : w1.file.hdr = w2.file.hdr => w1 = w2

VARIABLES
  pc,             \* where the call is; "idle" before the first
  op,             \* which function was called
  key, input,     \* its arguments
  index, offset,  \* the loop counter; WalkChunkTable's offset
  entries,        \* the chunk table
  maxCompressed,  \* max_compressed
  buf,            \* bytes held by each SecureBuffer of the call
  first,          \* contents of first_chunk
  plaintext,      \* contents of plaintext, by chunk
  stream,         \* what the last Open left in scratch
  status,         \* the value returned
  out             \* what the out-parameters hold

callVars == <<op, key, input>>
walkVars == <<index, offset, entries, maxCompressed>>
dataVars == <<buf, first, plaintext, stream>>
vars == <<pc, callVars, walkVars, dataVars, status, out>>

hdr == input.hdr
PlainSize(i) == ChunkPlainSize(hdr.plaintext_size, hdr.chunk_size, i)

Buffers == {"table", "derived", "scratch", "first", "plaintext"}
NoBuffers == [b \in Buffers |-> 0]
NoEntries == [i \in {} |-> 0]
\* A buffer is zero-filled when it is allocated.
Zeroes == [zero |-> TRUE]
NoOut == [written |-> FALSE]
NoReply == "none"
ZeroEntry == [offset |-> 0, stored |-> 0, flags |-> {}, tag |-> Noise]

Init ==
  /\ pc = "idle" /\ op = "none" /\ key = "none" /\ input = NoInput
  /\ index = 0 /\ offset = 0 /\ entries = NoEntries /\ maxCompressed = 0
  /\ buf = NoBuffers /\ first = Zeroes /\ plaintext = NoEntries
  /\ stream = Zeroes /\ status = "none" /\ out = NoOut

(***************************************************************************)
(* Returning runs the destructor of every SecureBuffer of the call: each   *)
(* is wiped and freed, whatever the status.                                *)
(***************************************************************************)
FreeLocals ==
  /\ index' = 0 /\ offset' = 0 /\ entries' = NoEntries /\ maxCompressed' = 0
  /\ buf' = NoBuffers /\ first' = Zeroes /\ plaintext' = NoEntries
  /\ stream' = Zeroes

Fail(rc) ==
  /\ pc' = "returned" /\ status' = rc /\ FreeLocals
  /\ UNCHANGED <<callVars, out>>

Call ==
  /\ pc = "idle"
  /\ \/ op' = "decrypt" /\ key' \in Keys \cup ShortKeys
     \/ op' = "inspect" /\ key' = "none"
  /\ input' \in Inputs \cup {NoInput}
  /\ pc' = "args" /\ UNCHANGED <<walkVars, dataVars, status, out>>

\* The caller has looked at the result and frees what it was given.
Collect ==
  /\ pc = "returned" /\ pc' = "idle"
  /\ op' = "none" /\ key' = "none" /\ input' = NoInput
  /\ status' = "none" /\ out' = NoOut
  /\ UNCHANGED <<walkVars, dataVars>>

CheckArguments ==
  /\ pc = "args"
  /\ IF input = NoInput \/ (op = "decrypt" /\ key \in ShortKeys)
     THEN Fail("MC_ERR_INVALID_ARG")
     ELSE /\ pc' = "header"
          /\ UNCHANGED <<callVars, walkVars, dataVars, status, out>>

\* InspectBuffer after its argument check: the fields mc_file_info has.
Inspect ==
  /\ pc = "header" /\ op = "inspect"
  /\ LET rc == ParseFileHeader(hdr, input.size) IN
     IF rc # "MC_OK" THEN Fail(rc)
     ELSE /\ pc' = "returned" /\ status' = "MC_OK"
          /\ out' = [written |-> TRUE, version |-> hdr.format_version,
                     compression |-> hdr.compression_id, kdf |-> hdr.kdf,
                     size |-> hdr.plaintext_size, chunk |-> hdr.chunk_size,
                     count |-> hdr.chunk_count]
          /\ UNCHANGED <<callVars, walkVars, dataVars>>

----------------------------------------------------------------------------
(* Phase 1: structure, without a key.                                      *)

ReadHeader ==
  /\ pc = "header" /\ op = "decrypt"
  /\ LET rc == ParseFileHeader(hdr, input.size) IN
     IF rc # "MC_OK" THEN Fail(rc)
     ELSE /\ pc' = "table"
          /\ UNCHANGED <<callVars, walkVars, dataVars, status, out>>

MinimumInputMutant == HeaderSize

MinimumInput == HeaderSize + hdr.chunk_count * ChunkHeaderSize
TableBytes == hdr.chunk_count * EntrySize

TooBigSignedMutant(bytes) == bytes > SizeMax \div 2
TooBigMutant(bytes) == FALSE
\* What no size_t of this host can hold.
TooBig(bytes) == bytes > SizeMax

EmptyTableMutant == [i \in 0..hdr.chunk_count |-> ZeroEntry]
EmptyTable == [i \in 0..(hdr.chunk_count - 1) |-> ZeroEntry]

\* Reset(static_cast<size_t>(bytes)); it fails only when there are bytes to get.
Allocated(b, bytes) == buf' = [buf EXCEPT ![b] = SizeT(bytes)]
MayFail(bytes) == bytes > 0

AllocateTable ==
  /\ pc = "table"
  /\ IF input.size < MinimumInput THEN Fail("MC_ERR_FORMAT")
     ELSE IF TooBig(TableBytes) THEN Fail("MC_ERR_TOO_LARGE")
     ELSE \/ MayFail(TableBytes) /\ Fail("MC_ERR_MEMORY")
          \/ /\ Allocated("table", TableBytes)
             /\ entries' = EmptyTable
             /\ offset' = HeaderSize /\ index' = 0 /\ maxCompressed' = 0
             /\ pc' = "walk"
             /\ UNCHANGED <<callVars, first, plaintext, stream, status, out>>

\* size_t subtraction: it wraps when b > a.
SizeSub(a, b) == IF a >= b THEN a - b ELSE a - b + SizeMax + 1

RecordAcceptedEmptyMutant(rec, off) ==
  /\ SizeSub(input.size, off) >= ChunkHeaderSize
  /\ ParseChunkHeader(rec, MaxStoredSizeFor(hdr.chunk_size)) = "MC_OK"
  /\ SizeSub(input.size, off + ChunkHeaderSize) >= rec.stored
  /\ ~Compressed(rec) => rec.stored = PlainSize(index)
  /\ rec.stored # 0
RecordAcceptedUnbackedMutant(rec, off) ==
  /\ SizeSub(input.size, off) >= ChunkHeaderSize
  /\ ParseChunkHeader(rec, MaxStoredSizeFor(hdr.chunk_size)) = "MC_OK"
  /\ ~Compressed(rec) => rec.stored = PlainSize(index)
RecordAcceptedWrappingMutant(rec, off) ==
  /\ SizeT(off + ChunkHeaderSize) <= input.size
  /\ ParseChunkHeader(rec, MaxStoredSizeFor(hdr.chunk_size)) = "MC_OK"
  /\ SizeT(off + ChunkHeaderSize + rec.stored) <= input.size
  /\ ~Compressed(rec) => rec.stored = PlainSize(index)

\* The checks of WalkChunkTable on the record at `off`, in the code's order.
RecordAccepted(rec, off) ==
  /\ SizeSub(input.size, off) >= ChunkHeaderSize
  /\ ParseChunkHeader(rec, MaxStoredSizeFor(hdr.chunk_size)) = "MC_OK"
  /\ SizeSub(input.size, off + ChunkHeaderSize) >= rec.stored
  /\ ~Compressed(rec) => rec.stored = PlainSize(index)
  /\ Compressed(rec) => /\ rec.stored # 0
                        /\ hdr.compression_id = MC_COMPRESS_ZLIB

LargestStoredLastMutant(rec) ==
  IF Compressed(rec) THEN rec.stored ELSE maxCompressed
LargestStoredUnsetMutant(rec) == maxCompressed
\* max_compressed after one more record.
LargestStored(rec) ==
  IF Compressed(rec) /\ rec.stored > maxCompressed THEN rec.stored
  ELSE maxCompressed

WalkRecord ==
  /\ pc = "walk" /\ index < hdr.chunk_count
  /\ LET rec == RecordAt(input, index) IN
     IF ~RecordAccepted(rec, offset) THEN Fail("MC_ERR_FORMAT")
     ELSE /\ entries' = [entries EXCEPT ![index] =
                           [offset |-> offset + ChunkHeaderSize,
                            stored |-> rec.stored, flags |-> rec.flags,
                            tag |-> rec.tag]]
          /\ offset' = SizeT(offset + ChunkHeaderSize + rec.stored)
          /\ maxCompressed' = LargestStored(rec)
          /\ index' = index + 1
          /\ UNCHANGED <<pc, callVars, dataVars, status, out>>

WholeInputWalkedMutant == offset <= input.size
\* Exactly: bytes after the last chunk are outside every tag.
WholeInputWalked == offset = input.size

WalkEnd ==
  /\ pc = "walk" /\ index = hdr.chunk_count
  /\ IF ~WholeInputWalked THEN Fail("MC_ERR_FORMAT")
     ELSE /\ pc' = "kdf" /\ index' = 0
          /\ UNCHANGED <<callVars, offset, entries, maxCompressed, dataVars,
                         status, out>>

----------------------------------------------------------------------------
(* Phase 2: derive the key and let chunk 0 authenticate the header.        *)

DeriveKey ==
  /\ pc = "kdf"
  /\ \/ Fail("MC_ERR_MEMORY")
     \/ Fail("MC_ERR_CRYPTO")
     \/ /\ ScryptDefined(hdr.kdf)
        /\ Allocated("derived", KeySize) /\ pc' = "scratch"
        /\ UNCHANGED <<callVars, walkVars, first, plaintext, stream, status,
                       out>>

AllocateScratch ==
  /\ pc = "scratch"
  /\ \/ MayFail(maxCompressed) /\ Fail("MC_ERR_MEMORY")
     \/ /\ Allocated("scratch", maxCompressed) /\ pc' = "first"
        /\ UNCHANGED <<callVars, walkVars, first, plaintext, stream, status,
                       out>>

AllocateFirst ==
  /\ pc = "first"
  /\ \/ MayFail(PlainSize(0)) /\ Fail("MC_ERR_MEMORY")
     \/ /\ Allocated("first", PlainSize(0)) /\ pc' = "open"
        /\ UNCHANGED <<callVars, walkVars, first, plaintext, stream, status,
                       out>>

\* A recovered slice lands in first_chunk, or in its place in plaintext.
Store(slice) ==
  IF index = 0 THEN first' = slice /\ UNCHANGED plaintext
  ELSE plaintext' = [plaintext EXCEPT ![index] = slice] /\ UNCHANGED first

NextChunkMutant == /\ pc' = (IF index = 0 THEN "plaintext" ELSE "open")
                   /\ UNCHANGED index
\* The chunk is done: after the first, the plaintext is allocated.
NextChunk == /\ pc' = (IF index = 0 THEN "plaintext" ELSE "open")
             /\ index' = index + 1

\* aead::Open's own argument check: a pointer for every byte, an int length.
OpenTarget(e) == IF Compressed(e) THEN buf["scratch"]
                 ELSE IF index = 0 THEN buf["first"] ELSE buf["plaintext"]
OpenArguments(e) ==
  /\ e.stored > 0 => OpenTarget(e) > 0
  /\ e.stored <= U32 \div 2 - 1

(***************************************************************************)
(* OpenChunk up to the tag comparison.  The AAD is built from the header   *)
(* bytes of the input and from the table's entry; a tag that does not      *)
(* match wipes what was written and ends the call.                         *)
(***************************************************************************)
OpenAad(e) == BuildAad(hdr, index, e)
OpenNonce == BuildNonce(hdr.nonce_prefix, index)

OpenChunk ==
  /\ pc = "open" /\ index < hdr.chunk_count
  /\ LET e  == entries[index]
         ct == RecordAt(input, index).ct
     IN
     IF ~OpenArguments(e) THEN Fail("MC_ERR_INVALID_ARG") ELSE
     \/ Fail("MC_ERR_CRYPTO")
     \/ /\ ~Authentic(FileKey(key, hdr), OpenNonce, OpenAad(e), ct, e.tag)
        /\ Fail("MC_ERR_AUTH")
     \/ /\ Authentic(FileKey(key, hdr), OpenNonce, OpenAad(e), ct, e.tag)
        /\ IF Compressed(e)
           THEN /\ stream' = ct.payload /\ pc' = "inflate"
                /\ UNCHANGED <<first, plaintext, index>>
           ELSE Store(ct.payload.slice) /\ NextChunk /\ UNCHANGED stream
        /\ UNCHANGED <<callVars, offset, entries, maxCompressed, buf, status,
                       out>>

\* OpenChunk's DecompressChunk, told the size the header gives the chunk.
InflateChunk ==
  /\ pc = "inflate"
  /\ \/ Fail("MC_ERR_MEMORY")
     \/ ~InflatesTo(stream, PlainSize(index)) /\ Fail("MC_ERR_COMPRESS")
     \/ /\ InflatesTo(stream, PlainSize(index))
        /\ Store(stream.slice) /\ NextChunk
        /\ UNCHANGED <<callVars, offset, entries, maxCompressed, buf, stream,
                       status, out>>

----------------------------------------------------------------------------
(* Phase 3: allocate on the authenticated size, open the rest.             *)

CopiedFirstMutant(i) == Zeroes
\* The memcpy of first_chunk into the zero-filled plaintext.
CopiedFirst(i) == IF i = 0 THEN first ELSE Zeroes

AllocatePlaintext ==
  /\ pc = "plaintext"
  /\ IF TooBig(hdr.plaintext_size) THEN Fail("MC_ERR_TOO_LARGE")
     ELSE \/ MayFail(hdr.plaintext_size) /\ Fail("MC_ERR_MEMORY")
          \/ /\ Allocated("plaintext", hdr.plaintext_size)
             /\ plaintext' = [i \in 0..(hdr.chunk_count - 1) |-> CopiedFirst(i)]
             /\ pc' = "open"
             /\ UNCHANGED <<callVars, walkVars, first, stream, status, out>>

AllOpenedMutant == index > 0 /\ index >= hdr.chunk_count - 1
\* The loop over the chunks has ended.
AllOpened == index = hdr.chunk_count

Finish ==
  /\ pc = "open" /\ AllOpened
  /\ out' = [written |-> TRUE, size |-> hdr.plaintext_size,
             chunk |-> hdr.chunk_size, data |-> plaintext]
  /\ pc' = "returned" /\ status' = "MC_OK" /\ FreeLocals
  /\ UNCHANGED callVars

Step ==
  \/ CheckArguments \/ Inspect \/ ReadHeader \/ AllocateTable
  \/ WalkRecord \/ WalkEnd \/ DeriveKey \/ AllocateScratch \/ AllocateFirst
  \/ OpenChunk \/ InflateChunk \/ AllocatePlaintext \/ Finish

Next == Call \/ Collect \/ Step
Spec == Init /\ [][Next]_vars
\* A thread that is inside a call keeps running; nothing obliges it to call.
FairSpec == Spec /\ WF_vars(Step)

----------------------------------------------------------------------------
(* Properties.                                                             *)

States == {"idle", "args", "header", "table", "walk", "kdf", "scratch",
           "first", "open", "inflate", "plaintext", "returned"}

\* The chunk table exists.
HasTable ==
  pc \in {"walk", "kdf", "scratch", "first", "open", "inflate", "plaintext"}

\* The variables keep their types, and the table its length.
TypeOK ==
  /\ pc \in States /\ op \in {"none", "decrypt", "inspect"}
  /\ key \in Keys \cup ShortKeys \cup {"none"}
  /\ input \in Inputs \cup {NoInput}
  /\ index \in Nat /\ offset \in Nat /\ maxCompressed \in Nat
  /\ buf \in [Buffers -> Nat]
  /\ status \in Statuses \cup {"none"}
  /\ HasTable => /\ DOMAIN entries = 0..(hdr.chunk_count - 1)
                 /\ index <= hdr.chunk_count

Decrypted == pc = "returned" /\ op = "decrypt" /\ status = "MC_OK"

(***************************************************************************)
(* MC_OK means every chunk authenticated under this key (model_crypt.h:    *)
(* 292): one finished encryption made with the key has this very header    *)
(* and, chunk by chunk, these very records and ciphertexts.  A chunk taken *)
(* from another place or another file, or a changed field, is refused.     *)
(***************************************************************************)
AcceptsOnlySealed ==
  Decrypted =>
    \E w \in Written :
      /\ w.key = key /\ w.file.hdr = hdr
      /\ \A i \in 0..(hdr.chunk_count - 1) :
           LET rec == RecordAt(input, i) IN
           /\ rec.stored = w.file.recs[i].stored
           /\ rec.flags = w.file.recs[i].flags
           /\ rec.ct = w.file.recs[i].ct /\ rec.tag = w.file.recs[i].tag

(***************************************************************************)
(* A finished file handed back whole is never taken for a damaged one: the *)
(* right key opens it unless memory, OpenSSL or the host's size_t fails,   *)
(* and a wrong key is reported as MC_ERR_AUTH, never as a format error.    *)
(***************************************************************************)
IntactOpens ==
  \A w \in Written :
    (pc = "returned" /\ op = "decrypt" /\ key \in Keys /\ input = w.file) =>
      \/ status \in {"MC_ERR_MEMORY", "MC_ERR_CRYPTO"}
      \/ status = (IF key = w.key THEN "MC_OK" ELSE "MC_ERR_AUTH")
      \/ /\ status = "MC_ERR_TOO_LARGE"
         /\ TableBytes > SizeMax \/ hdr.plaintext_size > SizeMax

\* The header has been parsed and chunk 0 has not authenticated it yet.
Unauthenticated ==
  \/ pc \in {"walk", "kdf", "scratch", "first"}
  \/ pc = "open" /\ index = 0

(***************************************************************************)
(* Before the key is proven no allocation follows a number the file merely *)
(* declares (decrypt.h:26-27): the table has an entry per record that has  *)
(* room in the input, the scratch fits in the input, chunk 0 is one chunk. *)
(***************************************************************************)
AllocationBound ==
  Unauthenticated =>
    /\ buf["table"] * ChunkHeaderSize <= (input.size - HeaderSize) * EntrySize
    /\ buf["scratch"] <= input.size - HeaderSize
    /\ buf["first"] <= hdr.chunk_size
    /\ buf["plaintext"] = 0

\* How many entries of the table are filled in.
Listed == IF pc = "walk" THEN index ELSE hdr.chunk_count

(***************************************************************************)
(* The walk never stands past the end of the input, so its subtractions    *)
(* do not wrap (decrypt.cc:96-98), and every ciphertext it has listed lies *)
(* inside the input, after the one before.                                 *)
(***************************************************************************)
WalkStaysInside ==
  /\ pc = "walk" => offset <= input.size
  /\ HasTable =>
       \A i \in 0..(Listed - 1) :
         /\ entries[i].offset + entries[i].stored <= input.size
         /\ i > 0 => entries[i].offset = entries[i - 1].offset
                       + entries[i - 1].stored + ChunkHeaderSize

(***************************************************************************)
(* Whatever is written has room: the table holds the entry the walk fills, *)
(* the scratch the compressed chunk being opened, the destination the      *)
(* chunk's plaintext at its place.  Nothing re-checks this in phase 3.     *)
(***************************************************************************)
WritesHaveRoom ==
  /\ (pc = "walk" /\ index < hdr.chunk_count) =>
       (index + 1) * EntrySize <= buf["table"]
  /\ (pc \in {"open", "inflate"} /\ index < hdr.chunk_count) =>
    LET e == entries[index]
        length == IF pc = "open" /\ ~Compressed(e) THEN e.stored
                   ELSE PlainSize(index)
    IN  /\ Compressed(e) => e.stored <= buf["scratch"]
        /\ IF index = 0 THEN length <= buf["first"]
           ELSE index * hdr.chunk_size + length <= buf["plaintext"]

\* Every call returns, whatever the file holds.
CallsReturn == pc = "args" ~> pc = "returned"

\* Byte b of an output, as the plaintext it came from and its place there.
OutByte(o, b) ==
  LET s == o.data[b \div o.chunk]
  IN  IF s # Zeroes /\ b % o.chunk < s.len
      THEN <<s.of, s.at + (b % o.chunk)>> ELSE <<Noise, b>>

\* The answer as the caller sees it.
Answer ==
  IF pc # "returned" THEN NoReply
  ELSE [status |-> status,
        bytes |-> IF op = "decrypt" /\ out # NoOut
                  THEN [b \in 0..(out.size - 1) |-> OutByte(out, b)] ELSE NoReply]

\* Where the call is, for the caller.
Phase == IF pc \in {"idle", "returned"} THEN pc ELSE "busy"

Contract == INSTANCE DecryptContract
  WITH phase <- Phase, asked <- callVars, reply <- Answer

(***************************************************************************)
(* Every call is answered once, and as DecryptContract.tla promises.       *)
(* MC_OK comes with the plaintext of one finished encryption, byte for     *)
(* byte, whichever buffer each chunk was recovered in, and only for that   *)
(* encryption's file, whole: the reserved bytes and the length too, which  *)
(* no tag covers (decrypt.cc:136-138).  No file is answered with           *)
(* MC_ERR_COMPRESS, for what reaches inflate has authenticated, nor with   *)
(* MC_ERR_INVALID_ARG, which the AEAD returns for a missing buffer.        *)
(***************************************************************************)
ImplementsContract == Contract!ContractSpec

----------------------------------------------------------------------------
(* What comments and documents say and the code does not do: README,       *)
(* section 5.  No configuration checks them.                               *)

(***************************************************************************)
(* model_crypt.h:158-159: "Decryption additionally never allocates on a    *)
(* declared size before authenticating the chunk that size describes", so  *)
(* before chunk 0 authenticates, no buffer outgrows what was handed in.    *)
(***************************************************************************)
NeverAllocatesDeclaredSize ==
  Unauthenticated => buf["first"] <= input.size

(***************************************************************************)
(* The comment at decrypt.cc:120-123 says the scratch allocation "is       *)
(* conditional on the header": past it, a zlib header means a scratch.     *)
(***************************************************************************)
ScratchFollowsHeader ==
  pc \in {"first", "open", "inflate", "plaintext"} =>
    (hdr.compression_id = MC_COMPRESS_ZLIB <=> buf["scratch"] > 0)

(***************************************************************************)
(* model_crypt.h:356: mc_inspect_buffer returns "#MC_OK,                   *)
(* #MC_ERR_INVALID_ARG, or #MC_ERR_FORMAT".                                *)
(***************************************************************************)
InspectStatuses ==
  (pc = "returned" /\ op = "inspect") =>
    status \in {"MC_OK", "MC_ERR_INVALID_ARG", "MC_ERR_FORMAT"}
=============================================================================

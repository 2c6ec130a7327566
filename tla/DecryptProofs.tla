--------------------------- MODULE DecryptProofs ----------------------------
(***************************************************************************)
(* What DecryptBuffer guarantees for every set of files, every key and     *)
(* every value of the format's constants.  The inductive invariant is      *)
(* DecryptInv: the types, what is known of the call, of the table the walk *)
(* builds, of the buffers, and of the chunks already opened.  RecoverInv   *)
(* adds where the walk stands and what has been recovered; from the two it *)
(* follows that the calls keep DecryptContract.                            *)
(***************************************************************************)
EXTENDS Decrypt, FormatProofs

----------------------------------------------------------------------------
(* The inductive invariant.                                                *)

\* The call's arguments are usable once checked, its header once parsed.
CallInv ==
  /\ op = "decrypt" => key \in Keys \cup ShortKeys
  /\ pc \notin {"idle", "args", "returned"} =>
       input \in Inputs /\ (op = "decrypt" => key \in Keys)
  /\ HasTable \/ pc = "table" =>
       op = "decrypt" /\ ParseFileHeader(hdr, input.size) = "MC_OK"
  /\ pc \in {"kdf", "scratch", "first"} => index = 0
  /\ pc = "inflate" => index < hdr.chunk_count
  /\ pc = "plaintext" => index = 1

\* An entry repeats its record, and its ciphertext lies inside the input.
EntryInv(i) ==
  LET e == entries[i]
      rec == RecordAt(input, i)
  IN  /\ e.stored = rec.stored /\ e.flags = rec.flags /\ e.tag = rec.tag
      /\ e.offset \in Nat /\ e.stored \in Nat
      /\ Compressed(e) => e.stored <= maxCompressed
      /\ ~Compressed(e) => e.stored = PlainSize(i)
      /\ e.offset + e.stored <= input.size
      /\ i > 0 => e.offset = entries[i - 1].offset
                    + entries[i - 1].stored + ChunkHeaderSize

TableInv ==
  HasTable => /\ maxCompressed <= input.size - HeaderSize
              /\ \A i \in 0..(Listed - 1) : EntryInv(i)

WalkInv ==
  pc = "walk" =>
    /\ offset \in HeaderSize..input.size
    /\ index > 0 =>
         offset = entries[index - 1].offset + entries[index - 1].stored

BufferInv ==
  /\ HasTable =>
       /\ buf["table"] = hdr.chunk_count * EntrySize
       /\ MinimumInput <= input.size
       /\ buf["scratch"] =
            (IF pc \in {"first", "open", "inflate", "plaintext"}
             THEN maxCompressed ELSE 0)
       /\ buf["first"] =
            (IF pc \in {"open", "inflate", "plaintext"} THEN PlainSize(0) ELSE 0)
       /\ buf["plaintext"] =
            (IF pc \in {"open", "inflate"} /\ index > 0
             THEN hdr.plaintext_size ELSE 0)
  /\ pc \in {"idle", "args", "header", "table", "returned"} => buf = NoBuffers

\* Chunk i's tag is the one its ciphertext, place and header have.
ChunkAuthentic(i) ==
  LET rec == RecordAt(input, i)
  IN  Authentic(FileKey(key, hdr), BuildNonce(hdr.nonce_prefix, i),
                BuildAad(hdr, i, rec), rec.ct, rec.tag)

AuthInv ==
  /\ pc \in {"open", "plaintext"} => \A i \in 0..(index - 1) : ChunkAuthentic(i)
  /\ pc = "inflate" => \A i \in 0..index : ChunkAuthentic(i)
  /\ Decrypted => /\ input \in Inputs /\ key \in Keys
                  /\ ParseFileHeader(hdr, input.size) = "MC_OK"
                  /\ \A i \in 0..(hdr.chunk_count - 1) : ChunkAuthentic(i)

DecryptInv == TypeOK /\ CallInv /\ TableInv /\ WalkInv /\ BufferInv /\ AuthInv

----------------------------------------------------------------------------
(* What the checks of the first phase leave to rely on.                    *)

LEMMA HeaderStatus ==
  ASSUME NEW h, NEW size PROVE ParseFileHeader(h, size) \in Statuses
BY DEF ParseFileHeader, Statuses

LEMMA ParsedInput ==
  ASSUME NEW f \in Inputs, ParseFileHeader(f.hdr, f.size) = "MC_OK"
  PROVE  /\ f.size \in HeaderSize..SizeMax
         /\ f.hdr.chunk_size \in MinChunkSize..MaxChunkSize
         /\ f.hdr.plaintext_size \in 0..MaxPlaintextSize
         /\ f.hdr.chunk_count = ChunkCountFor(f.hdr.plaintext_size,
                                              f.hdr.chunk_size)
         /\ f.hdr.chunk_count \in 1..(U32 - 1)
         /\ \A i \in Nat : ChunkPlainSize(f.hdr.plaintext_size,
              f.hdr.chunk_size, i) \in 0..f.hdr.chunk_size
<1>1. /\ f.size \in 0..SizeMax
      /\ f.hdr.chunk_size \in Nat /\ f.hdr.plaintext_size \in Nat
  BY DecryptAssumption
<1>2. /\ ~(f.size < HeaderSize)
      /\ f.hdr.chunk_size \in MinChunkSize..MaxChunkSize
      /\ ~(f.hdr.plaintext_size > MaxPlaintextSize)
      /\ f.hdr.chunk_count = ChunkCountFor(f.hdr.plaintext_size,
                                           f.hdr.chunk_size)
  BY DEF ParseFileHeader, ChunkSizeSupported
<1>3. f.size \in HeaderSize..SizeMax /\ f.hdr.plaintext_size \in 0..MaxPlaintextSize
  BY <1>1, <1>2, FormatAssumption
<1>4. f.hdr.chunk_count \in 1..(U32 - 1)
  BY <1>2, <1>3, ChunkCountExact
<1>5. \A i \in Nat : ChunkPlainSize(f.hdr.plaintext_size,
              f.hdr.chunk_size, i) \in 0..f.hdr.chunk_size
  BY <1>1, ChunkPlainSizeType
<1> QED BY <1>2, <1>3, <1>4, <1>5

LEMMA StoredType ==
  ASSUME NEW f \in Inputs, NEW i PROVE RecordAt(f, i).stored \in 0..(U32 - 1)
BY DecryptAssumption, FormatAssumption DEF RecordAt, ZeroRecord

(* Returning with an error keeps the invariant from every state.           *)
LEMMA FailKeepsInv ==
  ASSUME DecryptInv, NEW rc \in Statuses, rc # "MC_OK", Fail(rc)
  PROVE  DecryptInv'
<1> USE DEF Fail, FreeLocals, callVars
<1>1. TypeOK'
  BY DEF DecryptInv, TypeOK, States, HasTable, NoBuffers, Buffers
<1>2. CallInv' /\ TableInv' /\ WalkInv' /\ BufferInv' /\ AuthInv'
  BY DEF DecryptInv, CallInv, TableInv, WalkInv, BufferInv, AuthInv, HasTable,
         Decrypted
<1> QED BY <1>1, <1>2 DEF DecryptInv

LEMMA InitInv == Init => DecryptInv
<1> SUFFICES ASSUME Init PROVE DecryptInv
  OBVIOUS
<1>1. TypeOK
  BY DEF Init, TypeOK, States, HasTable, NoBuffers, Buffers
<1>2. CallInv /\ TableInv /\ WalkInv /\ BufferInv /\ AuthInv
  BY DEF Init, CallInv, TableInv, WalkInv, BufferInv, AuthInv, HasTable,
         Decrypted
<1> QED BY <1>1, <1>2 DEF DecryptInv

----------------------------------------------------------------------------
(* One lemma per action.                                                   *)

LEMMA CallKeepsInv == DecryptInv /\ (Call \/ Collect) => DecryptInv'
<1> SUFFICES ASSUME DecryptInv, Call \/ Collect PROVE DecryptInv'
  OBVIOUS
<1> USE DEF Call, Collect, walkVars, dataVars
<1>1. TypeOK'
  BY DEF DecryptInv, TypeOK, States, HasTable
<1>2. buf = NoBuffers
  BY DEF DecryptInv, BufferInv
<1>3. CallInv' /\ TableInv' /\ WalkInv' /\ BufferInv' /\ AuthInv'
  BY <1>2 DEF CallInv, TableInv, WalkInv, BufferInv, AuthInv, HasTable, Decrypted
<1> QED BY <1>1, <1>3 DEF DecryptInv

LEMMA CheckArgumentsKeepsInv == DecryptInv /\ CheckArguments => DecryptInv'
<1> SUFFICES ASSUME DecryptInv, CheckArguments PROVE DecryptInv'
  OBVIOUS
<1>1. CASE Fail("MC_ERR_INVALID_ARG")
  BY <1>1, FailKeepsInv DEF Statuses
<1>2. CASE ~Fail("MC_ERR_INVALID_ARG")
  <2> USE <1>2 DEF CheckArguments, callVars, walkVars, dataVars
  <2>1. TypeOK'
    BY DEF DecryptInv, TypeOK, States, HasTable
  <2>2. op' = "decrypt" => key' \in Keys
    BY DEF DecryptInv, TypeOK, CallInv
  <2>3. CallInv' /\ TableInv' /\ WalkInv' /\ BufferInv' /\ AuthInv'
    BY <2>2 DEF DecryptInv, TypeOK, CallInv, TableInv, WalkInv, BufferInv,
           AuthInv, HasTable, Decrypted
  <2> QED BY <2>1, <2>3 DEF DecryptInv
<1> QED BY <1>1, <1>2

LEMMA InspectKeepsInv == DecryptInv /\ Inspect => DecryptInv'
<1> SUFFICES ASSUME DecryptInv, Inspect PROVE DecryptInv'
  OBVIOUS
<1> DEFINE rc == ParseFileHeader(hdr, input.size)
<1>1. CASE rc # "MC_OK"
  BY <1>1, FailKeepsInv, HeaderStatus DEF Inspect
<1>2. CASE rc = "MC_OK"
  <2> USE <1>2 DEF Inspect, callVars, walkVars, dataVars
  <2>1. TypeOK'
    BY DEF DecryptInv, TypeOK, States, HasTable, Statuses
  <2>2. CallInv' /\ TableInv' /\ WalkInv' /\ BufferInv' /\ AuthInv'
    BY DEF DecryptInv, CallInv, TableInv, WalkInv, BufferInv,
           AuthInv, HasTable, Decrypted
  <2> QED BY <2>1, <2>2 DEF DecryptInv
<1> QED BY <1>1, <1>2

LEMMA ReadHeaderKeepsInv == DecryptInv /\ ReadHeader => DecryptInv'
<1> SUFFICES ASSUME DecryptInv, ReadHeader PROVE DecryptInv'
  OBVIOUS
<1> DEFINE rc == ParseFileHeader(hdr, input.size)
<1>1. CASE rc # "MC_OK"
  BY <1>1, FailKeepsInv, HeaderStatus DEF ReadHeader
<1>2. CASE rc = "MC_OK"
  <2> USE <1>2 DEF ReadHeader, callVars, walkVars, dataVars
  <2>1. TypeOK'
    BY DEF DecryptInv, TypeOK, States, HasTable
  <2>2. CallInv' /\ TableInv' /\ WalkInv' /\ BufferInv' /\ AuthInv'
    BY DEF DecryptInv, CallInv, TableInv, WalkInv, BufferInv,
           AuthInv, HasTable, Decrypted, hdr
  <2> QED BY <2>1, <2>2 DEF DecryptInv
<1> QED BY <1>1, <1>2

LEMMA AllocateTableKeepsInv == DecryptInv /\ AllocateTable => DecryptInv'
<1> SUFFICES ASSUME DecryptInv, AllocateTable PROVE DecryptInv'
  OBVIOUS
<1>1. CASE \E rc \in Statuses \ {"MC_OK"} : Fail(rc)
  BY <1>1, FailKeepsInv
<1>2. CASE ~\E rc \in Statuses \ {"MC_OK"} : Fail(rc)
  <2> USE DEF callVars
  <2>1. /\ ~(input.size < MinimumInput) /\ ~(TableBytes > SizeMax)
        /\ Allocated("table", TableBytes) /\ entries' = EmptyTable
        /\ offset' = HeaderSize /\ index' = 0 /\ maxCompressed' = 0
        /\ pc = "table" /\ pc' = "walk"
        /\ UNCHANGED <<callVars, first, plaintext, stream, status, out>>
    BY <1>2 DEF AllocateTable, Statuses, TooBig
  <2>2. /\ input \in Inputs /\ key \in Keys /\ op = "decrypt"
        /\ ParseFileHeader(hdr, input.size) = "MC_OK" /\ buf = NoBuffers
    BY <2>1 DEF DecryptInv, CallInv, BufferInv
  <2>3. /\ input.size \in HeaderSize..SizeMax
        /\ hdr.chunk_count \in 1..(U32 - 1)
    BY <2>2, ParsedInput DEF hdr
  <2>4. HeaderSize \in Nat /\ SizeMax \in Nat /\ U32 \in Nat
        /\ EntrySize \in Nat /\ ChunkHeaderSize \in Nat
    BY FormatAssumption, DecryptAssumption
  <2>5. TableBytes \in Nat /\ TableBytes < SizeMax + 1
    BY <2>1, <2>3, <2>4 DEF TableBytes
  <2>6. SizeT(TableBytes) = TableBytes
    BY <2>4, <2>5, WrapSmall DEF SizeT
  <2>7. buf' = [NoBuffers EXCEPT !["table"] = TableBytes]
    BY <2>1, <2>2, <2>6 DEF Allocated
  <2>8. TypeOK'
    BY <2>1, <2>3, <2>4, <2>5, <2>7
       DEF DecryptInv, TypeOK, States, HasTable, NoBuffers, Buffers,
           EmptyTable, hdr
  <2>9. CallInv' /\ TableInv' /\ WalkInv'
    BY <2>1, <2>2, <2>3, <2>4
       DEF CallInv, TableInv, WalkInv, HasTable, Listed, hdr
  <2>10. BufferInv'
    <3>1. MinimumInput <= input.size
      BY <2>1, <2>3, <2>4 DEF MinimumInput
    <3> QED BY <2>1, <2>7, <3>1
       DEF BufferInv, HasTable, NoBuffers, Buffers, TableBytes, MinimumInput, hdr
  <2>11. AuthInv'
    BY <2>1 DEF AuthInv, Decrypted
  <2> QED BY <2>8, <2>9, <2>10, <2>11 DEF DecryptInv
<1> QED BY <1>1, <1>2

(* Compressed reads a record's flags only, so an entry that repeats the    *)
(* record's flags is compressed exactly when the record is.                *)
LEMMA WalkRecordKeepsInv == DecryptInv /\ WalkRecord => DecryptInv'
<1> SUFFICES ASSUME DecryptInv, WalkRecord PROVE DecryptInv'
  OBVIOUS
<1> DEFINE rec == RecordAt(input, index)
           e == [offset |-> offset + ChunkHeaderSize, stored |-> rec.stored,
                 flags |-> rec.flags, tag |-> rec.tag]
<1>1. CASE ~RecordAccepted(rec, offset)
  BY <1>1, FailKeepsInv DEF WalkRecord, Statuses
<1>2. CASE RecordAccepted(rec, offset)
  <2>1. /\ pc = "walk" /\ index < hdr.chunk_count
        /\ entries' = [entries EXCEPT ![index] = e]
        /\ offset' = SizeT(offset + ChunkHeaderSize + rec.stored)
        /\ maxCompressed' = LargestStored(rec) /\ index' = index + 1
        /\ pc' = pc /\ op' = op /\ key' = key /\ input' = input
        /\ UNCHANGED <<buf, first, plaintext, stream, status, out>>
    BY <1>2 DEF WalkRecord, callVars, dataVars
  <2>2. /\ input \in Inputs /\ key \in Keys /\ op = "decrypt"
        /\ ParseFileHeader(hdr, input.size) = "MC_OK"
    BY <2>1 DEF DecryptInv, CallInv, HasTable
  <2>3. /\ input.size \in HeaderSize..SizeMax
        /\ hdr.chunk_count \in 1..(U32 - 1)
        /\ PlainSize(index) \in Nat
    <3>1. index \in Nat
      BY DEF DecryptInv, TypeOK
    <3> QED BY <2>2, <3>1, ParsedInput, FormatAssumption DEF hdr, PlainSize
  <2>4. HeaderSize \in Nat /\ SizeMax \in Nat /\ U32 \in Nat
        /\ EntrySize \in Nat /\ ChunkHeaderSize \in Nat \ {0}
    BY FormatAssumption, DecryptAssumption
  <2>5. /\ index \in Nat /\ maxCompressed \in Nat
        /\ offset \in HeaderSize..input.size
        /\ index > 0 => offset = entries[index - 1].offset
                                  + entries[index - 1].stored
        /\ DOMAIN entries = 0..(hdr.chunk_count - 1)
        /\ maxCompressed <= input.size - HeaderSize
        /\ \A i \in 0..(index - 1) : EntryInv(i)
    BY <2>1 DEF DecryptInv, TypeOK, HasTable, WalkInv, TableInv, Listed
  <2>6. rec.stored \in Nat
    BY <2>2, <2>4, StoredType
  <2>7. /\ offset + ChunkHeaderSize + rec.stored \in HeaderSize..input.size
        /\ SizeT(offset + ChunkHeaderSize + rec.stored)
             = offset + ChunkHeaderSize + rec.stored
    <3>1. input.size - offset >= ChunkHeaderSize
      BY <1>2, <2>3, <2>4, <2>5 DEF RecordAccepted, SizeSub
    <3>2. input.size - (offset + ChunkHeaderSize) >= rec.stored
      BY <1>2, <2>3, <2>4, <2>5, <3>1 DEF RecordAccepted, SizeSub
    <3>3. offset + ChunkHeaderSize + rec.stored \in HeaderSize..input.size
      <4>1. offset \in Int /\ HeaderSize <= offset /\ input.size \in Int
        BY <2>3, <2>4, <2>5
      <4> QED BY <2>4, <2>6, <3>2, <4>1
    <3>4. offset + ChunkHeaderSize + rec.stored < SizeMax + 1
      BY <2>3, <2>4, <3>3
    <3> QED BY <2>3, <2>4, <3>3, <3>4, WrapSmall DEF SizeT
  <2>8. /\ LargestStored(rec) \in Nat
        /\ LargestStored(rec) >= maxCompressed
        /\ Compressed(rec) => LargestStored(rec) >= rec.stored
        /\ LargestStored(rec) <= input.size - HeaderSize
    <3>1. offset \in Int /\ HeaderSize <= offset /\ input.size \in Int
          /\ offset + ChunkHeaderSize + rec.stored <= input.size
      BY <2>3, <2>4, <2>5, <2>7
    <3>2. maxCompressed \in Nat /\ maxCompressed <= input.size - HeaderSize
      BY <2>5
    <3> HIDE DEF rec
    <3> QED BY <2>4, <2>6, <3>1, <3>2 DEF LargestStored
  <2>9. TypeOK'
    BY <2>1, <2>3, <2>4, <2>5, <2>7, <2>8
       DEF DecryptInv, TypeOK, States, HasTable, hdr
  <2>10. CallInv' /\ AuthInv'
    BY <2>1, <2>2 DEF DecryptInv, CallInv, AuthInv, Decrypted, HasTable, hdr
  <2>11. BufferInv'
    BY <2>1 DEF DecryptInv, BufferInv, HasTable, MinimumInput, PlainSize, hdr
  <2>12. entries'[index] = e /\ \A i \in 0..(index - 1) : entries'[i] = entries[i]
    BY <2>1, <2>3, <2>5
  <2>13. WalkInv'
    <3>1. /\ entries'[index'- 1] = e
          /\ offset' = e.offset + e.stored
          /\ offset' \in HeaderSize..input'.size
      BY <2>1, <2>5, <2>7, <2>12
    <3> QED BY <3>1 DEF WalkInv
  <2>14. TableInv'
    <3>1. SUFFICES ASSUME NEW i \in 0..index PROVE EntryInv(i)'
      BY <2>1, <2>3, <2>5, <2>8 DEF TableInv, HasTable, Listed, hdr
    <3>2. CASE i < index
      <4>1. EntryInv(i) /\ entries'[i] = entries[i]
            /\ (i > 0 => entries'[i - 1] = entries[i - 1])
        BY <3>2, <2>5, <2>12
      <4>2. Compressed(entries[i]) => entries[i].stored <= maxCompressed'
        BY <4>1, <2>1, <2>5, <2>8 DEF EntryInv
      <4> QED BY <4>1, <4>2, <2>1 DEF EntryInv, PlainSize, hdr
    <3>3. CASE i = index
      <4>1. Compressed(e) <=> Compressed(rec)
        BY DEF Compressed
      <4>2. ~Compressed(rec) => rec.stored = PlainSize(index)
        BY <1>2 DEF RecordAccepted
      <4>3. index > 0 => entries'[index - 1] = entries[index - 1]
        BY <2>5, <2>12
      <4>4. Compressed(e) => e.stored <= maxCompressed'
        BY <4>1, <2>1, <2>8
      <4>5. e.offset \in Nat /\ e.stored \in Nat
            /\ e.offset + e.stored <= input.size
        BY <2>3, <2>4, <2>5, <2>6, <2>7
      <4>6. index > 0 => e.offset = entries[index - 1].offset
                           + entries[index - 1].stored + ChunkHeaderSize
        BY <2>5
      <4> HIDE DEF e
      <4>7. e.stored = rec.stored /\ e.flags = rec.flags /\ e.tag = rec.tag
        BY DEF e
      <4> QED BY <2>1, <2>12, <3>3, <4>1, <4>2, <4>3, <4>4, <4>5, <4>6, <4>7
              DEF EntryInv, PlainSize, hdr
    <3> QED BY <3>1, <3>2, <3>3, <2>5
  <2> QED BY <2>9, <2>10, <2>11, <2>13, <2>14 DEF DecryptInv
<1> QED BY <1>1, <1>2

LEMMA WalkEndKeepsInv == DecryptInv /\ WalkEnd => DecryptInv'
<1> SUFFICES ASSUME DecryptInv, WalkEnd PROVE DecryptInv'
  OBVIOUS
<1>1. CASE ~WholeInputWalked
  BY <1>1, FailKeepsInv DEF WalkEnd, Statuses
<1>2. CASE WholeInputWalked
  <2> USE <1>2 DEF WalkEnd, callVars, dataVars
  <2>0. input \in Inputs /\ ParseFileHeader(hdr, input.size) = "MC_OK"
    BY DEF DecryptInv, CallInv, HasTable
  <2>1. hdr.chunk_count \in 1..(U32 - 1)
    BY <2>0, ParsedInput DEF hdr
  <2>2. TypeOK'
    BY <2>1, FormatAssumption DEF DecryptInv, TypeOK, States, HasTable, hdr
  <2>3. CallInv' /\ WalkInv' /\ BufferInv' /\ AuthInv'
    BY DEF DecryptInv, CallInv, WalkInv, BufferInv, AuthInv, HasTable,
           Decrypted, hdr, MinimumInput, PlainSize
  <2>4. TableInv'
    BY DEF DecryptInv, TableInv, EntryInv, HasTable, Listed, hdr, PlainSize
  <2> QED BY <2>2, <2>3, <2>4 DEF DecryptInv
<1> QED BY <1>1, <1>2

LEMMA DeriveKeyKeepsInv == DecryptInv /\ DeriveKey => DecryptInv'
<1> SUFFICES ASSUME DecryptInv, DeriveKey PROVE DecryptInv'
  OBVIOUS
<1>1. CASE \E rc \in Statuses \ {"MC_OK"} : Fail(rc)
  BY <1>1, FailKeepsInv
<1>2. CASE ~\E rc \in Statuses \ {"MC_OK"} : Fail(rc)
  <2>1. /\ pc = "kdf" /\ pc' = "scratch" /\ Allocated("derived", KeySize)
        /\ UNCHANGED <<op, key, input, index, offset, entries, maxCompressed,
                       first, plaintext, stream, status, out>>
    BY <1>2 DEF DeriveKey, Statuses, callVars, walkVars
  <2>2. /\ input \in Inputs /\ key \in Keys /\ op = "decrypt"
        /\ ParseFileHeader(hdr, input.size) = "MC_OK"
    BY <2>1 DEF DecryptInv, CallInv, HasTable
  <2>3. KeySize \in Nat /\ KeySize < SizeMax + 1
    BY DecryptAssumption, FormatAssumption
  <2>4. buf' = [buf EXCEPT !["derived"] = KeySize]
    <3>1. SizeT(KeySize) = KeySize
      BY <2>3, FormatAssumption, WrapSmall DEF SizeT
    <3> QED BY <2>1, <3>1 DEF Allocated
  <2>5. TypeOK'
    BY <2>1, <2>3, <2>4 DEF DecryptInv, TypeOK, States, HasTable, Buffers, hdr
  <2>6. CallInv' /\ WalkInv' /\ AuthInv'
    BY <2>1, <2>2 DEF DecryptInv, CallInv, WalkInv, AuthInv, HasTable, Decrypted, hdr
  <2>7. TableInv'
    BY <2>1 DEF DecryptInv, TableInv, EntryInv, HasTable, Listed, hdr, PlainSize
  <2>8. BufferInv'
    <3>1. buf \in [Buffers -> Nat]
      BY DEF DecryptInv, TypeOK
    <3> QED BY <2>1, <2>4, <3>1
      DEF DecryptInv, BufferInv, CallInv, HasTable, MinimumInput, PlainSize,
          hdr, Buffers
  <2> QED BY <2>5, <2>6, <2>7, <2>8 DEF DecryptInv
<1> QED BY <1>1, <1>2

LEMMA AllocateScratchKeepsInv == DecryptInv /\ AllocateScratch => DecryptInv'
<1> SUFFICES ASSUME DecryptInv, AllocateScratch PROVE DecryptInv'
  OBVIOUS
<1>1. CASE \E rc \in Statuses \ {"MC_OK"} : Fail(rc)
  BY <1>1, FailKeepsInv
<1>2. CASE ~\E rc \in Statuses \ {"MC_OK"} : Fail(rc)
  <2>1. /\ pc = "scratch" /\ pc' = "first" /\ Allocated("scratch", maxCompressed)
        /\ UNCHANGED <<op, key, input, index, offset, entries, maxCompressed,
                       first, plaintext, stream, status, out>>
    BY <1>2 DEF AllocateScratch, Statuses, callVars, walkVars
  <2>2. /\ input \in Inputs /\ key \in Keys /\ op = "decrypt"
        /\ ParseFileHeader(hdr, input.size) = "MC_OK"
    BY <2>1 DEF DecryptInv, CallInv, HasTable
  <2>3. maxCompressed \in Nat /\ maxCompressed < SizeMax + 1
    <3>1. maxCompressed \in Nat /\ maxCompressed <= input.size - HeaderSize
      BY <2>1 DEF DecryptInv, TypeOK, TableInv, HasTable
    <3>2. input.size \in HeaderSize..SizeMax
      BY <2>2, ParsedInput DEF hdr
    <3> QED BY <3>1, <3>2, FormatAssumption
  <2>4. buf' = [buf EXCEPT !["scratch"] = maxCompressed]
    <3>1. SizeT(maxCompressed) = maxCompressed
      BY <2>3, FormatAssumption, WrapSmall DEF SizeT
    <3> QED BY <2>1, <3>1 DEF Allocated
  <2>5. TypeOK'
    BY <2>1, <2>3, <2>4 DEF DecryptInv, TypeOK, States, HasTable, Buffers, hdr
  <2>6. CallInv' /\ WalkInv' /\ AuthInv'
    BY <2>1, <2>2 DEF DecryptInv, CallInv, WalkInv, AuthInv, HasTable, Decrypted, hdr
  <2>7. TableInv'
    BY <2>1 DEF DecryptInv, TableInv, EntryInv, HasTable, Listed, hdr, PlainSize
  <2>8. BufferInv'
    <3>1. buf \in [Buffers -> Nat]
      BY DEF DecryptInv, TypeOK
    <3> QED BY <2>1, <2>4, <3>1
      DEF DecryptInv, BufferInv, CallInv, HasTable, MinimumInput, PlainSize,
          hdr, Buffers
  <2> QED BY <2>5, <2>6, <2>7, <2>8 DEF DecryptInv
<1> QED BY <1>1, <1>2

LEMMA AllocateFirstKeepsInv == DecryptInv /\ AllocateFirst => DecryptInv'
<1> SUFFICES ASSUME DecryptInv, AllocateFirst PROVE DecryptInv'
  OBVIOUS
<1>1. CASE \E rc \in Statuses \ {"MC_OK"} : Fail(rc)
  BY <1>1, FailKeepsInv
<1>2. CASE ~\E rc \in Statuses \ {"MC_OK"} : Fail(rc)
  <2>1. /\ pc = "first" /\ pc' = "open" /\ Allocated("first", PlainSize(0))
        /\ UNCHANGED <<op, key, input, index, offset, entries, maxCompressed,
                       first, plaintext, stream, status, out>>
    BY <1>2 DEF AllocateFirst, Statuses, callVars, walkVars
  <2>2. /\ input \in Inputs /\ key \in Keys /\ op = "decrypt"
        /\ ParseFileHeader(hdr, input.size) = "MC_OK"
    BY <2>1 DEF DecryptInv, CallInv, HasTable
  <2>3. PlainSize(0) \in Nat /\ PlainSize(0) < SizeMax + 1
    <3>1. /\ PlainSize(0) \in 0..hdr.chunk_size
          /\ hdr.chunk_size \in MinChunkSize..MaxChunkSize
      BY <2>2, ParsedInput DEF hdr, PlainSize
    <3>2. hdr.chunk_size < MaxStoredSizeFor(hdr.chunk_size)
          /\ MaxStoredSizeFor(hdr.chunk_size) \in 0..(U32 - 1)
      BY <3>1, MaxStoredSizeExact
    <3> QED BY <3>1, <3>2, FormatAssumption
  <2>4. buf' = [buf EXCEPT !["first"] = PlainSize(0)]
    <3>1. SizeT(PlainSize(0)) = PlainSize(0)
      BY <2>3, FormatAssumption, WrapSmall DEF SizeT
    <3> QED BY <2>1, <3>1 DEF Allocated
  <2>5. TypeOK'
    BY <2>1, <2>3, <2>4 DEF DecryptInv, TypeOK, States, HasTable, Buffers, hdr
  <2>6. CallInv' /\ WalkInv' /\ AuthInv'
    BY <2>1, <2>2 DEF DecryptInv, CallInv, WalkInv, AuthInv, HasTable, Decrypted, hdr
  <2>7. TableInv'
    BY <2>1 DEF DecryptInv, TableInv, EntryInv, HasTable, Listed, hdr, PlainSize
  <2>8. BufferInv'
    <3>1. buf \in [Buffers -> Nat]
      BY DEF DecryptInv, TypeOK
    <3> QED BY <2>1, <2>4, <3>1
      DEF DecryptInv, BufferInv, CallInv, HasTable, MinimumInput, PlainSize,
          hdr, Buffers
  <2> QED BY <2>5, <2>6, <2>7, <2>8 DEF DecryptInv
<1> QED BY <1>1, <1>2

(* The AAD OpenChunk builds from the table is the one of the record.       *)
LEMMA OpenedIsAuthentic ==
  ASSUME DecryptInv, pc = "open", index < hdr.chunk_count,
         Authentic(FileKey(key, hdr), OpenNonce, OpenAad(entries[index]),
                   RecordAt(input, index).ct, entries[index].tag)
  PROVE  ChunkAuthentic(index)
<1>1. index \in 0..(Listed - 1)
  <2>1. index \in Nat
    BY DEF DecryptInv, TypeOK
  <2>2. input \in Inputs
    BY DEF DecryptInv, CallInv
  <2>3. hdr.chunk_count \in Int
    BY <2>2, DecryptAssumption, FormatAssumption DEF hdr
  <2> QED BY <2>1, <2>3 DEF Listed
<1>2. EntryInv(index)
  BY <1>1 DEF DecryptInv, TableInv, HasTable
<1> QED BY <1>2 DEF EntryInv, ChunkAuthentic, OpenNonce, OpenAad, BuildAad

(* A step that leaves the table and the buffers alone, and moves on in the *)
(* loop over the chunks, keeps what is known of them.                      *)
LEMMA NextChunkKeeps ==
  ASSUME DecryptInv, pc \in {"open", "inflate"}, index < hdr.chunk_count,
         NextChunk, ChunkAuthentic(index),
         UNCHANGED <<op, key, input, offset, entries, maxCompressed, buf,
                     status, out>>
  PROVE  DecryptInv'
<1> USE DEF NextChunk
<1>0. /\ index \in Nat /\ index' = index + 1
      /\ pc' = (IF index = 0 THEN "plaintext" ELSE "open")
      /\ input \in Inputs /\ hdr.chunk_count \in Nat
  <2>1. index \in Nat
    BY DEF DecryptInv, TypeOK
  <2>2. input \in Inputs
    BY DEF DecryptInv, CallInv
  <2>3. hdr.chunk_count \in Nat
    BY <2>2, DecryptAssumption, FormatAssumption DEF hdr
  <2> QED BY <2>1, <2>2, <2>3
<1>1. TypeOK'
  BY <1>0 DEF DecryptInv, TypeOK, States, HasTable, hdr
<1>2. CallInv' /\ WalkInv'
  BY <1>0 DEF DecryptInv, CallInv, WalkInv, HasTable, hdr
<1>3. TableInv'
  BY <1>0 DEF DecryptInv, TableInv, EntryInv, HasTable, Listed, hdr, PlainSize
<1>4. BufferInv'
  BY <1>0 DEF DecryptInv, BufferInv, HasTable, MinimumInput, PlainSize, hdr
<1>5. AuthInv'
  <2>1. \A i \in 0..(index - 1) : ChunkAuthentic(i)
    BY <1>0 DEF DecryptInv, AuthInv
  <2>2. \A i \in 0..index : ChunkAuthentic(i)
    BY <1>0, <2>1
  <2>3. \A i \in 0..(index' - 1) : ChunkAuthentic(i)'
    BY <1>0, <2>2 DEF ChunkAuthentic, hdr
  <2> QED BY <1>0, <2>3 DEF AuthInv, Decrypted
<1> QED BY <1>1, <1>2, <1>3, <1>4, <1>5 DEF DecryptInv

LEMMA OpenChunkKeepsInv == DecryptInv /\ OpenChunk => DecryptInv'
<1> SUFFICES ASSUME DecryptInv, OpenChunk PROVE DecryptInv'
  OBVIOUS
<1>1. CASE \E rc \in Statuses \ {"MC_OK"} : Fail(rc)
  BY <1>1, FailKeepsInv
<1>2. CASE ~\E rc \in Statuses \ {"MC_OK"} : Fail(rc)
  <2> DEFINE e == entries[index]
             ct == RecordAt(input, index).ct
  <2>1. /\ pc = "open" /\ index < hdr.chunk_count
        /\ Authentic(FileKey(key, hdr), OpenNonce, OpenAad(e), ct, e.tag)
        /\ \/ pc' = "inflate" /\ index' = index
           \/ NextChunk
        /\ UNCHANGED <<op, key, input, offset, entries, maxCompressed, buf,
                       status, out>>
    BY <1>2 DEF OpenChunk, Statuses, callVars
  <2>2. ChunkAuthentic(index)
    BY <2>1, OpenedIsAuthentic
  <2>3. CASE NextChunk
    BY <2>1, <2>2, <2>3, NextChunkKeeps
  <2>4. CASE pc' = "inflate" /\ index' = index
    <3>1. TypeOK'
      BY <2>1, <2>4 DEF DecryptInv, TypeOK, States, HasTable, hdr
    <3>2. CallInv' /\ WalkInv'
      BY <2>1, <2>4 DEF DecryptInv, CallInv, WalkInv, HasTable, hdr
    <3>3. TableInv'
      BY <2>1, <2>4 DEF DecryptInv, TableInv, EntryInv, HasTable, Listed, hdr, PlainSize
    <3>4. BufferInv'
      BY <2>1, <2>4 DEF DecryptInv, BufferInv, HasTable, MinimumInput, PlainSize, hdr
    <3>5. AuthInv'
      <4>1. \A i \in 0..(index - 1) : ChunkAuthentic(i)
        BY <2>1 DEF DecryptInv, AuthInv
      <4>2. \A i \in 0..index : ChunkAuthentic(i)
        <5>1. index \in Nat
          BY DEF DecryptInv, TypeOK
        <5> QED BY <2>2, <4>1, <5>1
      <4> QED BY <2>1, <2>4, <4>2 DEF AuthInv, Decrypted, ChunkAuthentic, hdr
    <3> QED BY <3>1, <3>2, <3>3, <3>4, <3>5 DEF DecryptInv
  <2> QED BY <2>1, <2>3, <2>4
<1> QED BY <1>1, <1>2

LEMMA InflateChunkKeepsInv == DecryptInv /\ InflateChunk => DecryptInv'
<1> SUFFICES ASSUME DecryptInv, InflateChunk PROVE DecryptInv'
  OBVIOUS
<1>1. CASE \E rc \in Statuses \ {"MC_OK"} : Fail(rc)
  BY <1>1, FailKeepsInv
<1>2. CASE ~\E rc \in Statuses \ {"MC_OK"} : Fail(rc)
  <2>1. /\ pc = "inflate" /\ NextChunk
        /\ UNCHANGED <<op, key, input, offset, entries, maxCompressed, buf,
                       status, out>>
    BY <1>2 DEF InflateChunk, Statuses, callVars
  <2>2. index < hdr.chunk_count
    BY <2>1 DEF DecryptInv, CallInv
  <2>3. ChunkAuthentic(index)
    <3>1. index \in Nat
      BY DEF DecryptInv, TypeOK
    <3> QED BY <2>1, <3>1 DEF DecryptInv, AuthInv
  <2> QED BY <2>1, <2>2, <2>3, NextChunkKeeps
<1> QED BY <1>1, <1>2

LEMMA AllocatePlaintextKeepsInv == DecryptInv /\ AllocatePlaintext => DecryptInv'
<1> SUFFICES ASSUME DecryptInv, AllocatePlaintext PROVE DecryptInv'
  OBVIOUS
<1>1. CASE \E rc \in Statuses \ {"MC_OK"} : Fail(rc)
  BY <1>1, FailKeepsInv
<1>2. CASE ~\E rc \in Statuses \ {"MC_OK"} : Fail(rc)
  <2> DEFINE size == hdr.plaintext_size
  <2>1. /\ pc = "plaintext" /\ pc' = "open" /\ Allocated("plaintext", size)
        /\ ~(size > SizeMax)
        /\ UNCHANGED <<op, key, input, index, offset, entries, maxCompressed,
                       first, stream, status, out>>
    BY <1>2 DEF AllocatePlaintext, Statuses, TooBig, callVars, walkVars
  <2>2. /\ input \in Inputs /\ key \in Keys /\ op = "decrypt" /\ index = 1
        /\ ParseFileHeader(hdr, input.size) = "MC_OK"
    BY <2>1 DEF DecryptInv, CallInv, HasTable
  <2>3. size \in Nat /\ size < SizeMax + 1
    BY <2>1, <2>2, DecryptAssumption, FormatAssumption DEF hdr
  <2>4. buf' = [buf EXCEPT !["plaintext"] = size]
    <3>1. SizeT(size) = size
      BY <2>3, FormatAssumption, WrapSmall DEF SizeT
    <3> QED BY <2>1, <3>1 DEF Allocated
  <2>5. TypeOK'
    BY <2>1, <2>3, <2>4 DEF DecryptInv, TypeOK, States, HasTable, Buffers, hdr
  <2>6. CallInv' /\ WalkInv' /\ AuthInv'
    BY <2>1, <2>2
       DEF DecryptInv, CallInv, WalkInv, AuthInv, HasTable, Decrypted,
           ChunkAuthentic, hdr
  <2>7. TableInv'
    BY <2>1 DEF DecryptInv, TableInv, EntryInv, HasTable, Listed, hdr, PlainSize
  <2>8. BufferInv'
    <3>1. buf \in [Buffers -> Nat]
      BY DEF DecryptInv, TypeOK
    <3> QED BY <2>1, <2>2, <2>4, <3>1
      DEF DecryptInv, BufferInv, HasTable, MinimumInput, PlainSize, hdr, Buffers
  <2> QED BY <2>5, <2>6, <2>7, <2>8 DEF DecryptInv
<1> QED BY <1>1, <1>2

LEMMA FinishKeepsInv == DecryptInv /\ Finish => DecryptInv'
<1> SUFFICES ASSUME DecryptInv, Finish PROVE DecryptInv'
  OBVIOUS
<1> USE DEF Finish, FreeLocals, callVars
<1>1. TypeOK'
  BY DEF DecryptInv, TypeOK, States, HasTable, NoBuffers, Buffers, Statuses
<1>2. CallInv' /\ TableInv' /\ WalkInv' /\ BufferInv'
  BY DEF DecryptInv, CallInv, TableInv, WalkInv, BufferInv, HasTable
<1>3. AuthInv'
  BY DEF DecryptInv, CallInv, AuthInv, HasTable, Decrypted, ChunkAuthentic,
         hdr, AllOpened
<1> QED BY <1>1, <1>2, <1>3 DEF DecryptInv

LEMMA StutterKeepsInv == DecryptInv /\ UNCHANGED vars => DecryptInv'
<1> SUFFICES ASSUME DecryptInv, UNCHANGED vars PROVE DecryptInv'
  OBVIOUS
<1> USE DEF vars, callVars, walkVars, dataVars
<1>1. TypeOK' /\ CallInv' /\ WalkInv'
  BY DEF DecryptInv, TypeOK, CallInv, WalkInv, HasTable, hdr
<1>2. TableInv'
  BY DEF DecryptInv, TableInv, EntryInv, HasTable, Listed, PlainSize, hdr
<1>3. BufferInv'
  BY DEF DecryptInv, BufferInv, HasTable, MinimumInput, PlainSize, hdr
<1>4. AuthInv'
  BY DEF DecryptInv, AuthInv, ChunkAuthentic, Decrypted, hdr
<1> QED BY <1>1, <1>2, <1>3, <1>4 DEF DecryptInv

THEOREM DecryptInvariant == Spec => []DecryptInv
<1>1. DecryptInv /\ [Next]_vars => DecryptInv'
  BY CallKeepsInv, CheckArgumentsKeepsInv, InspectKeepsInv, ReadHeaderKeepsInv,
     AllocateTableKeepsInv, WalkRecordKeepsInv, WalkEndKeepsInv,
     DeriveKeyKeepsInv, AllocateScratchKeepsInv, AllocateFirstKeepsInv,
     OpenChunkKeepsInv, InflateChunkKeepsInv, AllocatePlaintextKeepsInv,
     FinishKeepsInv, StutterKeepsInv DEF Next, Step
<1> QED BY <1>1, InitInv, PTL DEF Spec

----------------------------------------------------------------------------
(* What the invariant says of the code.                                    *)

(* The variables keep their types.                                         *)
THEOREM TypeCorrect == Spec => []TypeOK
BY DecryptInvariant, PTL DEF DecryptInv

(***************************************************************************)
(* WalkChunkTable never reads past the input nor subtracts past zero,      *)
(* whatever sizes the file claims and however narrow size_t is.            *)
(***************************************************************************)
THEOREM WalkIsInside == Spec => []WalkStaysInside
<1>1. DecryptInv => WalkStaysInside
  <2> SUFFICES ASSUME DecryptInv PROVE WalkStaysInside
    OBVIOUS
  <2>1. pc = "walk" => offset <= input.size
    <3>1. pc = "walk" => input \in Inputs
      BY DEF DecryptInv, CallInv
    <3> QED BY <3>1, DecryptAssumption, FormatAssumption DEF DecryptInv, WalkInv
  <2> QED BY <2>1 DEF DecryptInv, TableInv, EntryInv, WalkStaysInside
<1> QED BY <1>1, DecryptInvariant, PTL

(* Chunk i's plaintext ends inside the plaintext.                          *)
LEMMA ChunkEndsInside ==
  ASSUME NEW size \in 0..MaxPlaintextSize,
         NEW chunk \in MinChunkSize..MaxChunkSize,
         NEW i \in 1..(ChunkCountFor(size, chunk) - 1)
  PROVE  i * chunk + ChunkPlainSize(size, chunk, i) <= size
<1> DEFINE n == ChunkCountFor(size, chunk)
<1>1. n \in Nat /\ chunk \in Nat /\ size \in Nat /\ i \in Nat /\ i <= n - 1
  BY ChunkCountExact, FormatAssumption
<1>2. size > 0
  BY <1>1 DEF ChunkCountFor
<1>3. (n - 1) * chunk < size
  BY <1>2, ChunkCountExact
<1>4. i * chunk <= (n - 1) * chunk
  BY <1>1
<1>5. i * chunk \in Int /\ (n - 1) * chunk \in Int
  BY <1>1
<1>6. i * chunk < size
  BY <1>1, <1>3, <1>4, <1>5
<1> QED BY <1>1, <1>5, <1>6 DEF ChunkPlainSize

(***************************************************************************)
(* Every write of the three phases fits the buffer it goes to: the walk    *)
(* into the table, AEAD into the scratch or the destination, inflate into  *)
(* the destination.                                                        *)
(***************************************************************************)
THEOREM WritesFit == Spec => []WritesHaveRoom
<1>1. DecryptInv => WritesHaveRoom
  <2> SUFFICES ASSUME DecryptInv PROVE WritesHaveRoom
    OBVIOUS
  <2>1. ASSUME HasTable
        PROVE  /\ input \in Inputs /\ hdr.chunk_count \in 1..(U32 - 1)
               /\ hdr.chunk_count = ChunkCountFor(hdr.plaintext_size, hdr.chunk_size)
               /\ hdr.chunk_size \in MinChunkSize..MaxChunkSize
               /\ hdr.plaintext_size \in 0..MaxPlaintextSize
               /\ index \in Nat
    <3>1. input \in Inputs /\ ParseFileHeader(hdr, input.size) = "MC_OK"
      BY <2>1 DEF DecryptInv, CallInv, HasTable
    <3> QED BY <3>1, ParsedInput DEF hdr, DecryptInv, TypeOK
  <2>2. ASSUME pc = "walk", index < hdr.chunk_count
        PROVE  (index + 1) * EntrySize <= buf["table"]
    <3>1. buf["table"] = hdr.chunk_count * EntrySize /\ HasTable
      BY <2>2 DEF DecryptInv, BufferInv, HasTable
    <3>2. index + 1 <= hdr.chunk_count /\ hdr.chunk_count \in Nat
          /\ index \in Nat /\ EntrySize \in Nat
      BY <2>1, <2>2, <3>1, FormatAssumption, DecryptAssumption
    <3> QED BY <3>1, <3>2
  <2>3. ASSUME pc \in {"open", "inflate"}, index < hdr.chunk_count
        PROVE  LET e == entries[index]
                   length == IF pc = "open" /\ ~Compressed(e) THEN e.stored
                             ELSE PlainSize(index)
               IN  /\ Compressed(e) => e.stored <= buf["scratch"]
                   /\ IF index = 0 THEN length <= buf["first"]
                      ELSE index * hdr.chunk_size + length <= buf["plaintext"]
    <3> DEFINE e == entries[index]
    <3>1. HasTable
      BY <2>3 DEF HasTable
    <3>2. EntryInv(index)
      <4>1. index \in 0..(Listed - 1)
        BY <2>1, <2>3, <3>1, FormatAssumption DEF Listed
      <4> QED BY <3>1, <4>1 DEF DecryptInv, TableInv
    <3>3. /\ Compressed(e) => e.stored <= maxCompressed
          /\ ~Compressed(e) => e.stored = PlainSize(index)
      BY <3>2 DEF EntryInv
    <3>4. /\ buf["scratch"] = maxCompressed /\ buf["first"] = PlainSize(0)
          /\ index > 0 => buf["plaintext"] = hdr.plaintext_size
      BY <2>3, <3>1 DEF DecryptInv, BufferInv
    <3>5. PlainSize(0) \in Nat
      <4>1. hdr.plaintext_size \in Nat /\ hdr.chunk_size \in Nat
        BY <2>1, <3>1, FormatAssumption
      <4>2. ChunkPlainSize(hdr.plaintext_size, hdr.chunk_size, 0)
              \in 0..hdr.chunk_size
        BY <4>1, ChunkPlainSizeType
      <4> QED BY <4>1, <4>2 DEF PlainSize
    <3>6. index # 0 =>
            index * hdr.chunk_size + PlainSize(index) <= hdr.plaintext_size
      BY <2>1, <2>3, <3>1, ChunkEndsInside, FormatAssumption DEF PlainSize
    <3>7. index \in Nat
      BY <2>1, <3>1
    <3> QED BY <3>3, <3>4, <3>5, <3>6, <3>7
  <2> QED BY <2>2, <2>3 DEF WritesHaveRoom
<1> QED BY <1>1, DecryptInvariant, PTL

(***************************************************************************)
(* Before chunk 0 authenticates, memory is bounded by the input and by one *)
(* chunk: no file makes the table or the scratch outgrow its own bytes by  *)
(* more than the ratio of an entry to a record.                            *)
(***************************************************************************)
THEOREM AllocationsAreBounded == Spec => []AllocationBound
<1>1. DecryptInv => AllocationBound
  <2> SUFFICES ASSUME DecryptInv, Unauthenticated PROVE AllocationBound
    BY DEF AllocationBound
  <2>1. HasTable
    BY DEF Unauthenticated, HasTable
  <2>2. input \in Inputs /\ ParseFileHeader(hdr, input.size) = "MC_OK"
    BY <2>1 DEF DecryptInv, CallInv, HasTable
  <2>3. /\ hdr.chunk_count \in Nat /\ input.size \in Nat
        /\ HeaderSize <= input.size /\ HeaderSize \in Nat
        /\ ChunkHeaderSize \in Nat /\ EntrySize \in Nat
        /\ hdr.chunk_size \in Nat /\ PlainSize(0) \in 0..hdr.chunk_size
    BY <2>2, ParsedInput, FormatAssumption, DecryptAssumption DEF hdr, PlainSize
  <2>4. buf["table"] * ChunkHeaderSize <= (input.size - HeaderSize) * EntrySize
    <3>1. buf["table"] = hdr.chunk_count * EntrySize
          /\ hdr.chunk_count * ChunkHeaderSize <= input.size - HeaderSize
      <4>1. hdr.chunk_count * ChunkHeaderSize \in Int
        BY <2>3
      <4> QED BY <2>1, <2>3, <4>1 DEF DecryptInv, BufferInv, MinimumInput
    <3>2. (hdr.chunk_count * ChunkHeaderSize) * EntrySize
            <= (input.size - HeaderSize) * EntrySize
      BY <2>3, <3>1
    <3>3. (hdr.chunk_count * EntrySize) * ChunkHeaderSize
            = (hdr.chunk_count * ChunkHeaderSize) * EntrySize
      BY <2>3
    <3> QED BY <3>1, <3>2, <3>3
  <2>5. /\ buf["scratch"] = (IF pc \in {"first", "open"} THEN maxCompressed ELSE 0)
        /\ buf["first"] = (IF pc = "open" THEN PlainSize(0) ELSE 0)
        /\ buf["plaintext"] = 0
        /\ maxCompressed <= input.size - HeaderSize
    BY <2>1 DEF DecryptInv, BufferInv, TableInv, Unauthenticated
  <2> QED BY <2>3, <2>4, <2>5 DEF AllocationBound
<1> QED BY <1>1, DecryptInvariant, PTL

(***************************************************************************)
(* A chunk that authenticates is a chunk of one finished encryption, in    *)
(* its place, under its header and key.                                    *)
(***************************************************************************)
SealedBy(w, k, f, i) ==
  LET rec == RecordAt(f, i) IN
  /\ w.key = k /\ w.file.hdr = f.hdr
  /\ rec.stored = w.file.recs[i].stored /\ rec.flags = w.file.recs[i].flags
  /\ rec.ct = w.file.recs[i].ct /\ rec.tag = w.file.recs[i].tag

LEMMA AuthenticIsSealed ==
  ASSUME NEW k, NEW f \in Inputs, NEW i \in 0..(f.hdr.chunk_count - 1),
         Authentic(FileKey(k, f.hdr), BuildNonce(f.hdr.nonce_prefix, i),
                   BuildAad(f.hdr, i, RecordAt(f, i)), RecordAt(f, i).ct,
                   RecordAt(f, i).tag)
  PROVE  \E w \in Written : SealedBy(w, k, f, i)
<1> DEFINE rec == RecordAt(f, i)
<1>1. rec.tag # Noise /\ i \in DOMAIN f.recs /\ rec = f.recs[i]
  BY DEF Authentic, RecordAt, ZeroRecord
<1>2. PICK w \in Written : \E j \in DOMAIN w.file.recs :
                             rec.tag = w.file.recs[j].tag
  BY <1>1, TagsAreSealed
<1>3. PICK j \in DOMAIN w.file.recs : rec.tag = w.file.recs[j].tag
  BY <1>2
<1> DEFINE h == w.file.hdr
           r == w.file.recs[j]
<1>4. /\ DOMAIN w.file.recs = 0..(h.chunk_count - 1)
      /\ r = SealedRecord(w.key, w.plain, h, j, r.stored, r.flags)
  BY DecryptAssumption DEF FinishedFile
<1>5. r.tag = Mac(FileKey(w.key, h), BuildNonce(h.nonce_prefix, j),
                  BuildAad(h, j, r), r.ct)
  BY <1>4 DEF SealedRecord, BuildAad
<1>6. rec.tag = Mac(FileKey(k, f.hdr), BuildNonce(f.hdr.nonce_prefix, i),
                    BuildAad(f.hdr, i, rec), rec.ct)
  BY DEF Authentic
<1> HIDE DEF rec, r, h
<1>7. /\ FileKey(k, f.hdr) = FileKey(w.key, h)
      /\ BuildAad(f.hdr, i, rec) = BuildAad(h, j, r) /\ rec.ct = r.ct
  BY <1>3, <1>5, <1>6 DEF Mac, r
<1>8. /\ w.key = k /\ h = f.hdr /\ UInt32(i) = UInt32(j)
      /\ rec.stored = r.stored /\ rec.flags = r.flags
  BY <1>7 DEF FileKey, DerivedKey, BuildAad
<1>9. i = j
  <2>1. f.hdr.chunk_count \in 0..(U32 - 1) /\ U32 \in Nat
    BY DecryptAssumption, FormatAssumption
  <2>2. j \in 0..(f.hdr.chunk_count - 1)
    BY <1>4, <1>8
  <2>3. i \in Nat /\ j \in Nat /\ i < U32 /\ j < U32
    BY <2>1, <2>2
  <2> QED BY <1>8, <2>1, <2>3, WrapSmall DEF UInt32
<1> QED BY <1>3, <1>7, <1>8, <1>9 DEF SealedBy, rec, r, h

(***************************************************************************)
(* DecryptBuffer returns MC_OK for nothing but the records of one finished *)
(* encryption under the caller's key, each in its place: what every chunk  *)
(* tag was computed over, header and place included, binds it there, and   *)
(* headers being fresh all chunks come from the same encryption.           *)
(***************************************************************************)
THEOREM OnlySealedIsAccepted == Spec => []AcceptsOnlySealed
<1>1. DecryptInv => AcceptsOnlySealed
  <2> SUFFICES ASSUME DecryptInv, Decrypted PROVE AcceptsOnlySealed
    BY DEF AcceptsOnlySealed
  <2>1. /\ input \in Inputs /\ hdr.chunk_count \in 1..(U32 - 1)
        /\ \A i \in 0..(hdr.chunk_count - 1) : ChunkAuthentic(i)
    BY ParsedInput DEF DecryptInv, AuthInv, hdr
  <2>2. \A i \in 0..(hdr.chunk_count - 1) :
          \E w \in Written : SealedBy(w, key, input, i)
    BY <2>1, AuthenticIsSealed DEF ChunkAuthentic, hdr
  <2>3. 0 \in 0..(hdr.chunk_count - 1)
    BY <2>1, FormatAssumption
  <2>4. PICK w \in Written : SealedBy(w, key, input, 0)
    BY <2>2, <2>3
  <2>5. \A i \in 0..(hdr.chunk_count - 1) : SealedBy(w, key, input, i)
    <3>1. SUFFICES ASSUME NEW i \in 0..(hdr.chunk_count - 1)
                   PROVE  SealedBy(w, key, input, i)
      OBVIOUS
    <3>2. PICK v \in Written : SealedBy(v, key, input, i)
      BY <2>2
    <3>3. v.file.hdr = w.file.hdr
      BY <2>4, <3>2 DEF SealedBy
    <3>4. v = w
      BY <3>3, HeadersAreFresh
    <3> QED BY <3>2, <3>4
  <2> QED BY <2>3, <2>5 DEF SealedBy, AcceptsOnlySealed, hdr
<1> QED BY <1>1, DecryptInvariant, PTL
----------------------------------------------------------------------------
(* The second invariant: where the walk stands, what has been recovered,   *)
(* and what the status says of a whole file.                               *)

(***************************************************************************)
(* While it walks, offset is where the next record starts; afterwards the  *)
(* records fill the input.  Each record listed has passed                  *)
(* ParseChunkHeader.                                                       *)
(***************************************************************************)
PlaceInv ==
  /\ pc = "walk" => offset = RecordOffset(input, index)
  /\ HasTable /\ pc # "walk" =>
       input.size = RecordOffset(input, hdr.chunk_count)
  /\ HasTable =>
       \A i \in 0..(Listed - 1) :
         ParseChunkHeader(RecordAt(input, i), MaxStoredSizeFor(hdr.chunk_size))
           = "MC_OK"

\* The plaintext inside chunk i's ciphertext.
Recovered(i) == RecordAt(input, i).ct.payload.slice

(***************************************************************************)
(* The buffers hold what the chunks below index contain, chunk 0 in        *)
(* first_chunk until the plaintext exists, the others at their index.      *)
(***************************************************************************)
ContentInv ==
  /\ pc \in {"open", "inflate", "plaintext"} /\ index > 0 =>
       first = Recovered(0)
  /\ pc \in {"open", "inflate"} /\ index > 0 =>
       /\ DOMAIN plaintext = 0..(hdr.chunk_count - 1)
       /\ \A i \in 0..(index - 1) : plaintext[i] = Recovered(i)
  /\ pc = "inflate" => /\ Compressed(entries[index])
                       /\ stream = RecordAt(input, index).ct.payload

\* Nothing is written for the caller but by a call that returns MC_OK.
ReplyInv == (pc = "returned" => status # "MC_OK") => out = NoOut

RecoverInv == PlaceInv /\ ContentInv /\ ReplyInv /\ IntactOpens

\* What DecryptBuffer may return when the input is the file of w.
IntactStatus(w, rc) ==
  \/ rc \in {"MC_ERR_MEMORY", "MC_ERR_CRYPTO"}
  \/ rc = (IF key = w.key THEN "MC_OK" ELSE "MC_ERR_AUTH")
  \/ /\ rc = "MC_ERR_TOO_LARGE"
     /\ TableBytes > SizeMax \/ hdr.plaintext_size > SizeMax

\* A whole file is being decrypted.
Intact(w) == op = "decrypt" /\ key \in Keys /\ input = w.file

----------------------------------------------------------------------------
(* Files.                                                                  *)

LEMMA InputLengths == ASSUME NEW f \in Inputs PROVE Lengths(f)
BY StoredType, FormatAssumption DEF Lengths

(* What FinishedFile says of one record.                                   *)
LEMMA FinishedRecord ==
  ASSUME NEW w \in Written, NEW i \in 0..(w.file.hdr.chunk_count - 1)
  PROVE  LET h == w.file.hdr
             rec == RecordAt(w.file, i)
             plain == ChunkPlainSize(h.plaintext_size, h.chunk_size, i)
         IN  /\ rec = w.file.recs[i] /\ rec.reserved = 0 /\ rec.tag # Noise
             /\ rec.ct = Ciphertext(FileKey(w.key, h), BuildNonce(h.nonce_prefix, i),
                           Payload(Compressed(rec),
                                   Slice(w.plain, h.chunk_size, h.plaintext_size, i)))
             /\ rec.tag = Mac(FileKey(w.key, h), BuildNonce(h.nonce_prefix, i),
                              BuildAad(h, i, rec), rec.ct)
             /\ \/ rec.flags = {} /\ rec.stored = plain
                \/ /\ rec.flags = {"compressed"} /\ rec.stored \in 1..(plain - 1)
                   /\ h.compression_id = MC_COMPRESS_ZLIB
<1> DEFINE h == w.file.hdr
           rec == RecordAt(w.file, i)
           plain == ChunkPlainSize(h.plaintext_size, h.chunk_size, i)
<1>1. i \in DOMAIN w.file.recs /\ rec = w.file.recs[i]
  BY DecryptAssumption DEF FinishedFile, RecordAt
<1>2. /\ rec = SealedRecord(w.key, w.plain, h, i, rec.stored, rec.flags)
      /\ \/ rec.flags = {} /\ rec.stored = plain
         \/ /\ rec.flags = {"compressed"} /\ rec.stored \in 1..(plain - 1)
            /\ h.compression_id = MC_COMPRESS_ZLIB
      /\ rec.tag # Noise
  BY <1>1, DecryptAssumption DEF FinishedFile
<1>3. /\ rec.reserved = 0
      /\ rec.ct = Ciphertext(FileKey(w.key, h), BuildNonce(h.nonce_prefix, i),
                    Payload(Compressed(rec),
                            Slice(w.plain, h.chunk_size, h.plaintext_size, i)))
      /\ rec.tag = Mac(FileKey(w.key, h), BuildNonce(h.nonce_prefix, i),
                       BuildAad(h, i, rec), rec.ct)
  <2> DEFINE r == SealedRecord(w.key, w.plain, h, i, rec.stored, rec.flags)
  <2>1. /\ r.reserved = 0
        /\ r.ct = Ciphertext(FileKey(w.key, h), BuildNonce(h.nonce_prefix, i),
                    Payload("compressed" \in rec.flags,
                            Slice(w.plain, h.chunk_size, h.plaintext_size, i)))
        /\ r.tag = Mac(FileKey(w.key, h), BuildNonce(h.nonce_prefix, i),
                       BuildAad(h, i, rec), r.ct)
    BY DEF SealedRecord, Compressed, BuildAad
  <2>2. rec = r
    BY <1>2
  <2> HIDE DEF r, rec
  <2> QED BY <2>1, <2>2 DEF Compressed
<1> QED BY <1>1, <1>2, <1>3

(* The AAD, nonce and key under which a file's own chunk opens are those   *)
(* it was sealed under.                                                    *)
LEMMA FinishedOpens ==
  ASSUME NEW w \in Written, NEW k, NEW i \in 0..(w.file.hdr.chunk_count - 1)
  PROVE  LET h == w.file.hdr
             rec == RecordAt(w.file, i)
         IN  Authentic(FileKey(k, h), BuildNonce(h.nonce_prefix, i),
                       BuildAad(h, i, rec), rec.ct, rec.tag)
               <=> k = w.key
<1> DEFINE h == w.file.hdr
           rec == RecordAt(w.file, i)
<1>1. /\ rec.tag # Noise
      /\ rec.tag = Mac(FileKey(w.key, h), BuildNonce(h.nonce_prefix, i),
                       BuildAad(h, i, rec), rec.ct)
  BY FinishedRecord
<1> HIDE DEF rec, h
<1>2. FileKey(k, h) = FileKey(w.key, h) <=> k = w.key
  BY DEF FileKey, DerivedKey
<1>3. rec.tag = Mac(FileKey(k, h), BuildNonce(h.nonce_prefix, i),
                    BuildAad(h, i, rec), rec.ct)
        <=> FileKey(k, h) = FileKey(w.key, h)
  BY <1>1 DEF Mac
<1> QED BY <1>1, <1>2, <1>3 DEF Authentic, rec, h

(* Every whole file passes the checks of the first phase: its header, its  *)
(* size, and each of its records.                                          *)
LEMMA FinishedHeader ==
  ASSUME NEW w \in Written
  PROVE  /\ ParseFileHeader(w.file.hdr, w.file.size) = "MC_OK"
         /\ w.file.size = RecordOffset(w.file, w.file.hdr.chunk_count)
BY DecryptAssumption DEF FinishedFile

LEMMA FinishedAccepted ==
  ASSUME DecryptInv, RecoverInv, pc = "walk", index < hdr.chunk_count,
         NEW w \in Written, input = w.file
  PROVE  RecordAccepted(RecordAt(input, index), offset)
<1> DEFINE rec == RecordAt(input, index)
<1>1. /\ input \in Inputs /\ ParseFileHeader(hdr, input.size) = "MC_OK"
      /\ index \in Nat /\ offset \in Nat
      /\ offset = RecordOffset(input, index)
  BY DEF DecryptInv, CallInv, TypeOK, HasTable, RecoverInv, PlaceInv
<1>2. /\ hdr.chunk_count \in Nat /\ input.size \in Nat
      /\ hdr.chunk_size \in MinChunkSize..MaxChunkSize
      /\ PlainSize(index) \in 0..hdr.chunk_size
      /\ ChunkHeaderSize \in Nat /\ rec.stored \in Nat
  BY <1>1, ParsedInput, StoredType, FormatAssumption DEF hdr, PlainSize
<1>3. offset + ChunkHeaderSize + rec.stored <= input.size
  BY <1>1, <1>2, InputLengths, OffsetsGrow, FinishedHeader DEF hdr
<1>4. /\ rec.reserved = 0
      /\ \/ rec.flags = {} /\ rec.stored = PlainSize(index)
         \/ /\ rec.flags = {"compressed"} /\ rec.stored \in 1..(PlainSize(index) - 1)
            /\ hdr.compression_id = MC_COMPRESS_ZLIB
  <2>1. index \in 0..(w.file.hdr.chunk_count - 1)
    BY <1>1, <1>2 DEF hdr
  <2> QED BY <2>1, FinishedRecord DEF hdr, PlainSize
<1> HIDE DEF rec
<1>5. rec.stored <= MaxStoredSizeFor(hdr.chunk_size)
  <2>1. hdr.chunk_size < MaxStoredSizeFor(hdr.chunk_size)
        /\ MaxStoredSizeFor(hdr.chunk_size) \in Nat /\ hdr.chunk_size \in Nat
        /\ PlainSize(index) \in Nat /\ PlainSize(index) <= hdr.chunk_size
    BY <1>2, MaxStoredSizeExact, FormatAssumption
  <2>2. rec.stored <= PlainSize(index)
    BY <1>2, <1>4, <2>1
  <2> QED BY <1>2, <2>1, <2>2
<1>6. ParseChunkHeader(rec, MaxStoredSizeFor(hdr.chunk_size)) = "MC_OK"
  <2>1. ~(rec.stored > MaxStoredSizeFor(hdr.chunk_size))
    BY <1>2, <1>5, MaxStoredSizeExact, FormatAssumption
  <2> QED BY <1>4, <2>1 DEF ParseChunkHeader
<1>7. SizeSub(input.size, offset) >= ChunkHeaderSize
      /\ SizeSub(input.size, offset + ChunkHeaderSize) >= rec.stored
  BY <1>1, <1>2, <1>3 DEF SizeSub
<1>8. /\ ~Compressed(rec) => rec.stored = PlainSize(index)
      /\ Compressed(rec) => /\ rec.stored # 0
                            /\ hdr.compression_id = MC_COMPRESS_ZLIB
  BY <1>2, <1>4 DEF Compressed
<1> QED BY <1>6, <1>7, <1>8 DEF RecordAccepted, rec

----------------------------------------------------------------------------
(* What no file can cause.                                                 *)

(* aead::Open is never refused its arguments: the destination has a byte   *)
(* whenever the chunk has, and the length is an int.                       *)
LEMMA OpenArgumentsHold ==
  ASSUME DecryptInv, RecoverInv, pc = "open", index < hdr.chunk_count
  PROVE  OpenArguments(entries[index])
<1> DEFINE e == entries[index]
           limit == MaxStoredSizeFor(hdr.chunk_size)
<1>1. HasTable /\ input \in Inputs /\ ParseFileHeader(hdr, input.size) = "MC_OK"
      /\ index \in Nat
  BY DEF DecryptInv, CallInv, HasTable, TypeOK
<1>2. /\ hdr.chunk_count \in Nat /\ hdr.chunk_size \in MinChunkSize..MaxChunkSize
      /\ hdr.plaintext_size \in Nat
  BY <1>1, ParsedInput, FormatAssumption DEF hdr
<1>3. index \in 0..(Listed - 1)
  BY <1>1, <1>2 DEF Listed
<1>4. /\ EntryInv(index)
      /\ ParseChunkHeader(RecordAt(input, index), limit) = "MC_OK"
  BY <1>1, <1>3 DEF DecryptInv, TableInv, RecoverInv, PlaceInv
<1>5. /\ e.stored = RecordAt(input, index).stored /\ e.stored \in Nat
      /\ Compressed(e) => e.stored <= maxCompressed
      /\ ~Compressed(e) => e.stored = PlainSize(index)
  BY <1>4 DEF EntryInv
<1>6. e.stored <= U32 \div 2 - 1
  <2>1. ~(RecordAt(input, index).stored > limit)
    BY <1>4 DEF ParseChunkHeader
  <2>2. limit = hdr.chunk_size + hdr.chunk_size \div 1000 + 64
    BY <1>2, MaxStoredSizeExact
  <2>3. /\ hdr.chunk_size \in Nat /\ MaxChunkSize \in Nat /\ U32 \in Nat
        /\ hdr.chunk_size <= MaxChunkSize
    BY <1>2, FormatAssumption
  <2>4. hdr.chunk_size \div 1000 <= MaxChunkSize \div 1000
        /\ hdr.chunk_size \div 1000 \in Nat /\ MaxChunkSize \div 1000 \in Nat
    BY <2>3
  <2>5. MaxChunkSize + MaxChunkSize \div 1000 + 64 <= U32 \div 2 - 1
        /\ U32 \div 2 \in Int
    BY <2>3, DecryptAssumption
  <2>6. e.stored <= limit
    BY <1>5, <2>1, <2>2, <2>3, <2>4
  <2> HIDE DEF e, limit
  <2> QED BY <1>5, <2>2, <2>3, <2>4, <2>5, <2>6
<1>7. /\ buf["scratch"] = maxCompressed /\ buf["first"] = PlainSize(0)
      /\ index > 0 => buf["plaintext"] = hdr.plaintext_size
      /\ maxCompressed \in Nat
  BY <1>1 DEF DecryptInv, BufferInv, TypeOK
<1>8. index # 0 /\ PlainSize(index) > 0 => hdr.plaintext_size > 0
  <2>1. hdr.chunk_size \in Nat /\ index * hdr.chunk_size \in Nat
    BY <1>1, <1>2, FormatAssumption
  <2> QED BY <1>2, <2>1 DEF PlainSize, ChunkPlainSize
<1> HIDE DEF e
<1>9. e.stored > 0 => OpenTarget(e) > 0
  <2>1. index > 0 <=> index # 0
    BY <1>1
  <2> QED BY <1>5, <1>7, <1>8, <2>1 DEF OpenTarget
<1> QED BY <1>6, <1>9 DEF OpenArguments, e

(* What has authenticated is a deflated chunk whenever its entry says so,  *)
(* and inflates to the size the header gives the chunk.                    *)
LEMMA AuthenticInflates ==
  ASSUME DecryptInv, RecoverInv, pc = "inflate"
  PROVE  InflatesTo(stream, PlainSize(index))
<1> DEFINE rec == RecordAt(input, index)
<1>1. /\ input \in Inputs /\ index \in Nat /\ index < hdr.chunk_count
      /\ ChunkAuthentic(index) /\ HasTable
      /\ Compressed(entries[index]) /\ stream = rec.ct.payload
  BY DEF DecryptInv, CallInv, TypeOK, AuthInv, RecoverInv, ContentInv, HasTable
<1>2. hdr.chunk_count \in Nat
  BY <1>1, DecryptAssumption, FormatAssumption DEF hdr
<1>3. index \in 0..(input.hdr.chunk_count - 1) /\ index \in 0..(Listed - 1)
  BY <1>1, <1>2 DEF Listed, hdr
<1>4. rec.flags = entries[index].flags
  BY <1>1, <1>3 DEF DecryptInv, TableInv, EntryInv
<1>5. PICK w \in Written : SealedBy(w, key, input, index)
  BY <1>1, <1>3, AuthenticIsSealed DEF ChunkAuthentic, hdr
<1>6. index \in 0..(w.file.hdr.chunk_count - 1)
  BY <1>3, <1>5 DEF SealedBy
<1>7. /\ w.file.hdr = hdr
      /\ rec.ct = RecordAt(w.file, index).ct
      /\ rec.flags = RecordAt(w.file, index).flags
  BY <1>5, <1>6, FinishedRecord DEF SealedBy, hdr
<1>8. rec.ct.payload = Payload(Compressed(RecordAt(w.file, index)),
                               Slice(w.plain, hdr.chunk_size, hdr.plaintext_size, index))
  <2> DEFINE h == w.file.hdr
             r == RecordAt(w.file, index)
  <2>1. r.ct = Ciphertext(FileKey(w.key, h), BuildNonce(h.nonce_prefix, index),
                 Payload(Compressed(r),
                         Slice(w.plain, h.chunk_size, h.plaintext_size, index)))
    BY <1>6, FinishedRecord
  <2> HIDE DEF r, h
  <2>2. r.ct.payload = Payload(Compressed(r), Slice(w.plain, h.chunk_size,
                                                    h.plaintext_size, index))
    BY <2>1 DEF Ciphertext
  <2> QED BY <1>7, <2>2 DEF r, h
<1>9. Compressed(RecordAt(w.file, index))
  BY <1>1, <1>4, <1>7 DEF Compressed
<1> HIDE DEF rec
<1> QED BY <1>1, <1>8, <1>9 DEF InflatesTo, Payload, Slice, PlainSize

----------------------------------------------------------------------------
(* One lemma per action for the second invariant.                          *)

LEMMA InitRecover == Init => RecoverInv
BY DEF Init, RecoverInv, PlaceInv, ContentInv, ReplyInv, IntactOpens, HasTable

(* Returning with an error the input may have keeps it from every place.   *)
LEMMA FailKeepsRecover ==
  ASSUME RecoverInv, pc # "returned", NEW rc, rc # "MC_OK", Fail(rc),
         \A w \in Written : Intact(w) => IntactStatus(w, rc)
  PROVE  RecoverInv'
<1> USE DEF Fail, callVars
<1>1. PlaceInv' /\ ContentInv' /\ ReplyInv'
  BY DEF RecoverInv, PlaceInv, ContentInv, ReplyInv, HasTable
<1>2. IntactOpens'
  BY DEF IntactOpens, Intact, IntactStatus, TableBytes, hdr
<1> QED BY <1>1, <1>2 DEF RecoverInv

LEMMA CallKeepsRecover == RecoverInv /\ (Call \/ Collect) => RecoverInv'
BY DEF RecoverInv, PlaceInv, ContentInv, ReplyInv, IntactOpens, HasTable, Call,
       Collect

LEMMA CheckArgumentsKeepsRecover ==
  ASSUME DecryptInv, RecoverInv, CheckArguments PROVE RecoverInv'
<1>1. CASE Fail("MC_ERR_INVALID_ARG")
  <2>1. pc = "args" /\ (input = NoInput \/ (op = "decrypt" /\ key \in ShortKeys))
    BY <1>1 DEF CheckArguments, Fail
  <2>2. \A w \in Written : ~Intact(w)
    BY <2>1, DecryptAssumption DEF Intact
  <2> QED BY <1>1, <2>1, <2>2, FailKeepsRecover
<1>2. CASE ~Fail("MC_ERR_INVALID_ARG")
  <2>1. pc' = "header" /\ out' = out /\ pc = "args"
    BY <1>2 DEF CheckArguments
  <2> QED BY <2>1 DEF RecoverInv, PlaceInv, ContentInv, ReplyInv, IntactOpens,
                      HasTable
<1> QED BY <1>1, <1>2

LEMMA HeaderKeepsRecover ==
  ASSUME DecryptInv, RecoverInv, Inspect \/ ReadHeader PROVE RecoverInv'
<1> DEFINE rc == ParseFileHeader(hdr, input.size)
<1>0. pc = "header"
  BY DEF Inspect, ReadHeader
<1>1. CASE rc # "MC_OK"
  <2>1. Fail(rc)
    BY <1>1 DEF Inspect, ReadHeader
  <2>2. \A w \in Written : ~Intact(w)
    BY <1>1, FinishedHeader DEF Intact, hdr
  <2> HIDE DEF rc
  <2> QED BY <1>0, <1>1, <2>1, <2>2, FailKeepsRecover
<1>2. CASE rc = "MC_OK" /\ Inspect
  <2>1. op' = "inspect" /\ pc' = "returned" /\ status' = "MC_OK"
    BY <1>2 DEF Inspect, callVars
  <2> QED BY <2>1 DEF RecoverInv, PlaceInv, ContentInv, ReplyInv, IntactOpens,
                      HasTable
<1>3. CASE rc = "MC_OK" /\ ReadHeader
  <2>1. pc' = "table" /\ out' = out
    BY <1>3 DEF ReadHeader
  <2> QED BY <1>0, <2>1 DEF RecoverInv, PlaceInv, ContentInv, ReplyInv,
                            IntactOpens, HasTable
<1> QED BY <1>1, <1>2, <1>3

LEMMA AllocateTableKeepsRecover ==
  ASSUME DecryptInv, RecoverInv, AllocateTable PROVE RecoverInv'
<1>0. /\ pc = "table" /\ input \in Inputs
      /\ ParseFileHeader(hdr, input.size) = "MC_OK"
  BY DEF AllocateTable, DecryptInv, CallInv
<1>1. CASE input.size < MinimumInput /\ Fail("MC_ERR_FORMAT")
  <2>1. ASSUME NEW w \in Written, Intact(w) PROVE FALSE
    <3>1. input = w.file /\ input.size = RecordOffset(input, hdr.chunk_count)
      BY <2>1, FinishedHeader DEF Intact, hdr
    <3>2. hdr.chunk_count \in Nat /\ input.size \in Nat
      BY <1>0, ParsedInput, FormatAssumption DEF hdr
    <3>3. MinimumInput <= input.size
      BY <1>0, <3>1, <3>2, InputLengths, OffsetAtLeast DEF MinimumInput
    <3>4. MinimumInput \in Int
      BY <3>2, FormatAssumption DEF MinimumInput
    <3> QED BY <1>1, <3>2, <3>3, <3>4
  <2> QED BY <1>0, <1>1, <2>1, FailKeepsRecover
<1>2. CASE TooBig(TableBytes) /\ Fail("MC_ERR_TOO_LARGE")
  <2>1. \A w \in Written : IntactStatus(w, "MC_ERR_TOO_LARGE")
    BY <1>2 DEF TooBig, IntactStatus
  <2> QED BY <1>0, <1>2, <2>1, FailKeepsRecover
<1>3. CASE Fail("MC_ERR_MEMORY")
  <2>1. \A w \in Written : IntactStatus(w, "MC_ERR_MEMORY")
    BY DEF IntactStatus
  <2> QED BY <1>0, <1>3, <2>1, FailKeepsRecover
<1>4. CASE /\ pc' = "walk" /\ offset' = HeaderSize /\ index' = 0
           /\ input' = input /\ out' = out
  <2>1. PlaceInv'
    <3>1. offset' = RecordOffset(input', index')
      BY <1>0, <1>4, InputLengths, RecordOffsetDef
    <3>2. Listed' = 0
      BY <1>4 DEF Listed
    <3> QED BY <1>4, <3>1, <3>2 DEF PlaceInv
  <2>2. ContentInv' /\ ReplyInv' /\ IntactOpens'
    BY <1>0, <1>4 DEF RecoverInv, ContentInv, ReplyInv, IntactOpens
  <2> QED BY <2>1, <2>2 DEF RecoverInv
<1> QED BY <1>1, <1>2, <1>3, <1>4 DEF AllocateTable, callVars

LEMMA WalkRecordKeepsRecover ==
  ASSUME DecryptInv, RecoverInv, WalkRecord PROVE RecoverInv'
<1> DEFINE rec == RecordAt(input, index)
<1>0. pc = "walk" /\ index < hdr.chunk_count
  BY DEF WalkRecord
<1>1. CASE ~RecordAccepted(rec, offset)
  <2>1. Fail("MC_ERR_FORMAT")
    BY <1>1 DEF WalkRecord
  <2>2. \A w \in Written : ~Intact(w)
    BY <1>0, <1>1, FinishedAccepted DEF Intact
  <2> QED BY <1>0, <2>1, <2>2, FailKeepsRecover
<1>2. CASE RecordAccepted(rec, offset)
  <2>1. /\ pc' = "walk" /\ index' = index + 1 /\ input' = input
        /\ entries' = [entries EXCEPT ![index] =
                         [offset |-> offset + ChunkHeaderSize,
                          stored |-> rec.stored, flags |-> rec.flags,
                          tag |-> rec.tag]]
        /\ out' = out
    BY <1>0, <1>2 DEF WalkRecord, callVars
  <2>2. /\ input \in Inputs /\ index \in Nat /\ hdr.chunk_count \in Int
        /\ DOMAIN entries = 0..(hdr.chunk_count - 1)
        /\ offset = RecordOffset(input, index)
        /\ \A i \in 0..(index - 1) :
             ParseChunkHeader(RecordAt(input, i), MaxStoredSizeFor(hdr.chunk_size))
               = "MC_OK"
    <3>1. input \in Inputs /\ HasTable /\ Listed = index
      BY <1>0 DEF DecryptInv, CallInv, HasTable, Listed
    <3>2. hdr.chunk_count \in Int
      BY <3>1, DecryptAssumption, FormatAssumption DEF hdr
    <3> QED BY <1>0, <3>1, <3>2
            DEF DecryptInv, TypeOK, RecoverInv, PlaceInv
  <2>3. offset' = offset + ChunkHeaderSize + rec.stored
    <3>1. DecryptInv'
      BY WalkRecordKeepsInv
    <3>2. index' > 0 /\ index' - 1 = index
      BY <2>1, <2>2
    <3>3. entries'[index] = [offset |-> offset + ChunkHeaderSize,
                             stored |-> rec.stored, flags |-> rec.flags,
                             tag |-> rec.tag]
      BY <1>0, <2>1, <2>2
    <3>4. offset' = entries'[index].offset + entries'[index].stored
      BY <2>1, <3>1, <3>2 DEF DecryptInv, WalkInv
    <3> QED BY <3>3, <3>4
  <2>4. offset' = RecordOffset(input, index + 1)
    BY <2>2, <2>3, InputLengths, RecordOffsetDef
  <2>5. PlaceInv'
    <3>1. \A i \in 0..index :
            ParseChunkHeader(RecordAt(input, i), MaxStoredSizeFor(hdr.chunk_size))
              = "MC_OK"
      BY <1>2, <2>2 DEF RecordAccepted
    <3>2. Listed' - 1 = index
      BY <2>1, <2>2 DEF Listed
    <3> QED BY <2>1, <2>4, <3>1, <3>2 DEF PlaceInv, hdr
  <2>6. ContentInv' /\ ReplyInv' /\ IntactOpens'
    BY <1>0, <2>1 DEF RecoverInv, ContentInv, ReplyInv, IntactOpens
  <2> QED BY <2>5, <2>6 DEF RecoverInv
<1> QED BY <1>1, <1>2

LEMMA WalkEndKeepsRecover ==
  ASSUME DecryptInv, RecoverInv, WalkEnd PROVE RecoverInv'
<1>0. pc = "walk" /\ index = hdr.chunk_count /\ Listed = hdr.chunk_count
      /\ offset = RecordOffset(input, hdr.chunk_count)
  BY DEF WalkEnd, Listed, RecoverInv, PlaceInv
<1>1. CASE ~WholeInputWalked
  <2>1. Fail("MC_ERR_FORMAT")
    BY <1>1 DEF WalkEnd
  <2>2. \A w \in Written : ~Intact(w)
    BY <1>0, <1>1, FinishedHeader DEF Intact, WholeInputWalked, hdr
  <2> QED BY <1>0, <2>1, <2>2, FailKeepsRecover
<1>2. CASE WholeInputWalked
  <2>1. pc' = "kdf" /\ input' = input /\ out' = out /\ input.size = offset
    BY <1>2 DEF WalkEnd, callVars, WholeInputWalked
  <2>2. PlaceInv'
    BY <1>0, <2>1 DEF RecoverInv, PlaceInv, HasTable, Listed, hdr
  <2>3. ContentInv' /\ ReplyInv' /\ IntactOpens'
    BY <1>0, <2>1 DEF RecoverInv, ContentInv, ReplyInv, IntactOpens
  <2> QED BY <2>2, <2>3 DEF RecoverInv
<1> QED BY <1>1, <1>2

LEMMA AllocateKeepsRecover ==
  ASSUME DecryptInv, RecoverInv, DeriveKey \/ AllocateScratch \/ AllocateFirst
  PROVE  RecoverInv'
<1>0. pc \in {"kdf", "scratch", "first"} /\ index = 0
  BY DEF DeriveKey, AllocateScratch, AllocateFirst, DecryptInv, CallInv
<1>1. CASE \E rc \in {"MC_ERR_MEMORY", "MC_ERR_CRYPTO"} : Fail(rc)
  <2>1. PICK rc \in {"MC_ERR_MEMORY", "MC_ERR_CRYPTO"} : Fail(rc)
    BY <1>1
  <2>2. \A w \in Written : IntactStatus(w, rc)
    BY DEF IntactStatus
  <2> QED BY <1>0, <2>1, <2>2, FailKeepsRecover
<1>2. CASE ~\E rc \in {"MC_ERR_MEMORY", "MC_ERR_CRYPTO"} : Fail(rc)
  <2>1. /\ pc' \in {"scratch", "first", "open"} /\ index' = 0
        /\ input' = input /\ out' = out
    BY <1>0, <1>2 DEF DeriveKey, AllocateScratch, AllocateFirst, callVars, walkVars
  <2>2. PlaceInv'
    BY <1>0, <2>1 DEF RecoverInv, PlaceInv, HasTable, Listed, hdr
  <2>3. ContentInv' /\ ReplyInv' /\ IntactOpens'
    BY <1>0, <2>1 DEF RecoverInv, ContentInv, ReplyInv, IntactOpens
  <2> QED BY <2>2, <2>3 DEF RecoverInv
<1> QED BY <1>1, <1>2

(* A recovered chunk is stored where ContentInv expects it.                *)
LEMMA StoreKeepsRecover ==
  ASSUME DecryptInv, RecoverInv, pc \in {"open", "inflate"},
         index < hdr.chunk_count, Store(Recovered(index)), NextChunk,
         input' = input, out' = out
  PROVE  RecoverInv'
<1>1. /\ index \in Nat /\ index' = index + 1
      /\ pc' = (IF index = 0 THEN "plaintext" ELSE "open")
      /\ hdr.chunk_count \in Nat
  <2>1. input \in Inputs
    BY DEF DecryptInv, CallInv
  <2> QED BY <2>1, DecryptAssumption, FormatAssumption
          DEF NextChunk, DecryptInv, TypeOK, hdr
<1>2. PlaceInv'
  BY <1>1 DEF RecoverInv, PlaceInv, HasTable, Listed, hdr
<1>3. ReplyInv' /\ IntactOpens'
  BY <1>1 DEF RecoverInv, ReplyInv, IntactOpens
<1>4. ContentInv'
  <2>1. CASE index = 0
    BY <1>1, <2>1 DEF Store, ContentInv, Recovered
  <2>2. CASE index # 0
    <3>1. /\ first' = first /\ first = Recovered(0)
          /\ plaintext' = [plaintext EXCEPT ![index] = Recovered(index)]
          /\ DOMAIN plaintext = 0..(hdr.chunk_count - 1)
          /\ \A i \in 0..(index - 1) : plaintext[i] = Recovered(i)
      BY <1>1, <2>2 DEF Store, RecoverInv, ContentInv
    <3>2. \A i \in 0..index : plaintext'[i] = Recovered(i)
      BY <1>1, <3>1
    <3>3. DOMAIN plaintext' = 0..(hdr.chunk_count - 1)
      BY <3>1
    <3> QED BY <1>1, <2>2, <3>1, <3>2, <3>3 DEF ContentInv, Recovered, hdr
  <2> QED BY <2>1, <2>2
<1> QED BY <1>2, <1>3, <1>4 DEF RecoverInv

(* The table repeats the record that is opened.                            *)
LEMMA EntryOfRecord ==
  ASSUME DecryptInv, pc \in {"open", "inflate"}, index < hdr.chunk_count
  PROVE  LET e == entries[index]
             rec == RecordAt(input, index)
         IN  /\ e.tag = rec.tag /\ e.flags = rec.flags
             /\ OpenAad(e) = BuildAad(hdr, index, rec)
             /\ index \in 0..(hdr.chunk_count - 1)
<1>1. input \in Inputs /\ index \in Nat
  BY DEF DecryptInv, CallInv, TypeOK
<1>2. index \in 0..(hdr.chunk_count - 1)
  BY <1>1, DecryptAssumption, FormatAssumption DEF hdr
<1>3. EntryInv(index)
  BY <1>2 DEF DecryptInv, TableInv, HasTable, Listed
<1> QED BY <1>2, <1>3 DEF EntryInv, OpenAad, BuildAad

LEMMA OpenChunkKeepsRecover ==
  ASSUME DecryptInv, RecoverInv, OpenChunk PROVE RecoverInv'
<1> DEFINE e == entries[index]
           rec == RecordAt(input, index)
           Opens == Authentic(FileKey(key, hdr), OpenNonce, OpenAad(e), rec.ct, e.tag)
<1>0. pc = "open" /\ index < hdr.chunk_count /\ OpenArguments(e)
  BY OpenArgumentsHold DEF OpenChunk
<1>1. CASE Fail("MC_ERR_CRYPTO")
  <2>1. \A w \in Written : IntactStatus(w, "MC_ERR_CRYPTO")
    BY DEF IntactStatus
  <2> QED BY <1>0, <1>1, <2>1, FailKeepsRecover
<1>2. CASE ~Opens /\ Fail("MC_ERR_AUTH")
  <2>1. ASSUME NEW w \in Written, Intact(w) PROVE IntactStatus(w, "MC_ERR_AUTH")
    <3>1. input = w.file /\ index \in 0..(w.file.hdr.chunk_count - 1)
      BY <1>0, <2>1, EntryOfRecord DEF Intact, hdr
    <3>2. Opens <=> key = w.key
      <4>1. /\ e.tag = rec.tag /\ OpenAad(e) = BuildAad(hdr, index, rec)
        BY <1>0, EntryOfRecord
      <4>2. Authentic(FileKey(key, hdr), BuildNonce(hdr.nonce_prefix, index),
                      BuildAad(hdr, index, rec), rec.ct, rec.tag)
              <=> key = w.key
        BY <3>1, FinishedOpens DEF hdr
      <4> HIDE DEF e, rec
      <4> QED BY <4>1, <4>2 DEF OpenNonce
    <3> QED BY <1>2, <3>2 DEF IntactStatus
  <2> QED BY <1>0, <1>2, <2>1, FailKeepsRecover
<1>3. CASE Opens /\ Compressed(e) /\ stream' = rec.ct.payload /\ pc' = "inflate"
           /\ UNCHANGED <<first, plaintext, index, input, entries, out>>
  <2>1. PlaceInv'
    BY <1>0, <1>3 DEF RecoverInv, PlaceInv, HasTable, Listed, hdr
  <2>2. ReplyInv' /\ IntactOpens'
    BY <1>0, <1>3 DEF RecoverInv, ReplyInv, IntactOpens
  <2>3. ContentInv'
    BY <1>0, <1>3 DEF RecoverInv, ContentInv, Recovered, hdr
  <2> QED BY <2>1, <2>2, <2>3 DEF RecoverInv
<1>4. CASE Opens /\ Store(rec.ct.payload.slice) /\ NextChunk
           /\ input' = input /\ out' = out
  BY <1>0, <1>4, StoreKeepsRecover DEF Recovered
<1>5. \/ Fail("MC_ERR_CRYPTO")
      \/ ~Opens /\ Fail("MC_ERR_AUTH")
      \/ /\ Opens /\ Compressed(e) /\ stream' = rec.ct.payload /\ pc' = "inflate"
         /\ UNCHANGED <<first, plaintext, index, input, entries, out>>
      \/ /\ Opens /\ Store(rec.ct.payload.slice) /\ NextChunk
         /\ input' = input /\ out' = out
  <2> HIDE DEF Opens
  <2>1. Opens <=> Authentic(FileKey(key, hdr), OpenNonce, OpenAad(e), rec.ct, e.tag)
    BY DEF Opens
  <2> QED BY <1>0, <2>1 DEF OpenChunk, callVars
<1> QED BY <1>1, <1>2, <1>3, <1>4, <1>5

LEMMA InflateChunkKeepsRecover ==
  ASSUME DecryptInv, RecoverInv, InflateChunk PROVE RecoverInv'
<1>0. pc = "inflate" /\ InflatesTo(stream, PlainSize(index))
      /\ index < hdr.chunk_count
  BY AuthenticInflates DEF InflateChunk, DecryptInv, CallInv
<1>1. CASE Fail("MC_ERR_MEMORY")
  <2>1. \A w \in Written : IntactStatus(w, "MC_ERR_MEMORY")
    BY DEF IntactStatus
  <2> QED BY <1>0, <1>1, <2>1, FailKeepsRecover
<1>2. CASE Store(stream.slice) /\ NextChunk /\ input' = input /\ out' = out
  <2>1. stream.slice = Recovered(index)
    BY <1>0 DEF RecoverInv, ContentInv, Recovered
  <2> QED BY <1>0, <1>2, <2>1, StoreKeepsRecover
<1> QED BY <1>0, <1>1, <1>2 DEF InflateChunk, callVars

LEMMA AllocatePlaintextKeepsRecover ==
  ASSUME DecryptInv, RecoverInv, AllocatePlaintext PROVE RecoverInv'
<1>0. pc = "plaintext" /\ index = 1 /\ input \in Inputs
      /\ ParseFileHeader(hdr, input.size) = "MC_OK"
  BY DEF AllocatePlaintext, DecryptInv, CallInv, HasTable
<1>1. CASE TooBig(hdr.plaintext_size) /\ Fail("MC_ERR_TOO_LARGE")
  <2>1. \A w \in Written : IntactStatus(w, "MC_ERR_TOO_LARGE")
    BY <1>1 DEF TooBig, IntactStatus
  <2> QED BY <1>0, <1>1, <2>1, FailKeepsRecover
<1>2. CASE Fail("MC_ERR_MEMORY")
  <2>1. \A w \in Written : IntactStatus(w, "MC_ERR_MEMORY")
    BY DEF IntactStatus
  <2> QED BY <1>0, <1>2, <2>1, FailKeepsRecover
<1>3. CASE /\ pc' = "open" /\ index' = index /\ first' = first
           /\ plaintext' = [i \in 0..(hdr.chunk_count - 1) |-> CopiedFirst(i)]
           /\ input' = input /\ out' = out
  <2>1. PlaceInv'
    BY <1>0, <1>3 DEF RecoverInv, PlaceInv, HasTable, Listed, hdr
  <2>2. ReplyInv' /\ IntactOpens'
    BY <1>0, <1>3 DEF RecoverInv, ReplyInv, IntactOpens
  <2>3. ContentInv'
    <3>1. first = Recovered(0)
      BY <1>0 DEF RecoverInv, ContentInv
    <3>2. 0 \in 0..(hdr.chunk_count - 1)
      BY <1>0, ParsedInput, FormatAssumption DEF hdr
    <3>3. plaintext'[0] = first /\ 0..(index - 1) = {0}
      BY <1>0, <1>3, <3>2 DEF CopiedFirst
    <3> QED BY <1>0, <1>3, <3>1, <3>3 DEF ContentInv, Recovered, hdr
  <2> QED BY <2>1, <2>2, <2>3 DEF RecoverInv
<1> QED BY <1>1, <1>2, <1>3 DEF AllocatePlaintext, callVars, walkVars

LEMMA FinishKeepsRecover ==
  ASSUME DecryptInv, RecoverInv, Finish PROVE RecoverInv'
<1>1. /\ pc = "open" /\ index = hdr.chunk_count /\ pc' = "returned"
      /\ status' = "MC_OK" /\ op' = op /\ key' = key /\ input' = input
  BY DEF Finish, AllOpened, callVars
<1>2. PlaceInv' /\ ContentInv' /\ ReplyInv'
  BY <1>1 DEF PlaceInv, ContentInv, ReplyInv, HasTable
<1>3. ASSUME NEW w \in Written, Intact(w) PROVE key = w.key
  <2>1. input \in Inputs /\ ParseFileHeader(hdr, input.size) = "MC_OK"
        /\ \A i \in 0..(hdr.chunk_count - 1) : ChunkAuthentic(i)
    BY <1>1 DEF DecryptInv, CallInv, AuthInv, HasTable
  <2>2. 0 \in 0..(w.file.hdr.chunk_count - 1) /\ ChunkAuthentic(0) /\ input = w.file
    BY <1>3, <2>1, ParsedInput, FormatAssumption DEF Intact, hdr
  <2> QED BY <2>2, FinishedOpens DEF ChunkAuthentic, hdr
<1>4. IntactOpens'
  BY <1>1, <1>3 DEF IntactOpens, Intact
<1> QED BY <1>2, <1>4 DEF RecoverInv

LEMMA StutterKeepsRecover == RecoverInv /\ UNCHANGED vars => RecoverInv'
<1> SUFFICES ASSUME RecoverInv, UNCHANGED vars PROVE RecoverInv'
  OBVIOUS
<1> USE DEF vars, callVars, walkVars, dataVars
<1>1. PlaceInv'
  BY DEF RecoverInv, PlaceInv, HasTable, Listed, hdr
<1>2. ContentInv' /\ ReplyInv'
  BY DEF RecoverInv, ContentInv, ReplyInv, Recovered, hdr
<1>3. IntactOpens'
  BY DEF RecoverInv, IntactOpens, TableBytes, hdr
<1> QED BY <1>1, <1>2, <1>3 DEF RecoverInv

(***************************************************************************)
(* Both invariants hold of every call, on every set of files.              *)
(***************************************************************************)
THEOREM RecoverInvariant == Spec => [](DecryptInv /\ RecoverInv)
<1>1. DecryptInv /\ RecoverInv /\ [Next]_vars => RecoverInv'
  BY CallKeepsRecover, CheckArgumentsKeepsRecover, HeaderKeepsRecover,
     AllocateTableKeepsRecover, WalkRecordKeepsRecover, WalkEndKeepsRecover,
     AllocateKeepsRecover, OpenChunkKeepsRecover, InflateChunkKeepsRecover,
     AllocatePlaintextKeepsRecover, FinishKeepsRecover, StutterKeepsRecover
     DEF Next, Step
<1> QED BY <1>1, InitRecover, DecryptInvariant, PTL DEF Spec

(***************************************************************************)
(* DecryptBuffer never takes a whole file for a damaged one, whatever its  *)
(* size and however its chunks are stored: with the right key only memory, *)
(* OpenSSL or a narrow size_t keep it shut, a wrong key gives MC_ERR_AUTH. *)
(***************************************************************************)
THEOREM IntactFilesOpen == Spec => []IntactOpens
BY RecoverInvariant, PTL DEF RecoverInv

----------------------------------------------------------------------------
(* Every call is answered as DecryptContract.tla promises.                 *)

(* All chunks that have authenticated come from one finished encryption.   *)
LEMMA OneEncryption ==
  ASSUME NEW f \in Inputs, NEW k, f.hdr.chunk_count \in 1..(U32 - 1),
         \A i \in 0..(f.hdr.chunk_count - 1) :
           Authentic(FileKey(k, f.hdr), BuildNonce(f.hdr.nonce_prefix, i),
                     BuildAad(f.hdr, i, RecordAt(f, i)), RecordAt(f, i).ct,
                     RecordAt(f, i).tag)
  PROVE  \E w \in Written :
           \A i \in 0..(f.hdr.chunk_count - 1) : SealedBy(w, k, f, i)
<1>1. \A i \in 0..(f.hdr.chunk_count - 1) : \E w \in Written : SealedBy(w, k, f, i)
  BY AuthenticIsSealed
<1>2. 0 \in 0..(f.hdr.chunk_count - 1)
  BY FormatAssumption
<1>3. PICK w \in Written : SealedBy(w, k, f, 0)
  BY <1>1, <1>2
<1>4. ASSUME NEW i \in 0..(f.hdr.chunk_count - 1) PROVE SealedBy(w, k, f, i)
  <2>1. PICK v \in Written : SealedBy(v, k, f, i)
    BY <1>1
  <2>2. v.file.hdr = w.file.hdr
    BY <1>3, <2>1 DEF SealedBy
  <2>3. v = w
    BY <2>2, HeadersAreFresh
  <2> QED BY <2>1, <2>3
<1> QED BY <1>4

(***************************************************************************)
(* A file whose records are those of a finished one, in number and in      *)
(* place, with nothing after the last, is that file: the reserved bytes    *)
(* and the length, which no tag covers, are as they were.                  *)
(***************************************************************************)
LEMMA SealedIsWhole ==
  ASSUME NEW f \in Inputs, NEW w \in Written, NEW k,
         ParseFileHeader(f.hdr, f.size) = "MC_OK",
         f.size = RecordOffset(f, f.hdr.chunk_count),
         \A i \in 0..(f.hdr.chunk_count - 1) :
           SealedBy(w, k, f, i) /\ RecordAt(f, i).reserved = 0
  PROVE  f = w.file
<1> DEFINE n == f.hdr.chunk_count
           g == w.file
<1>1. /\ n \in 1..(U32 - 1) /\ f.size \in Nat /\ n \in Nat
      /\ f.hdr.chunk_size \in Nat /\ f.hdr.plaintext_size \in Nat
  BY ParsedInput, FormatAssumption
<1>2. g.hdr = f.hdr
  <2>1. 0 \in 0..(n - 1)
    BY <1>1, FormatAssumption
  <2> QED BY <2>1 DEF SealedBy
<1>3. DOMAIN g.recs = 0..(n - 1) /\ g.size = RecordOffset(g, n)
  BY <1>2, DecryptAssumption, FinishedHeader DEF FinishedFile
<1>4. ASSUME NEW i \in 0..(n - 1)
      PROVE  /\ i \in DOMAIN f.recs
             /\ RecordAt(f, i).stored = RecordAt(g, i).stored
             /\ f.recs[i] = g.recs[i]
  <2>1. i \in 0..(g.hdr.chunk_count - 1)
    BY <1>2
  <2>2. RecordAt(g, i) = g.recs[i] /\ g.recs[i].tag # Noise
        /\ g.recs[i].reserved = 0
    BY <2>1, FinishedRecord
  <2>3. i \in DOMAIN f.recs /\ RecordAt(f, i) = f.recs[i]
    BY <2>2 DEF SealedBy, RecordAt, ZeroRecord
  <2>4. /\ f.recs[i].stored = g.recs[i].stored /\ f.recs[i].flags = g.recs[i].flags
        /\ f.recs[i].ct = g.recs[i].ct /\ f.recs[i].tag = g.recs[i].tag
        /\ f.recs[i].reserved = 0
    BY <2>3 DEF SealedBy
  <2>5. i \in DOMAIN g.recs
    BY <1>3
  <2>6. f.recs[i] = [stored |-> f.recs[i].stored, flags |-> f.recs[i].flags,
                     reserved |-> f.recs[i].reserved, ct |-> f.recs[i].ct,
                     tag |-> f.recs[i].tag]
    BY <2>3, DecryptAssumption DEF IsFile
  <2>7. g.recs[i] = [stored |-> g.recs[i].stored, flags |-> g.recs[i].flags,
                     reserved |-> g.recs[i].reserved, ct |-> g.recs[i].ct,
                     tag |-> g.recs[i].tag]
    BY <2>5, DecryptAssumption DEF IsFile
  <2>8. f.recs[i] = g.recs[i]
    BY <2>2, <2>4, <2>6, <2>7
  <2> QED BY <2>2, <2>3, <2>8
<1>5. Lengths(g)
  <2>1. ASSUME NEW i \in Nat PROVE RecordAt(g, i).stored \in Nat
    <3>1. CASE i \in 0..(n - 1)
      BY <1>4, <3>1, StoredType, FormatAssumption
    <3>2. CASE i \notin 0..(n - 1)
      BY <1>3, <3>2 DEF RecordAt, ZeroRecord
    <3> QED BY <3>1, <3>2
  <2> QED BY <2>1 DEF Lengths
<1>6. f.size = g.size
  BY <1>1, <1>3, <1>4, <1>5, InputLengths, OffsetsAgree
<1>7. DOMAIN f.recs = 0..(n - 1)
  <2>1. 0..(n - 1) \subseteq DOMAIN f.recs
    BY <1>4
  <2>2. ASSUME NEW i \in DOMAIN f.recs, i \notin 0..(n - 1) PROVE FALSE
    <3>1. i \in Nat /\ 0..i \subseteq DOMAIN f.recs
      BY DecryptAssumption DEF IsFile
    <3>2. n \in DOMAIN f.recs
      BY <1>1, <2>2, <3>1
    <3>3. RecordOffset(f, n) < f.size
      BY <3>2, DecryptAssumption DEF IsFile
    <3> QED BY <1>1, <3>3
  <2> QED BY <2>1, <2>2
<1>8. f.recs = g.recs
  <2>1. f.recs = [i \in DOMAIN f.recs |-> f.recs[i]]
    <3>1. f = [hdr |-> f.hdr, recs |-> [i \in DOMAIN f.recs |-> f.recs[i]],
               size |-> f.size]
      BY DecryptAssumption DEF IsFile
    <3> QED BY <3>1
  <2>2. g.recs = [i \in DOMAIN g.recs |-> g.recs[i]]
    <3>1. g = [hdr |-> g.hdr, recs |-> [i \in DOMAIN g.recs |-> g.recs[i]],
               size |-> g.size]
      BY DecryptAssumption DEF IsFile
    <3> QED BY <3>1
  <2> QED BY <1>3, <1>4, <1>7, <2>1, <2>2
<1>9. f = [hdr |-> f.hdr, recs |-> f.recs, size |-> f.size]
      /\ g = [hdr |-> g.hdr, recs |-> g.recs, size |-> g.size]
  <2>1. f = [hdr |-> f.hdr, recs |-> [i \in DOMAIN f.recs |-> f.recs[i]],
             size |-> f.size]
    BY DecryptAssumption DEF IsFile
  <2>2. g = [hdr |-> g.hdr, recs |-> [i \in DOMAIN g.recs |-> g.recs[i]],
             size |-> g.size]
    BY DecryptAssumption DEF IsFile
  <2> QED BY <2>1, <2>2
<1> QED BY <1>2, <1>6, <1>8, <1>9

(***************************************************************************)
(* At the end of the loop the input is the whole file of one encryption,   *)
(* made with the caller's key, and the plaintext holds its chunks.         *)
(***************************************************************************)
LEMMA FinishedInput ==
  ASSUME DecryptInv, RecoverInv, pc = "open", index = hdr.chunk_count
  PROVE  \E w \in Written :
           /\ key = w.key /\ input = w.file
           /\ \A i \in 0..(hdr.chunk_count - 1) :
                plaintext[i] = Slice(w.plain, hdr.chunk_size, hdr.plaintext_size, i)
<1>1. /\ input \in Inputs /\ ParseFileHeader(hdr, input.size) = "MC_OK"
      /\ HasTable /\ Listed = hdr.chunk_count
  BY DEF DecryptInv, CallInv, HasTable, Listed
<1>2. hdr.chunk_count \in 1..(U32 - 1) /\ index > 0
      /\ 0 \in 0..(hdr.chunk_count - 1)
  BY <1>1, ParsedInput, FormatAssumption DEF hdr
<1>3. /\ \A i \in 0..(hdr.chunk_count - 1) : ChunkAuthentic(i)
      /\ \A i \in 0..(hdr.chunk_count - 1) : plaintext[i] = Recovered(i)
      /\ input.size = RecordOffset(input, hdr.chunk_count)
      /\ \A i \in 0..(hdr.chunk_count - 1) : RecordAt(input, i).reserved = 0
  BY <1>1, <1>2 DEF DecryptInv, AuthInv, RecoverInv, ContentInv, PlaceInv,
                    ParseChunkHeader
<1>4. PICK w \in Written :
        \A i \in 0..(hdr.chunk_count - 1) : SealedBy(w, key, input, i)
  BY <1>1, <1>2, <1>3, OneEncryption DEF ChunkAuthentic, hdr
<1>5. input = w.file
  BY <1>1, <1>3, <1>4, SealedIsWhole DEF hdr
<1>6. key = w.key
  BY <1>2, <1>4 DEF SealedBy
<1>7. ASSUME NEW i \in 0..(hdr.chunk_count - 1)
      PROVE  plaintext[i] = Slice(w.plain, hdr.chunk_size, hdr.plaintext_size, i)
  <2> DEFINE h == w.file.hdr
             rec == RecordAt(w.file, i)
  <2>1. i \in 0..(h.chunk_count - 1) /\ h = hdr
    BY <1>5 DEF hdr
  <2>2. rec.ct = Ciphertext(FileKey(w.key, h), BuildNonce(h.nonce_prefix, i),
                   Payload(Compressed(rec),
                           Slice(w.plain, h.chunk_size, h.plaintext_size, i)))
    BY <2>1, FinishedRecord
  <2>3. plaintext[i] = rec.ct.payload.slice
    BY <1>3, <1>5 DEF Recovered
  <2> HIDE DEF rec, h
  <2>4. rec.ct.payload.slice = Slice(w.plain, h.chunk_size, h.plaintext_size, i)
    BY <2>2 DEF Ciphertext, Payload
  <2> QED BY <2>1, <2>3, <2>4
<1> QED BY <1>5, <1>6, <1>7

(* Byte b of what is handed over is byte b of the plaintext.               *)
LEMMA OutputBytes ==
  ASSUME NEW o, NEW plain,
         o.size \in 0..MaxPlaintextSize,
         o.chunk \in MinChunkSize..MaxChunkSize,
         \A i \in 0..(ChunkCountFor(o.size, o.chunk) - 1) :
           o.data[i] = Slice(plain, o.chunk, o.size, i),
         NEW b \in 0..(o.size - 1)
  PROVE  OutByte(o, b) = <<plain, b>>
<1> DEFINE k == b \div o.chunk
           r == b % o.chunk
           s == o.data[k]
<1>1. /\ k \in 0..(ChunkCountFor(o.size, o.chunk) - 1)
      /\ k * o.chunk + r = b
      /\ r \in 0..(ChunkPlainSize(o.size, o.chunk, k) - 1)
  BY ByteInItsChunk
<1>2. s = [of |-> plain, at |-> k * o.chunk,
           len |-> ChunkPlainSize(o.size, o.chunk, k)]
  BY <1>1 DEF Slice
<1>3. s # Zeroes
  <2>1. DOMAIN s = {"of", "at", "len"} /\ DOMAIN Zeroes = {"zero"}
    BY <1>2 DEF Zeroes
  <2> QED BY <2>1
<1>4. r < s.len
  <2>1. o.size \in Nat
    BY FormatAssumption
  <2>2. o.chunk \in Nat
    BY FormatAssumption
  <2>3. ChunkCountFor(o.size, o.chunk) \in Nat
    <3>1. ChunkCountFor(o.size, o.chunk) \in 1..(U32 - 1)
      BY ChunkCountExact
    <3> QED BY <3>1, FormatAssumption
  <2> HIDE DEF k
  <2>4. k \in Nat
    BY <1>1, <2>3
  <2>5. ChunkPlainSize(o.size, o.chunk, k) \in 0..o.chunk
    BY <2>1, <2>2, <2>4, ChunkPlainSizeType
  <2>6. s.len = ChunkPlainSize(o.size, o.chunk, k)
    BY <1>2
  <2> HIDE DEF s, r
  <2> QED BY <1>1, <2>2, <2>5, <2>6
<1>5. s.of = plain /\ s.at + r = b
  BY <1>1, <1>2
<1>6. OutByte(o, b) = IF s # Zeroes /\ r < s.len THEN <<s.of, s.at + r>>
                   ELSE <<Noise, b>>
  BY DEF OutByte
<1> HIDE DEF s, r, k
<1> QED BY <1>3, <1>4, <1>5, <1>6

----------------------------------------------------------------------------
(* DecryptBuffer and InspectBuffer implement DecryptContract.              *)

(* Inside a call the caller sees nothing move.                             *)
LEMMA BusyStutters ==
  ASSUME pc \notin {"idle", "returned"}, pc' \notin {"idle", "returned"},
         UNCHANGED callVars
  PROVE  UNCHANGED Contract!vars
BY DEF Contract!vars, Phase, Answer

(* Past the argument check the arguments are good.                         *)
LEMMA GoodArguments ==
  ASSUME DecryptInv, pc \notin {"idle", "args", "returned"}
  PROVE  ~Contract!BadArguments(callVars)
<1>1. /\ input \in Inputs /\ input # NoInput
      /\ op = "decrypt" => key \in Keys /\ key \notin ShortKeys
  BY DecryptAssumption DEF DecryptInv, CallInv
<1>2. callVars[1] = op /\ callVars[2] = key /\ callVars[3] = input
  BY DEF callVars
<1> QED BY <1>1, <1>2 DEF Contract!BadArguments

(* A failure is answered with its status and nothing else.                 *)
LEMMA FailureReplies ==
  ASSUME DecryptInv, RecoverInv, pc \notin {"idle", "args", "returned"},
         NEW rc \in Contract!Failures, Fail(rc)
  PROVE  Contract!Reply
<1>1. Phase = "busy" /\ Phase' = "returned"
  BY DEF Phase, Fail
<1>2. out' = NoOut
  BY DEF RecoverInv, ReplyInv, Fail
<1>3. Answer' = [status |-> rc, bytes |-> "none"]
  BY <1>2 DEF Answer, Fail, NoReply
<1>4. [status |-> rc, bytes |-> "none"]
        \in [status : Contract!Failures, bytes : {"none"}]
  OBVIOUS
<1>5. Answer' \in Contract!Answers(callVars)
  BY <1>3, <1>4, GoodArguments DEF Contract!Answers
<1> QED BY <1>1, <1>5 DEF Contract!Reply, Fail

LEMMA CallAsks == Call => Contract!Ask
<1> SUFFICES ASSUME Call PROVE Contract!Ask
  OBVIOUS
<1>1. Phase = "idle" /\ Phase' = "busy" /\ Answer' = "none"
  BY DEF Call, Phase, Answer, NoReply
<1>2. \/ callVars' \in {"inspect"} \X {"none"} \X Contract!Files
      \/ callVars' \in {"decrypt"} \X (Keys \cup ShortKeys) \X Contract!Files
  BY DEF Call, callVars, Contract!Files
<1> QED BY <1>1, <1>2 DEF Contract!Ask

LEMMA CollectResets == Collect => Contract!Reset
BY DEF Collect, Contract!Reset, Contract!Idle, Phase, Answer, NoReply, callVars

LEMMA CheckArgumentsRefines ==
  ASSUME DecryptInv, RecoverInv, CheckArguments
  PROVE  Contract!Reply \/ UNCHANGED Contract!vars
<1> DEFINE Bad == input = NoInput \/ (op = "decrypt" /\ key \in ShortKeys)
<1>1. CASE Bad
  <2>1. pc = "args" /\ Fail("MC_ERR_INVALID_ARG")
    BY <1>1 DEF CheckArguments
  <2>2. Phase = "busy" /\ Phase' = "returned" /\ out' = NoOut
    BY <2>1 DEF Phase, Fail, RecoverInv, ReplyInv
  <2>3. Answer' = [status |-> "MC_ERR_INVALID_ARG", bytes |-> "none"]
    BY <2>1, <2>2 DEF Answer, Fail, NoReply
  <2>4. Contract!BadArguments(callVars)
    BY <1>1 DEF Contract!BadArguments, callVars
  <2>5. Answer' \in Contract!Answers(callVars)
    BY <2>3, <2>4 DEF Contract!Answers
  <2> QED BY <2>1, <2>2, <2>5 DEF Contract!Reply, Fail
<1>2. CASE ~Bad
  BY <1>2, BusyStutters DEF CheckArguments
<1> QED BY <1>1, <1>2

LEMMA HeaderFailures ==
  ASSUME ParseFileHeader(hdr, input.size) # "MC_OK"
  PROVE  ParseFileHeader(hdr, input.size) \in Contract!Failures
BY DEF ParseFileHeader, Contract!Failures

LEMMA InspectRefines ==
  ASSUME DecryptInv, RecoverInv, Inspect PROVE Contract!Reply
<1> DEFINE rc == ParseFileHeader(hdr, input.size)
<1>0. pc = "header" /\ op = "inspect"
  BY DEF Inspect
<1>1. CASE rc # "MC_OK"
  <2>1. Fail(rc)
    BY <1>1 DEF Inspect
  <2> QED BY <1>0, <1>1, <2>1, HeaderFailures, FailureReplies
<1>2. CASE rc = "MC_OK"
  <2>1. pc' = "returned" /\ status' = "MC_OK" /\ op' = op /\ key' = key
        /\ input' = input
    BY <1>2 DEF Inspect, callVars
  <2>2. Answer' = [status |-> "MC_OK", bytes |-> "none"]
    BY <1>0, <2>1 DEF Answer, NoReply
  <2>3. Answer' \in {[status |-> "MC_OK", bytes |-> "none"] :
                       o \in {"inspect"} \cap {callVars[1]}}
    BY <1>0, <2>2 DEF callVars
  <2>4. Answer' \in Contract!Answers(callVars)
    BY <1>0, <2>3, GoodArguments DEF Contract!Answers
  <2> QED BY <1>0, <2>1, <2>4 DEF Contract!Reply, Phase, callVars
<1> QED BY <1>1, <1>2

(* Every step between the header and the last chunk fails, with a status   *)
(* the contract lists, or stays inside the call.                           *)
LEMMA InsideRefines ==
  ASSUME DecryptInv, RecoverInv,
         \/ ReadHeader \/ AllocateTable \/ WalkRecord \/ WalkEnd \/ DeriveKey
         \/ AllocateScratch \/ AllocateFirst \/ OpenChunk \/ InflateChunk
         \/ AllocatePlaintext
  PROVE  Contract!Reply \/ UNCHANGED Contract!vars
<1> DEFINE Fails == \E rc \in Contract!Failures : Fail(rc)
           Stays == /\ pc' \notin {"idle", "returned"} /\ UNCHANGED callVars
<1>0. pc \notin {"idle", "args", "returned"}
  BY DEF ReadHeader, AllocateTable, WalkRecord, WalkEnd, DeriveKey,
         AllocateScratch, AllocateFirst, OpenChunk, InflateChunk,
         AllocatePlaintext
<1>1. ReadHeader => Fails \/ Stays
  BY HeaderFailures DEF ReadHeader
<1>2. AllocateTable => Fails \/ Stays
  BY DEF AllocateTable, Contract!Failures
<1>3. WalkRecord => Fails \/ Stays
  BY DEF WalkRecord, Contract!Failures
<1>4. WalkEnd => Fails \/ Stays
  BY DEF WalkEnd, Contract!Failures
<1>5. DeriveKey \/ AllocateScratch \/ AllocateFirst => Fails \/ Stays
  BY DEF DeriveKey, AllocateScratch, AllocateFirst, Contract!Failures
<1>6. OpenChunk => Fails \/ Stays
  BY OpenArgumentsHold DEF OpenChunk, NextChunk, Contract!Failures
<1>7. InflateChunk => Fails \/ Stays
  BY AuthenticInflates DEF InflateChunk, NextChunk, Contract!Failures
<1>8. AllocatePlaintext => Fails \/ Stays
  BY DEF AllocatePlaintext, Contract!Failures
<1>9. Fails \/ Stays
  BY <1>1, <1>2, <1>3, <1>4, <1>5, <1>6, <1>7, <1>8
<1>10. CASE Fails
  BY <1>0, <1>10, FailureReplies
<1>11. CASE Stays
  BY <1>0, <1>11, BusyStutters
<1> QED BY <1>9, <1>10, <1>11

LEMMA FinishRefines ==
  ASSUME DecryptInv, RecoverInv, Finish PROVE Contract!Reply
<1>1. /\ pc = "open" /\ index = hdr.chunk_count /\ pc' = "returned"
      /\ status' = "MC_OK" /\ op' = op /\ key' = key /\ input' = input
      /\ out' = [written |-> TRUE, size |-> hdr.plaintext_size,
                 chunk |-> hdr.chunk_size, data |-> plaintext]
  BY DEF Finish, AllOpened, callVars
<1>2. /\ input \in Inputs /\ key \in Keys /\ op = "decrypt"
      /\ ParseFileHeader(hdr, input.size) = "MC_OK"
  BY <1>1 DEF DecryptInv, CallInv, HasTable
<1>3. /\ hdr.chunk_size \in MinChunkSize..MaxChunkSize
      /\ hdr.plaintext_size \in 0..MaxPlaintextSize
      /\ hdr.chunk_count = ChunkCountFor(hdr.plaintext_size, hdr.chunk_size)
  BY <1>2, ParsedInput DEF hdr
<1>4. PICK w \in Written :
        /\ key = w.key /\ input = w.file
        /\ \A i \in 0..(hdr.chunk_count - 1) :
             plaintext[i] = Slice(w.plain, hdr.chunk_size, hdr.plaintext_size, i)
  BY <1>1, FinishedInput
<1>5. ASSUME NEW b \in 0..(hdr.plaintext_size - 1)
      PROVE  OutByte(out', b) = <<w.plain, b>>
  <2>1. /\ out'.size = hdr.plaintext_size /\ out'.chunk = hdr.chunk_size
        /\ out'.data = plaintext
    BY <1>1
  <2> DEFINE o == out'
  <2>2. /\ o.size \in 0..MaxPlaintextSize
        /\ o.chunk \in MinChunkSize..MaxChunkSize
        /\ b \in 0..(o.size - 1)
        /\ \A i \in 0..(ChunkCountFor(o.size, o.chunk) - 1) :
             o.data[i] = Slice(w.plain, o.chunk, o.size, i)
    BY <1>3, <1>4, <2>1
  <2> HIDE DEF o
  <2>3. OutByte(o, b) = <<w.plain, b>>
    BY <2>2, OutputBytes
  <2> QED BY <2>3 DEF o
<1>6. Answer' = [status |-> "MC_OK",
                 bytes |-> [b \in 0..(hdr.plaintext_size - 1) |-> <<w.plain, b>>]]
  <2>1. out' # NoOut /\ out'.size = hdr.plaintext_size
    <3>1. out'.written = TRUE /\ NoOut.written = FALSE
      BY <1>1 DEF NoOut
    <3> QED BY <1>1, <3>1
  <2>2. Answer' = [status |-> "MC_OK",
                   bytes |-> [b \in 0..(out'.size - 1) |-> OutByte(out', b)]]
    BY <1>1, <1>2, <2>1 DEF Answer
  <2> QED BY <1>5, <2>1, <2>2
<1>7. Answer' \in Contract!Answers(callVars)
  <2> DEFINE Sent(v) == [status |-> "MC_OK",
                         bytes |-> [b \in 0..(v.file.hdr.plaintext_size - 1) |->
                                      <<v.plain, b>>]]
  <2>1. w \in {v \in Written : callVars = <<"decrypt", v.key, v.file>>}
    BY <1>2, <1>4 DEF callVars
  <2>2. Answer' = Sent(w)
    BY <1>4, <1>6 DEF hdr
  <2>3. Answer' \in {Sent(v) : v \in {x \in Written :
                                     callVars = <<"decrypt", x.key, x.file>>}}
    BY <2>1, <2>2
  <2>4. ~Contract!BadArguments(callVars)
    BY <1>1, GoodArguments
  <2> QED BY <2>3, <2>4 DEF Contract!Answers
<1> QED BY <1>1, <1>7 DEF Contract!Reply, Phase, callVars

(***************************************************************************)
(* A call of mc_decrypt_buffer or mc_inspect_buffer is answered as         *)
(* DecryptContract.tla promises, for every set of inputs: MC_OK with the   *)
(* very bytes of one finished encryption and only for its whole file and   *)
(* its key, and no failure the contract does not list.                     *)
(***************************************************************************)
THEOREM CallsKeepTheContract == Spec => ImplementsContract
<1>1. Init => Contract!Idle
  BY DEF Init, Contract!Idle, Phase, Answer, NoReply, callVars
<1>2. DecryptInv /\ RecoverInv /\ [Next]_vars => [Contract!Next]_Contract!vars
  <2> SUFFICES ASSUME DecryptInv, RecoverInv, [Next]_vars
      PROVE  Contract!Next \/ UNCHANGED Contract!vars
    OBVIOUS
  <2>1. CASE UNCHANGED vars
    BY <2>1 DEF vars, callVars, Contract!vars, Phase, Answer, OutByte
  <2>2. CASE Call
    BY <2>2, CallAsks DEF Contract!Next
  <2>3. CASE Collect
    BY <2>3, CollectResets DEF Contract!Next
  <2>4. CASE Step
    BY <2>4, CheckArgumentsRefines, InspectRefines, InsideRefines, FinishRefines
       DEF Step, Contract!Next
  <2> QED BY <2>1, <2>2, <2>3, <2>4 DEF Next
<1> QED BY <1>1, <1>2, DecryptInvariant, RecoverInvariant, PTL
        DEF Spec, ImplementsContract, Contract!ContractSpec
=============================================================================

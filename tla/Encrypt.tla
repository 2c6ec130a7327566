------------------------------ MODULE Encrypt -------------------------------
(***************************************************************************)
(* encrypt::EncryptBuffer (src/src/crypt/encrypt.cc): any number of        *)
(* threads, each making one call after the other.  The calls share nothing *)
(* but OpenSSL's random generator (tests/threading_test.cc:6-9); one       *)
(* action per step that can fail, allocate, draw or write.                 *)
(*                                                                         *)
(* RAND_bytes is ideal where 16 bytes are drawn (a salt never comes twice) *)
(* and arbitrary where 8 are: two calls may well draw the same prefix.     *)
(***************************************************************************)
EXTENDS Container, FiniteSets

CONSTANTS
  Threads,
  Keys,             \* keys of at least MC_MIN_KEY_SIZE bytes
  Requests,         \* [key, opts, plain, size]: arguments a caller passes
  NoPlain,          \* a null `in`
  Prefixes,         \* nonce prefixes that may be drawn
  ShrinkThreshold,  \* encrypt::kShrinkThreshold, 1 MiB
  KeySize,          \* format::kKeySize, 32
  MaxCalls          \* bound: calls a thread makes

ASSUME EncryptAssumption ==
  /\ Prefixes # {} /\ ShrinkThreshold \in Nat /\ MaxCalls \in Nat
  /\ KeySize \in 1..SizeMax
  /\ \A r \in Requests :
       /\ r.size \in 0..SizeMax
       /\ r.opts.chunk_size \in 0..(U32 - 1)
       /\ r.opts.compression \in Int
       /\ r.opts.kdf.log_n \in Nat /\ r.opts.kdf.r \in Nat
       /\ r.opts.kdf.p \in Nat

VARIABLES
  pc,       \* where each thread's call is
  req,      \* its arguments
  hdr,      \* header, and serialized_header with it
  index,    \* the loop counter
  offset,   \* write_offset
  chunk,    \* the ChunkHeader of this iteration
  recs,     \* the records written into `file`
  buf,      \* bytes held by each SecureBuffer of the call
  status,   \* what the call returned
  out,      \* what the out-parameters hold
  drawn,    \* salts RAND_bytes has given out, to any thread
  calls,    \* history: calls each thread has made
  sealed,   \* history: every Seal of every call
  issued    \* history: [key, plain, file] of every call that returned MC_OK

callVars == <<req, calls>>
loopVars == <<index, offset, chunk, recs>>
vars == <<pc, callVars, hdr, loopVars, buf, status, out, drawn, sealed, issued>>

NoRequest == [key |-> "none"]
NoHeader == [magic |-> "none"]
NoChunk == [stored |-> 0, flags |-> {}]
NoRecords == [i \in {} |-> ZeroRecord]
Buffers == {"derived", "file", "scratch"}
NoBuffers == [b \in Buffers |-> 0]
NoOut == [written |-> FALSE]

Init ==
  /\ pc = [t \in Threads |-> "idle"] /\ req = [t \in Threads |-> NoRequest]
  /\ hdr = [t \in Threads |-> NoHeader]
  /\ index = [t \in Threads |-> 0] /\ offset = [t \in Threads |-> 0]
  /\ chunk = [t \in Threads |-> NoChunk]
  /\ recs = [t \in Threads |-> NoRecords]
  /\ buf = [t \in Threads |-> NoBuffers]
  /\ status = [t \in Threads |-> "none"] /\ out = [t \in Threads |-> NoOut]
  /\ drawn = 0 /\ calls = [t \in Threads |-> 0]
  /\ sealed = {} /\ issued = {}

Goto(t, step) == pc' = [pc EXCEPT ![t] = step]

\* Leaving the function wipes and frees its SecureBuffers.
Return(t, rc) ==
  /\ Goto(t, "returned") /\ status' = [status EXCEPT ![t] = rc]
  /\ hdr' = [hdr EXCEPT ![t] = NoHeader] /\ index' = [index EXCEPT ![t] = 0]
  /\ offset' = [offset EXCEPT ![t] = 0] /\ chunk' = [chunk EXCEPT ![t] = NoChunk]
  /\ recs' = [recs EXCEPT ![t] = NoRecords]
  /\ buf' = [buf EXCEPT ![t] = NoBuffers]
Fail(t, rc) ==
  Return(t, rc) /\ UNCHANGED <<callVars, out, drawn, sealed, issued>>

Call(t) ==
  /\ pc[t] = "idle" /\ calls[t] < MaxCalls
  /\ \E r \in Requests : req' = [req EXCEPT ![t] = r]
  /\ calls' = [calls EXCEPT ![t] = @ + 1] /\ Goto(t, "args")
  /\ UNCHANGED <<hdr, loopVars, buf, status, out, drawn, sealed, issued>>

\* The caller is done with what it was given.
Collect(t) ==
  /\ pc[t] = "returned" /\ Goto(t, "idle")
  /\ req' = [req EXCEPT ![t] = NoRequest]
  /\ status' = [status EXCEPT ![t] = "none"]
  /\ out' = [out EXCEPT ![t] = NoOut]
  /\ UNCHANGED <<calls, hdr, loopVars, buf, drawn, sealed, issued>>

----------------------------------------------------------------------------
(* Arguments, options, header.                                             *)

OptionsAcceptedMutant(opts) ==
  /\ opts.compression \in {MC_COMPRESS_NONE, MC_COMPRESS_ZLIB}
  /\ ChunkSizeSupported(opts.chunk_size)
  /\ opts.kdf.log_n \in 14..20 /\ opts.kdf.r \in 1..32 /\ opts.kdf.p \in 1..16
\* ValidateOptions: ranges, and the product bound ParseFileHeader has too.
OptionsAccepted(opts) ==
  /\ opts.compression \in {MC_COMPRESS_NONE, MC_COMPRESS_ZLIB}
  /\ ChunkSizeSupported(opts.chunk_size)
  /\ opts.kdf.log_n \in 14..20 /\ opts.kdf.r \in 1..32 /\ opts.kdf.p \in 1..16
  /\ 2^opts.kdf.log_n * opts.kdf.r <= 2^23

\* The salt and the prefix are zeroes until they are drawn.
NewHeader(r, salt, prefix) ==
  [magic |-> kMagic, format_version |-> MC_FORMAT_VERSION,
   kdf_id |-> kKdfScrypt, aead_id |-> kAeadAes256Gcm,
   compression_id |-> r.opts.compression, reserved |-> 0,
   kdf |-> r.opts.kdf, salt |-> salt, nonce_prefix |-> prefix,
   chunk_size |-> r.opts.chunk_size, plaintext_size |-> r.size,
   chunk_count |-> ChunkCountFor(r.size, r.opts.chunk_size)]

CheckArguments(t) ==
  /\ pc[t] = "args"
  /\ LET r == req[t] IN
     IF r.key \notin Keys \/ (r.size > 0 /\ r.plain = NoPlain)
     THEN Fail(t, "MC_ERR_INVALID_ARG")
     ELSE IF r.size > MaxPlaintextSize THEN Fail(t, "MC_ERR_TOO_LARGE")
     ELSE IF ~OptionsAccepted(r.opts) THEN Fail(t, "MC_ERR_INVALID_ARG")
     ELSE /\ hdr' = [hdr EXCEPT ![t] = NewHeader(r, 0, 0)] /\ Goto(t, "salt")
          /\ UNCHANGED <<callVars, loopVars, buf, status, out, drawn, sealed,
                         issued>>

DrawnSaltMutant(n) == 1
\* What the n-th draw of a salt gives: nothing drawn before.
DrawnSalt(n) == n

DrawSalt(t) ==
  /\ pc[t] = "salt"
  /\ \/ Fail(t, "MC_ERR_CRYPTO")
     \/ /\ hdr' = [hdr EXCEPT ![t] = NewHeader(req[t], DrawnSalt(drawn + 1), 0)]
        /\ drawn' = drawn + 1 /\ Goto(t, "prefix")
        /\ UNCHANGED <<callVars, loopVars, buf, status, out, sealed, issued>>

DrawPrefix(t) ==
  /\ pc[t] = "prefix"
  /\ \/ Fail(t, "MC_ERR_CRYPTO")
     \/ /\ \E p \in Prefixes :
             hdr' = [hdr EXCEPT ![t] = NewHeader(req[t], hdr[t].salt, p)]
        /\ Goto(t, "kdf")
        /\ UNCHANGED <<callVars, loopVars, buf, status, out, drawn, sealed,
                       issued>>

----------------------------------------------------------------------------
(* The derived key and the buffers.                                        *)

Allocated(t, b, bytes) == buf' = [buf EXCEPT ![t][b] = SizeT(bytes)]

DeriveKey(t) ==
  /\ pc[t] = "kdf"
  /\ \/ Fail(t, "MC_ERR_MEMORY")
     \/ Fail(t, "MC_ERR_CRYPTO")
     \/ /\ ScryptDefined(hdr[t].kdf)
        /\ Allocated(t, "derived", KeySize) /\ Goto(t, "file")
        /\ UNCHANGED <<callVars, hdr, loopVars, status, out, drawn, sealed,
                       issued>>

WorstCaseMutant(h) == HeaderSize + ChunkHeaderSize + h.plaintext_size
\* Every chunk stored raw.
WorstCase(h) ==
  HeaderSize + h.chunk_count * ChunkHeaderSize + h.plaintext_size

TooBigMutant(bytes) == FALSE
\* What no size_t of this host can hold.
TooBig(bytes) == bytes > SizeMax

AllocateFile(t) ==
  /\ pc[t] = "file"
  /\ IF TooBig(WorstCase(hdr[t])) THEN Fail(t, "MC_ERR_TOO_LARGE")
     ELSE \/ Fail(t, "MC_ERR_MEMORY")
          \/ /\ Allocated(t, "file", WorstCase(hdr[t])) /\ Goto(t, "scratch")
             /\ offset' = [offset EXCEPT ![t] = HeaderSize]
             /\ UNCHANGED <<callVars, hdr, index, chunk, recs, status, out,
                            drawn, sealed, issued>>

WantCompression(t) == req[t].opts.compression = MC_COMPRESS_ZLIB

AllocateScratch(t) ==
  /\ pc[t] = "scratch"
  /\ \/ WantCompression(t) /\ Fail(t, "MC_ERR_MEMORY")
     \/ /\ IF WantCompression(t)
           THEN Allocated(t, "scratch", MaxStoredSizeFor(req[t].opts.chunk_size))
           ELSE UNCHANGED buf
        /\ Goto(t, "chunk")
        /\ UNCHANGED <<callVars, hdr, loopVars, status, out, drawn, sealed,
                       issued>>

----------------------------------------------------------------------------
(* The loop over the chunks.                                               *)

PlainSize(t) ==
  ChunkPlainSize(hdr[t].plaintext_size, hdr[t].chunk_size, index[t])

SmallerMutant(t) == 1..buf[t]["scratch"]
(***************************************************************************)
(* The sizes a chunk may deflate to and be kept deflated: deflate ends     *)
(* within the scratch and the result is smaller than what went in.  Any    *)
(* other outcome of deflate stores the chunk raw.                          *)
(***************************************************************************)
Smaller(t) == {n \in 1..buf[t]["scratch"] : n < PlainSize(t)}

RawChunk(t) == [stored |-> UInt32(PlainSize(t)), flags |-> {}]

CompressChunk(t) ==
  /\ pc[t] = "chunk" /\ index[t] < hdr[t].chunk_count
  /\ \/ /\ WantCompression(t) /\ PlainSize(t) > 0
        /\ Fail(t, "MC_ERR_MEMORY") \/ Fail(t, "MC_ERR_COMPRESS")
     \/ /\ \/ chunk' = [chunk EXCEPT ![t] = RawChunk(t)]
           \/ /\ WantCompression(t) /\ PlainSize(t) > 0
              /\ \E n \in Smaller(t) :
                   chunk' = [chunk EXCEPT ![t] =
                              [stored |-> UInt32(n), flags |-> {"compressed"}]]
        /\ Goto(t, "seal")
        /\ UNCHANGED <<callVars, hdr, index, offset, recs, buf, status, out,
                       drawn, sealed, issued>>

\* What is sealed: the scratch if the chunk is deflated, else the plaintext.
PayloadOf(t) ==
  Payload(Compressed(chunk[t]),
          [of |-> req[t].plain, at |-> index[t] * hdr[t].chunk_size,
           len |-> PlainSize(t)])

DerivedOf(t) == DerivedKey(req[t].key, hdr[t].salt, hdr[t].kdf)
NonceOf(t) == BuildNonce(hdr[t].nonce_prefix, index[t])
AadEarlyMutant(t) ==
  BuildAad(hdr[t], index[t], [stored |-> chunk[t].stored, flags |-> {}])
\* Built once the record is final.
AadOf(t) == BuildAad(hdr[t], index[t], chunk[t])

\* The record and its ciphertext, as aead::Seal and SerializeChunkHeader leave it.
NewRecord(t) ==
  LET ct == Ciphertext(DerivedOf(t), NonceOf(t), PayloadOf(t)) IN
  [stored |-> chunk[t].stored, flags |-> chunk[t].flags, reserved |-> 0,
   ct |-> ct, tag |-> Mac(DerivedOf(t), NonceOf(t), AadOf(t), ct)]

RecordEnd(t) == offset[t] + ChunkHeaderSize + chunk[t].stored

NextIndexMutant(t) == index[t] + (IF Compressed(chunk[t]) THEN 2 ELSE 1)
NextIndex(t) == index[t] + 1

SealChunk(t) ==
  /\ pc[t] = "seal"
  /\ IF RecordEnd(t) > buf[t]["file"] THEN Fail(t, "MC_ERR_MEMORY")
     ELSE IF chunk[t].stored > U32 \div 2 - 1 THEN Fail(t, "MC_ERR_INVALID_ARG")
     ELSE
     \/ Fail(t, "MC_ERR_CRYPTO")
     \/ /\ recs' = [recs EXCEPT ![t] =
                     [i \in DOMAIN @ \cup {index[t]} |->
                        IF i = index[t] THEN NewRecord(t) ELSE @[i]]]
        /\ sealed' = sealed \cup
             {[thread |-> t, call |-> calls[t], index |-> index[t],
               dk |-> DerivedOf(t), nonce |-> NonceOf(t)]}
        /\ offset' = [offset EXCEPT ![t] = RecordEnd(t)]
        /\ index' = [index EXCEPT ![t] = NextIndex(t)]
        /\ chunk' = [chunk EXCEPT ![t] = NoChunk]
        /\ Goto(t, "chunk")
        /\ UNCHANGED <<callVars, hdr, buf, status, out, drawn, issued>>

----------------------------------------------------------------------------
(* The buffer is copied down when its slack is large, then handed over.    *)

Slack(t) == buf[t]["file"] - offset[t]

FinalSizeMutant(t) == buf[t]["file"]
\* *out_size, and out->size().
FinalSize(t) == offset[t]
FinalBytes(t) == IF Slack(t) > ShrinkThreshold THEN offset[t] ELSE buf[t]["file"]

Finish(t) ==
  /\ pc[t] = "chunk" /\ index[t] >= hdr[t].chunk_count
  /\ \/ Slack(t) > ShrinkThreshold /\ Fail(t, "MC_ERR_MEMORY")
     \/ LET file == [hdr |-> hdr[t], recs |-> recs[t], size |-> FinalSize(t)] IN
        /\ Return(t, "MC_OK")
        /\ out' = [out EXCEPT ![t] = [written |-> TRUE, file |-> file,
                                      bytes |-> FinalBytes(t)]]
        /\ issued' = issued \cup
             {[key |-> req[t].key, plain |-> req[t].plain, file |-> file]}
        /\ UNCHANGED <<callVars, drawn, sealed>>

Step(t) ==
  \/ CheckArguments(t) \/ DrawSalt(t) \/ DrawPrefix(t) \/ DeriveKey(t)
  \/ AllocateFile(t) \/ AllocateScratch(t)
  \/ CompressChunk(t) \/ SealChunk(t) \/ Finish(t)

Next == \E t \in Threads : Call(t) \/ Collect(t) \/ Step(t)
Spec == Init /\ [][Next]_vars
\* A thread inside a call keeps running; nothing obliges it to call.
FairSpec == Spec /\ \A t \in Threads : WF_vars(Step(t))

----------------------------------------------------------------------------
(* Properties.                                                             *)

States == {"idle", "args", "salt", "prefix", "kdf", "file", "scratch", "chunk",
           "seal", "returned"}

\* The variables keep their types.
TypeOK ==
  /\ pc \in [Threads -> States] /\ req \in [Threads -> Requests \cup {NoRequest}]
  /\ index \in [Threads -> Nat] /\ offset \in [Threads -> Nat]
  /\ chunk \in [Threads -> [stored : Nat, flags : SUBSET {"compressed"}]]
  /\ buf \in [Threads -> [Buffers -> Nat]]
  /\ status \in [Threads -> Statuses \cup {"none"}]
  /\ drawn \in Nat /\ calls \in [Threads -> 0..MaxCalls]
  /\ \A t \in Threads : pc[t] \in {"chunk", "seal"} =>
                           DOMAIN recs[t] = 0..(index[t] - 1)

(***************************************************************************)
(* The worst-case allocation is one: whichever chunks deflate, and to      *)
(* whatever size, the next record fits in the file buffer, so the check of *)
(* encrypt.cc:206-209 ("the one invariant whose failure would be a heap    *)
(* overflow") never fires and write_offset never passes the buffer.        *)
(***************************************************************************)
RoomForChunk ==
  \A t \in Threads :
    /\ pc[t] = "seal" => RecordEnd(t) <= buf[t]["file"]
    /\ pc[t] = "chunk" => offset[t] <= buf[t]["file"]

(***************************************************************************)
(* No nonce seals twice under one derived key (format.cc:272-283), in one  *)
(* call, in two calls of a thread, or in two threads with the same key and *)
(* options whose prefixes collide.                                         *)
(***************************************************************************)
NonceNeverReused ==
  \A a, b \in sealed : a.dk = b.dk /\ a.nonce = b.nonce => a = b

(***************************************************************************)
(* No two finished files have the same header, not even two encryptions of *)
(* the same plaintext under the same key and options (model_crypt.h:273):  *)
(* what Decrypt relies on to tell one file's chunks from another's.        *)
(***************************************************************************)
FreshHeaders ==
  \A v, w \in issued : v.file.hdr = w.file.hdr => v = w

(***************************************************************************)
(* "This build cannot write a file it would later refuse to read"          *)
(* (encrypt.cc:73-74): what MC_OK hands over is a file ParseFileHeader     *)
(* accepts, as long as its records, each holding the sealed chunk that     *)
(* belongs at its place, raw at full length or deflated and shorter.       *)
(***************************************************************************)
IssuesFinishedFiles == \A w \in issued : FinishedFile(w)

(***************************************************************************)
(* The largest file a call writes is one mc_decrypt_file still reads       *)
(* (format.h:97-102): framing included, whatever the chunk size.           *)
(***************************************************************************)
WithinReadLimit == \A w \in issued : w.file.size <= kMaxFileSize

(***************************************************************************)
(* The calls as their callers see them (EncryptContract.tla): each answer  *)
(* MC_OK adds one finished encryption of what that thread asked for, with  *)
(* a header no other encryption has; a failure adds nothing.               *)
(***************************************************************************)
Phase(t) == IF pc[t] \in {"idle", "returned"} THEN pc[t] ELSE "busy"
Answer(t) ==
  IF pc[t] # "returned" THEN "none"
  ELSE [status |-> status[t],
        file |-> IF out[t] = NoOut THEN "none" ELSE out[t].file]

Contract == INSTANCE EncryptContract
  WITH phase <- [t \in Threads |-> Phase(t)], asked <- req,
       reply <- [t \in Threads |-> Answer(t)], Finished <- FinishedFile
ImplementsContract == Contract!ContractSpec

(***************************************************************************)
(* model_crypt.h:196-208 gives log_n, r and p a range each and MC_ERR_     *)
(* INVALID_ARG to "an out-of-range option value" (118); a call whose key,  *)
(* input and options are all within the documented ranges is not told so.  *)
(* The code bounds the product of the costs as well: README, section 5.    *)
(***************************************************************************)
Documented(r) ==
  /\ r.key \in Keys /\ (r.size > 0 => r.plain # NoPlain)
  /\ r.opts.compression \in {MC_COMPRESS_NONE, MC_COMPRESS_ZLIB}
  /\ ChunkSizeSupported(r.opts.chunk_size)
  /\ r.opts.kdf.log_n \in 14..20 /\ r.opts.kdf.r \in 1..32
  /\ r.opts.kdf.p \in 1..16
DocumentedRangesAccepted ==
  \A t \in Threads : status[t] = "MC_ERR_INVALID_ARG" => ~Documented(req[t])

(***************************************************************************)
(* encrypt.h:49: ValidateOptions checks "the ranges documented on           *)
(* mc_encrypt_options"; options it lets through are ones scrypt can use.    *)
(***************************************************************************)
AcceptedCostsDerive ==
  \A t \in Threads : pc[t] = "kdf" => ScryptDefined(hdr[t].kdf)
=============================================================================

--------------------------- MODULE EncryptProofs ----------------------------
(***************************************************************************)
(* What EncryptBuffer guarantees for any number of threads, any requests   *)
(* and every value of the format's constants.  EncryptInv strengthens the  *)
(* invariants of Encrypt.tla: what a call past its argument check knows,   *)
(* how much of the buffer is in use, and which call each salt belongs to.  *)
(* FileInv adds what the records written so far are; from the two it       *)
(* follows that the calls keep EncryptContract.                            *)
(***************************************************************************)
EXTENDS Encrypt, FormatProofs

----------------------------------------------------------------------------
(* The inductive invariant.                                                *)

\* Past the argument check, until the call returns.
Checked == {"salt", "prefix", "kdf", "file", "scratch", "chunk", "seal"}
\* The call has its salt.
Salted == Checked \ {"salt"}

FunctionInv ==
  /\ hdr = [t \in Threads |-> hdr[t]] /\ recs = [t \in Threads |-> recs[t]]
  /\ out = [t \in Threads |-> out[t]]

\* The arguments passed every check and the header is made from them.
CallInv(t) ==
  /\ pc[t] = "args" => req[t] \in Requests
  /\ pc[t] \in Checked =>
       /\ req[t] \in Requests /\ req[t].size <= MaxPlaintextSize
       /\ OptionsAccepted(req[t].opts)
       /\ hdr[t] = NewHeader(req[t], hdr[t].salt, hdr[t].nonce_prefix)

\* Plaintext bytes in the chunks before i.
Before(size, chunkSize, i) ==
  IF i * chunkSize < size THEN i * chunkSize ELSE size

\* The buffer is the worst case; what is written is at most that of its chunks.
RoomInv(t) ==
  /\ pc[t] \in {"scratch", "chunk", "seal"} =>
       /\ buf[t]["file"] = WorstCase(hdr[t])
       /\ index[t] <= hdr[t].chunk_count
       /\ offset[t] <= HeaderSize + index[t] * ChunkHeaderSize
            + Before(hdr[t].plaintext_size, hdr[t].chunk_size, index[t])
  /\ pc[t] = "seal" => /\ index[t] < hdr[t].chunk_count
                       /\ chunk[t].stored <= PlainSize(t)
  /\ DOMAIN recs[t] = 0..(index[t] - 1)
  /\ pc[t] \notin {"chunk", "seal"} => index[t] = 0

SealedInv ==
  \A s \in sealed :
    /\ s = [thread |-> s.thread, call |-> s.call, index |-> s.index,
            dk |-> s.dk, nonce |-> s.nonce]
    /\ s.dk.salt \in 1..drawn
    /\ s.index \in Nat /\ s.nonce.counter = s.index

IssuedInv ==
  \A w \in issued :
    /\ w.file.hdr.salt \in 1..drawn
    /\ w.file.size <= kMaxFileSize

\* A salt in use is no other call's, and the call's own seals are behind it.
SaltInv ==
  /\ \A t \in Threads : pc[t] \in Salted =>
       /\ hdr[t].salt \in 1..drawn
       /\ \A u \in Threads :
            pc[u] \in Salted /\ hdr[u].salt = hdr[t].salt => u = t
       /\ \A s \in sealed : s.dk.salt = hdr[t].salt =>
            s.thread = t /\ s.call = calls[t] /\ s.index < index[t]
       /\ \A w \in issued : w.file.hdr.salt # hdr[t].salt
  /\ \A a, b \in sealed :
       a.dk.salt = b.dk.salt => a.thread = b.thread /\ a.call = b.call
  /\ \A v, w \in issued : v.file.hdr.salt = w.file.hdr.salt => v = w

EncryptInv ==
  /\ TypeOK /\ FunctionInv
  /\ \A t \in Threads : CallInv(t) /\ RoomInv(t)
  /\ SealedInv /\ IssuedInv /\ SaltInv

----------------------------------------------------------------------------
(* What the argument checks leave to rely on.                              *)

LEMMA CheckedHeader ==
  ASSUME NEW r \in Requests, NEW h, NEW salt, NEW prefix,
         h = NewHeader(r, salt, prefix),
         r.size <= MaxPlaintextSize, OptionsAccepted(r.opts)
  PROVE  /\ h.chunk_size \in MinChunkSize..MaxChunkSize
         /\ h.chunk_size \in Nat \ {0} /\ h.chunk_size < U32
         /\ h.chunk_size = r.opts.chunk_size
         /\ h.plaintext_size \in 0..MaxPlaintextSize
         /\ h.chunk_count \in 1..(U32 - 1)
         /\ h.chunk_count = ChunkCountFor(h.plaintext_size, h.chunk_size)
         /\ \A i \in Nat : ChunkPlainSize(h.plaintext_size,
              h.chunk_size, i) \in 0..h.chunk_size
<1>1. /\ h.chunk_size \in MinChunkSize..MaxChunkSize
      /\ h.chunk_size = r.opts.chunk_size
      /\ h.plaintext_size = r.size
      /\ h.chunk_count = ChunkCountFor(h.plaintext_size, h.chunk_size)
  BY DEF NewHeader, OptionsAccepted, ChunkSizeSupported
<1>2. h.plaintext_size \in 0..MaxPlaintextSize
  BY <1>1, EncryptAssumption, FormatAssumption
<1>3. h.chunk_size \in Nat \ {0} /\ h.chunk_size < U32
  BY <1>1, FormatAssumption
<1>4. h.chunk_count \in 1..(U32 - 1)
  BY <1>1, <1>2, ChunkCountExact
<1>5. \A i \in Nat : ChunkPlainSize(h.plaintext_size,
        h.chunk_size, i) \in 0..h.chunk_size
  <2>1. h.plaintext_size \in Nat /\ h.chunk_size \in Nat
    BY <1>2, <1>3, FormatAssumption
  <2> QED BY <2>1, ChunkPlainSizeType
<1> QED BY <1>1, <1>2, <1>3, <1>4, <1>5

LEMMA CheckedCall ==
  ASSUME EncryptInv, NEW t \in Threads, pc[t] \in Checked
  PROVE  /\ req[t] \in Requests
         /\ hdr[t].chunk_size \in MinChunkSize..MaxChunkSize
         /\ hdr[t].chunk_size \in Nat \ {0} /\ hdr[t].chunk_size < U32
         /\ hdr[t].chunk_size = req[t].opts.chunk_size
         /\ hdr[t].plaintext_size \in 0..MaxPlaintextSize
         /\ hdr[t].chunk_count \in 1..(U32 - 1)
         /\ hdr[t].chunk_count =
              ChunkCountFor(hdr[t].plaintext_size, hdr[t].chunk_size)
         /\ WorstCase(hdr[t]) \in Nat /\ index[t] \in Nat
         /\ PlainSize(t) \in 0..hdr[t].chunk_size
<1>1. /\ req[t] \in Requests /\ req[t].size <= MaxPlaintextSize
      /\ OptionsAccepted(req[t].opts)
      /\ hdr[t] = NewHeader(req[t], hdr[t].salt, hdr[t].nonce_prefix)
  BY DEF EncryptInv, CallInv
<1>2. /\ hdr[t].chunk_size \in MinChunkSize..MaxChunkSize
      /\ hdr[t].chunk_size \in Nat \ {0} /\ hdr[t].chunk_size < U32
      /\ hdr[t].chunk_size = req[t].opts.chunk_size
      /\ hdr[t].plaintext_size \in 0..MaxPlaintextSize
      /\ hdr[t].chunk_count \in 1..(U32 - 1)
      /\ hdr[t].chunk_count =
           ChunkCountFor(hdr[t].plaintext_size, hdr[t].chunk_size)
      /\ \A i \in Nat : ChunkPlainSize(hdr[t].plaintext_size,
           hdr[t].chunk_size, i) \in 0..hdr[t].chunk_size
  BY <1>1, CheckedHeader
<1>3. index[t] \in Nat
  BY DEF EncryptInv, TypeOK
<1>4. WorstCase(hdr[t]) \in Nat
  <2>1. hdr[t].chunk_count \in Nat /\ hdr[t].plaintext_size \in Nat
    BY <1>2, FormatAssumption
  <2> QED BY <2>1, FormatAssumption DEF WorstCase
<1> QED BY <1>1, <1>2, <1>3, <1>4 DEF PlainSize

(* The bytes before chunk i, and chunk i, are the bytes before chunk i+1.  *)
LEMMA BeforeNext ==
  ASSUME NEW size \in Nat, NEW c \in Nat, NEW i \in Nat
  PROVE  /\ Before(size, c, i) \in 0..size
         /\ Before(size, c, i) + ChunkPlainSize(size, c, i)
              = Before(size, c, i + 1)
<1>1. i * c \in Nat /\ (i + 1) * c = i * c + c
  OBVIOUS
<1> QED BY <1>1 DEF Before, ChunkPlainSize

(* i + 1 records, i below the count, and the bytes of i + 1 chunks are     *)
(* within the worst case.                                                  *)
LEMMA WithinWorstCase ==
  ASSUME NEW count \in Nat, NEW size \in Nat, NEW i \in Nat, i <= count,
         NEW b \in 0..size
  PROVE  HeaderSize + i * ChunkHeaderSize + b
           <= HeaderSize + count * ChunkHeaderSize + size
<1>1. i * ChunkHeaderSize <= count * ChunkHeaderSize
  BY FormatAssumption
<1>2. i * ChunkHeaderSize \in Nat /\ count * ChunkHeaderSize \in Nat
  BY FormatAssumption
<1> QED BY <1>1, <1>2, FormatAssumption

(* Every chunk at the smallest size: what kMaxFileSize allows for.         *)
LEMMA WorstCaseReadable ==
  ASSUME NEW size \in 0..MaxPlaintextSize,
         NEW c \in MinChunkSize..MaxChunkSize
  PROVE  HeaderSize + ChunkCountFor(size, c) * ChunkHeaderSize + size
           <= kMaxFileSize
<1> DEFINE n == ChunkCountFor(size, c)
           k == MaxPlaintextSize \div MinChunkSize
<1>1. n \in Nat \ {0} /\ (size > 0 => (n - 1) * c < size)
      /\ (size = 0 => n = 1)
  BY ChunkCountExact, FormatAssumption DEF ChunkCountFor
<1>2. k \in Nat /\ k * MinChunkSize = MaxPlaintextSize /\ k >= 1
  <2>1. /\ k \in Int /\ MinChunkSize \in Nat \ {0} /\ MaxPlaintextSize \in Nat
        /\ MaxPlaintextSize = MinChunkSize * k + (MaxPlaintextSize % MinChunkSize)
    BY FormatAssumption
  <2>2. MaxPlaintextSize % MinChunkSize = 0 /\ MinChunkSize <= MaxPlaintextSize
    BY FormatAssumption
  <2> HIDE DEF k
  <2>3. k * MinChunkSize = MaxPlaintextSize
    BY <2>1, <2>2
  <2>4. k >= 1
    <3>1. SUFFICES ASSUME k <= 0 PROVE FALSE
      BY <2>1
    <3>2. k * MinChunkSize <= 0
      BY <3>1, <2>1
    <3> QED BY <3>2, <2>1, <2>2, <2>3
  <2> QED BY <2>1, <2>3, <2>4
<1>3. n <= k
  <2>1. CASE size = 0
    BY <2>1, <1>1, <1>2
  <2>2. CASE size > 0
    <3> HIDE DEF n, k
    <3>1. SUFFICES ASSUME n - 1 >= k PROVE FALSE
      BY <1>1, <1>2
    <3>2. c \in Nat /\ MinChunkSize \in Nat /\ MinChunkSize <= c
          /\ size \in Nat /\ size <= MaxPlaintextSize
          /\ MaxPlaintextSize \in Nat
      BY FormatAssumption
    <3>3. (n - 1) * c >= k * c
      BY <3>1, <3>2, <1>1, <1>2
    <3>4. k * c >= k * MinChunkSize
      BY <3>2, <1>2
    <3>5. (n - 1) * c \in Int /\ k * c \in Int
      BY <3>2, <1>1, <1>2
    <3> QED BY <2>2, <3>2, <3>3, <3>4, <3>5, <1>1, <1>2
  <2> QED BY <2>1, <2>2, FormatAssumption
<1>4. n * ChunkHeaderSize <= k * ChunkHeaderSize
  <2> HIDE DEF n, k
  <2> QED BY <1>1, <1>2, <1>3, FormatAssumption
<1>5. n * ChunkHeaderSize \in Nat /\ k * ChunkHeaderSize \in Nat
  <2> HIDE DEF n, k
  <2> QED BY <1>1, <1>2, FormatAssumption
<1>6. kMaxFileSize = MaxPlaintextSize + k * ChunkHeaderSize + HeaderSize
  BY DEF kMaxFileSize
<1>7. size \in Nat /\ size <= MaxPlaintextSize /\ MaxPlaintextSize \in Nat
      /\ HeaderSize \in Nat
  BY FormatAssumption
<1> HIDE DEF n, k
<1>8. HeaderSize + n * ChunkHeaderSize + size <= kMaxFileSize
  BY <1>4, <1>5, <1>6, <1>7
<1> QED BY <1>8 DEF n

----------------------------------------------------------------------------
(* Steps that disturb little.                                              *)

(* Nothing drawn, sealed or issued, and no call that has its salt is       *)
(* further than before: the facts about salts stay.                        *)
LEMMA SaltsKept ==
  ASSUME EncryptInv, UNCHANGED <<drawn, sealed, issued>>,
         \A u \in Threads : pc'[u] \in Salted =>
           /\ pc[u] \in Salted /\ hdr'[u].salt = hdr[u].salt
           /\ calls'[u] = calls[u] /\ index'[u] = index[u]
  PROVE  SealedInv' /\ IssuedInv' /\ SaltInv'
<1>1. SealedInv' /\ IssuedInv'
  BY DEF EncryptInv, SealedInv, IssuedInv
<1>2. SaltInv'
  BY DEF EncryptInv, SaltInv
<1> QED BY <1>1, <1>2

(* What a step of t does not touch in another thread u.                    *)
LEMMA OthersKept ==
  ASSUME EncryptInv, NEW u \in Threads,
         pc'[u] = pc[u], req'[u] = req[u], hdr'[u] = hdr[u],
         index'[u] = index[u], offset'[u] = offset[u], chunk'[u] = chunk[u],
         recs'[u] = recs[u], buf'[u] = buf[u]
  PROVE  CallInv(u)' /\ RoomInv(u)'
BY DEF EncryptInv, CallInv, RoomInv, PlainSize

(* Returning with an error keeps the invariant from every state.           *)
LEMMA FailKeepsInv ==
  ASSUME EncryptInv, NEW t \in Threads, NEW rc \in Statuses, Fail(t, rc)
  PROVE  EncryptInv'
<1> USE DEF Fail, Return, Goto, callVars
<1>1. TypeOK'
  BY DEF EncryptInv, TypeOK, States, NoChunk, NoBuffers, Buffers, NoRecords
<1>2. FunctionInv'
  BY DEF EncryptInv, FunctionInv
<1>3. ASSUME NEW u \in Threads PROVE CallInv(u)' /\ RoomInv(u)'
  <2>1. CASE u = t
    <3>1. /\ pc'[t] = "returned" /\ index'[t] = 0 /\ recs'[t] = NoRecords
      BY DEF EncryptInv, TypeOK, FunctionInv
    <3>2. DOMAIN NoRecords = 0..(0 - 1)
      BY DEF NoRecords
    <3> QED BY <2>1, <3>1, <3>2 DEF CallInv, RoomInv, Checked
  <2>2. CASE u # t
    BY <2>2, OthersKept DEF EncryptInv, TypeOK, FunctionInv
  <2> QED BY <2>1, <2>2
<1>4. SealedInv' /\ IssuedInv' /\ SaltInv'
  <2>1. \A u \in Threads : pc'[u] \in Salted =>
          /\ pc[u] \in Salted /\ hdr'[u].salt = hdr[u].salt
          /\ calls'[u] = calls[u] /\ index'[u] = index[u]
    BY DEF EncryptInv, TypeOK, FunctionInv, Salted, Checked
  <2> QED BY <2>1, SaltsKept
<1> QED BY <1>1, <1>2, <1>3, <1>4 DEF EncryptInv

LEMMA InitInv == Init => EncryptInv
<1> SUFFICES ASSUME Init PROVE EncryptInv
  OBVIOUS
<1>1. TypeOK
  BY EncryptAssumption
     DEF Init, TypeOK, States, NoChunk, NoBuffers, Buffers, NoRecords
<1>2. FunctionInv /\ SealedInv /\ IssuedInv /\ SaltInv
  BY DEF Init, FunctionInv, SealedInv, IssuedInv, SaltInv, Salted, Checked
<1>3. \A t \in Threads : CallInv(t) /\ RoomInv(t)
  <2>1. DOMAIN NoRecords = 0..(0 - 1)
    BY DEF NoRecords
  <2> QED BY <2>1 DEF Init, CallInv, RoomInv, Checked
<1> QED BY <1>1, <1>2, <1>3 DEF EncryptInv

----------------------------------------------------------------------------
(* One lemma per action.                                                   *)

LEMMA CallKeepsInv ==
  ASSUME EncryptInv, NEW t \in Threads, Call(t) \/ Collect(t)
  PROVE  EncryptInv'
<1> USE DEF Call, Collect, Goto, loopVars
<1>1. TypeOK'
  <2>1. pc' \in [Threads -> States]
    BY DEF EncryptInv, TypeOK, States
  <2>2. req' \in [Threads -> Requests \cup {NoRequest}]
    BY DEF EncryptInv, TypeOK
  <2>3. calls' \in [Threads -> 0..MaxCalls]
    <3>1. calls \in [Threads -> 0..MaxCalls] /\ MaxCalls \in Nat
      BY EncryptAssumption DEF EncryptInv, TypeOK
    <3>2. CASE Call(t)
      <4>1. calls[t] + 1 \in 0..MaxCalls /\ calls' = [calls EXCEPT ![t] = @ + 1]
        BY <3>1, <3>2
      <4> QED BY <3>1, <4>1
    <3>3. CASE Collect(t)
      BY <3>1, <3>3
    <3> QED BY <3>2, <3>3
  <2>4. \A u \in Threads : pc'[u] \in {"chunk", "seal"} => pc[u] = pc'[u]
    BY DEF EncryptInv, TypeOK
  <2> QED BY <2>1, <2>2, <2>3, <2>4 DEF EncryptInv, TypeOK
<1>2. FunctionInv'
  BY DEF EncryptInv, FunctionInv
<1>3. ASSUME NEW u \in Threads PROVE CallInv(u)' /\ RoomInv(u)'
  <2>1. CASE u = t
    <3>1. CASE Call(t)
      BY <2>1, <3>1 DEF EncryptInv, TypeOK, CallInv, RoomInv, Checked
    <3>2. CASE Collect(t)
      BY <2>1, <3>2 DEF EncryptInv, TypeOK, CallInv, RoomInv, Checked
    <3> QED BY <3>1, <3>2
  <2>2. CASE u # t
    BY <2>2, OthersKept DEF EncryptInv, TypeOK
  <2> QED BY <2>1, <2>2
<1>4. SealedInv' /\ IssuedInv' /\ SaltInv'
  <2>1. \A u \in Threads : pc'[u] \in Salted =>
          /\ pc[u] \in Salted /\ hdr'[u].salt = hdr[u].salt
          /\ calls'[u] = calls[u] /\ index'[u] = index[u]
    BY DEF EncryptInv, TypeOK, Salted, Checked
  <2> QED BY <2>1, SaltsKept
<1> QED BY <1>1, <1>2, <1>3, <1>4 DEF EncryptInv

LEMMA CheckArgumentsKeepsInv ==
  ASSUME EncryptInv, NEW t \in Threads, CheckArguments(t)
  PROVE  EncryptInv'
<1>1. CASE \E rc \in Statuses : Fail(t, rc)
  BY <1>1, FailKeepsInv
<1>2. CASE ~\E rc \in Statuses : Fail(t, rc)
  <2>1. /\ pc[t] = "args" /\ ~(req[t].size > MaxPlaintextSize)
        /\ OptionsAccepted(req[t].opts)
        /\ hdr' = [hdr EXCEPT ![t] = NewHeader(req[t], 0, 0)]
        /\ pc' = [pc EXCEPT ![t] = "salt"]
        /\ UNCHANGED <<req, calls, index, offset, chunk, recs, buf, status,
                       out, drawn, sealed, issued>>
    BY <1>2 DEF CheckArguments, Statuses, Goto, callVars, loopVars
  <2>2. req[t] \in Requests /\ req[t].size <= MaxPlaintextSize
    BY <2>1, EncryptAssumption, FormatAssumption DEF EncryptInv, CallInv
  <2>3. TypeOK' /\ FunctionInv'
    BY <2>1 DEF EncryptInv, TypeOK, States, FunctionInv
  <2>4. ASSUME NEW u \in Threads PROVE CallInv(u)' /\ RoomInv(u)'
    <3>1. CASE u = t
      <4>1. /\ pc'[t] = "salt" /\ hdr'[t] = NewHeader(req[t], 0, 0)
            /\ index'[t] = 0 /\ DOMAIN recs'[t] = 0..(index'[t] - 1)
        BY <2>1 DEF EncryptInv, TypeOK, FunctionInv, RoomInv
      <4>2. /\ NewHeader(req[t], 0, 0).salt = 0
            /\ NewHeader(req[t], 0, 0).nonce_prefix = 0
        BY DEF NewHeader
      <4> QED BY <2>1, <2>2, <3>1, <4>1, <4>2 DEF CallInv, RoomInv
    <3>2. CASE u # t
      BY <2>1, <3>2, OthersKept DEF EncryptInv, TypeOK, FunctionInv
    <3> QED BY <3>1, <3>2
  <2>5. SealedInv' /\ IssuedInv' /\ SaltInv'
    <3>1. \A u \in Threads : pc'[u] \in Salted =>
            /\ pc[u] \in Salted /\ hdr'[u].salt = hdr[u].salt
            /\ calls'[u] = calls[u] /\ index'[u] = index[u]
      BY <2>1 DEF EncryptInv, TypeOK, FunctionInv, Salted, Checked
    <3> QED BY <2>1, <3>1, SaltsKept
  <2> QED BY <2>3, <2>4, <2>5 DEF EncryptInv
<1> QED BY <1>1, <1>2

LEMMA DrawSaltKeepsInv ==
  ASSUME EncryptInv, NEW t \in Threads, DrawSalt(t)
  PROVE  EncryptInv'
<1>1. CASE Fail(t, "MC_ERR_CRYPTO")
  BY <1>1, FailKeepsInv DEF Statuses
<1>2. CASE ~Fail(t, "MC_ERR_CRYPTO")
  <2> DEFINE h == NewHeader(req[t], drawn + 1, 0)
  <2>1. /\ pc[t] = "salt" /\ hdr' = [hdr EXCEPT ![t] = h]
        /\ drawn' = drawn + 1 /\ pc' = [pc EXCEPT ![t] = "prefix"]
        /\ UNCHANGED <<req, calls, index, offset, chunk, recs, buf, status,
                       out, sealed, issued>>
    BY <1>2 DEF DrawSalt, DrawnSalt, Goto, callVars, loopVars
  <2>2. /\ h.salt = drawn + 1 /\ h = NewHeader(req[t], h.salt, h.nonce_prefix)
    BY DEF NewHeader
  <2>3. drawn \in Nat
    BY DEF EncryptInv, TypeOK
  <2> HIDE DEF h
  <2>4. TypeOK' /\ FunctionInv'
    <3>1. pc' \in [Threads -> States] /\ drawn' \in Nat
      BY <2>1, <2>3 DEF EncryptInv, TypeOK, States
    <3>2. \A u \in Threads : pc'[u] \in {"chunk", "seal"} => pc[u] = pc'[u]
      BY <2>1 DEF EncryptInv, TypeOK
    <3> QED BY <2>1, <3>1, <3>2 DEF EncryptInv, TypeOK, FunctionInv
  <2>5. ASSUME NEW u \in Threads PROVE CallInv(u)' /\ RoomInv(u)'
    <3>1. CASE u = t
      <4>1. pc'[t] = "prefix" /\ hdr'[t] = h
        BY <2>1 DEF EncryptInv, TypeOK, FunctionInv
      <4> QED BY <2>1, <2>2, <3>1, <4>1
                 DEF EncryptInv, CallInv, RoomInv, Checked
    <3>2. CASE u # t
      BY <2>1, <3>2, OthersKept DEF EncryptInv, TypeOK, FunctionInv
    <3> QED BY <3>1, <3>2
  <2>6. SealedInv' /\ IssuedInv'
    BY <2>1, <2>3 DEF EncryptInv, SealedInv, IssuedInv
  <2>7. SaltInv'
    <3>1. \A u \in Threads : pc'[u] \in Salted =>
            IF u = t THEN hdr'[u].salt = drawn + 1
            ELSE /\ pc[u] \in Salted /\ hdr'[u].salt = hdr[u].salt
                 /\ hdr[u].salt \in 1..drawn
      BY <2>1, <2>2 DEF EncryptInv, TypeOK, FunctionInv, SaltInv
    <3>2. /\ \A s \in sealed : s.dk.salt \in 1..drawn
          /\ \A w \in issued : w.file.hdr.salt \in 1..drawn
      BY DEF EncryptInv, SealedInv, IssuedInv
    <3>3. ASSUME NEW u \in Threads, pc'[u] \in Salted
          PROVE  /\ hdr'[u].salt \in 1..drawn'
                 /\ \A v \in Threads :
                      pc'[v] \in Salted /\ hdr'[v].salt = hdr'[u].salt => v = u
                 /\ \A s \in sealed : s.dk.salt = hdr'[u].salt =>
                      s.thread = u /\ s.call = calls[u] /\ s.index < index[u]
                 /\ \A w \in issued : w.file.hdr.salt # hdr'[u].salt
      <4>1. CASE u = t
        BY <2>1, <2>3, <3>1, <3>2, <3>3, <4>1
      <4>2. CASE u # t
        BY <2>1, <2>3, <3>1, <3>3, <4>2 DEF EncryptInv, SaltInv
      <4> QED BY <4>1, <4>2
    <3>4. /\ \A a, b \in sealed :
               a.dk.salt = b.dk.salt => a.thread = b.thread /\ a.call = b.call
          /\ \A v, w \in issued : v.file.hdr.salt = w.file.hdr.salt => v = w
      BY DEF EncryptInv, SaltInv
    <3> QED BY <2>1, <3>3, <3>4 DEF SaltInv
  <2> QED BY <2>4, <2>5, <2>6, <2>7 DEF EncryptInv
<1> QED BY <1>1, <1>2

LEMMA DrawPrefixKeepsInv ==
  ASSUME EncryptInv, NEW t \in Threads, DrawPrefix(t)
  PROVE  EncryptInv'
<1>1. CASE Fail(t, "MC_ERR_CRYPTO")
  BY <1>1, FailKeepsInv DEF Statuses
<1>2. CASE ~Fail(t, "MC_ERR_CRYPTO")
  <2>1. PICK p \in Prefixes :
        /\ pc[t] = "prefix"
        /\ hdr' = [hdr EXCEPT ![t] = NewHeader(req[t], hdr[t].salt, p)]
        /\ pc' = [pc EXCEPT ![t] = "kdf"]
        /\ UNCHANGED <<req, calls, index, offset, chunk, recs, buf, status,
                       out, drawn, sealed, issued>>
    BY <1>2 DEF DrawPrefix, Goto, callVars, loopVars
  <2> DEFINE h == NewHeader(req[t], hdr[t].salt, p)
  <2>2. h.salt = hdr[t].salt /\ h = NewHeader(req[t], h.salt, h.nonce_prefix)
    BY DEF NewHeader
  <2> HIDE DEF h
  <2>3. hdr' = [hdr EXCEPT ![t] = h]
    BY <2>1 DEF h
  <2>4. TypeOK' /\ FunctionInv'
    <3>1. pc' \in [Threads -> States] /\ drawn' \in Nat
      BY <2>1, <2>3 DEF EncryptInv, TypeOK, States
    <3>2. \A u \in Threads : pc'[u] \in {"chunk", "seal"} => pc[u] = pc'[u]
      BY <2>1 DEF EncryptInv, TypeOK
    <3> QED BY <2>1, <3>1, <3>2 DEF EncryptInv, TypeOK, FunctionInv
  <2>5. ASSUME NEW u \in Threads PROVE CallInv(u)' /\ RoomInv(u)'
    <3>1. CASE u = t
      <4>1. pc'[t] = "kdf" /\ hdr'[t] = h
        BY <2>1, <2>3 DEF EncryptInv, TypeOK, FunctionInv
      <4> QED BY <2>1, <2>2, <3>1, <4>1
                 DEF EncryptInv, CallInv, RoomInv, Checked
    <3>2. CASE u # t
      BY <2>1, <2>3, <3>2, OthersKept DEF EncryptInv, TypeOK, FunctionInv
    <3> QED BY <3>1, <3>2
  <2>6. \A u \in Threads : pc'[u] \in Salted =>
            /\ pc[u] \in Salted /\ hdr'[u].salt = hdr[u].salt
            /\ calls'[u] = calls[u] /\ index'[u] = index[u]
      BY <2>1, <2>2, <2>3 DEF EncryptInv, TypeOK, FunctionInv, Salted, Checked
  <2>7. SealedInv' /\ IssuedInv' /\ SaltInv'
    BY <2>1, <2>6, SaltsKept
  <2> QED BY <2>4, <2>5, <2>7 DEF EncryptInv
<1> QED BY <1>1, <1>2

(* The steps that change neither the header nor how far the loop is.       *)
LEMMA HeaderKept ==
  ASSUME EncryptInv, NEW t \in Threads, pc[t] \in Salted,
         NEW step \in Salted, pc' = [pc EXCEPT ![t] = step],
         UNCHANGED <<req, calls, hdr, index, recs, status, out, drawn, sealed,
                     issued>>,
         offset' \in [Threads -> Nat], buf' \in [Threads -> [Buffers -> Nat]],
         chunk' \in [Threads -> [stored : Nat, flags : SUBSET {"compressed"}]],
         \A u \in Threads \ {t} : /\ offset'[u] = offset[u]
                                  /\ buf'[u] = buf[u] /\ chunk'[u] = chunk[u],
         RoomInv(t)'
  PROVE  EncryptInv'
<1>1. \A u \in Threads : pc'[u] = IF u = t THEN step ELSE pc[u]
  BY DEF EncryptInv, TypeOK
<1>2. TypeOK'
  <2>1. \A u \in Threads : pc'[u] \in {"chunk", "seal"} =>
          DOMAIN recs'[u] = 0..(index'[u] - 1)
    BY <1>1 DEF EncryptInv, TypeOK, RoomInv
  <2>2. pc' \in [Threads -> States]
    BY DEF EncryptInv, TypeOK, States, Salted, Checked
  <2> QED BY <2>1, <2>2 DEF EncryptInv, TypeOK
<1>3. FunctionInv'
  BY DEF EncryptInv, FunctionInv
<1>4. ASSUME NEW u \in Threads PROVE CallInv(u)' /\ RoomInv(u)'
  <2>1. CASE u = t
    BY <1>1, <2>1 DEF EncryptInv, CallInv, Salted, Checked
  <2>2. CASE u # t
    BY <1>1, <2>2, OthersKept
  <2> QED BY <2>1, <2>2
<1>5. SealedInv' /\ IssuedInv' /\ SaltInv'
  BY <1>1, SaltsKept
<1> QED BY <1>2, <1>3, <1>4, <1>5 DEF EncryptInv

LEMMA DeriveKeyKeepsInv ==
  ASSUME EncryptInv, NEW t \in Threads, DeriveKey(t)
  PROVE  EncryptInv'
<1>1. CASE \E rc \in Statuses : Fail(t, rc)
  BY <1>1, FailKeepsInv
<1>2. CASE ~\E rc \in Statuses : Fail(t, rc)
  <2>1. /\ pc[t] = "kdf" /\ pc' = [pc EXCEPT ![t] = "file"]
        /\ Allocated(t, "derived", KeySize)
        /\ UNCHANGED <<req, calls, hdr, index, offset, chunk, recs, status,
                       out, drawn, sealed, issued>>
    BY <1>2 DEF DeriveKey, Statuses, Goto, callVars, loopVars
  <2>2. SizeT(KeySize) \in Nat
    BY EncryptAssumption, FormatAssumption, WrapType DEF SizeT
  <2>3. /\ buf' \in [Threads -> [Buffers -> Nat]]
        /\ \A u \in Threads \ {t} : buf'[u] = buf[u]
    BY <2>1, <2>2 DEF EncryptInv, TypeOK, Allocated
  <2>4. RoomInv(t)'
    BY <2>1 DEF EncryptInv, TypeOK, RoomInv
  <2>5. /\ offset' \in [Threads -> Nat]
        /\ chunk' \in [Threads -> [stored : Nat, flags : SUBSET {"compressed"}]]
    BY <2>1 DEF EncryptInv, TypeOK
  <2> QED BY <2>1, <2>3, <2>4, <2>5, HeaderKept DEF Salted, Checked
<1> QED BY <1>1, <1>2

LEMMA AllocateFileKeepsInv ==
  ASSUME EncryptInv, NEW t \in Threads, AllocateFile(t)
  PROVE  EncryptInv'
<1>1. CASE \E rc \in Statuses : Fail(t, rc)
  BY <1>1, FailKeepsInv
<1>2. CASE ~\E rc \in Statuses : Fail(t, rc)
  <2>1. /\ pc[t] = "file" /\ pc' = [pc EXCEPT ![t] = "scratch"]
        /\ ~(WorstCase(hdr[t]) > SizeMax)
        /\ Allocated(t, "file", WorstCase(hdr[t]))
        /\ offset' = [offset EXCEPT ![t] = HeaderSize]
        /\ UNCHANGED <<req, calls, hdr, index, chunk, recs, status,
                       out, drawn, sealed, issued>>
    BY <1>2 DEF AllocateFile, TooBig, Statuses, Goto, callVars
  <2>2. /\ WorstCase(hdr[t]) \in Nat /\ hdr[t].plaintext_size \in Nat
        /\ hdr[t].chunk_count \in Nat /\ hdr[t].chunk_size \in Nat
    BY <2>1, CheckedCall, FormatAssumption DEF Checked
  <2>3. SizeT(WorstCase(hdr[t])) = WorstCase(hdr[t])
    BY <2>1, <2>2, FormatAssumption, WrapSmall DEF SizeT
  <2>4. /\ buf' \in [Threads -> [Buffers -> Nat]]
        /\ buf'[t]["file"] = WorstCase(hdr[t])
        /\ \A u \in Threads \ {t} : buf'[u] = buf[u]
    BY <2>1, <2>2, <2>3 DEF EncryptInv, TypeOK, Allocated, Buffers
  <2>5. /\ offset' \in [Threads -> Nat] /\ offset'[t] = HeaderSize
        /\ \A u \in Threads \ {t} : offset'[u] = offset[u]
    BY <2>1, FormatAssumption DEF EncryptInv, TypeOK
  <2>6. RoomInv(t)'
    <3>1. /\ index[t] = 0 /\ index'[t] = 0 /\ pc'[t] = "scratch"
          /\ DOMAIN recs'[t] = 0..(index'[t] - 1)
      BY <2>1 DEF EncryptInv, TypeOK, RoomInv
    <3>2. Before(hdr[t].plaintext_size, hdr[t].chunk_size, 0) \in Nat
      BY <2>2, BeforeNext
    <3>3. HeaderSize <= HeaderSize + 0 * ChunkHeaderSize
            + Before(hdr[t].plaintext_size, hdr[t].chunk_size, 0)
      BY <3>2, FormatAssumption
    <3> QED BY <2>1, <2>2, <2>4, <2>5, <3>1, <3>3 DEF RoomInv
  <2>7. chunk' \in [Threads -> [stored : Nat, flags : SUBSET {"compressed"}]]
    BY <2>1 DEF EncryptInv, TypeOK
  <2> QED BY <2>1, <2>4, <2>5, <2>6, <2>7, HeaderKept DEF Salted, Checked
<1> QED BY <1>1, <1>2

LEMMA AllocateScratchKeepsInv ==
  ASSUME EncryptInv, NEW t \in Threads, AllocateScratch(t)
  PROVE  EncryptInv'
<1>1. CASE Fail(t, "MC_ERR_MEMORY")
  BY <1>1, FailKeepsInv DEF Statuses
<1>2. CASE ~Fail(t, "MC_ERR_MEMORY")
  <2>1. /\ pc[t] = "scratch" /\ pc' = [pc EXCEPT ![t] = "chunk"]
        /\ \/ Allocated(t, "scratch", MaxStoredSizeFor(req[t].opts.chunk_size))
           \/ UNCHANGED buf
        /\ UNCHANGED <<req, calls, hdr, index, offset, chunk, recs, status,
                       out, drawn, sealed, issued>>
    BY <1>2 DEF AllocateScratch, Goto, callVars, loopVars
  <2>2. SizeT(MaxStoredSizeFor(req[t].opts.chunk_size)) \in Nat
    <3>1. req[t].opts.chunk_size \in MinChunkSize..MaxChunkSize
      BY <2>1, CheckedCall DEF Checked
    <3>2. MaxStoredSizeFor(req[t].opts.chunk_size) \in 0..(U32 - 1)
      BY <3>1, MaxStoredSizeExact
    <3> QED BY <3>2, FormatAssumption, WrapType DEF SizeT
  <2>3. /\ buf' \in [Threads -> [Buffers -> Nat]]
        /\ buf'[t]["file"] = buf[t]["file"]
        /\ \A u \in Threads \ {t} : buf'[u] = buf[u]
    <3> DEFINE size == SizeT(MaxStoredSizeFor(req[t].opts.chunk_size))
    <3>1. buf \in [Threads -> [Buffers -> Nat]]
      BY DEF EncryptInv, TypeOK
    <3>2. CASE buf' = buf
      BY <3>1, <3>2
    <3>3. CASE buf' = [buf EXCEPT ![t]["scratch"] = size]
      <4> HIDE DEF size
      <4>1. size \in Nat
        BY <2>2 DEF size
      <4> QED BY <3>1, <3>3, <4>1 DEF Buffers
    <3> QED BY <2>1, <3>2, <3>3 DEF Allocated
  <2>4. RoomInv(t)'
    <3>1. /\ buf[t]["file"] = WorstCase(hdr[t])
          /\ index[t] <= hdr[t].chunk_count
          /\ offset[t] <= HeaderSize + index[t] * ChunkHeaderSize
               + Before(hdr[t].plaintext_size, hdr[t].chunk_size, index[t])
          /\ index[t] = 0
          /\ DOMAIN recs[t] = 0..(index[t] - 1)
      BY <2>1 DEF EncryptInv, RoomInv
    <3> QED BY <2>1, <2>3, <3>1 DEF EncryptInv, TypeOK, RoomInv
  <2>5. /\ offset' \in [Threads -> Nat]
        /\ chunk' \in [Threads -> [stored : Nat, flags : SUBSET {"compressed"}]]
    BY <2>1 DEF EncryptInv, TypeOK
  <2> QED BY <2>1, <2>3, <2>4, <2>5, HeaderKept DEF Salted, Checked
<1> QED BY <1>1, <1>2

LEMMA CompressChunkKeepsInv ==
  ASSUME EncryptInv, NEW t \in Threads, CompressChunk(t)
  PROVE  EncryptInv'
<1>1. CASE \E rc \in Statuses : Fail(t, rc)
  BY <1>1, FailKeepsInv
<1>2. CASE ~\E rc \in Statuses : Fail(t, rc)
  <2>1. /\ pc[t] = "chunk" /\ index[t] < hdr[t].chunk_count
        /\ \/ chunk' = [chunk EXCEPT ![t] = RawChunk(t)]
           \/ \E n \in Smaller(t) :
                chunk' = [chunk EXCEPT ![t] =
                           [stored |-> UInt32(n), flags |-> {"compressed"}]]
        /\ pc' = [pc EXCEPT ![t] = "seal"]
        /\ UNCHANGED <<req, calls, hdr, index, offset, recs, buf, status,
                       out, drawn, sealed, issued>>
    BY <1>2 DEF CompressChunk, Statuses, Goto, callVars
  <2>2. PlainSize(t) \in Nat /\ PlainSize(t) < U32
    BY <2>1, CheckedCall, FormatAssumption DEF Checked
  <2>3. \A n \in Nat : n <= PlainSize(t) => UInt32(n) = n
    BY <2>2, FormatAssumption, WrapSmall DEF UInt32
  <2>4. PICK c \in [stored : Nat, flags : SUBSET {"compressed"}] :
          chunk' = [chunk EXCEPT ![t] = c] /\ c.stored <= PlainSize(t)
    <3>1. CASE chunk' = [chunk EXCEPT ![t] = RawChunk(t)]
      <4>1. UInt32(PlainSize(t)) = PlainSize(t)
        BY <2>2, <2>3
      <4>2. /\ RawChunk(t) \in [stored : Nat, flags : SUBSET {"compressed"}]
            /\ RawChunk(t).stored <= PlainSize(t)
        BY <2>2, <4>1 DEF RawChunk
      <4> QED BY <3>1, <4>2
    <3>2. ASSUME NEW n \in Smaller(t),
                 chunk' = [chunk EXCEPT ![t] =
                           [stored |-> UInt32(n), flags |-> {"compressed"}]]
          PROVE  \E c \in [stored : Nat, flags : SUBSET {"compressed"}] :
                   chunk' = [chunk EXCEPT ![t] = c] /\ c.stored <= PlainSize(t)
      <4>1. n \in Nat /\ n < PlainSize(t)
        BY DEF Smaller
      <4>2. UInt32(n) = n
        BY <2>2, <2>3, <4>1
      <4> DEFINE c == [stored |-> UInt32(n), flags |-> {"compressed"}]
      <4>3. c \in [stored : Nat, flags : SUBSET {"compressed"}]
            /\ c.stored <= PlainSize(t)
        BY <2>2, <4>1, <4>2
      <4>4. chunk' = [chunk EXCEPT ![t] = c]
        BY <3>2
      <4> QED BY <4>3, <4>4
    <3> QED BY <2>1, <3>1, <3>2
  <2>5. /\ chunk' \in [Threads -> [stored : Nat, flags : SUBSET {"compressed"}]]
        /\ \A u \in Threads \ {t} : chunk'[u] = chunk[u]
        /\ chunk'[t] = c
    BY <2>4 DEF EncryptInv, TypeOK
  <2>6. RoomInv(t)'
    BY <2>1, <2>4, <2>5 DEF EncryptInv, TypeOK, RoomInv, PlainSize
  <2>7. offset' \in [Threads -> Nat] /\ buf' \in [Threads -> [Buffers -> Nat]]
    BY <2>1 DEF EncryptInv, TypeOK
  <2> QED BY <2>1, <2>5, <2>6, <2>7, HeaderKept DEF Salted, Checked
<1> QED BY <1>1, <1>2

(* The record being sealed fits, whatever is written before it: one record *)
(* and its bytes beyond `offset` is within the worst case.                 *)
LEMMA RecordFits ==
  ASSUME EncryptInv, NEW t \in Threads, pc[t] = "seal"
  PROVE  /\ RecordEnd(t) \in Nat /\ RecordEnd(t) <= buf[t]["file"]
         /\ RecordEnd(t) <= HeaderSize + (index[t] + 1) * ChunkHeaderSize
              + Before(hdr[t].plaintext_size, hdr[t].chunk_size, index[t] + 1)
<1> DEFINE size == hdr[t].plaintext_size
           c == hdr[t].chunk_size
           i == index[t]
<1>1. /\ size \in Nat /\ c \in Nat /\ i \in Nat /\ hdr[t].chunk_count \in Nat
      /\ WorstCase(hdr[t]) \in Nat /\ PlainSize(t) \in Nat
  BY CheckedCall, FormatAssumption DEF Checked
<1>2. /\ buf[t]["file"] = WorstCase(hdr[t]) /\ i < hdr[t].chunk_count
      /\ offset[t] <= HeaderSize + i * ChunkHeaderSize + Before(size, c, i)
      /\ chunk[t].stored <= PlainSize(t)
  BY DEF EncryptInv, RoomInv
<1>3. offset[t] \in Nat /\ chunk[t].stored \in Nat
  BY DEF EncryptInv, TypeOK
<1>4. /\ Before(size, c, i) \in Nat /\ Before(size, c, i + 1) \in 0..size
      /\ Before(size, c, i) + PlainSize(t) = Before(size, c, i + 1)
  <2> HIDE DEF size, c, i
  <2>1. PlainSize(t) = ChunkPlainSize(size, c, i)
    BY DEF PlainSize, size, c, i
  <2>2. Before(size, c, i) \in 0..size /\ Before(size, c, i + 1) \in 0..size
    <3>1. i + 1 \in Nat
      BY <1>1
    <3>2. Before(size, c, i + 1) \in 0..size
      BY <1>1, <3>1, BeforeNext
    <3> QED BY <1>1, <3>2, BeforeNext
  <2>3. Before(size, c, i) + ChunkPlainSize(size, c, i) = Before(size, c, i + 1)
    BY <1>1, BeforeNext
  <2> QED BY <1>1, <2>1, <2>2, <2>3
<1>5. /\ (i + 1) * ChunkHeaderSize = i * ChunkHeaderSize + ChunkHeaderSize
      /\ i * ChunkHeaderSize \in Nat
  BY <1>1, FormatAssumption
<1>6. RecordEnd(t) <= HeaderSize + (i + 1) * ChunkHeaderSize
                        + Before(size, c, i + 1)
  <2> HIDE DEF size, c, i
  <2> QED BY <1>1, <1>2, <1>3, <1>4, <1>5, FormatAssumption DEF RecordEnd
<1>7. HeaderSize + (i + 1) * ChunkHeaderSize + Before(size, c, i + 1)
        <= WorstCase(hdr[t])
  BY <1>1, <1>2, <1>4, WithinWorstCase DEF WorstCase
<1>8. RecordEnd(t) \in Nat
  BY <1>3, FormatAssumption DEF RecordEnd
<1>9. RecordEnd(t) <= buf[t]["file"]
  <2>1. HeaderSize + (i + 1) * ChunkHeaderSize + Before(size, c, i + 1) \in Nat
    <3> HIDE DEF size, c, i
    <3> QED BY <1>1, <1>4, <1>5, FormatAssumption
  <2> HIDE DEF size, c, i
  <2> QED BY <1>1, <1>2, <1>6, <1>7, <1>8, <2>1
<1> QED BY <1>6, <1>8, <1>9

LEMMA SealChunkKeepsInv ==
  ASSUME EncryptInv, NEW t \in Threads, SealChunk(t)
  PROVE  EncryptInv'
<1>1. CASE \E rc \in Statuses : Fail(t, rc)
  BY <1>1, FailKeepsInv
<1>2. CASE ~\E rc \in Statuses : Fail(t, rc)
  <2> DEFINE s == [thread |-> t, call |-> calls[t], index |-> index[t],
                   dk |-> DerivedOf(t), nonce |-> NonceOf(t)]
  <2>1. /\ pc[t] = "seal" /\ pc' = [pc EXCEPT ![t] = "chunk"]
        /\ recs' = [recs EXCEPT ![t] =
                     [i \in DOMAIN @ \cup {index[t]} |->
                        IF i = index[t] THEN NewRecord(t) ELSE @[i]]]
        /\ sealed' = sealed \cup {s}
        /\ offset' = [offset EXCEPT ![t] = RecordEnd(t)]
        /\ index' = [index EXCEPT ![t] = index[t] + 1]
        /\ chunk' = [chunk EXCEPT ![t] = NoChunk]
        /\ UNCHANGED <<req, calls, hdr, buf, status, out, drawn, issued>>
    BY <1>2 DEF SealChunk, NextIndex, Statuses, Goto, callVars
  <2>2. /\ index[t] \in Nat /\ hdr[t].chunk_count \in 1..(U32 - 1)
        /\ index[t] < hdr[t].chunk_count
    BY <2>1, CheckedCall DEF Checked, EncryptInv, RoomInv
  <2>3. /\ RecordEnd(t) \in Nat
        /\ RecordEnd(t) <= HeaderSize + (index[t] + 1) * ChunkHeaderSize
             + Before(hdr[t].plaintext_size, hdr[t].chunk_size, index[t] + 1)
    BY <2>1, RecordFits
  <2>4. s.dk.salt = hdr[t].salt /\ s.thread = t /\ s.call = calls[t]
        /\ s.index = index[t] /\ s.nonce.counter = index[t]
    <3>1. UInt32(index[t]) = index[t]
      BY <2>2, FormatAssumption, WrapSmall DEF UInt32
    <3> QED BY <3>1 DEF DerivedOf, DerivedKey, NonceOf, BuildNonce
  <2>5. s = [thread |-> s.thread, call |-> s.call, index |-> s.index,
             dk |-> s.dk, nonce |-> s.nonce]
    OBVIOUS
  <2> HIDE DEF s
  <2>6. /\ DOMAIN recs'[t] = 0..((index[t] + 1) - 1)
        /\ \A u \in Threads \ {t} : recs'[u] = recs[u]
    <3>1. DOMAIN recs[t] = 0..(index[t] - 1)
      BY DEF EncryptInv, RoomInv
    <3>2. /\ recs'[t] = [i \in DOMAIN recs[t] \cup {index[t]} |->
                        IF i = index[t] THEN NewRecord(t) ELSE recs[t][i]]
          /\ \A u \in Threads \ {t} : recs'[u] = recs[u]
      BY <2>1 DEF EncryptInv, FunctionInv
    <3> HIDE DEF NewRecord
    <3>3. (0..(index[t] - 1)) \cup {index[t]} = 0..((index[t] + 1) - 1)
      BY <2>2
    <3> QED BY <3>1, <3>2, <3>3
  <2>7. /\ index' \in [Threads -> Nat] /\ index'[t] = index[t] + 1
        /\ offset' \in [Threads -> Nat] /\ offset'[t] = RecordEnd(t)
        /\ chunk' \in [Threads -> [stored : Nat, flags : SUBSET {"compressed"}]]
        /\ \A u \in Threads \ {t} : /\ index'[u] = index[u]
                                    /\ offset'[u] = offset[u]
                                    /\ chunk'[u] = chunk[u]
    BY <2>1, <2>2, <2>3 DEF EncryptInv, TypeOK, NoChunk
  <2>8. \A u \in Threads : pc'[u] = IF u = t THEN "chunk" ELSE pc[u]
    BY <2>1 DEF EncryptInv, TypeOK
  <2>9. TypeOK'
    <3>1. \A u \in Threads : pc'[u] \in {"chunk", "seal"} =>
            DOMAIN recs'[u] = 0..(index'[u] - 1)
      BY <2>6, <2>7, <2>8 DEF EncryptInv, TypeOK
    <3>2. pc' \in [Threads -> States]
      BY <2>1 DEF EncryptInv, TypeOK, States
    <3> QED BY <2>1, <2>7, <3>1, <3>2 DEF EncryptInv, TypeOK
  <2>10. FunctionInv'
    BY <2>1 DEF EncryptInv, FunctionInv
  <2>11. ASSUME NEW u \in Threads PROVE CallInv(u)' /\ RoomInv(u)'
    <3>1. CASE u = t
      <4>1. CallInv(t)'
        BY <2>1, <2>8 DEF EncryptInv, CallInv, Checked
      <4>2. buf'[t]["file"] = WorstCase(hdr'[t])
        BY <2>1 DEF EncryptInv, RoomInv
      <4>3. index'[t] <= hdr'[t].chunk_count
        BY <2>1, <2>2, <2>7, FormatAssumption
      <4> QED BY <2>1, <2>3, <2>6, <2>7, <2>8, <3>1, <4>1, <4>2, <4>3
                 DEF RoomInv
    <3>2. CASE u # t
      BY <2>1, <2>6, <2>7, <2>8, <3>2, OthersKept
    <3> QED BY <3>1, <3>2
  <2>12. SealedInv' /\ IssuedInv'
    <3>1. s.dk.salt \in 1..drawn
      BY <2>1, <2>4 DEF EncryptInv, SaltInv, Salted, Checked
    <3> QED BY <2>1, <2>2, <2>4, <2>5, <3>1 DEF EncryptInv, SealedInv, IssuedInv
  <2>13. SaltInv'
    <3>1. /\ \A r \in sealed : r.dk.salt = hdr[t].salt =>
               r.thread = t /\ r.call = calls[t] /\ r.index < index[t]
          /\ \A u \in Threads :
               pc[u] \in Salted /\ hdr[u].salt = hdr[t].salt => u = t
      BY <2>1 DEF EncryptInv, SaltInv, Salted, Checked
    <3>2. \A u \in Threads : pc'[u] \in Salted => pc[u] \in Salted
      BY <2>1, <2>8 DEF Salted, Checked
    <3>3. ASSUME NEW u \in Threads, pc'[u] \in Salted
          PROVE  /\ hdr[u].salt \in 1..drawn
                 /\ \A v \in Threads :
                      pc'[v] \in Salted /\ hdr[v].salt = hdr[u].salt => v = u
                 /\ \A r \in sealed' : r.dk.salt = hdr[u].salt =>
                      r.thread = u /\ r.call = calls[u] /\ r.index < index'[u]
                 /\ \A w \in issued : w.file.hdr.salt # hdr[u].salt
      <4>1. /\ hdr[u].salt \in 1..drawn
            /\ \A v \in Threads :
                 pc[v] \in Salted /\ hdr[v].salt = hdr[u].salt => v = u
            /\ \A r \in sealed : r.dk.salt = hdr[u].salt =>
                 r.thread = u /\ r.call = calls[u] /\ r.index < index[u]
            /\ \A w \in issued : w.file.hdr.salt # hdr[u].salt
        BY <3>2, <3>3 DEF EncryptInv, SaltInv
      <4>2. ASSUME NEW r \in sealed', r.dk.salt = hdr[u].salt
            PROVE  r.thread = u /\ r.call = calls[u] /\ r.index < index'[u]
        <5>1. CASE r = s
          <6>1. u = t
            BY <2>1, <2>4, <3>1, <3>2, <3>3, <4>2, <5>1
          <6> QED BY <2>2, <2>4, <2>7, <5>1, <6>1
        <5>2. CASE r \in sealed
          <6>1. CASE u = t
            <7>1. r.thread = t /\ r.call = calls[t] /\ r.index < index[t]
              BY <3>1, <4>2, <5>2, <6>1
            <7>2. r.index \in Int
              BY <5>2 DEF EncryptInv, SealedInv
            <7> QED BY <2>2, <2>7, <6>1, <7>1, <7>2
          <6>2. CASE u # t
            BY <2>7, <4>1, <4>2, <5>2, <6>2
          <6> QED BY <6>1, <6>2
        <5> QED BY <2>1, <5>1, <5>2
      <4> QED BY <3>2, <4>1, <4>2
    <3>4. ASSUME NEW a \in sealed', NEW b \in sealed', a.dk.salt = b.dk.salt
          PROVE  a.thread = b.thread /\ a.call = b.call
      <4>1. CASE a \in sealed /\ b \in sealed
        BY <3>4, <4>1 DEF EncryptInv, SaltInv
      <4>2. CASE a = s \/ b = s
        BY <2>1, <2>4, <3>1, <3>4, <4>2
      <4> QED BY <2>1, <4>1, <4>2
    <3>5. \A v, w \in issued : v.file.hdr.salt = w.file.hdr.salt => v = w
      BY DEF EncryptInv, SaltInv
    <3> QED BY <2>1, <3>3, <3>4, <3>5 DEF SaltInv
  <2> QED BY <2>9, <2>10, <2>11, <2>12, <2>13 DEF EncryptInv
<1> QED BY <1>1, <1>2

LEMMA FinishKeepsInv ==
  ASSUME EncryptInv, NEW t \in Threads, Finish(t)
  PROVE  EncryptInv'
<1>1. CASE Fail(t, "MC_ERR_MEMORY")
  BY <1>1, FailKeepsInv DEF Statuses
<1>2. CASE ~Fail(t, "MC_ERR_MEMORY")
  <2> DEFINE f == [hdr |-> hdr[t], recs |-> recs[t], size |-> FinalSize(t)]
             w == [key |-> req[t].key, plain |-> req[t].plain, file |-> f]
             o == [written |-> TRUE, file |-> f, bytes |-> FinalBytes(t)]
  <2>1. /\ pc[t] = "chunk" /\ Return(t, "MC_OK")
        /\ out' = [out EXCEPT ![t] = o] /\ issued' = issued \cup {w}
        /\ UNCHANGED <<req, calls, drawn, sealed>>
    BY <1>2 DEF Finish, callVars
  <2>2. w.file.hdr = hdr[t] /\ w.file.size = offset[t]
    BY DEF FinalSize
  <2>3. w.file.size <= kMaxFileSize
    <3>1. /\ hdr[t].plaintext_size \in 0..MaxPlaintextSize
          /\ hdr[t].chunk_size \in MinChunkSize..MaxChunkSize
          /\ hdr[t].chunk_count =
               ChunkCountFor(hdr[t].plaintext_size, hdr[t].chunk_size)
          /\ hdr[t].plaintext_size \in Nat /\ hdr[t].chunk_size \in Nat
          /\ hdr[t].chunk_count \in Nat /\ index[t] \in Nat
          /\ WorstCase(hdr[t]) \in Nat
      BY <2>1, CheckedCall, FormatAssumption DEF Checked
    <3> DEFINE before ==
          Before(hdr[t].plaintext_size, hdr[t].chunk_size, index[t])
    <3>2. /\ index[t] <= hdr[t].chunk_count
          /\ offset[t] <= HeaderSize + index[t] * ChunkHeaderSize + before
      BY <2>1 DEF EncryptInv, RoomInv
    <3>3. before \in 0..hdr[t].plaintext_size
      BY <3>1, BeforeNext
    <3> HIDE DEF before
    <3>4. HeaderSize + index[t] * ChunkHeaderSize + before <= WorstCase(hdr[t])
      BY <3>1, <3>2, <3>3, WithinWorstCase DEF WorstCase
    <3>5. WorstCase(hdr[t]) <= kMaxFileSize
      BY <3>1, WorstCaseReadable DEF WorstCase
    <3>6. /\ HeaderSize + index[t] * ChunkHeaderSize + before \in Nat
          /\ kMaxFileSize \in Int /\ offset[t] \in Nat
      <4>1. index[t] * ChunkHeaderSize \in Nat
        BY <3>1, FormatAssumption
      <4>2. MaxPlaintextSize \div MinChunkSize \in Int
        BY FormatAssumption
      <4>3. kMaxFileSize \in Int
        <5>1. (MaxPlaintextSize \div MinChunkSize) * ChunkHeaderSize \in Int
          BY <4>2, FormatAssumption
        <5> QED BY <5>1, FormatAssumption DEF kMaxFileSize
      <4>4. HeaderSize + index[t] * ChunkHeaderSize + before \in Nat
        BY <3>1, <3>3, <4>1, FormatAssumption
      <4>5. offset[t] \in Nat
        BY DEF EncryptInv, TypeOK
      <4> QED BY <4>3, <4>4, <4>5
    <3> QED BY <2>2, <3>1, <3>2, <3>4, <3>5, <3>6
  <2> HIDE DEF f, w, o
  <2>4. /\ pc' = [pc EXCEPT ![t] = "returned"]
        /\ status' = [status EXCEPT ![t] = "MC_OK"]
        /\ hdr' = [hdr EXCEPT ![t] = NoHeader]
        /\ index' = [index EXCEPT ![t] = 0] /\ offset' = [offset EXCEPT ![t] = 0]
        /\ chunk' = [chunk EXCEPT ![t] = NoChunk]
        /\ recs' = [recs EXCEPT ![t] = NoRecords]
        /\ buf' = [buf EXCEPT ![t] = NoBuffers]
    BY <2>1 DEF Return, Goto
  <2>5. \A u \in Threads : /\ pc'[u] = IF u = t THEN "returned" ELSE pc[u]
                           /\ u # t => /\ hdr'[u] = hdr[u] /\ recs'[u] = recs[u]
                                       /\ index'[u] = index[u]
    BY <2>4 DEF EncryptInv, TypeOK, FunctionInv
  <2>6. TypeOK'
    BY <2>1, <2>4
       DEF EncryptInv, TypeOK, States, Statuses, NoChunk, NoBuffers, Buffers
  <2>7. FunctionInv'
    BY <2>1, <2>4 DEF EncryptInv, FunctionInv
  <2>8. ASSUME NEW u \in Threads PROVE CallInv(u)' /\ RoomInv(u)'
    <3>1. CASE u = t
      <4>1. /\ pc'[t] = "returned" /\ index'[t] = 0 /\ recs'[t] = NoRecords
        BY <2>4 DEF EncryptInv, TypeOK, FunctionInv
      <4>2. DOMAIN NoRecords = 0..(0 - 1)
        BY DEF NoRecords
      <4> QED BY <3>1, <4>1, <4>2 DEF CallInv, RoomInv, Checked
    <3>2. CASE u # t
      BY <2>1, <2>4, <2>5, <3>2, OthersKept DEF EncryptInv, TypeOK
    <3> QED BY <3>1, <3>2
  <2>9. hdr[t].salt \in 1..drawn
    BY <2>1 DEF EncryptInv, SaltInv, Salted, Checked
  <2>10. SealedInv' /\ IssuedInv'
    BY <2>1, <2>2, <2>3, <2>9 DEF EncryptInv, SealedInv, IssuedInv
  <2>11. SaltInv'
    <3>1. /\ \A v \in issued : v.file.hdr.salt # hdr[t].salt
          /\ \A u \in Threads :
               pc[u] \in Salted /\ hdr[u].salt = hdr[t].salt => u = t
      BY <2>1 DEF EncryptInv, SaltInv, Salted, Checked
    <3>2. \A u \in Threads : pc'[u] \in Salted => u # t /\ pc[u] \in Salted
      BY <2>5 DEF Salted, Checked
    <3>3. ASSUME NEW u \in Threads, pc'[u] \in Salted
          PROVE  /\ hdr'[u].salt \in 1..drawn
                 /\ \A v \in Threads :
                      pc'[v] \in Salted /\ hdr'[v].salt = hdr'[u].salt => v = u
                 /\ \A s \in sealed : s.dk.salt = hdr'[u].salt =>
                      s.thread = u /\ s.call = calls[u] /\ s.index < index'[u]
                 /\ \A v \in issued' : v.file.hdr.salt # hdr'[u].salt
      <4>1. u # t /\ pc[u] \in Salted /\ hdr'[u] = hdr[u] /\ index'[u] = index[u]
        BY <2>5, <3>2, <3>3
      <4>2. /\ hdr[u].salt \in 1..drawn
            /\ \A v \in Threads :
                 pc[v] \in Salted /\ hdr[v].salt = hdr[u].salt => v = u
            /\ \A s \in sealed : s.dk.salt = hdr[u].salt =>
                 s.thread = u /\ s.call = calls[u] /\ s.index < index[u]
            /\ \A v \in issued : v.file.hdr.salt # hdr[u].salt
        BY <4>1 DEF EncryptInv, SaltInv
      <4>3. \A v \in Threads :
              pc'[v] \in Salted /\ hdr'[v].salt = hdr'[u].salt => v = u
        BY <2>5, <3>2, <4>1, <4>2
      <4>4. \A v \in issued' : v.file.hdr.salt # hdr[u].salt
        BY <2>1, <2>2, <3>1, <4>1, <4>2
      <4> QED BY <4>1, <4>2, <4>3, <4>4
    <3>4. \A v, x \in issued' : v.file.hdr.salt = x.file.hdr.salt => v = x
      BY <2>1, <2>2, <3>1 DEF EncryptInv, SaltInv
    <3>5. \A a, b \in sealed :
            a.dk.salt = b.dk.salt => a.thread = b.thread /\ a.call = b.call
      BY DEF EncryptInv, SaltInv
    <3> QED BY <2>1, <3>3, <3>4, <3>5 DEF SaltInv
  <2> QED BY <2>6, <2>7, <2>8, <2>10, <2>11 DEF EncryptInv
<1> QED BY <1>1, <1>2

LEMMA NextKeepsInv == EncryptInv /\ [Next]_vars => EncryptInv'
<1> SUFFICES ASSUME EncryptInv, [Next]_vars PROVE EncryptInv'
  OBVIOUS
<1>1. ASSUME NEW t \in Threads, Call(t) \/ Collect(t) PROVE EncryptInv'
  BY <1>1, CallKeepsInv
<1>2. ASSUME NEW t \in Threads, Step(t) PROVE EncryptInv'
  BY <1>2, CheckArgumentsKeepsInv, DrawSaltKeepsInv, DrawPrefixKeepsInv,
     DeriveKeyKeepsInv, AllocateFileKeepsInv, AllocateScratchKeepsInv,
     CompressChunkKeepsInv, SealChunkKeepsInv, FinishKeepsInv DEF Step
<1>3. CASE UNCHANGED vars
  <2> USE <1>3 DEF vars, callVars, loopVars
  <2>1. TypeOK' /\ FunctionInv'
    BY DEF EncryptInv, TypeOK, FunctionInv
  <2>2. ASSUME NEW u \in Threads PROVE CallInv(u)' /\ RoomInv(u)'
    BY OthersKept
  <2>3. SealedInv' /\ IssuedInv' /\ SaltInv'
    BY SaltsKept
  <2> QED BY <2>1, <2>2, <2>3 DEF EncryptInv
<1> QED BY <1>1, <1>2, <1>3 DEF Next

----------------------------------------------------------------------------
(* The theorems.                                                           *)

(* EncryptInv holds in every state of every execution.                     *)
THEOREM EncryptInvariant == Spec => []EncryptInv
<1>1. Init => EncryptInv
  BY InitInv
<1>2. EncryptInv /\ [Next]_vars => EncryptInv'
  BY NextKeepsInv
<1> QED BY <1>1, <1>2, PTL DEF Spec

(* The variables of encrypt.cc's calls keep their types.                   *)
THEOREM EncryptTypes == Spec => []TypeOK
<1>1. EncryptInv => TypeOK
  BY DEF EncryptInv
<1> QED BY <1>1, EncryptInvariant, PTL

(***************************************************************************)
(* Whatever the plaintext, the chunk size and the outcomes of deflate, the *)
(* next record fits in what encrypt.cc:150-160 allocated: the check at     *)
(* 206-209 never fires.                                                    *)
(***************************************************************************)
THEOREM WorstCaseSuffices == Spec => []RoomForChunk
<1>1. EncryptInv => RoomForChunk
  <2> SUFFICES ASSUME EncryptInv, NEW t \in Threads
               PROVE  /\ pc[t] = "seal" => RecordEnd(t) <= buf[t]["file"]
                      /\ pc[t] = "chunk" => offset[t] <= buf[t]["file"]
    BY DEF RoomForChunk
  <2>1. pc[t] = "seal" => RecordEnd(t) <= buf[t]["file"]
    BY RecordFits
  <2>2. ASSUME pc[t] = "chunk" PROVE offset[t] <= buf[t]["file"]
    <3>1. /\ hdr[t].plaintext_size \in Nat /\ hdr[t].chunk_size \in Nat
          /\ hdr[t].chunk_count \in Nat /\ index[t] \in Nat
          /\ WorstCase(hdr[t]) \in Nat
      BY <2>2, CheckedCall, FormatAssumption DEF Checked
    <3> DEFINE before ==
          Before(hdr[t].plaintext_size, hdr[t].chunk_size, index[t])
    <3>2. /\ index[t] <= hdr[t].chunk_count
          /\ offset[t] <= HeaderSize + index[t] * ChunkHeaderSize + before
          /\ buf[t]["file"] = WorstCase(hdr[t])
      BY <2>2 DEF EncryptInv, RoomInv
    <3>3. before \in 0..hdr[t].plaintext_size
      BY <3>1, BeforeNext
    <3> HIDE DEF before
    <3>4. HeaderSize + index[t] * ChunkHeaderSize + before <= WorstCase(hdr[t])
      BY <3>1, <3>2, <3>3, WithinWorstCase DEF WorstCase
    <3>5. offset[t] \in Nat
      BY DEF EncryptInv, TypeOK
    <3>6. HeaderSize + index[t] * ChunkHeaderSize + before \in Nat
      <4>1. index[t] * ChunkHeaderSize \in Nat
        BY <3>1, FormatAssumption
      <4> QED BY <3>1, <3>3, <4>1, FormatAssumption
    <3> QED BY <3>1, <3>2, <3>4, <3>5, <3>6
  <2> QED BY <2>1, <2>2
<1> QED BY <1>1, EncryptInvariant, PTL

(***************************************************************************)
(* No nonce seals twice under one derived key (format.cc:272-283), for any *)
(* number of threads and calls and whatever prefixes are drawn: a salt     *)
(* belongs to one call, and within the call the counter is the chunk's     *)
(* index, which a uint32_t holds without wrapping.                         *)
(***************************************************************************)
THEOREM NoncesAreFresh == Spec => []NonceNeverReused
<1>1. EncryptInv => NonceNeverReused
  <2> SUFFICES ASSUME EncryptInv, NEW a \in sealed, NEW b \in sealed,
                      a.dk = b.dk, a.nonce = b.nonce
               PROVE  a = b
    BY DEF NonceNeverReused
  <2>1. a.thread = b.thread /\ a.call = b.call
    BY DEF EncryptInv, SaltInv
  <2>2. a.index = b.index
    BY DEF EncryptInv, SealedInv
  <2> QED BY <2>1, <2>2 DEF EncryptInv, SealedInv
<1> QED BY <1>1, EncryptInvariant, PTL

(***************************************************************************)
(* No two finished files share a header (model_crypt.h:273): each call     *)
(* that finishes has drawn a salt of its own.  Decrypt's HeadersAreFresh   *)
(* assumes it of the files a caller can hold.                              *)
(***************************************************************************)
THEOREM FilesHaveFreshHeaders == Spec => []FreshHeaders
<1>1. EncryptInv => FreshHeaders
  BY DEF EncryptInv, SaltInv, FreshHeaders
<1> QED BY <1>1, EncryptInvariant, PTL

(* Every file a call returns is short enough for mc_decrypt_file to read   *)
(* back (format.h:97-102).                                                 *)
THEOREM FilesAreReadable == Spec => []WithinReadLimit
<1>1. EncryptInv => WithinReadLimit
  BY DEF EncryptInv, IssuedInv, WithinReadLimit
<1> QED BY <1>1, EncryptInvariant, PTL
----------------------------------------------------------------------------
(* The second invariant: the records written so far, and what is issued.   *)

\* A record of `plain` bytes holds them raw, or deflated and shorter.
StoredAs(h, rec, plain) ==
  \/ rec.flags = {} /\ rec.stored = plain
  \/ /\ rec.flags = {"compressed"} /\ rec.stored \in 1..(plain - 1)
     /\ h.compression_id = MC_COMPRESS_ZLIB

\* The records written so far follow each other up to write_offset.
Part(t) == [recs |-> recs[t]]

\* Record i is the one sealed for chunk i of what was asked for.
ChunkSealed(t, i) ==
  LET h == hdr[t]
      rec == recs[t][i]
  IN  /\ rec = SealedRecord(req[t].key, req[t].plain, h, i, rec.stored, rec.flags)
      /\ StoredAs(h, rec, ChunkPlainSize(h.plaintext_size, h.chunk_size, i))

RecordInv(t) ==
  /\ pc[t] \in Checked => req[t].key \in Keys
  /\ pc[t] \in {"scratch", "chunk", "seal"} =>
       offset[t] = RecordOffset(Part(t), index[t])
  /\ pc[t] = "seal" => StoredAs(hdr[t], chunk[t], PlainSize(t))
  /\ pc[t] \in {"chunk", "seal"} =>
       \A i \in 0..(index[t] - 1) : ChunkSealed(t, i)
  /\ recs[t] = [i \in DOMAIN recs[t] |-> recs[t][i]]

\* A call that did not return MC_OK has written nothing for its caller.
ReplyInv(t) ==
  /\ pc[t] # "returned" => status[t] = "none"
  /\ status[t] # "MC_OK" => out[t] = NoOut

\* What Decrypt.tla assumes of the files that were written.
Issued(w) == w.key \in Keys /\ FinishedFile(w) /\ IsFile(w.file)

FileInv ==
  /\ \A t \in Threads : RecordInv(t) /\ ReplyInv(t)
  /\ \A w \in issued : Issued(w)

(* What a step of t does not touch in a thread u, and nothing is issued.   *)
LEMMA RecordsKept ==
  ASSUME FileInv, NEW u \in Threads,
         pc'[u] = pc[u], req'[u] = req[u], hdr'[u] = hdr[u],
         index'[u] = index[u], offset'[u] = offset[u], chunk'[u] = chunk[u],
         recs'[u] = recs[u], status'[u] = status[u], out'[u] = out[u]
  PROVE  RecordInv(u)' /\ ReplyInv(u)'
BY DEF FileInv, RecordInv, ReplyInv, ChunkSealed, Part, PlainSize

(* It is enough to look at the thread that moves.                          *)
LEMMA OneThreadMoves ==
  ASSUME FileInv, NEW t \in Threads, RecordInv(t)', ReplyInv(t)',
         \A u \in Threads \ {t} :
           /\ pc'[u] = pc[u] /\ req'[u] = req[u] /\ hdr'[u] = hdr[u]
           /\ index'[u] = index[u] /\ offset'[u] = offset[u]
           /\ chunk'[u] = chunk[u] /\ recs'[u] = recs[u]
           /\ status'[u] = status[u] /\ out'[u] = out[u],
         \A w \in issued' : w \in issued \/ Issued(w)
  PROVE  FileInv'
<1>1. ASSUME NEW u \in Threads PROVE RecordInv(u)' /\ ReplyInv(u)'
  BY RecordsKept
<1>2. \A w \in issued' : Issued(w)
  BY DEF FileInv
<1> QED BY <1>1, <1>2 DEF FileInv

LEMMA InitFiles == Init => FileInv
BY DEF Init, FileInv, RecordInv, ReplyInv, Checked, NoRecords

LEMMA FailKeepsFiles ==
  ASSUME EncryptInv, FileInv, NEW t \in Threads, NEW rc, rc # "MC_OK",
         pc[t] # "returned", Fail(t, rc)
  PROVE  FileInv'
<1> USE DEF Fail, Return, Goto, callVars
<1>1. out[t] = NoOut
  BY DEF FileInv, ReplyInv
<1>2. pc'[t] = "returned" /\ status'[t] = rc /\ recs'[t] = NoRecords
  BY DEF EncryptInv, TypeOK, FunctionInv
<1>3. RecordInv(t)' /\ ReplyInv(t)'
  BY <1>1, <1>2 DEF RecordInv, ReplyInv, Checked, NoRecords
<1>4. \A u \in Threads \ {t} :
        /\ pc'[u] = pc[u] /\ req'[u] = req[u] /\ hdr'[u] = hdr[u]
        /\ index'[u] = index[u] /\ offset'[u] = offset[u]
        /\ chunk'[u] = chunk[u] /\ recs'[u] = recs[u]
        /\ status'[u] = status[u] /\ out'[u] = out[u]
  BY DEF EncryptInv, TypeOK, FunctionInv
<1> QED BY <1>3, <1>4, OneThreadMoves

LEMMA CallKeepsFiles ==
  ASSUME EncryptInv, FileInv, NEW t \in Threads, Call(t) \/ Collect(t)
  PROVE  FileInv'
<1> USE DEF Call, Collect, Goto, loopVars
<1>1. \A u \in Threads \ {t} :
        /\ pc'[u] = pc[u] /\ req'[u] = req[u] /\ hdr'[u] = hdr[u]
        /\ index'[u] = index[u] /\ offset'[u] = offset[u]
        /\ chunk'[u] = chunk[u] /\ recs'[u] = recs[u]
        /\ status'[u] = status[u] /\ out'[u] = out[u]
  BY DEF EncryptInv, TypeOK, FunctionInv
<1>2. CASE Call(t)
  <2>1. pc'[t] = "args" /\ status'[t] = "none" /\ out'[t] = NoOut
    BY <1>2 DEF EncryptInv, TypeOK, FileInv, ReplyInv
  <2>2. RecordInv(t)' /\ ReplyInv(t)'
    BY <2>1 DEF FileInv, RecordInv, ReplyInv, Checked
  <2> QED BY <1>1, <1>2, <2>2, OneThreadMoves
<1>3. CASE Collect(t)
  <2>1. pc'[t] = "idle" /\ status'[t] = "none" /\ out'[t] = NoOut
    BY <1>3 DEF EncryptInv, TypeOK, FunctionInv
  <2>2. RecordInv(t)' /\ ReplyInv(t)'
    BY <2>1 DEF FileInv, RecordInv, ReplyInv, Checked
  <2> QED BY <1>1, <1>3, <2>2, OneThreadMoves
<1> QED BY <1>2, <1>3

(* The steps that prepare the call: they check, draw, derive or allocate.  *)
Prepares(t) ==
  \/ CheckArguments(t) \/ DrawSalt(t) \/ DrawPrefix(t) \/ DeriveKey(t)
  \/ AllocateFile(t) \/ AllocateScratch(t)

LEMMA PrepareKeepsFiles ==
  ASSUME EncryptInv, FileInv, NEW t \in Threads, Prepares(t)
  PROVE  FileInv'
<1>0. pc[t] # "returned" /\ pc[t] \notin {"chunk", "seal"}
  BY DEF Prepares, CheckArguments, DrawSalt, DrawPrefix, DeriveKey,
         AllocateFile, AllocateScratch
<1>1. CASE \E rc \in Statuses \ {"MC_OK"} : Fail(t, rc)
  BY <1>0, <1>1, FailKeepsFiles
<1>2. CASE ~\E rc \in Statuses \ {"MC_OK"} : Fail(t, rc)
  <2> DEFINE Moves ==
        /\ pc'[t] \in {"salt", "prefix", "kdf", "file", "scratch", "chunk"}
        /\ pc'[t] = "salt" \/ pc[t] \in Checked
        /\ pc'[t] = "salt" => req[t].key \in Keys
        /\ pc'[t] = "scratch" => offset'[t] = HeaderSize
        /\ pc'[t] = "chunk" => pc[t] = "scratch" /\ offset'[t] = offset[t]
        /\ UNCHANGED <<req, index, chunk, recs, status, out, issued>>
        /\ \A u \in Threads \ {t} : /\ pc'[u] = pc[u] /\ hdr'[u] = hdr[u]
                                    /\ offset'[u] = offset[u]
  <2> USE DEF EncryptInv, TypeOK, FunctionInv, Statuses, Goto, callVars,
              loopVars, Checked
  <2>1. CheckArguments(t) => Moves
    BY <1>2 DEF CheckArguments
  <2>2. DrawSalt(t) => Moves
    BY <1>2 DEF DrawSalt
  <2>3. DrawPrefix(t) => Moves
    BY <1>2 DEF DrawPrefix
  <2>4. DeriveKey(t) => Moves
    BY <1>2 DEF DeriveKey
  <2>5. AllocateFile(t) => Moves
    BY <1>2 DEF AllocateFile
  <2>6. AllocateScratch(t) => Moves
    BY <1>2 DEF AllocateScratch
  <2>7. Moves
    BY <2>1, <2>2, <2>3, <2>4, <2>5, <2>6 DEF Prepares
  <2>8. index[t] = 0 /\ DOMAIN recs[t] = 0..(index[t] - 1)
    BY <1>0 DEF RoomInv
  <2>9. RecordInv(t)'
    <3>1. req'[t].key \in Keys
      BY <2>7 DEF FileInv, RecordInv
    <3>2. Part(t)' = Part(t) /\ index'[t] = 0
      BY <2>7, <2>8 DEF Part
    <3>3. RecordOffset(Part(t), 0) = HeaderSize
      <4>1. \A i \in Nat : RecordAt(Part(t), i) = ZeroRecord
        <5>1. Part(t).recs = recs[t]
          BY DEF Part
        <5> QED BY <2>8, <5>1 DEF RecordAt
      <4>2. Lengths(Part(t))
        BY <4>1 DEF Lengths, ZeroRecord
      <4> QED BY <4>2, RecordOffsetDef
    <3>4. pc'[t] = "chunk" => offset'[t] = HeaderSize
      BY <2>7, <2>8, <3>3 DEF FileInv, RecordInv
    <3>5. pc'[t] \in {"scratch", "chunk"} => offset'[t] = RecordOffset(Part(t), 0)
      BY <2>7, <3>3, <3>4
    <3>6. pc'[t] # "seal" /\ \A i \in 0..(index'[t] - 1) : FALSE
      BY <2>7, <3>2
    <3>7. recs'[t] = [i \in DOMAIN recs'[t] |-> recs'[t][i]]
      BY <2>7 DEF FileInv, RecordInv
    <3> QED BY <3>1, <3>2, <3>5, <3>6, <3>7 DEF RecordInv
  <2>10. ReplyInv(t)'
    BY <1>0, <2>7 DEF FileInv, ReplyInv
  <2> QED BY <2>7, <2>9, <2>10, OneThreadMoves
<1> QED BY <1>1, <1>2

(* The chunk about to be sealed is raw at its full length, or deflated and *)
(* shorter, and deflated only when the options ask for it.                 *)
LEMMA CompressKeepsFiles ==
  ASSUME EncryptInv, FileInv, NEW t \in Threads, CompressChunk(t)
  PROVE  FileInv'
<1>0. pc[t] = "chunk"
  BY DEF CompressChunk
<1>1. CASE \E rc \in Statuses \ {"MC_OK"} : Fail(t, rc)
  BY <1>0, <1>1, FailKeepsFiles
<1>2. CASE ~\E rc \in Statuses \ {"MC_OK"} : Fail(t, rc)
  <2>1. /\ \/ chunk' = [chunk EXCEPT ![t] = RawChunk(t)]
           \/ /\ WantCompression(t)
              /\ \E n \in Smaller(t) :
                   chunk' = [chunk EXCEPT ![t] =
                              [stored |-> UInt32(n), flags |-> {"compressed"}]]
        /\ pc' = [pc EXCEPT ![t] = "seal"]
        /\ UNCHANGED <<req, hdr, index, offset, recs, status, out, issued>>
    BY <1>2 DEF CompressChunk, Statuses, Goto, callVars
  <2>2. PlainSize(t) \in Nat /\ PlainSize(t) < U32
    BY <1>0, CheckedCall, FormatAssumption DEF Checked
  <2>3. \A n \in Nat : n <= PlainSize(t) => UInt32(n) = n
    BY <2>2, FormatAssumption, WrapSmall DEF UInt32
  <2>4. hdr[t].compression_id = req[t].opts.compression
    <3>1. hdr[t] = NewHeader(req[t], hdr[t].salt, hdr[t].nonce_prefix)
      BY <1>0 DEF EncryptInv, CallInv, Checked
    <3>2. NewHeader(req[t], hdr[t].salt, hdr[t].nonce_prefix).compression_id
            = req[t].opts.compression
      BY DEF NewHeader
    <3> QED BY <3>1, <3>2
  <2>5. StoredAs(hdr[t], chunk'[t], PlainSize(t))
    <3>1. CASE chunk' = [chunk EXCEPT ![t] = RawChunk(t)]
      <4>1. chunk'[t] = RawChunk(t)
        BY <3>1 DEF EncryptInv, TypeOK
      <4>2. UInt32(PlainSize(t)) = PlainSize(t)
        BY <2>2, <2>3
      <4> QED BY <4>1, <4>2 DEF RawChunk, StoredAs
    <3>2. ASSUME WantCompression(t), NEW n \in Smaller(t),
                 chunk' = [chunk EXCEPT ![t] =
                           [stored |-> UInt32(n), flags |-> {"compressed"}]]
          PROVE  StoredAs(hdr[t], chunk'[t], PlainSize(t))
      <4>1. n \in 1..(PlainSize(t) - 1) /\ UInt32(n) = n
        <5>1. n \in Nat /\ n >= 1 /\ n < PlainSize(t)
          BY DEF Smaller
        <5> QED BY <2>2, <2>3, <5>1
      <4>2. chunk'[t].stored = n /\ chunk'[t].flags = {"compressed"}
        BY <3>2, <4>1 DEF EncryptInv, TypeOK
      <4> QED BY <2>4, <3>2, <4>1, <4>2 DEF StoredAs, WantCompression
    <3> QED BY <2>1, <3>1, <3>2
  <2>6. /\ pc'[t] = "seal"
        /\ \A u \in Threads \ {t} : pc'[u] = pc[u] /\ chunk'[u] = chunk[u]
    BY <2>1 DEF EncryptInv, TypeOK
  <2>7. RecordInv(t)' /\ ReplyInv(t)'
    <3>1. PlainSize(t)' = PlainSize(t) /\ Part(t)' = Part(t)
      BY <2>1 DEF PlainSize, Part
    <3> QED BY <1>0, <2>1, <2>5, <2>6, <3>1
            DEF FileInv, RecordInv, ReplyInv, ChunkSealed, Checked
  <2> QED BY <2>1, <2>6, <2>7, OneThreadMoves
<1> QED BY <1>1, <1>2

(* Stored sizes are numbers, so offsets can be computed from them.         *)
LEMMA PartLengths ==
  ASSUME EncryptInv, FileInv, NEW t \in Threads, pc[t] \in {"chunk", "seal"}
  PROVE  Lengths(Part(t))
<1>1. DOMAIN recs[t] = 0..(index[t] - 1) /\ index[t] \in Nat
  BY DEF EncryptInv, RoomInv, TypeOK
<1>2. ASSUME NEW i \in 0..(index[t] - 1) PROVE recs[t][i].stored \in Nat
  <2> DEFINE plain == ChunkPlainSize(hdr[t].plaintext_size, hdr[t].chunk_size, i)
  <2>1. StoredAs(hdr[t], recs[t][i], plain)
    BY DEF FileInv, RecordInv, ChunkSealed
  <2>2. plain \in Nat
    <3>1. hdr[t].plaintext_size \in Nat /\ hdr[t].chunk_size \in Nat /\ i \in Nat
      <4>1. pc[t] \in Checked BY DEF Checked
      <4>2. hdr[t].plaintext_size \in 0..MaxPlaintextSize /\ hdr[t].chunk_size \in Nat
        BY <4>1, CheckedCall
      <4>3. i \in Nat BY <1>1
      <4> QED BY <4>2, <4>3
    <3>2. plain \in 0..hdr[t].chunk_size
      BY <3>1, ChunkPlainSizeType
    <3> QED BY <3>1, <3>2
  <2> QED BY <2>1, <2>2 DEF StoredAs
<1>3. Part(t).recs = recs[t]
  BY DEF Part
<1>4. ASSUME NEW i \in Nat PROVE RecordAt(Part(t), i).stored \in Nat
  BY <1>1, <1>2, <1>3 DEF RecordAt, ZeroRecord
<1> QED BY <1>4 DEF Lengths

(* What Seal and SerializeChunkHeader leave is the record of this chunk.   *)
LEMMA NewRecordIsSealed ==
  ASSUME NEW t \in Threads
  PROVE  NewRecord(t) = SealedRecord(req[t].key, req[t].plain, hdr[t], index[t],
                                     chunk[t].stored, chunk[t].flags)
BY DEF NewRecord, SealedRecord, DerivedOf, NonceOf, PayloadOf, AadOf, FileKey,
       Slice, PlainSize, Compressed, BuildAad

LEMMA SealKeepsFiles ==
  ASSUME EncryptInv, FileInv, NEW t \in Threads, SealChunk(t)
  PROVE  FileInv'
<1>0. pc[t] = "seal"
  BY DEF SealChunk
<1>1. CASE \E rc \in Statuses \ {"MC_OK"} : Fail(t, rc)
  BY <1>0, <1>1, FailKeepsFiles
<1>2. CASE ~\E rc \in Statuses \ {"MC_OK"} : Fail(t, rc)
  <2> DEFINE n == index[t]
             rec == NewRecord(t)
  <2>1. /\ pc' = [pc EXCEPT ![t] = "chunk"]
        /\ recs' = [recs EXCEPT ![t] =
                     [i \in DOMAIN @ \cup {n} |-> IF i = n THEN rec ELSE @[i]]]
        /\ offset' = [offset EXCEPT ![t] = RecordEnd(t)]
        /\ index' = [index EXCEPT ![t] = n + 1]
        /\ chunk' = [chunk EXCEPT ![t] = NoChunk]
        /\ UNCHANGED <<req, hdr, status, out, issued>>
    BY <1>2 DEF SealChunk, NextIndex, Statuses, Goto, callVars
  <2>2. n \in Nat /\ DOMAIN recs[t] = 0..(n - 1)
    BY DEF EncryptInv, TypeOK, RoomInv
  <2>3. /\ rec = SealedRecord(req[t].key, req[t].plain, hdr[t], n,
                              rec.stored, rec.flags)
        /\ rec.stored = chunk[t].stored /\ rec.flags = chunk[t].flags
    <3>1. rec.stored = chunk[t].stored /\ rec.flags = chunk[t].flags
      BY DEF NewRecord
    <3> QED BY <3>1, NewRecordIsSealed
  <2> HIDE DEF rec
  <2>4. /\ pc'[t] = "chunk" /\ index'[t] = n + 1 /\ offset'[t] = RecordEnd(t)
        /\ recs'[t] = [i \in (0..(n - 1)) \cup {n} |->
                         IF i = n THEN rec ELSE recs[t][i]]
        /\ \A u \in Threads \ {t} :
             /\ pc'[u] = pc[u] /\ index'[u] = index[u] /\ offset'[u] = offset[u]
             /\ chunk'[u] = chunk[u] /\ recs'[u] = recs[u]
    BY <2>1, <2>2 DEF EncryptInv, TypeOK, FunctionInv
  <2>5. /\ recs'[t][n] = rec
        /\ \A i \in 0..(n - 1) : recs'[t][i] = recs[t][i]
        /\ DOMAIN recs'[t] = 0..n
    BY <2>2, <2>4
  <2>6. \A i \in 0..n : ChunkSealed(t, i)'
    <3>1. ASSUME NEW i \in Nat, i = n PROVE ChunkSealed(t, i)'
      <4>1. StoredAs(hdr[t], chunk[t], PlainSize(t))
        BY <1>0 DEF FileInv, RecordInv
      <4>2. StoredAs(hdr[t], rec, ChunkPlainSize(hdr[t].plaintext_size,
                                                 hdr[t].chunk_size, n))
        BY <2>3, <4>1 DEF StoredAs, PlainSize
      <4>3. recs'[t][n] = rec /\ hdr' = hdr /\ req' = req
        BY <2>1, <2>5
      <4> HIDE DEF n
      <4> QED BY <2>3, <3>1, <4>2, <4>3 DEF ChunkSealed
    <3>2. \A i \in 0..(n - 1) : ChunkSealed(t, i)'
      BY <1>0, <2>1, <2>5 DEF FileInv, RecordInv, ChunkSealed
    <3> HIDE DEF n
    <3>3. \A i \in 0..n : i \in Nat /\ (i \in 0..(n - 1) \/ i = n)
      BY <2>2
    <3> QED BY <3>1, <3>2, <3>3
  <2>7. offset'[t] = RecordOffset(Part(t)', n + 1)
    <3> DEFINE f == Part(t)
               g == Part(t)'
    <3>1. f.recs = recs[t] /\ g.recs = recs'[t]
      BY DEF Part
    <3>2. Lengths(f) /\ offset[t] = RecordOffset(f, n)
      BY <1>0, PartLengths DEF FileInv, RecordInv
    <3>3. chunk[t].stored \in Nat
      BY DEF EncryptInv, TypeOK
    <3> HIDE DEF f, g
    <3>4. /\ \A i \in 0..(n - 1) : RecordAt(g, i) = RecordAt(f, i)
          /\ RecordAt(g, n) = rec
          /\ \A i \in Nat : i > n => RecordAt(g, i) = ZeroRecord
      BY <2>2, <2>5, <3>1 DEF RecordAt
    <3>5. Lengths(g)
      <4>1. ASSUME NEW i \in Nat PROVE RecordAt(g, i).stored \in Nat
        <5>1. i \in 0..(n - 1) \/ i = n \/ i > n
          BY <2>2
        <5> QED BY <2>3, <3>2, <3>3, <3>4, <5>1 DEF Lengths, ZeroRecord
      <4> QED BY <4>1 DEF Lengths
    <3>6. RecordOffset(g, n) = RecordOffset(f, n)
      BY <2>2, <3>2, <3>4, <3>5, OffsetsAgree
    <3>7. RecordOffset(g, n + 1) = RecordOffset(g, n) + ChunkHeaderSize
                                     + chunk[t].stored
      BY <2>2, <2>3, <3>4, <3>5, RecordOffsetDef
    <3>8. offset'[t] = RecordOffset(g, n + 1)
      BY <2>4, <3>2, <3>6, <3>7 DEF RecordEnd
    <3> QED BY <3>8 DEF g
  <2>8. RecordInv(t)' /\ ReplyInv(t)'
    <3>1. req[t].key \in Keys
      BY <1>0 DEF FileInv, RecordInv, Checked
    <3>2. (n + 1) - 1 = n
      BY <2>2
    <3>3. recs'[t] = [i \in DOMAIN recs'[t] |-> recs'[t][i]]
      BY <2>4
    <3> HIDE DEF n
    <3>4. RecordInv(t)'
      BY <2>1, <2>4, <2>6, <2>7, <3>1, <3>2, <3>3 DEF RecordInv
    <3>5. ReplyInv(t)'
      BY <1>0, <2>1 DEF FileInv, ReplyInv
    <3> QED BY <3>4, <3>5
  <2> HIDE DEF n
  <2> QED BY <2>1, <2>4, <2>8, OneThreadMoves
<1> QED BY <1>1, <1>2

(* "This build cannot write a file it would later refuse to read"          *)
(* (encrypt.cc:73-74): options ValidateOptions lets through make a header  *)
(* that parses.                                                            *)
LEMMA NewHeaderParses ==
  ASSUME NEW r \in Requests, r.size <= MaxPlaintextSize, OptionsAccepted(r.opts),
         NEW salt, NEW prefix, NEW size \in Nat, HeaderSize <= size
  PROVE  ParseFileHeader(NewHeader(r, salt, prefix), size) = "MC_OK"
<1> DEFINE h == NewHeader(r, salt, prefix)
<1>1. /\ h.magic = kMagic /\ h.format_version = MC_FORMAT_VERSION
      /\ h.kdf_id = kKdfScrypt /\ h.aead_id = kAeadAes256Gcm
      /\ h.compression_id = r.opts.compression /\ h.reserved = 0
      /\ h.kdf = r.opts.kdf /\ h.chunk_size = r.opts.chunk_size
      /\ h.plaintext_size = r.size
      /\ h.chunk_count = ChunkCountFor(r.size, r.opts.chunk_size)
  BY DEF NewHeader
<1> HIDE DEF h
<1>2. /\ r.opts.compression \in {MC_COMPRESS_NONE, MC_COMPRESS_ZLIB}
      /\ KdfSupported(r.opts.kdf) /\ ChunkSizeSupported(r.opts.chunk_size)
  BY DEF OptionsAccepted, KdfSupported
<1>3. ~(size < HeaderSize) /\ ~(r.size > MaxPlaintextSize)
  BY EncryptAssumption, FormatAssumption
<1> QED BY <1>1, <1>2, <1>3 DEF ParseFileHeader, h

(* What the last step of a call hands over.                                *)
LEMMA FinishedCall ==
  ASSUME EncryptInv, FileInv, NEW t \in Threads, pc[t] = "chunk",
         index[t] >= hdr[t].chunk_count, NEW w,
         w = [key |-> req[t].key, plain |-> req[t].plain,
              file |-> [hdr |-> hdr[t], recs |-> recs[t], size |-> FinalSize(t)]]
  PROVE  Issued(w)
<1> DEFINE h == hdr[t]
           n == hdr[t].chunk_count
           f == w.file
<1>1. /\ req[t] \in Requests /\ req[t].size <= MaxPlaintextSize
      /\ OptionsAccepted(req[t].opts) /\ req[t].key \in Keys
      /\ h = NewHeader(req[t], h.salt, h.nonce_prefix)
  BY DEF EncryptInv, CallInv, FileInv, RecordInv, Checked
<1>2. n \in Nat /\ h.plaintext_size \in Nat /\ h.chunk_size \in Nat
  BY CheckedCall, FormatAssumption DEF Checked
<1>3. index[t] = n /\ DOMAIN recs[t] = 0..(n - 1)
  BY <1>2 DEF EncryptInv, TypeOK, RoomInv
<1>4. w.key = req[t].key /\ w.plain = req[t].plain
      /\ f.hdr = h /\ f.recs = recs[t] /\ f.size = offset[t]
      /\ f = [hdr |-> f.hdr, recs |-> f.recs, size |-> f.size]
  BY DEF FinalSize
<1>5. \A i \in 0..(n - 1) : ChunkSealed(t, i)
  BY <1>3 DEF FileInv, RecordInv
<1>6. recs[t] = [i \in DOMAIN recs[t] |-> recs[t][i]]
  BY DEF FileInv, RecordInv
<1> HIDE DEF h, n, f
<1>7. Lengths(f) /\ f.size = RecordOffset(f, n)
  <2> DEFINE g == Part(t)
  <2>1. g.recs = recs[t]
    BY DEF Part
  <2>2. Lengths(g) /\ offset[t] = RecordOffset(g, n)
    BY <1>3, PartLengths DEF FileInv, RecordInv
  <2> HIDE DEF g
  <2>3. \A i \in Nat : RecordAt(f, i) = RecordAt(g, i)
    BY <1>4, <2>1 DEF RecordAt
  <2>4. Lengths(f)
    BY <2>2, <2>3 DEF Lengths
  <2>5. RecordOffset(f, n) = RecordOffset(g, n)
    BY <1>2, <2>2, <2>3, <2>4, OffsetsAgree
  <2> QED BY <1>4, <2>2, <2>4, <2>5
<1>8. ParseFileHeader(f.hdr, f.size) = "MC_OK"
  <2>1. f.size \in Nat
    BY <1>4 DEF EncryptInv, TypeOK
  <2>2. HeaderSize <= f.size
    <3>1. HeaderSize + n * ChunkHeaderSize <= f.size
      BY <1>2, <1>7, OffsetAtLeast
    <3>2. n * ChunkHeaderSize \in Nat
      BY <1>2, FormatAssumption
    <3> QED BY <2>1, <3>1, <3>2, FormatAssumption
  <2>3. ParseFileHeader(NewHeader(req[t], h.salt, h.nonce_prefix), f.size) = "MC_OK"
    BY <1>1, <2>1, <2>2, NewHeaderParses
  <2> QED BY <1>1, <1>4, <2>3
<1>9. ASSUME NEW i \in 0..(n - 1)
      PROVE  LET rec   == f.recs[i]
                 plain == ChunkPlainSize(h.plaintext_size, h.chunk_size, i)
             IN  /\ rec = SealedRecord(w.key, w.plain, h, i, rec.stored, rec.flags)
                 /\ \/ rec.flags = {} /\ rec.stored = plain
                    \/ /\ rec.flags = {"compressed"} /\ rec.stored \in 1..(plain - 1)
                       /\ h.compression_id = MC_COMPRESS_ZLIB
  BY <1>4, <1>5 DEF ChunkSealed, StoredAs, h
<1>10. FinishedFile(w)
  <2>1. n = h.chunk_count /\ f = w.file
    BY DEF n, h, f
  <2>2. f.size = RecordOffset(f, f.hdr.chunk_count)
    BY <1>4, <1>7, <2>1
  <2>3. DOMAIN f.recs = 0..(f.hdr.chunk_count - 1)
    BY <1>3, <1>4, <2>1
  <2>4. ASSUME NEW i \in DOMAIN f.recs
        PROVE  LET rec   == f.recs[i]
                   plain == ChunkPlainSize(f.hdr.plaintext_size, f.hdr.chunk_size, i)
               IN  /\ rec = SealedRecord(w.key, w.plain, f.hdr, i, rec.stored, rec.flags)
                   /\ \/ rec.flags = {} /\ rec.stored = plain
                      \/ /\ rec.flags = {"compressed"} /\ rec.stored \in 1..(plain - 1)
                         /\ f.hdr.compression_id = MC_COMPRESS_ZLIB
    <3>1. i \in 0..(n - 1)
      BY <1>3, <1>4
    <3> QED BY <1>4, <1>9, <3>1
  <2> QED BY <1>8, <2>1, <2>2, <2>3, <2>4 DEF FinishedFile
<1>11. IsFile(f)
  <2>1. f = [hdr |-> f.hdr, recs |-> [i \in DOMAIN f.recs |-> f.recs[i]],
             size |-> f.size]
    BY <1>4, <1>6
  <2>2. ASSUME NEW i \in DOMAIN f.recs
        PROVE  LET r == f.recs[i] IN
               /\ i \in Nat /\ 0..i \subseteq DOMAIN f.recs
               /\ RecordOffset(f, i) < f.size
               /\ r = [stored |-> r.stored, flags |-> r.flags,
                       reserved |-> r.reserved, ct |-> r.ct, tag |-> r.tag]
    <3>1. i \in 0..(n - 1) /\ i \in Nat /\ i < n /\ 0..i \subseteq DOMAIN f.recs
      BY <1>2, <1>3, <1>4
    <3>2. RecordOffset(f, i) < f.size
      <4>1. RecordOffset(f, i) + ChunkHeaderSize + RecordAt(f, i).stored <= f.size
        BY <1>2, <1>7, <3>1, OffsetsGrow
      <4>2. /\ RecordOffset(f, i) \in Nat /\ RecordOffset(f, n) \in Nat
            /\ RecordAt(f, i).stored \in Nat
        BY <1>2, <1>7, <3>1, RecordOffsetDef DEF Lengths
      <4> QED BY <1>7, <4>1, <4>2, FormatAssumption
    <3> DEFINE r == f.recs[i]
    <3>3. r = SealedRecord(w.key, w.plain, h, i, r.stored, r.flags)
      BY <1>9, <3>1
    <3>4. r = [stored |-> r.stored, flags |-> r.flags,
               reserved |-> r.reserved, ct |-> r.ct, tag |-> r.tag]
      <4> DEFINE q(stored, flags) == SealedRecord(w.key, w.plain, h, i, stored, flags)
      <4>1. \A stored, flags : q(stored, flags) =
              [stored |-> q(stored, flags).stored, flags |-> q(stored, flags).flags,
               reserved |-> q(stored, flags).reserved, ct |-> q(stored, flags).ct,
               tag |-> q(stored, flags).tag]
        BY DEF SealedRecord
      <4>2. r = q(r.stored, r.flags)
        BY <3>3
      <4> HIDE DEF q, r
      <4> QED BY <4>1, <4>2
    <3> QED BY <3>1, <3>2, <3>4
  <2> QED BY <2>1, <2>2 DEF IsFile
<1> QED BY <1>1, <1>4, <1>10, <1>11 DEF Issued, f

LEMMA FinishKeepsFiles ==
  ASSUME EncryptInv, FileInv, NEW t \in Threads, Finish(t)
  PROVE  FileInv'
<1>0. pc[t] = "chunk" /\ index[t] >= hdr[t].chunk_count
  BY DEF Finish
<1>1. CASE Fail(t, "MC_ERR_MEMORY")
  BY <1>0, <1>1, FailKeepsFiles
<1>2. CASE ~Fail(t, "MC_ERR_MEMORY")
  <2> DEFINE f == [hdr |-> hdr[t], recs |-> recs[t], size |-> FinalSize(t)]
             w == [key |-> req[t].key, plain |-> req[t].plain, file |-> f]
  <2>1. /\ Return(t, "MC_OK") /\ issued' = issued \cup {w} /\ req' = req
        /\ \E o : out' = [out EXCEPT ![t] = o]
    BY <1>2 DEF Finish, callVars
  <2>2. Issued(w)
    BY <1>0, FinishedCall
  <2> HIDE DEF w
  <2>3. pc'[t] = "returned" /\ status'[t] = "MC_OK" /\ recs'[t] = NoRecords
    BY <2>1 DEF EncryptInv, TypeOK, FunctionInv, Return, Goto
  <2>4. RecordInv(t)' /\ ReplyInv(t)'
    BY <2>3 DEF RecordInv, ReplyInv, Checked, NoRecords
  <2>5. \A u \in Threads \ {t} :
          /\ pc'[u] = pc[u] /\ req'[u] = req[u] /\ hdr'[u] = hdr[u]
          /\ index'[u] = index[u] /\ offset'[u] = offset[u]
          /\ chunk'[u] = chunk[u] /\ recs'[u] = recs[u]
          /\ status'[u] = status[u] /\ out'[u] = out[u]
    BY <2>1 DEF EncryptInv, TypeOK, FunctionInv, Return, Goto
  <2> QED BY <2>1, <2>2, <2>4, <2>5, OneThreadMoves
<1> QED BY <1>1, <1>2

(***************************************************************************)
(* Both invariants hold of any number of threads and calls.                *)
(***************************************************************************)
THEOREM FileInvariant == Spec => [](EncryptInv /\ FileInv)
<1>1. EncryptInv /\ FileInv /\ [Next]_vars => FileInv'
  <2> SUFFICES ASSUME EncryptInv, FileInv, [Next]_vars PROVE FileInv'
    OBVIOUS
  <2>1. ASSUME NEW t \in Threads, Call(t) \/ Collect(t) PROVE FileInv'
    BY <2>1, CallKeepsFiles
  <2>2. ASSUME NEW t \in Threads, Step(t) PROVE FileInv'
    BY <2>2, PrepareKeepsFiles, CompressKeepsFiles, SealKeepsFiles,
       FinishKeepsFiles DEF Step, Prepares
  <2>3. CASE UNCHANGED vars
    <3> USE <2>3 DEF vars, callVars, loopVars
    <3>1. \A u \in Threads : RecordInv(u)' /\ ReplyInv(u)'
      BY RecordsKept
    <3> QED BY <3>1 DEF FileInv
  <2> QED BY <2>1, <2>2, <2>3 DEF Next
<1> QED BY <1>1, InitFiles, EncryptInvariant, PTL DEF Spec

(***************************************************************************)
(* Every file a call hands over parses, is as long as its records, and     *)
(* holds at each place the sealed chunk that belongs there, whatever       *)
(* deflate does (encrypt.cc:73-74, 199-243).                               *)
(***************************************************************************)
THEOREM IssuedFilesAreFinished == Spec => []IssuesFinishedFiles
<1>1. FileInv => IssuesFinishedFiles
  BY DEF FileInv, Issued, IssuesFinishedFiles
<1> QED BY <1>1, FileInvariant, PTL

(***************************************************************************)
(* What Decrypt.tla assumes of the encryptions that were finished holds of *)
(* every file encrypt.cc hands over: its shape, its key and, by            *)
(* FilesHaveFreshHeaders, a header of its own.                             *)
(***************************************************************************)
THEOREM IssuedFilesSuitDecrypt == Spec => [](\A w \in issued : Issued(w))
<1>1. FileInv => \A w \in issued : Issued(w)
  BY DEF FileInv
<1> QED BY <1>1, FileInvariant, PTL

----------------------------------------------------------------------------
(* The calls implement EncryptContract.                                    *)

\* The threads other than t stand still.
Alone(t) == \A u \in Threads \ {t} : /\ pc'[u] = pc[u] /\ status'[u] = status[u]
                                     /\ out'[u] = out[u]

(* What the callers see of a step of t is its phase and its answer.        *)
LEMMA CallersView ==
  ASSUME NEW t \in Threads, Alone(t)
  PROVE  /\ [u \in Threads |-> Phase(u)]'
              = [[u \in Threads |-> Phase(u)] EXCEPT ![t] = Phase(t)']
         /\ [u \in Threads |-> Answer(u)]'
              = [[u \in Threads |-> Answer(u)] EXCEPT ![t] = Answer(t)']
<1>1. \A u \in Threads \ {t} : Phase(u)' = Phase(u) /\ Answer(u)' = Answer(u)
  BY DEF Alone, Phase, Answer
<1> QED BY <1>1

LEMMA StaysInside ==
  ASSUME NEW t \in Threads, Alone(t), Phase(t) = "busy", Phase(t)' = "busy",
         UNCHANGED <<req, issued>>
  PROVE  UNCHANGED Contract!vars
<1>1. Answer(t) = "none" /\ Answer(t)' = "none"
  BY DEF Phase, Answer
<1> QED BY <1>1, CallersView DEF Contract!vars

LEMMA FailRefuses ==
  ASSUME EncryptInv, FileInv, NEW t \in Threads, Phase(t) = "busy",
         NEW rc \in Contract!Failures, Fail(t, rc)
  PROVE  Contract!Refuse(t)
<1> USE DEF Fail, Return, Goto, callVars
<1>1. Alone(t) /\ pc'[t] = "returned" /\ status'[t] = rc
  BY DEF Alone, EncryptInv, TypeOK
<1>2. out'[t] = NoOut
  BY DEF FileInv, ReplyInv, Phase, Contract!Failures, Contract!DocumentedFailures
<1>3. Phase(t)' = "returned" /\ Answer(t)' = [status |-> rc, file |-> "none"]
  BY <1>1, <1>2 DEF Phase, Answer
<1>4. UNCHANGED <<req, issued>>
  OBVIOUS
<1> QED BY <1>1, <1>3, <1>4, CallersView DEF Contract!Refuse

LEMMA CallAsks ==
  ASSUME EncryptInv, FileInv, NEW t \in Threads, Call(t) PROVE Contract!Ask(t)
<1> USE DEF Call, Goto
<1>1. Alone(t) /\ pc[t] = "idle" /\ pc'[t] = "args"
  BY DEF Alone, EncryptInv, TypeOK
<1>2. Phase(t) = "idle" /\ Phase(t)' = "busy"
      /\ Answer(t) = "none" /\ Answer(t)' = "none"
  BY <1>1 DEF Phase, Answer
<1>3. issued' = issued /\ \E r \in Requests : req' = [req EXCEPT ![t] = r]
  OBVIOUS
<1> QED BY <1>1, <1>2, <1>3, CallersView DEF Contract!Ask

LEMMA CollectResets ==
  ASSUME EncryptInv, NEW t \in Threads, Collect(t) PROVE Contract!Reset(t)
<1> USE DEF Collect, Goto
<1>1. Alone(t) /\ pc[t] = "returned" /\ pc'[t] = "idle"
  BY DEF Alone, EncryptInv, TypeOK, FunctionInv
<1>2. Phase(t) = "returned" /\ Phase(t)' = "idle" /\ Answer(t)' = "none"
  BY <1>1 DEF Phase, Answer
<1>3. issued' = issued /\ req' = [req EXCEPT ![t] = [key |-> "none"]]
  BY DEF NoRequest
<1> QED BY <1>1, <1>2, <1>3, CallersView DEF Contract!Reset

(* Every step before the last fails, with a status the contract lists, or  *)
(* stays inside the call.                                                  *)
LEMMA InsideRefines ==
  ASSUME EncryptInv, FileInv, NEW t \in Threads,
         Prepares(t) \/ CompressChunk(t) \/ SealChunk(t)
  PROVE  Contract!Refuse(t) \/ UNCHANGED Contract!vars
<1> DEFINE Fails == \E rc \in Contract!Failures : Fail(t, rc)
           Stays == Alone(t) /\ Phase(t)' = "busy" /\ UNCHANGED <<req, issued>>
<1>0. Phase(t) = "busy"
  BY DEF Prepares, CheckArguments, DrawSalt, DrawPrefix, DeriveKey,
         AllocateFile, AllocateScratch, CompressChunk, SealChunk, Phase
<1> USE DEF Goto, Alone, EncryptInv, TypeOK, Phase, Contract!Failures,
            Contract!DocumentedFailures, callVars
<1>1. CheckArguments(t) => Fails \/ Stays
  BY DEF CheckArguments
<1>2. DrawSalt(t) => Fails \/ Stays
  BY DEF DrawSalt
<1>3. DrawPrefix(t) => Fails \/ Stays
  BY DEF DrawPrefix
<1>4. DeriveKey(t) => Fails \/ Stays
  BY DEF DeriveKey
<1>5. AllocateFile(t) => Fails \/ Stays
  BY DEF AllocateFile
<1>6. AllocateScratch(t) => Fails \/ Stays
  BY DEF AllocateScratch
<1>7. CompressChunk(t) => Fails \/ Stays
  BY DEF CompressChunk
<1>8. SealChunk(t) => Fails \/ Stays
  BY DEF SealChunk
<1>9. CASE Fails
  BY <1>0, <1>9, FailRefuses
<1>10. CASE Stays
  BY <1>0, <1>10, StaysInside
<1> QED BY <1>1, <1>2, <1>3, <1>4, <1>5, <1>6, <1>7, <1>8, <1>9, <1>10
        DEF Prepares

LEMMA FinishDelivers ==
  ASSUME EncryptInv, FileInv, NEW t \in Threads, Finish(t)
  PROVE  Contract!Refuse(t) \/ Contract!Deliver(t)
<1>0. pc[t] = "chunk" /\ index[t] >= hdr[t].chunk_count /\ Phase(t) = "busy"
  BY DEF Finish, Phase
<1>1. CASE Fail(t, "MC_ERR_MEMORY")
  BY <1>0, <1>1, FailRefuses DEF Contract!Failures, Contract!DocumentedFailures
<1>2. CASE ~Fail(t, "MC_ERR_MEMORY")
  <2> DEFINE f == [hdr |-> hdr[t], recs |-> recs[t], size |-> FinalSize(t)]
             w == [key |-> req[t].key, plain |-> req[t].plain, file |-> f]
             o == [written |-> TRUE, file |-> f, bytes |-> FinalBytes(t)]
  <2>1. /\ Return(t, "MC_OK") /\ issued' = issued \cup {w} /\ req' = req
        /\ out' = [out EXCEPT ![t] = o]
    BY <1>2 DEF Finish, callVars
  <2>2. /\ Alone(t) /\ pc'[t] = "returned" /\ status'[t] = "MC_OK"
        /\ out'[t] = o
    <3> HIDE DEF o
    <3> QED BY <2>1 DEF Alone, EncryptInv, TypeOK, FunctionInv, Return, Goto
  <2>3. o # NoOut /\ o.file = f
    <3>1. o.written = TRUE /\ NoOut.written = FALSE
      BY DEF NoOut
    <3> QED BY <3>1
  <2>4. Issued(w)
    BY <1>0, FinishedCall
  <2>5. w.key = req[t].key /\ w.plain = req[t].plain /\ w.file = f
        /\ f.hdr = hdr[t]
    OBVIOUS
  <2>6. w = [key |-> req[t].key, plain |-> req[t].plain, file |-> f]
    OBVIOUS
  <2> HIDE DEF f, w, o
  <2>7. Phase(t)' = "returned" /\ Answer(t)' = [status |-> "MC_OK", file |-> f]
    BY <2>2, <2>3 DEF Phase, Answer
  <2>8. Contract!Answers(w, req[t])
    <3>1. hdr[t] = NewHeader(req[t], hdr[t].salt, hdr[t].nonce_prefix)
      BY <1>0 DEF EncryptInv, CallInv, Checked
    <3>2. /\ hdr[t].plaintext_size = req[t].size /\ hdr[t].kdf = req[t].opts.kdf
          /\ hdr[t].compression_id = req[t].opts.compression
          /\ hdr[t].chunk_size = req[t].opts.chunk_size
      BY <3>1 DEF NewHeader
    <3>3. \A v \in issued : v.file.hdr.salt # hdr[t].salt
      BY <1>0 DEF EncryptInv, SaltInv, Salted, Checked
    <3> QED BY <2>4, <2>5, <3>2, <3>3 DEF Contract!Answers, Issued
  <2>9. [u \in Threads |-> Answer(u)]'[t] = [status |-> "MC_OK", file |-> f]
    BY <2>7
  <2>10. Contract!Deliver(t)
    <3>1. [u \in Threads |-> Phase(u)][t] = "busy"
      BY <1>0
    <3>2. [u \in Threads |-> Answer(u)]'[t].file = f
      BY <2>9
    <3> QED BY <2>1, <2>2, <2>6, <2>7, <2>8, <3>1, <3>2, CallersView
            DEF Contract!Deliver
  <2> QED BY <2>10
<1> QED BY <1>1, <1>2

(***************************************************************************)
(* Any number of threads' calls keep EncryptContract.tla: each MC_OK hands *)
(* over one finished encryption of what that call was asked for, unlike    *)
(* any before, and a failure hands over nothing.                           *)
(***************************************************************************)
THEOREM CallsKeepTheContract == Spec => ImplementsContract
<1>1. Init => Contract!Init
  BY DEF Init, Contract!Init, Phase, Answer, NoRequest
<1>2. EncryptInv /\ FileInv /\ [Next]_vars => [Contract!Next]_Contract!vars
  <2> SUFFICES ASSUME EncryptInv, FileInv, [Next]_vars
      PROVE  Contract!Next \/ UNCHANGED Contract!vars
    OBVIOUS
  <2>1. CASE UNCHANGED vars
    BY <2>1 DEF vars, callVars, Contract!vars, Phase, Answer
  <2>2. ASSUME NEW t \in Threads, Call(t) \/ Collect(t) PROVE Contract!Next
    BY <2>2, CallAsks, CollectResets DEF Contract!Next
  <2>3. ASSUME NEW t \in Threads, Step(t)
        PROVE  Contract!Next \/ UNCHANGED Contract!vars
    BY <2>3, InsideRefines, FinishDelivers DEF Step, Prepares, Contract!Next
  <2> QED BY <2>1, <2>2, <2>3 DEF Next
<1> QED BY <1>1, <1>2, FileInvariant, PTL
        DEF Spec, ImplementsContract, Contract!ContractSpec
=============================================================================

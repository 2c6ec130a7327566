----------------------------- MODULE MCEncrypt ------------------------------
(***************************************************************************)
(* Small instances of Encrypt.  MCRequests: every option at and past its   *)
(* bounds, plaintexts around each multiple of the chunk size and around    *)
(* the size whose worst case no longer fits a size_t; one call.            *)
(* SharedRequests: two threads, two calls each, one key, so that prefixes  *)
(* collide; a plaintext that may deflate, and the largest one in chunks of *)
(* the smallest size, whose file is the largest there is.                  *)
(***************************************************************************)
EXTENDS Encrypt, TLC

ThreadSymmetry == Permutations(Threads)

Cost(n, r, p) == [log_n |-> n, r |-> r, p |-> p]
Options(compression, chunkSize, cost) ==
  [compression |-> compression, chunk_size |-> chunkSize, kdf |-> cost]
Request(k, opts, plain, size) ==
  [key |-> k, opts |-> opts, plain |-> plain, size |-> size]

Usual == Cost(15, 8, 1)

MCRequests ==
  {Request("k1", Options(c, 4, Usual), "A", n) : c \in {0, 1}, n \in 0..9}
    \cup {Request("k1", Options(c, MaxChunkSize, Usual), "A", n) : c \in {0, 1}, n \in {11, 12, 13}}
    \cup {Request("k1", Options(1, MinChunkSize, Usual), "A", n) : n \in {13, 24, 25}}
    \cup {Request("k1", Options(0, s, Usual), "A", n) :
             s \in {MinChunkSize, MaxChunkSize}, n \in 60..64 \cup {MaxPlaintextSize,
                                   MaxPlaintextSize + 1, SizeMax}}
    \cup {Request("k1", Options(0, 4, cost), "A", 3) :
             cost \in {Cost(13, 8, 1), Cost(14, 1, 1), Cost(20, 8, 16),
                       Cost(21, 8, 1), Cost(20, 9, 1), Cost(15, 0, 1),
                       Cost(15, 33, 1), Cost(15, 8, 0), Cost(15, 8, 17),
                       Cost(16, 1, 1), Cost(20, 32, 1)}}
    \cup {Request("k1", Options(0, n, Usual), "A", 3) :
             n \in {0, MinChunkSize - 1, MaxChunkSize + 1, U32 - 1}}
    \cup {Request("k1", Options(2, 4, Usual), "A", 3),
          Request("short", Options(0, 4, Usual), "A", 3),
          Request("k1", Options(0, 4, Usual), NoPlain, 3),
          Request("k1", Options(1, 4, Usual), NoPlain, 0)}

\* One chunk, which may deflate to one byte; two chunks and kMaxFileSize bytes.
SharedRequests ==
  {Request("k1", Options(1, MinChunkSize, Usual), "A", MinChunkSize),
   Request("k1", Options(0, MinChunkSize, Usual), "A", MaxPlaintextSize)}
=============================================================================

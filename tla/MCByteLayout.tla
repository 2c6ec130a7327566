---------------------------- MODULE MCByteLayout ----------------------------
(***************************************************************************)
(* Bytes of 16 values, the smallest base in which kdf_log_n fits its byte  *)
(* and a chunk count or a stored size fills all bytes of its field.        *)
(***************************************************************************)
EXTENDS ByteLayout

MCMagic == <<4, 13, 4, 3, 5, 2, 3, 2>>
MCTag == [k \in 1..16 |-> 16 - k]
Header(r, chunk, plain) ==
  [magic |-> kMagic, format_version |-> 2, kdf_id |-> 1, aead_id |-> 1,
   compression_id |-> 1, kdf |-> [log_n |-> 15, r |-> r, p |-> 1],
   salt |-> [k \in 1..16 |-> k % 7], nonce_prefix |-> [k \in 1..8 |-> 15 - k],
   chunk_size |-> chunk, plaintext_size |-> plain,
   chunk_count |-> ChunkCountFor(plain, chunk), reserved |-> 0]
MCHeaders == {Header(8, 50000, 300000), Header(32, 16, 300000), Header(1, 4097, 0)}
MCChunks == {[stored |-> 0, flags |-> {}], [stored |-> 4114, flags |-> {"compressed"}]}
\* Indices that differ in one byte each, and in the order of two.
MCIndices == {0, 1, 16, 256, 4096, 4097}
=============================================================================

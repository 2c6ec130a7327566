----------------------------- MODULE MCDecrypt ------------------------------
(***************************************************************************)
(* Small files for Decrypt: eight finished encryptions, and what damage,   *)
(* truncation, reordering and splicing make of them, as the repository's   *)
(* tamper tests do (src/tests/tamper_test.cc).                             *)
(***************************************************************************)
EXTENDS Decrypt, Sequences

Hdr(salt, compression, chunk, size) ==
  [magic |-> kMagic, format_version |-> MC_FORMAT_VERSION,
   kdf_id |-> kKdfScrypt, aead_id |-> kAeadAes256Gcm,
   compression_id |-> compression, reserved |-> 0,
   kdf |-> [log_n |-> 14, r |-> 8, p |-> 1], salt |-> salt,
   nonce_prefix |-> salt, chunk_size |-> chunk, plaintext_size |-> size,
   chunk_count |-> ChunkCountFor(size, chunk)]

WithSize(h, recs) ==
  [hdr |-> h, recs |-> recs,
   size |-> RecordOffset([recs |-> recs], Cardinality(DOMAIN recs))]

\* stored is a sequence: the deflated size of each chunk, 0 for a raw chunk.
Finished(k, plain, h, stored) ==
  [key |-> k, plain |-> plain,
   file |-> WithSize(h,
     [i \in 0..(h.chunk_count - 1) |->
        IF stored[i + 1] = 0
        THEN SealedRecord(k, plain, h, i,
               ChunkPlainSize(h.plaintext_size, h.chunk_size, i), {})
        ELSE SealedRecord(k, plain, h, i, stored[i + 1], {"compressed"})])]

Zlib == Finished("k1", "A", Hdr("s1", 1, 4, 10), <<3, 1, 0>>)
Raw == Finished("k1", "B", Hdr("s2", 0, 4, 10), <<0, 0, 0>>)
OtherKey == Finished("k2", "A", Hdr("s3", 1, 4, 10), <<3, 1, 0>>)
Empty == Finished("k1", "E", Hdr("s4", 1, 4, 0), <<0>>)
Incompressible == Finished("k2", "C", Hdr("s5", 1, 4, 4), <<0>>)

\* What a host with a wider size_t wrote and this one may not be able to
\* hold: a table of 74 entries, a plaintext of 2400.
ManyChunks ==
  Finished("k1", "M", Hdr("s6", 1, 4, 296), [i \in 1..74 |-> 1])
Dense == Finished("k2", "D", Hdr("s7", 1, 400, 2400), [i \in 1..6 |-> 2 * i])
\* Fewer chunks, so the table fits, in a file that nearly fills a size_t.
Wide == Finished("k1", "W", Hdr("s8", 1, 400, 1900), <<0, 390, 0, 300, 0>>)

MCWritten ==
  {Zlib, Raw, OtherKey, Empty, Incompressible, ManyChunks, Dense, Wide}

Rec(f, i, r) == [f EXCEPT !.recs[i] = r]

\* A file's records are those that begin before its end.
Fit(f) ==
  [f EXCEPT !.recs = [i \in {j \in DOMAIN f.recs : RecordOffset(f, j) < f.size}
                        |-> f.recs[i]]]

DamagedHeaders(f) ==
  {[f EXCEPT !.hdr = h] : h \in
    {[f.hdr EXCEPT !.magic = "JPEG"], [f.hdr EXCEPT !.format_version = 3],
     [f.hdr EXCEPT !.kdf_id = 2], [f.hdr EXCEPT !.aead_id = 2],
     [f.hdr EXCEPT !.compression_id = 2], [f.hdr EXCEPT !.reserved = 1],
     [f.hdr EXCEPT !.compression_id = 1 - f.hdr.compression_id],
     [f.hdr EXCEPT !.kdf.log_n = 21], [f.hdr EXCEPT !.kdf.r = 33],
     [f.hdr EXCEPT !.kdf.p = 2], [f.hdr EXCEPT !.kdf = [log_n |-> 20, r |-> 32, p |-> 1]],
     [f.hdr EXCEPT !.kdf = [log_n |-> 16, r |-> 1, p |-> 1]],
     [f.hdr EXCEPT !.salt = "s9"], [f.hdr EXCEPT !.nonce_prefix = "s9"],
     [f.hdr EXCEPT !.chunk_size = MinChunkSize - 1],
     [f.hdr EXCEPT !.chunk_size = MaxChunkSize + 1],
     [f.hdr EXCEPT !.chunk_size = 5], [f.hdr EXCEPT !.plaintext_size = 9],
     [f.hdr EXCEPT !.plaintext_size = MaxPlaintextSize + 1],
     [f.hdr EXCEPT !.plaintext_size = 8, !.chunk_count = 2],
     [f.hdr EXCEPT !.plaintext_size = 200, !.chunk_count = 50],
     [f.hdr EXCEPT !.plaintext_size = 1000, !.chunk_count = 250],
     [f.hdr EXCEPT !.chunk_count = 0]}}

\* The same records under a header cut to two chunks, as a file of its own.
CutToTwo(f) ==
  WithSize([f.hdr EXCEPT !.plaintext_size = 8, !.chunk_count = 2],
           [i \in 0..1 |-> f.recs[i]])

DamagedRecords(f) ==
  UNION {{Rec(f, i, [f.recs[i] EXCEPT !.stored = @ + 1]),
          Rec(f, i, [f.recs[i] EXCEPT !.stored = 0]),
          Fit(Rec(f, i, [f.recs[i] EXCEPT !.stored = U32 - 1])),
          Rec(f, i, [f.recs[i] EXCEPT !.reserved = 1]),
          Rec(f, i, [f.recs[i] EXCEPT !.flags = {"unknown"}]),
          Rec(f, i, [f.recs[i] EXCEPT !.flags = {"compressed"}]),
          Rec(f, i, [f.recs[i] EXCEPT !.flags = {}]),
          Rec(f, i, [f.recs[i] EXCEPT !.ct = Noise]),
          Rec(f, i, [f.recs[i] EXCEPT !.tag = Noise])} : i \in DOMAIN f.recs}

\* Two records exchanged, one repeated, one from another file.
Rearranged(f, g) ==
  {Rec(Rec(f, 0, f.recs[1]), 1, f.recs[0]), Rec(f, 1, f.recs[0]),
   Rec(f, 0, g.recs[0]), Rec(f, 1, g.recs[1]), [f EXCEPT !.hdr = g.hdr]}

Resized(f) == {[f EXCEPT !.size = @ + d] : d \in {1, 24}}
  \cup {Fit([f EXCEPT !.size = @ - d]) : d \in {1, 2, 5, 24}}
  \cup {Fit([f EXCEPT !.size = s]) : s \in {0, 63, 64, 88}}

\* One deflated byte under a header that declares a chunk of 100.
Claiming == WithSize([Zlib.file.hdr EXCEPT !.chunk_size = 100,
                        !.plaintext_size = 100, !.chunk_count = 1],
                     [i \in {0} |-> [ZeroRecord EXCEPT !.stored = 1,
                                       !.flags = {"compressed"}]])

\* Record lengths with which 32-bit arithmetic on offsets would wrap.
Wrapping(f) ==
  {Fit(Rec(f, i, [f.recs[i] EXCEPT !.stored = s, !.flags = {"compressed"}])) :
     i \in DOMAIN f.recs \ {0},
     s \in {MaxStoredSizeFor(f.hdr.chunk_size), U32 - 25, U32 - 1}}

MCInputs ==
  {w.file : w \in MCWritten}
    \cup UNION {DamagedHeaders(w.file) : w \in {Zlib, Raw}}
    \cup UNION {DamagedRecords(w.file) : w \in {Zlib, Raw, Empty, Dense, Wide}}
    \cup UNION {Resized(w.file) : w \in {Zlib, Empty}}
    \cup Rearranged(Zlib.file, OtherKey.file) \cup Rearranged(Raw.file, Zlib.file)
    \cup Wrapping(Wide.file)
    \cup {CutToTwo(Zlib.file), CutToTwo(Raw.file), Claiming}
=============================================================================

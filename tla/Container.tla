----------------------------- MODULE Container ------------------------------
(***************************************************************************)
(* What a .mcrypt file is made of once the bytes are abstracted: the       *)
(* cryptographic primitives as free terms, the records of a file, and what *)
(* it means for a file to be one that EncryptBuffer finished.              *)
(*                                                                         *)
(* Ideal primitives: two derived keys are equal only when the key, the     *)
(* salt and the cost are; a tag equals Mac(...) only when it was computed  *)
(* over those arguments.  Keys that scrypt's HMAC pads to the same block   *)
(* (one is the other followed by NULs) count as one key.                   *)
(***************************************************************************)
EXTENDS Format

CONSTANT Noise   \* bytes that no Seal produced

\* kdf::DeriveKey, once OpenSSL accepts the parameters.
DerivedKey(key, salt, kdf) == [key |-> key, salt |-> salt, kdf |-> kdf]

(***************************************************************************)
(* scrypt itself is defined for N < 2^(128 * r / 8) only (RFC 7914), and   *)
(* EVP_PBE_scrypt fails outside that range: with r = 1, log_n stays < 16.  *)
(***************************************************************************)
ScryptDefined(kdf) == kdf.log_n < 16 * kdf.r

(***************************************************************************)
(* A payload is the slice [of, at, len] of a plaintext, as it is or        *)
(* deflated; its length in the file is the record's stored size.           *)
(***************************************************************************)
Slice(plain, chunk, size, i) ==
  [of |-> plain, at |-> i * chunk, len |-> ChunkPlainSize(size, chunk, i)]
Payload(deflated, slice) == [deflated |-> deflated, slice |-> slice]

Ciphertext(dk, nonce, payload) ==
  [dk |-> dk, nonce |-> nonce, payload |-> payload]
Mac(dk, nonce, aad, ct) == [dk |-> dk, nonce |-> nonce, aad |-> aad, ct |-> ct]

AuthenticMutant(dk, nonce, aad, ct, tag) ==
  tag # Noise /\ tag.dk = dk /\ tag.nonce = nonce /\ tag.ct = ct
\* aead::Open accepts: the tag is the one these four arguments have.
Authentic(dk, nonce, aad, ct, tag) ==
  tag # Noise /\ tag = Mac(dk, nonce, aad, ct)

\* inflate ends the stream with exactly `size` bytes and no input left over.
InflatesTo(payload, size) == payload.deflated /\ payload.slice.len = size

(***************************************************************************)
(* The 24 bytes at the i-th record's place, and the ciphertext after them. *)
(* A file whose size claims bytes past the records listed holds zeros      *)
(* there, which parse as an empty raw record with a tag nobody sealed.     *)
(***************************************************************************)
ZeroRecord ==
  [stored |-> 0, flags |-> {}, reserved |-> 0, ct |-> Noise, tag |-> Noise]
RecordAt(file, i) == IF i \in DOMAIN file.recs THEN file.recs[i] ELSE ZeroRecord

\* Where the n-th record starts when the records follow each other.
RecordOffset(file, n) ==
  LET at[k \in Nat] == IF k = 0 THEN HeaderSize
                       ELSE at[k - 1] + ChunkHeaderSize
                                      + RecordAt(file, k - 1).stored
  IN  at[n]

(***************************************************************************)
(* f is a file: a header, the records that begin before its end, one after *)
(* the other, and its length.                                              *)
(***************************************************************************)
IsFile(f) ==
  /\ f = [hdr |-> f.hdr, recs |-> [i \in DOMAIN f.recs |-> f.recs[i]],
          size |-> f.size]
  /\ \A i \in DOMAIN f.recs :
       LET r == f.recs[i] IN
       /\ i \in Nat /\ 0..i \subseteq DOMAIN f.recs
       /\ RecordOffset(f, i) < f.size
       /\ r = [stored |-> r.stored, flags |-> r.flags, reserved |-> r.reserved,
               ct |-> r.ct, tag |-> r.tag]

\* The key under which a file with header h opens for a caller holding `key`.
FileKey(key, h) == DerivedKey(key, h.salt, h.kdf)

\* The record EncryptBuffer seals for chunk i of `plain`.
SealedRecord(key, plain, h, i, stored, flags) ==
  LET dk  == FileKey(key, h)
      rec == [stored |-> stored, flags |-> flags]
      ct  == Ciphertext(dk, BuildNonce(h.nonce_prefix, i),
               Payload(Compressed(rec),
                       Slice(plain, h.chunk_size, h.plaintext_size, i)))
  IN  [stored |-> stored, flags |-> flags, reserved |-> 0, ct |-> ct,
       tag |-> Mac(dk, BuildNonce(h.nonce_prefix, i), BuildAad(h, i, rec), ct)]

(***************************************************************************)
(* w = [key, plain, file] is a finished encryption of `plain` under `key`. *)
(* Encrypt.tla shows that every file its calls return is of this form.     *)
(***************************************************************************)
FinishedFile(w) ==
  LET h == w.file.hdr IN
  /\ ParseFileHeader(h, w.file.size) = "MC_OK"
  /\ w.file.size = RecordOffset(w.file, h.chunk_count)
  /\ DOMAIN w.file.recs = 0..(h.chunk_count - 1)
  /\ \A i \in DOMAIN w.file.recs :
       LET rec   == w.file.recs[i]
           plain == ChunkPlainSize(h.plaintext_size, h.chunk_size, i)
       IN  /\ rec = SealedRecord(w.key, w.plain, h, i, rec.stored, rec.flags)
           /\ \/ rec.flags = {} /\ rec.stored = plain
              \/ /\ rec.flags = {"compressed"} /\ rec.stored \in 1..(plain - 1)
                 /\ h.compression_id = MC_COMPRESS_ZLIB
=============================================================================

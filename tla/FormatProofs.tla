---------------------------- MODULE FormatProofs ----------------------------
(***************************************************************************)
(* Theorems about the chunk arithmetic of Format.tla and the offsets of    *)
(* the records in Container.tla, for every value of the constants that     *)
(* FormatAssumption admits.                                                *)
(***************************************************************************)
EXTENDS Container, WellFoundedInduction, TLAPS

(* Wrapping changes nothing below the width.                               *)
LEMMA WrapSmall ==
  ASSUME NEW n \in Nat, NEW width \in Nat, n < width
  PROVE  Wrap(n, width) = n
BY DEF Wrap

LEMMA WrapType ==
  ASSUME NEW n \in Nat, NEW width \in Nat \ {0}
  PROVE  Wrap(n, width) \in 0..(width - 1)
BY DEF Wrap

(* Rounding up: q chunks of c bytes cover m bytes and q - 1 do not.        *)
LEMMA CeilingDivision ==
  ASSUME NEW m \in Nat \ {0}, NEW c \in Nat \ {0}
  PROVE  LET q == (m + c - 1) \div c
         IN  q \in Nat \ {0} /\ (q - 1) * c < m /\ m <= q * c
<1> DEFINE q == (m + c - 1) \div c
           r == (m + c - 1) % c
<1>1. q \in Int /\ r \in 0..(c - 1) /\ m + c - 1 = c * q + r
  OBVIOUS
<1>2. c * q = q * c /\ (q - 1) * c = q * c - c
  BY <1>1
<1>3. (q - 1) * c < m /\ m <= q * c
  BY <1>1, <1>2
<1>4. q >= 1
  <2>1. SUFFICES ASSUME q <= 0 PROVE FALSE
    BY <1>1
  <2>2. q * c <= 0
    BY <2>1, <1>1
  <2> QED BY <1>3, <2>2
<1> QED BY <1>1, <1>3, <1>4

(***************************************************************************)
(* ChunkCountFor narrows a 64-bit quotient to 32 bits.  For every size and *)
(* chunk size that ParseFileHeader or EncryptBuffer lets through, nothing  *)
(* is lost: the count is the number of chunks the plaintext needs          *)
(* (format.h:139-141, "which together keep this below 2^32").              *)
(***************************************************************************)
THEOREM ChunkCountExact ==
  ASSUME NEW size \in 0..MaxPlaintextSize,
         NEW chunk \in MinChunkSize..MaxChunkSize
  PROVE  LET n == ChunkCountFor(size, chunk)
         IN  /\ n \in 1..(U32 - 1)
             /\ size > 0 => (n - 1) * chunk < size
             /\ size <= n * chunk
<1> USE FormatAssumption
<1>0. chunk \in Nat \ {0} /\ size \in Nat /\ MinChunkSize \in Nat \ {0}
      /\ U32 \in Nat /\ U32 > 64
  OBVIOUS
<1>1. CASE size = 0
  BY <1>0, <1>1 DEF ChunkCountFor
<1>2. CASE size # 0
  <2> DEFINE q == (size + chunk - 1) \div chunk
  <2>1. q \in Nat \ {0} /\ (q - 1) * chunk < size /\ size <= q * chunk
    BY <1>0, <1>2, CeilingDivision
  <2>2. q <= U32 - 1
    <3>1. SUFFICES ASSUME q - 1 >= U32 - 1 PROVE FALSE
      BY <1>0, <2>1
    <3>2. (q - 1) * chunk >= (U32 - 1) * chunk
      BY <3>1, <2>1, <1>0
    <3>3. (U32 - 1) * chunk >= (U32 - 1) * MinChunkSize
      BY <1>0
    <3>4. (U32 - 1) * MinChunkSize = MinChunkSize * (U32 - 1)
      BY <1>0
    <3>5. (q - 1) * chunk \in Int /\ (U32 - 1) * chunk \in Int
          /\ (U32 - 1) * MinChunkSize \in Int
      BY <1>0, <2>1
    <3> QED BY <3>2, <3>3, <3>4, <3>5, <2>1, <1>0
  <2>3. ChunkCountFor(size, chunk) = q
    BY <1>0, <1>2, <2>1, <2>2, WrapSmall DEF ChunkCountFor, UInt32
  <2> QED BY <2>1, <2>2, <2>3, <1>0
<1> QED BY <1>1, <1>2

(* MaxStoredSizeFor's narrowing loses nothing either, and its bound has    *)
(* room for a chunk stored raw.                                            *)
THEOREM MaxStoredSizeExact ==
  ASSUME NEW chunk \in MinChunkSize..MaxChunkSize
  PROVE  /\ MaxStoredSizeFor(chunk) \in 0..(U32 - 1)
         /\ MaxStoredSizeFor(chunk) = chunk + chunk \div 1000 + 64
         /\ chunk < MaxStoredSizeFor(chunk)
<1>1. chunk \in Nat /\ MaxChunkSize \in Nat /\ U32 \in Nat
      /\ chunk \div 1000 \in Nat /\ chunk \div 1000 <= MaxChunkSize \div 1000
      /\ chunk + chunk \div 1000 + 64 < U32
  BY FormatAssumption
<1> QED BY <1>1, WrapSmall DEF MaxStoredSizeFor, UInt32

(* The plaintext length of a chunk is a length, and at most the chunk.     *)
LEMMA ChunkPlainSizeType ==
  ASSUME NEW size \in Nat, NEW chunk \in Nat, NEW i \in Nat
  PROVE  /\ ChunkPlainSize(size, chunk, i) \in 0..chunk
         /\ ChunkPlainSize(size, chunk, i) > 0 =>
              i * chunk + ChunkPlainSize(size, chunk, i) <= size
<1>1. i * chunk \in Nat
  OBVIOUS
<1> QED BY <1>1 DEF ChunkPlainSize

(* Byte b of a plaintext is byte b % chunk of chunk b \div chunk.           *)
LEMMA ByteInItsChunk ==
  ASSUME NEW size \in 0..MaxPlaintextSize,
         NEW chunk \in MinChunkSize..MaxChunkSize,
         NEW b \in 0..(size - 1)
  PROVE  LET k == b \div chunk
         IN  /\ k \in 0..(ChunkCountFor(size, chunk) - 1)
             /\ k * chunk + (b % chunk) = b
             /\ b % chunk \in 0..(ChunkPlainSize(size, chunk, k) - 1)
<1> DEFINE n == ChunkCountFor(size, chunk)
           k == b \div chunk
<1>0. chunk \in Nat \ {0} /\ size \in Nat /\ b \in Nat /\ b < size
  BY FormatAssumption
<1>1. n \in Nat \ {0} /\ size <= n * chunk
  BY ChunkCountExact, FormatAssumption
<1>2. k \in Nat /\ k * chunk <= b /\ b < k * chunk + chunk
      /\ b = k * chunk + (b % chunk) /\ b % chunk \in 0..(chunk - 1)
  <2>1. k \in Int /\ b % chunk \in 0..(chunk - 1) /\ b = chunk * k + (b % chunk)
    BY <1>0
  <2>2. chunk * k = k * chunk
    BY <2>1, <1>0
  <2>3. k >= 0
    <3>1. SUFFICES ASSUME k <= -1 PROVE FALSE
      BY <2>1
    <3>2. k * chunk <= (-1) * chunk
      BY <3>1, <2>1, <1>0
    <3> QED BY <3>2, <2>1, <2>2, <1>0
  <2> QED BY <2>1, <2>2, <2>3, <1>0
<1>3. k < n
  <2>1. SUFFICES ASSUME k >= n PROVE FALSE
    BY <1>1, <1>2
  <2>2. k * chunk >= n * chunk
    BY <2>1, <1>0, <1>1, <1>2
  <2>3. k * chunk \in Int /\ n * chunk \in Int
    BY <1>0, <1>1, <1>2
  <2> QED BY <2>2, <2>3, <1>0, <1>1, <1>2
<1>4. b % chunk \in 0..(ChunkPlainSize(size, chunk, k) - 1)
  <2>1. k * chunk \in Int
    BY <1>0, <1>2
  <2> QED BY <1>0, <1>2, <2>1 DEF ChunkPlainSize
<1> HIDE DEF n, k
<1>5. k \in 0..(n - 1)
  BY <1>1, <1>2, <1>3
<1> QED BY <1>2, <1>4, <1>5 DEF n, k

(***************************************************************************)
(* Chunk i is the bytes from i * chunk on, as many as ChunkPlainSize says, *)
(* and together the chunks are the plaintext: each byte lies in exactly    *)
(* one chunk below the count, so none is lost, doubled or left unsealed.   *)
(***************************************************************************)
THEOREM EveryByteInOneChunk ==
  ASSUME NEW size \in 0..MaxPlaintextSize,
         NEW chunk \in MinChunkSize..MaxChunkSize,
         NEW b \in 0..(size - 1)
  PROVE  LET Holds(i) == /\ i * chunk <= b
                         /\ b < i * chunk + ChunkPlainSize(size, chunk, i)
             n == ChunkCountFor(size, chunk)
         IN  /\ \E i \in 0..(n - 1) : Holds(i)
             /\ \A i, j \in 0..(n - 1) : Holds(i) /\ Holds(j) => i = j
<1> DEFINE Holds(i) == /\ i * chunk <= b
                       /\ b < i * chunk + ChunkPlainSize(size, chunk, i)
           n == ChunkCountFor(size, chunk)
           k == b \div chunk
<1>0. chunk \in Nat \ {0} /\ size \in Nat /\ b \in Nat /\ b < size
  BY FormatAssumption
<1>1. n \in Nat \ {0} /\ size <= n * chunk
  BY ChunkCountExact, FormatAssumption
<1>4. k \in 0..(n - 1) /\ Holds(k)
  <2>1. k \in 0..(n - 1) /\ k * chunk + (b % chunk) = b
        /\ b % chunk \in 0..(ChunkPlainSize(size, chunk, k) - 1)
    BY ByteInItsChunk
  <2>2. k * chunk \in Int
    BY <1>0, <1>1, <2>1
  <2>3. ChunkPlainSize(size, chunk, k) \in Int
    BY <1>0, <1>1, <2>1, ChunkPlainSizeType
  <2> QED BY <2>1, <2>2, <2>3
<1>5. ASSUME NEW i \in 0..(n - 1), NEW j \in 0..(n - 1), Holds(i), Holds(j),
             i < j
      PROVE  FALSE
  <2>1. i \in Nat /\ j \in Nat /\ i * chunk \in Int /\ j * chunk \in Int
    BY <1>0, <1>1, <1>5
  <2>2. ChunkPlainSize(size, chunk, i) \in 0..chunk
    BY <1>0, <2>1, ChunkPlainSizeType
  <2>3. (i + 1) * chunk <= j * chunk
    BY <1>0, <1>5, <2>1
  <2>4. (i + 1) * chunk = i * chunk + chunk
    BY <1>0, <2>1
  <2> QED BY <1>0, <1>5, <2>1, <2>2, <2>3, <2>4
<1>6. \A i, j \in 0..(n - 1) : Holds(i) /\ Holds(j) => i = j
  <2> TAKE i, j \in 0..(n - 1)
  <2>1. i \in Int /\ j \in Int
    BY <1>1
  <2> QED BY <1>5, <2>1
<1> HIDE DEF Holds, n, k
<1> QED BY <1>4, <1>6 DEF Holds, n

----------------------------------------------------------------------------
(* Where the records of a file start.                                      *)

(* A set of naturals that is not empty has a least element.                *)
LEMMA LeastElement ==
  ASSUME NEW T \in SUBSET Nat, T # {}
  PROVE  \E n \in T : \A m \in T : n <= m
<1> DEFINE R == OpToRel(<, Nat)
<1>1. IsWellFoundedOn(R, Nat)
  BY NatLessThanWellFounded
<1> HIDE DEF R
<1>2. PICK n \in T : \A m \in T : ~(<<m, n>> \in R)
  BY <1>1, WFMin
<1>3. ASSUME NEW m \in T, m < n PROVE FALSE
  <2>1. <<m, n>> \in Nat \X Nat /\ <<m, n>>[1] < <<m, n>>[2]
    BY <1>3
  <2>2. <<m, n>> \in R
    BY <2>1 DEF R, OpToRel
  <2> QED BY <2>2, <1>2
<1>4. \A m \in T : n <= m
  <2>1. n \in Int /\ \A m \in T : m \in Int
    OBVIOUS
  <2> QED BY <1>3, <2>1
<1> QED BY <1>4

(* A set that holds 0 and, with each number, the next one holds them all.  *)
LEMMA SetInduction ==
  ASSUME NEW S, 0 \in S, \A n \in Nat : n \in S => n + 1 \in S
  PROVE  Nat \subseteq S
<1> DEFINE T == Nat \ S
<1>1. SUFFICES ASSUME T # {} PROVE FALSE
  OBVIOUS
<1>2. PICK n \in T : \A m \in T : n <= m
  BY <1>1, LeastElement
<1>3. n # 0 /\ n \in Nat /\ n - 1 \in Nat
  OBVIOUS
<1>4. n - 1 \in S
  BY <1>2, <1>3
<1>5. (n - 1) + 1 = n
  BY <1>3
<1> QED BY <1>3, <1>4, <1>5

(* A sum over records is a function: any lengths have offsets.             *)
LEMMA OffsetsExist ==
  ASSUME NEW s \in [Nat -> Nat]
  PROVE  \E f \in [Nat -> Nat] :
           f = [k \in Nat |-> IF k = 0 THEN HeaderSize
                              ELSE f[k - 1] + ChunkHeaderSize + s[k - 1]]
<1> DEFINE Prefix(m, g) ==
             /\ g \in [0..m -> Nat] /\ g[0] = HeaderSize
             /\ \A k \in 1..m : g[k] = g[k - 1] + ChunkHeaderSize + s[k - 1]
           Some == {m \in Nat : \E g : Prefix(m, g)}
<1>0. HeaderSize \in Nat /\ ChunkHeaderSize \in Nat
  BY FormatAssumption
<1>1. Nat \subseteq Some
  <2>1. 0 \in Some
    <3>1. Prefix(0, [k \in 0..0 |-> HeaderSize])
      BY <1>0
    <3> QED BY <3>1
  <2>2. ASSUME NEW m \in Nat, m \in Some PROVE m + 1 \in Some
    <3>1. PICK g : Prefix(m, g)
      BY <2>2
    <3> DEFINE h == [k \in 0..(m + 1) |->
                       IF k = m + 1 THEN g[m] + ChunkHeaderSize + s[m] ELSE g[k]]
    <3>2. g \in [0..m -> Nat] /\ s[m] \in Nat /\ g[m] \in Nat
      BY <3>1
    <3>3. h \in [0..(m + 1) -> Nat] /\ h[0] = HeaderSize
      <4>1. ASSUME NEW k \in 0..(m + 1), k # m + 1 PROVE g[k] \in Nat
        <5>1. k \in 0..m
          BY <4>1
        <5> QED BY <3>2, <5>1
      <4>2. g[m] + ChunkHeaderSize + s[m] \in Nat
        <5> HIDE DEF h
        <5>1. g[m] \in Nat /\ s[m] \in Nat
          BY <3>2
        <5> QED BY <1>0, <5>1
      <4>3. h \in [0..(m + 1) -> Nat]
        BY <4>1, <4>2
      <4>4. 0 \in 0..(m + 1) /\ 0 # m + 1
        OBVIOUS
      <4> QED BY <3>1, <4>3, <4>4
    <3>4. \A k \in 1..(m + 1) : h[k] = h[k - 1] + ChunkHeaderSize + s[k - 1]
      <4>1. TAKE k \in 1..(m + 1)
      <4>2. CASE k = m + 1
        <5>1. k - 1 = m /\ k \in 0..(m + 1) /\ m \in 0..(m + 1) /\ m # m + 1
          BY <4>2
        <5> QED BY <4>2, <5>1
      <4>3. CASE k # m + 1
        <5>1. k \in 1..m /\ k - 1 \in 0..m
          BY <4>3
        <5>2. h[k] = g[k] /\ h[k - 1] = g[k - 1]
          BY <5>1
        <5> QED BY <3>1, <5>1, <5>2
      <4> QED BY <4>2, <4>3
    <3> HIDE DEF h
    <3>5. Prefix(m + 1, h)
      BY <3>3, <3>4
    <3> HIDE DEF Prefix
    <3> QED BY <3>5
  <2> HIDE DEF Some
  <2> QED BY <2>1, <2>2, SetInduction
<1>2. ASSUME NEW m \in Nat, NEW n \in Nat, NEW g, NEW h, Prefix(m, g),
             Prefix(n, h), m <= n
      PROVE  \A k \in 0..m : g[k] = h[k]
  <2> DEFINE S == {k \in Nat : k <= m => g[k] = h[k]}
  <2>1. 0 \in S
    BY <1>2
  <2>2. ASSUME NEW k \in Nat, k \in S PROVE k + 1 \in S
    <3>1. SUFFICES ASSUME k + 1 <= m PROVE g[k + 1] = h[k + 1]
      OBVIOUS
    <3>2. k + 1 \in 1..m /\ k + 1 \in 1..n /\ (k + 1) - 1 = k
      BY <1>2, <3>1
    <3>3. g[k] = h[k]
      BY <2>2, <3>1
    <3> QED BY <1>2, <3>2, <3>3
  <2>3. Nat \subseteq S
    <3> HIDE DEF S
    <3> QED BY <2>1, <2>2, SetInduction
  <2> QED BY <2>3
<1> DEFINE pick == [k \in Nat |-> CHOOSE g : Prefix(k, g)]
           f == [k \in Nat |-> pick[k][k]]
<1>3. \A k \in Nat : Prefix(k, pick[k])
  <2> TAKE k \in Nat
  <2>1. \E g : Prefix(k, g)
    BY <1>1
  <2>2. pick[k] = CHOOSE g : Prefix(k, g)
    OBVIOUS
  <2> HIDE DEF pick, Prefix
  <2> QED BY <2>1, <2>2
<1> HIDE DEF pick, Some
<1>4. f \in [Nat -> Nat]
  <2>1. \A k \in Nat : pick[k][k] \in Nat
    BY <1>3
  <2> QED BY <2>1
<1>5. \A k \in Nat : f[k] = IF k = 0 THEN HeaderSize
                            ELSE f[k - 1] + ChunkHeaderSize + s[k - 1]
  <2> TAKE k \in Nat
  <2>1. CASE k = 0
    BY <1>3, <2>1
  <2>2. CASE k # 0
    <3>1. k - 1 \in Nat /\ k \in 1..k /\ k - 1 \in 0..(k - 1) /\ k - 1 <= k
      BY <2>2
    <3>2. pick[k - 1][k - 1] = pick[k][k - 1]
      <4> DEFINE g == pick[k - 1]
                 h == pick[k]
      <4>1. Prefix(k - 1, g) /\ Prefix(k, h)
        BY <1>3, <3>1
      <4> HIDE DEF g, h, Prefix
      <4>2. \A j \in 0..(k - 1) : g[j] = h[j]
        BY <1>2, <3>1, <4>1
      <4> QED BY <3>1, <4>2 DEF g, h
    <3>3. pick[k][k] = pick[k][k - 1] + ChunkHeaderSize + s[k - 1]
      BY <1>3, <3>1
    <3>4. f[k] = pick[k][k] /\ f[k - 1] = pick[k - 1][k - 1]
      BY <3>1
    <3> QED BY <2>2, <3>2, <3>3, <3>4
  <2> QED BY <2>1, <2>2
<1> HIDE DEF f, Prefix
<1>6. f = [k \in Nat |-> IF k = 0 THEN HeaderSize
                         ELSE f[k - 1] + ChunkHeaderSize + s[k - 1]]
  BY <1>4, <1>5
<1> QED BY <1>4, <1>6

\* Every record of the file has a length.
Lengths(file) == \A i \in Nat : RecordAt(file, i).stored \in Nat

(***************************************************************************)
(* RecordOffset is what its recursive equation says: the first record      *)
(* starts after the header, each other one after the one before.           *)
(***************************************************************************)
LEMMA RecordOffsetDef ==
  ASSUME NEW file, Lengths(file)
  PROVE  /\ RecordOffset(file, 0) = HeaderSize
         /\ \A n \in Nat :
              /\ RecordOffset(file, n) \in Nat
              /\ RecordOffset(file, n + 1) =
                   RecordOffset(file, n) + ChunkHeaderSize
                                         + RecordAt(file, n).stored
<1> DEFINE s == [i \in Nat |-> RecordAt(file, i).stored]
           Sum(f) == [k \in Nat |-> IF k = 0 THEN HeaderSize
                                    ELSE f[k - 1] + ChunkHeaderSize + s[k - 1]]
           at == CHOOSE f : f = [k \in Nat |->
                              IF k = 0 THEN HeaderSize
                              ELSE f[k - 1] + ChunkHeaderSize
                                            + RecordAt(file, k - 1).stored]
<1>1. s \in [Nat -> Nat]
  BY DEF Lengths
<1>2. ASSUME NEW f PROVE Sum(f) = [k \in Nat |->
                                    IF k = 0 THEN HeaderSize
                                    ELSE f[k - 1] + ChunkHeaderSize
                                           + RecordAt(file, k - 1).stored]
  <2>1. \A k \in Nat : k # 0 => s[k - 1] = RecordAt(file, k - 1).stored
    OBVIOUS
  <2> HIDE DEF s
  <2> QED BY <2>1
<1>3. \E f : f = Sum(f) /\ f \in [Nat -> Nat]
  <2> HIDE DEF s
  <2> QED BY <1>1, OffsetsExist
<1>4. at = Sum(at)
  <2>1. at = CHOOSE f : f = Sum(f)
    BY <1>2
  <2> HIDE DEF Sum, at
  <2> QED BY <1>3, <2>1
<1>5. \A n \in Nat : RecordOffset(file, n) = at[n]
  BY DEF RecordOffset
<1> HIDE DEF at
<1>6. at[0] = HeaderSize
      /\ \A n \in Nat : at[n + 1] = at[n] + ChunkHeaderSize + s[n]
  <2>1. \A n \in Nat : (n + 1) - 1 = n /\ n + 1 # 0 /\ n + 1 \in Nat
    OBVIOUS
  <2>2. \A k \in Nat : at[k] = IF k = 0 THEN HeaderSize
                               ELSE at[k - 1] + ChunkHeaderSize + s[k - 1]
    <3> HIDE DEF s
    <3>1. at = [k \in Nat |-> IF k = 0 THEN HeaderSize
                              ELSE at[k - 1] + ChunkHeaderSize + s[k - 1]]
      BY <1>4
    <3> QED BY <3>1
  <2> HIDE DEF s
  <2> QED BY <2>1, <2>2
<1>7. \A n \in Nat : at[n] \in Nat
  <2> DEFINE S == {n \in Nat : at[n] \in Nat}
  <2>1. 0 \in S
    BY <1>6, FormatAssumption
  <2>2. \A n \in Nat : n \in S => n + 1 \in S
    <3>1. \A n \in Nat : s[n] \in Nat
      BY <1>1
    <3> HIDE DEF s
    <3> QED BY <1>6, <3>1, FormatAssumption
  <2> HIDE DEF S
  <2>3. Nat \subseteq S
    BY <2>1, <2>2, SetInduction
  <2> QED BY <2>3 DEF S
<1>8. \A n \in Nat : s[n] = RecordAt(file, n).stored /\ n + 1 \in Nat
  OBVIOUS
<1> HIDE DEF s
<1> QED BY <1>5, <1>6, <1>7, <1>8

(* Offsets grow by at least a record header for each record.               *)
LEMMA OffsetAtLeast ==
  ASSUME NEW file, Lengths(file), NEW n \in Nat
  PROVE  HeaderSize + n * ChunkHeaderSize <= RecordOffset(file, n)
<1> DEFINE Bound(m) == HeaderSize + m * ChunkHeaderSize <= RecordOffset(file, m)
           S == {m \in Nat : Bound(m)}
<1>0. HeaderSize \in Nat /\ ChunkHeaderSize \in Nat
  BY FormatAssumption
<1>1. 0 \in S
  BY <1>0, RecordOffsetDef
<1>2. ASSUME NEW m \in Nat, m \in S PROVE m + 1 \in S
  <2>1. /\ RecordOffset(file, m) \in Nat /\ RecordAt(file, m).stored \in Nat
        /\ RecordOffset(file, m + 1) = RecordOffset(file, m) + ChunkHeaderSize
                                        + RecordAt(file, m).stored
    BY RecordOffsetDef DEF Lengths
  <2>2. (m + 1) * ChunkHeaderSize = m * ChunkHeaderSize + ChunkHeaderSize
        /\ m * ChunkHeaderSize \in Int
    BY <1>0
  <2> QED BY <1>0, <1>2, <2>1, <2>2
<1> HIDE DEF S
<1>3. Nat \subseteq S
  BY <1>1, <1>2, SetInduction
<1> QED BY <1>3 DEF S

(* A record ends where the next one starts, at the latest.                 *)
LEMMA OffsetsGrow ==
  ASSUME NEW file, Lengths(file), NEW m \in Nat, NEW n \in Nat, m < n
  PROVE  RecordOffset(file, m) + ChunkHeaderSize + RecordAt(file, m).stored
           <= RecordOffset(file, n)
<1> DEFINE End == RecordOffset(file, m) + ChunkHeaderSize
                                        + RecordAt(file, m).stored
           S == {k \in Nat : m < k => End <= RecordOffset(file, k)}
<1>0. ChunkHeaderSize \in Nat /\ RecordOffset(file, m) \in Nat
      /\ RecordAt(file, m).stored \in Nat
  <2> HIDE DEF End, S
  <2>1. ChunkHeaderSize \in Nat
    BY FormatAssumption
  <2>2. RecordOffset(file, m) \in Nat
    BY RecordOffsetDef
  <2>3. RecordAt(file, m).stored \in Nat
    BY DEF Lengths
  <2> QED BY <2>1, <2>2, <2>3
<1>1. 0 \in S
  OBVIOUS
<1>2. ASSUME NEW k \in Nat, k \in S PROVE k + 1 \in S
  <2>1. /\ RecordOffset(file, k) \in Nat /\ RecordAt(file, k).stored \in Nat
        /\ RecordOffset(file, k + 1) = RecordOffset(file, k) + ChunkHeaderSize
                                        + RecordAt(file, k).stored
    BY RecordOffsetDef DEF Lengths
  <2>2. CASE m < k
    BY <1>0, <1>2, <2>1, <2>2
  <2>3. CASE m = k
    BY <1>0, <2>1, <2>3
  <2> QED BY <2>2, <2>3
<1> HIDE DEF S
<1>3. Nat \subseteq S
  BY <1>1, <1>2, SetInduction
<1> QED BY <1>3 DEF S

(* The offset of a record depends on the lengths before it only.           *)
LEMMA OffsetsAgree ==
  ASSUME NEW f, NEW g, Lengths(f), Lengths(g), NEW n \in Nat,
         \A i \in 0..(n - 1) : RecordAt(f, i).stored = RecordAt(g, i).stored
  PROVE  RecordOffset(f, n) = RecordOffset(g, n)
<1> DEFINE S == {k \in Nat : k <= n => RecordOffset(f, k) = RecordOffset(g, k)}
<1>1. 0 \in S
  BY RecordOffsetDef
<1>2. ASSUME NEW k \in Nat, k \in S PROVE k + 1 \in S
  <2>1. SUFFICES ASSUME k + 1 <= n
                 PROVE  RecordOffset(f, k + 1) = RecordOffset(g, k + 1)
    OBVIOUS
  <2>2. k \in 0..(n - 1) /\ RecordOffset(f, k) = RecordOffset(g, k)
    BY <1>2, <2>1
  <2>3. RecordAt(f, k).stored = RecordAt(g, k).stored
    BY <2>2
  <2> QED BY <2>2, <2>3, RecordOffsetDef
<1> HIDE DEF S
<1>3. Nat \subseteq S
  BY <1>1, <1>2, SetInduction
<1> QED BY <1>3 DEF S
=============================================================================

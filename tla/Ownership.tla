----------------------------- MODULE Ownership ------------------------------
(***************************************************************************)
(* SecureBuffer (src/src/crypt/secure_buffer.cc), the hand-off to C        *)
(* callers and mc_free (src/src/api/c_api.cc): who owns which heap block,  *)
(* and which blocks may hold secrets.  The buffers are used in any order   *)
(* the class allows, so whatever the library's functions do with theirs,   *)
(* early returns included, is among these behaviours.                      *)
(***************************************************************************)
EXTENDS Naturals

CONSTANTS
  Buffers,    \* SecureBuffer objects
  Blocks,     \* what new uint8_t[] may return
  nullptr,
  MaxSize     \* bound on the size of a block

ASSUME OwnershipAssumption == nullptr \notin Blocks /\ MaxSize \in Nat

VARIABLES
  alive,   \* the buffers that are constructed and not destroyed
  data_,   \* data_ of each
  size_,   \* size_ of each
  handed,  \* [ptr, size]: what C callers hold
  heap     \* [live, len, dirty]: only the first `dirty` bytes may be nonzero

vars == <<alive, data_, size_, handed, heap>>

Init ==
  /\ alive = {} /\ handed = {}
  /\ data_ = [b \in Buffers |-> nullptr] /\ size_ = [b \in Buffers |-> 0]
  /\ heap = [k \in Blocks |-> [live |-> FALSE, len |-> 0, dirty |-> 0]]

----------------------------------------------------------------------------
(* SecureWipe, delete[] and new.                                           *)

NoWipeMutant(dirty, n) == dirty
\* SecureWipe(ptr, n): the first n bytes are zero afterwards.
SecureWipe(dirty, n) == IF dirty <= n THEN 0 ELSE dirty

WipeAndDelete(h, k, n) ==
  [h EXCEPT ![k] = [live |-> FALSE, len |-> h[k].len, dirty |-> SecureWipe(h[k].dirty, n)]]

\* WipeAndFree(), as the heap it leaves; data_ and size_ become empty with it.
WipeAndFree(b) ==
  IF data_[b] = nullptr THEN heap ELSE WipeAndDelete(heap, data_[b], size_[b])

UninitializedMutant(h, k, n) == [h EXCEPT ![k].live = TRUE, ![k].len = n]
\* new uint8_t[n](): the parentheses are what clears the block.
New(h, k, n) == [h EXCEPT ![k] = [live |-> TRUE, len |-> n, dirty |-> 0]]

----------------------------------------------------------------------------
(* The class.                                                              *)

\* SecureBuffer(); the sized constructor is this and Reset.
Construct(b) ==
  /\ b \notin alive /\ alive' = alive \cup {b}
  /\ UNCHANGED <<data_, size_, handed, heap>>

\* On failure, and for size 0, the buffer is left empty.
Reset(b, n) ==
  /\ b \in alive
  /\ \/ /\ data_' = [data_ EXCEPT ![b] = nullptr] /\ size_' = [size_ EXCEPT ![b] = 0]
        /\ heap' = WipeAndFree(b)
     \/ /\ n > 0
        /\ \E k \in Blocks :
             /\ ~WipeAndFree(b)[k].live
             /\ heap' = New(WipeAndFree(b), k, n)
             /\ data_' = [data_ EXCEPT ![b] = k] /\ size_' = [size_ EXCEPT ![b] = n]
  /\ UNCHANGED <<alive, handed>>

AliasMutant(f, a, b, empty) == [f EXCEPT ![a] = f[b]]
\* `a` takes the field from `b`, which is left empty.
TakeOver(f, a, b, empty) == [f EXCEPT ![a] = f[b], ![b] = empty]

MoveConstruct(a, b) ==
  /\ a \notin alive /\ b \in alive /\ alive' = alive \cup {a}
  /\ data_' = TakeOver(data_, a, b, nullptr) /\ size_' = TakeOver(size_, a, b, 0)
  /\ UNCHANGED <<handed, heap>>

\* A buffer moved onto itself is left alone.
MoveAssign(a, b) ==
  /\ a \in alive /\ b \in alive /\ a # b
  /\ heap' = WipeAndFree(a)
  /\ data_' = TakeOver(data_, a, b, nullptr) /\ size_' = TakeOver(size_, a, b, 0)
  /\ UNCHANGED <<alive, handed>>

Destroy(b) ==
  /\ b \in alive /\ alive' = alive \ {b} /\ heap' = WipeAndFree(b)
  /\ data_' = [data_ EXCEPT ![b] = nullptr] /\ size_' = [size_ EXCEPT ![b] = 0]
  /\ UNCHANGED handed

\* Any code that has data() writes its first n bytes.
Write(b, n) ==
  /\ b \in alive /\ data_[b] # nullptr /\ n <= size_[b]
  /\ heap' = [heap EXCEPT ![data_[b]].dirty = IF @ < n THEN n ELSE @]
  /\ UNCHANGED <<alive, data_, size_, handed>>

KeepSizeMutant(b) == size_
SizeAfterRelease(b) == [size_ EXCEPT ![b] = 0]

(***************************************************************************)
(* HandOff(buffer, n): Release(), with the number of bytes that were       *)
(* written; the block may be longer (EncryptBuffer's worst case).          *)
(***************************************************************************)
HandOff(b, n) ==
  /\ b \in alive /\ n <= size_[b]
  /\ data_[b] # nullptr => heap[data_[b]].dirty <= n
  /\ handed' = handed \cup {[ptr |-> data_[b], size |-> n]}
  /\ data_' = [data_ EXCEPT ![b] = nullptr] /\ size_' = SizeAfterRelease(b)
  /\ UNCHANGED <<alive, heap>>

\* mc_free(ptr, size): NULL is left alone.
mc_free(h) ==
  /\ h \in handed /\ handed' = handed \ {h}
  /\ heap' = IF h.ptr = nullptr THEN heap ELSE WipeAndDelete(heap, h.ptr, h.size)
  /\ UNCHANGED <<alive, data_, size_>>

\* Other code allocates, writes and frees what is free here.
OtherUse(k, n) ==
  /\ ~heap[k].live /\ heap' = [heap EXCEPT ![k].dirty = n]
  /\ UNCHANGED <<alive, data_, size_, handed>>

Next ==
  \/ \E b \in Buffers : Construct(b) \/ Destroy(b)
  \/ \E a, b \in Buffers : MoveConstruct(a, b) \/ MoveAssign(a, b)
  \/ \E b \in Buffers, n \in 0..MaxSize : Reset(b, n) \/ Write(b, n) \/ HandOff(b, n)
  \/ \E h \in handed : mc_free(h)
  \/ \E k \in Blocks, n \in 0..MaxSize : OtherUse(k, n)

Spec == Init /\ [][Next]_vars

----------------------------------------------------------------------------
(* Properties.                                                             *)

\* Types; a buffer's size_ is its block's length, so that a wipe covers it.
TypeOK ==
  /\ alive \subseteq Buffers
  /\ data_ \in [Buffers -> Blocks \cup {nullptr}] /\ size_ \in [Buffers -> 0..MaxSize]
  /\ handed \subseteq [ptr : Blocks \cup {nullptr}, size : 0..MaxSize]
  /\ heap \in [Blocks -> [live : BOOLEAN, len : 0..MaxSize, dirty : 0..MaxSize]]
  /\ \A b \in Buffers :
       size_[b] = IF data_[b] = nullptr THEN 0 ELSE heap[data_[b]].len

Owned(p) == (\E b \in Buffers : data_[b] = p) \/ (\E h \in handed : h.ptr = p)

(***************************************************************************)
(* Every live block has exactly one owner and a freed block has none: no   *)
(* sequence of moves, releases and resets frees a block twice, leaks one,  *)
(* or leaves a buffer or a caller with a block that is gone.  A destroyed  *)
(* buffer owns nothing.                                                    *)
(***************************************************************************)
NotShared ==
  /\ \A a, b \in Buffers : data_[a] = data_[b] /\ data_[a] # nullptr => a = b
  /\ \A g, h \in handed : g.ptr = h.ptr /\ g.ptr # nullptr => g = h
  /\ \A b \in Buffers, h \in handed : data_[b] = h.ptr => h.ptr = nullptr
OneOwner ==
  /\ NotShared
  /\ \A k \in Blocks : heap[k].live <=> Owned(k)
  /\ \A b \in Buffers \ alive : data_[b] = nullptr

(***************************************************************************)
(* A block goes back to the allocator without a byte of what it held,      *)
(* whoever frees it, mc_free with a size smaller than the block included   *)
(* (secure_buffer.h:7-18, model_crypt.h:361-366); and none starts with     *)
(* bytes another user of the heap left in it (secure_buffer.cc:50-52).     *)
(***************************************************************************)
BlocksChangeHandsClean ==
  [][\A k \in Blocks : heap'[k].live # heap[k].live => heap'[k].dirty = 0]_vars
=============================================================================

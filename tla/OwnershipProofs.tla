-------------------------- MODULE OwnershipProofs ---------------------------
(***************************************************************************)
(* For any number of buffers, blocks and sizes: one owner per live block,  *)
(* and no block freed with its bytes.  The invariant needs what the wipe   *)
(* relies on: size_ is the block's length, and the size handed to a caller *)
(* covers every byte that was written.                                     *)
(***************************************************************************)
EXTENDS Ownership, TLAPS

\* Wherever a block will be freed from, the size given there covers its bytes.
Covered ==
  /\ \A k \in Blocks : heap[k].live => heap[k].dirty <= heap[k].len
  /\ \A h \in handed : h.ptr # nullptr => heap[h.ptr].dirty <= h.size

OwnershipInv == TypeOK /\ OneOwner /\ Covered

\* The heap without the block p, wiped.
Without(p) ==
  [k \in Blocks |-> IF k = p THEN [live |-> FALSE, len |-> heap[k].len, dirty |-> 0]
                    ELSE heap[k]]

\* A live block is freed clean when the size covers its bytes.
LEMMA WipeFrees ==
  ASSUME TypeOK, NEW k \in Blocks, NEW n, heap[k].live, heap[k].dirty <= n
  PROVE  WipeAndDelete(heap, k, n) = Without(k)
<1> DEFINE clean == [live |-> FALSE, len |-> heap[k].len, dirty |-> 0]
<1>1. WipeAndDelete(heap, k, n) = [heap EXCEPT ![k] = clean]
  BY DEF WipeAndDelete, SecureWipe
<1>2. heap = [j \in Blocks |-> heap[j]]
  BY DEF TypeOK
<1> HIDE DEF clean
<1>3. [heap EXCEPT ![k] = clean] = [j \in Blocks |-> IF j = k THEN clean ELSE heap[j]]
  BY <1>2
<1> QED BY <1>1, <1>3 DEF Without, clean

\* WipeAndFree wipes the whole block of the buffer, and touches no other.
LEMMA BufferFreesItsBlock ==
  ASSUME OwnershipInv, NEW b \in Buffers
  PROVE  WipeAndFree(b) = Without(data_[b])
<1>1. CASE data_[b] = nullptr
  BY <1>1, OwnershipAssumption DEF WipeAndFree, Without, OwnershipInv, TypeOK
<1>2. CASE data_[b] # nullptr
  <2>1. data_[b] \in Blocks /\ heap[data_[b]].live
    BY <1>2 DEF OwnershipInv, TypeOK, OneOwner, Owned
  <2>2. heap[data_[b]].dirty <= size_[b]
    BY <1>2, <2>1 DEF OwnershipInv, TypeOK, Covered
  <2>3. WipeAndDelete(heap, data_[b], size_[b]) = Without(data_[b])
    BY <2>1, <2>2, WipeFrees DEF OwnershipInv
  <2> QED BY <1>2, <2>3 DEF WipeAndFree
<1> QED BY <1>1, <1>2

\* mc_free does the same for a block that was handed to a caller.
LEMMA CallerFreesItsBlock ==
  ASSUME OwnershipInv, NEW h \in handed, h.ptr # nullptr
  PROVE  WipeAndDelete(heap, h.ptr, h.size) = Without(h.ptr)
<1>1. h.ptr \in Blocks /\ heap[h.ptr].live /\ heap[h.ptr].dirty <= h.size
  BY DEF OwnershipInv, TypeOK, OneOwner, Owned, Covered
<1> QED BY <1>1, WipeFrees DEF OwnershipInv

HeapType == [Blocks -> [live : BOOLEAN, len : 0..MaxSize, dirty : 0..MaxSize]]

\* What Without changes, point by point.
LEMMA WithoutPointwise ==
  ASSUME TypeOK, NEW p
  PROVE  /\ Without(p) \in HeapType
         /\ \A j \in Blocks : j # p => Without(p)[j] = heap[j]
         /\ \A j \in Blocks : j = p => /\ ~Without(p)[j].live /\ Without(p)[j].dirty = 0
                                     /\ Without(p)[j].len = heap[j].len
BY OwnershipAssumption DEF Without, HeapType, TypeOK

----------------------------------------------------------------------------
(* One lemma per action that moves a block.                                *)

\* A buffer that is emptied frees its block; everybody else's stays as it was.
LEMMA EmptiedKeepsInv ==
  ASSUME OwnershipInv, NEW b \in Buffers, b \in alive,
         alive' \in {alive, alive \ {b}}, handed' = handed, heap' = WipeAndFree(b),
         data_' = [data_ EXCEPT ![b] = nullptr], size_' = [size_ EXCEPT ![b] = 0]
  PROVE  OwnershipInv'
<1> USE OwnershipAssumption DEF OwnershipInv
<1> DEFINE freed == data_[b]
<1>1. /\ heap' \in HeapType
      /\ \A j \in Blocks : j # freed => heap'[j] = heap[j]
      /\ \A j \in Blocks : j = freed => ~heap'[j].live
  BY BufferFreesItsBlock, WithoutPointwise
<1>2. /\ data_'[b] = nullptr /\ \A a \in Buffers \ {b} : data_'[a] = data_[a]
      /\ size_'[b] = 0 /\ \A a \in Buffers \ {b} : size_'[a] = size_[a]
  BY DEF TypeOK
<1>3. TypeOK'
  <2>1. data_' \in [Buffers -> Blocks \cup {nullptr}] /\ size_' \in [Buffers -> 0..MaxSize]
    BY DEF TypeOK
  <2>2. ASSUME NEW a \in Buffers
        PROVE  size_'[a] = IF data_'[a] = nullptr THEN 0 ELSE heap'[data_'[a]].len
    BY <1>1, <1>2 DEF TypeOK, OneOwner, NotShared
  <2> QED BY <1>1, <2>1, <2>2 DEF TypeOK, HeapType
<1>4. OneOwner'
  <2>1. NotShared' BY <1>2 DEF OneOwner, NotShared, TypeOK
  <2>2. ASSUME NEW j \in Blocks PROVE heap'[j].live <=> Owned(j)'
    BY <1>1, <1>2 DEF OneOwner, NotShared, Owned, TypeOK
  <2> QED BY <1>2, <2>1, <2>2 DEF OneOwner
<1>5. Covered' BY <1>1, <1>2 DEF TypeOK, Covered, OneOwner, NotShared, Owned
<1> QED BY <1>3, <1>4, <1>5

\* Reset: the old block is freed, and the new one was nobody's.
LEMMA ResetKeepsInv ==
  ASSUME OwnershipInv, NEW b \in Buffers, NEW n \in 0..MaxSize, Reset(b, n)
  PROVE  OwnershipInv'
<1> USE OwnershipAssumption DEF OwnershipInv
<1> DEFINE rest == Without(data_[b])
<1>1. WipeAndFree(b) = rest
  BY BufferFreesItsBlock
<1>2. /\ rest \in HeapType
      /\ \A j \in Blocks : j # data_[b] => rest[j] = heap[j]
      /\ \A j \in Blocks : j = data_[b] => ~rest[j].live
  BY WithoutPointwise
<1>3. CASE /\ data_' = [data_ EXCEPT ![b] = nullptr] /\ size_' = [size_ EXCEPT ![b] = 0]
           /\ heap' = WipeAndFree(b)
  BY <1>3, EmptiedKeepsInv DEF Reset
<1>4. ASSUME NEW k \in Blocks, ~rest[k].live, n > 0, heap' = New(rest, k, n),
             data_' = [data_ EXCEPT ![b] = k], size_' = [size_ EXCEPT ![b] = n]
      PROVE  OwnershipInv'
  <2> HIDE DEF rest
  <2>1. /\ \A a \in Buffers \ {b} : data_[a] # k
        /\ \A h \in handed : h.ptr # k
    BY <1>2, <1>4 DEF OneOwner, NotShared, Owned, TypeOK
  <2>2. /\ heap' \in HeapType /\ heap'[k] = [live |-> TRUE, len |-> n, dirty |-> 0]
        /\ \A j \in Blocks \ {k} : heap'[j] = rest[j]
    BY <1>2, <1>4 DEF New, HeapType
  <2>3. alive' = alive /\ handed' = handed /\ b \in alive
    BY DEF Reset
  <2>4. /\ data_'[b] = k /\ \A a \in Buffers \ {b} : data_'[a] = data_[a]
        /\ size_'[b] = n /\ \A a \in Buffers \ {b} : size_'[a] = size_[a]
    BY <1>4 DEF TypeOK
  <2>5. TypeOK'
    <3>1. data_' \in [Buffers -> Blocks \cup {nullptr}] /\ size_' \in [Buffers -> 0..MaxSize]
      BY <1>4 DEF TypeOK
    <3>2. ASSUME NEW a \in Buffers
          PROVE  size_'[a] = IF data_'[a] = nullptr THEN 0 ELSE heap'[data_'[a]].len
      BY <1>2, <2>1, <2>2, <2>4 DEF TypeOK, OneOwner, NotShared
    <3> QED BY <2>2, <2>3, <3>1, <3>2 DEF TypeOK, HeapType
  <2>6. OneOwner'
    <3>1. NotShared' BY <2>1, <2>3, <2>4 DEF OneOwner, NotShared, Owned, TypeOK
    <3>2. ASSUME NEW j \in Blocks PROVE heap'[j].live <=> Owned(j)'
      BY <1>2, <2>1, <2>2, <2>3, <2>4 DEF OneOwner, NotShared, Owned, TypeOK
    <3> QED BY <2>3, <2>4, <3>1, <3>2 DEF OneOwner
  <2>7. Covered'
    BY <1>2, <2>1, <2>2, <2>3, <2>4 DEF TypeOK, Covered, OneOwner, NotShared, Owned
  <2> QED BY <2>5, <2>6, <2>7
<1> QED BY <1>1, <1>3, <1>4 DEF Reset

\* A block moves from one buffer to an empty or a new one.
LEMMA MoveKeepsInv ==
  ASSUME OwnershipInv, NEW a \in Buffers, NEW b \in Buffers, a # b,
         MoveConstruct(a, b) \/ MoveAssign(a, b)
  PROVE  OwnershipInv'
<1> USE OwnershipAssumption DEF OwnershipInv
<1> DEFINE freed == data_[a]
<1>1. heap' = WipeAndFree(a)
  <2>1. CASE MoveConstruct(a, b)
    <3>1. data_[a] = nullptr BY <2>1 DEF MoveConstruct, OneOwner
    <3> QED BY <2>1, <3>1 DEF MoveConstruct, WipeAndFree
  <2> QED BY <2>1 DEF MoveAssign
<1>2. /\ heap' \in HeapType
      /\ \A j \in Blocks : j # freed => heap'[j] = heap[j]
      /\ \A j \in Blocks : j = freed => ~heap'[j].live
  BY <1>1, BufferFreesItsBlock, WithoutPointwise
<1>3. /\ alive' = alive \cup {a} /\ b \in alive /\ handed' = handed
      /\ data_' = [data_ EXCEPT ![a] = data_[b], ![b] = nullptr]
      /\ size_' = [size_ EXCEPT ![a] = size_[b], ![b] = 0]
  BY DEF MoveConstruct, MoveAssign, TakeOver
<1>4. /\ data_'[a] = data_[b] /\ data_'[b] = nullptr
      /\ \A c \in Buffers \ {a, b} : data_'[c] = data_[c]
      /\ size_'[a] = size_[b] /\ size_'[b] = 0
      /\ \A c \in Buffers \ {a, b} : size_'[c] = size_[c]
  BY <1>3 DEF TypeOK
<1>5. TypeOK'
  <2>1. data_' \in [Buffers -> Blocks \cup {nullptr}] /\ size_' \in [Buffers -> 0..MaxSize]
    BY <1>3 DEF TypeOK
  <2>2. ASSUME NEW c \in Buffers
        PROVE  size_'[c] = IF data_'[c] = nullptr THEN 0 ELSE heap'[data_'[c]].len
    BY <1>2, <1>4 DEF TypeOK, OneOwner, NotShared
  <2> QED BY <1>2, <1>3, <2>1, <2>2 DEF TypeOK, HeapType
<1>6. OneOwner'
  <2>1. NotShared' BY <1>3, <1>4 DEF OneOwner, NotShared, TypeOK
  <2>2. ASSUME NEW j \in Blocks PROVE heap'[j].live <=> Owned(j)'
    BY <1>2, <1>3, <1>4 DEF OneOwner, NotShared, Owned, TypeOK
  <2> QED BY <1>3, <1>4, <2>1, <2>2 DEF OneOwner
<1>7. Covered' BY <1>2, <1>3, <1>4 DEF TypeOK, Covered, OneOwner, NotShared, Owned
<1> QED BY <1>5, <1>6, <1>7

\* The block goes to a caller, with a size that covers what was written.
LEMMA HandOffKeepsInv ==
  ASSUME OwnershipInv, NEW b \in Buffers, NEW n \in 0..MaxSize, HandOff(b, n)
  PROVE  OwnershipInv'
<1> USE OwnershipAssumption DEF OwnershipInv
<1> DEFINE new == [ptr |-> data_[b], size |-> n]
<1>1. /\ alive' = alive /\ heap' = heap /\ b \in alive /\ handed' = handed \cup {new}
      /\ new.ptr = data_[b] /\ new.size = n
      /\ new \in [ptr : Blocks \cup {nullptr}, size : 0..MaxSize]
      /\ data_[b] # nullptr => heap[data_[b]].dirty <= n
  BY DEF HandOff, TypeOK
<1>2. /\ data_'[b] = nullptr /\ \A a \in Buffers \ {b} : data_'[a] = data_[a]
      /\ size_'[b] = 0 /\ \A a \in Buffers \ {b} : size_'[a] = size_[a]
      /\ data_' \in [Buffers -> Blocks \cup {nullptr}] /\ size_' \in [Buffers -> 0..MaxSize]
  BY DEF HandOff, SizeAfterRelease, TypeOK
<1> HIDE DEF new
<1>3. TypeOK' BY <1>1, <1>2 DEF TypeOK
<1>4. OneOwner'
  <2>1. NotShared' BY <1>1, <1>2 DEF OneOwner, NotShared, TypeOK
  <2>2. ASSUME NEW j \in Blocks PROVE heap'[j].live <=> Owned(j)'
    BY <1>1, <1>2 DEF OneOwner, NotShared, Owned, TypeOK
  <2> QED BY <1>1, <1>2, <2>1, <2>2 DEF OneOwner
<1>5. Covered' BY <1>1, <1>2 DEF TypeOK, Covered
<1> QED BY <1>3, <1>4, <1>5

\* mc_free: the caller's pointer and its block go together.
LEMMA FreeKeepsInv ==
  ASSUME OwnershipInv, NEW h \in handed, mc_free(h)
  PROVE  OwnershipInv'
<1> USE OwnershipAssumption DEF OwnershipInv
<1>1. /\ alive' = alive /\ data_' = data_ /\ size_' = size_ /\ handed' = handed \ {h}
      /\ h.ptr = nullptr => heap' = heap
  BY DEF mc_free
<1>2. /\ heap' \in HeapType
      /\ \A j \in Blocks : j # h.ptr => heap'[j] = heap[j]
      /\ \A j \in Blocks : j = h.ptr => ~heap'[j].live
  <2>1. CASE h.ptr = nullptr BY <1>1, <2>1 DEF TypeOK, HeapType
  <2>2. CASE h.ptr # nullptr
    BY <2>2, CallerFreesItsBlock, WithoutPointwise DEF mc_free
  <2> QED BY <2>1, <2>2
<1>3. TypeOK'
  <2>1. ASSUME NEW a \in Buffers
        PROVE  size_'[a] = IF data_'[a] = nullptr THEN 0 ELSE heap'[data_'[a]].len
    BY <1>1, <1>2 DEF TypeOK, OneOwner, NotShared
  <2> QED BY <1>1, <1>2, <2>1 DEF TypeOK, HeapType
<1>4. OneOwner'
  <2>1. NotShared' BY <1>1 DEF OneOwner, NotShared
  <2>2. ASSUME NEW j \in Blocks PROVE heap'[j].live <=> Owned(j)'
    BY <1>1, <1>2 DEF OneOwner, NotShared, Owned, TypeOK
  <2> QED BY <1>1, <2>1, <2>2 DEF OneOwner
<1>5. Covered' BY <1>1, <1>2 DEF TypeOK, Covered, OneOwner, NotShared, Owned
<1> QED BY <1>3, <1>4, <1>5

\* Writing into a block, and what others do to blocks nobody here owns.
LEMMA WriteKeepsInv ==
  ASSUME OwnershipInv, NEW k \in Blocks, NEW n \in 0..MaxSize, NEW m \in 0..MaxSize,
         heap' = [heap EXCEPT ![k].dirty = m], UNCHANGED <<alive, data_, size_, handed>>,
         heap[k].live => m <= heap[k].len /\ \A h \in handed : h.ptr # k
  PROVE  OwnershipInv'
<1> USE OwnershipAssumption DEF OwnershipInv
<1>1. /\ heap' \in HeapType
      /\ \A j \in Blocks : heap'[j].live = heap[j].live /\ heap'[j].len = heap[j].len
      /\ \A j \in Blocks \ {k} : heap'[j] = heap[j]
      /\ heap'[k].dirty = m
  BY DEF TypeOK, HeapType
<1>2. TypeOK' BY <1>1 DEF TypeOK, HeapType
<1>3. OneOwner' BY <1>1 DEF OneOwner, NotShared, Owned
<1>4. Covered' BY <1>1 DEF Covered, OneOwner, NotShared, Owned, TypeOK
<1> QED BY <1>2, <1>3, <1>4

----------------------------------------------------------------------------
(* The theorems.                                                           *)

LEMMA InvHolds == Spec => []OwnershipInv
<1> USE OwnershipAssumption
<1>1. Init => OwnershipInv
  BY DEF Init, OwnershipInv, TypeOK, OneOwner, NotShared, Owned, Covered
<1>2. OwnershipInv /\ [Next]_vars => OwnershipInv'
  <2> SUFFICES ASSUME OwnershipInv, [Next]_vars PROVE OwnershipInv'
    OBVIOUS
  <2>1. ASSUME NEW b \in Buffers, Construct(b) PROVE OwnershipInv'
    BY <2>1 DEF Construct, OwnershipInv, TypeOK, OneOwner, NotShared, Owned, Covered
  <2>2. ASSUME NEW b \in Buffers, Destroy(b) PROVE OwnershipInv'
    BY <2>2, EmptiedKeepsInv DEF Destroy
  <2>3. ASSUME NEW a \in Buffers, NEW b \in Buffers, MoveConstruct(a, b) \/ MoveAssign(a, b)
        PROVE  OwnershipInv'
    <3>1. a # b BY <2>3 DEF MoveConstruct, MoveAssign
    <3> QED BY <2>3, <3>1, MoveKeepsInv
  <2>4. ASSUME NEW b \in Buffers, NEW n \in 0..MaxSize, Reset(b, n) PROVE OwnershipInv'
    BY <2>4, ResetKeepsInv
  <2>5. ASSUME NEW b \in Buffers, NEW n \in 0..MaxSize, Write(b, n) PROVE OwnershipInv'
    <3>1. data_[b] \in Blocks /\ n <= heap[data_[b]].len
      BY <2>5 DEF Write, OwnershipInv, TypeOK
    <3>2. \A h \in handed : h.ptr # data_[b]
      BY <2>5 DEF Write, OwnershipInv, OneOwner, NotShared
    <3>3. heap[data_[b]].live /\ heap[data_[b]].dirty <= heap[data_[b]].len
      BY <3>1 DEF OwnershipInv, OneOwner, Owned, Covered
    <3> DEFINE m == IF heap[data_[b]].dirty < n THEN n ELSE heap[data_[b]].dirty
    <3>4. m \in 0..MaxSize /\ m <= heap[data_[b]].len
      BY <3>1, <3>3 DEF OwnershipInv, TypeOK
    <3>5. heap' = [heap EXCEPT ![data_[b]].dirty = m]
      BY <2>5 DEF Write
    <3> HIDE DEF m
    <3> QED BY <2>5, <3>1, <3>2, <3>4, <3>5, WriteKeepsInv DEF Write
  <2>6. ASSUME NEW b \in Buffers, NEW n \in 0..MaxSize, HandOff(b, n) PROVE OwnershipInv'
    BY <2>6, HandOffKeepsInv
  <2>7. ASSUME NEW h \in handed, mc_free(h) PROVE OwnershipInv'
    BY <2>7, FreeKeepsInv
  <2>8. ASSUME NEW k \in Blocks, NEW n \in 0..MaxSize, OtherUse(k, n) PROVE OwnershipInv'
    BY <2>8, WriteKeepsInv DEF OtherUse
  <2>9. CASE UNCHANGED vars
    BY <2>9 DEF vars, OwnershipInv, TypeOK, OneOwner, NotShared, Owned, Covered
  <2> QED BY <2>1, <2>2, <2>3, <2>4, <2>5, <2>6, <2>7, <2>8, <2>9 DEF Next
<1> QED BY <1>1, <1>2, PTL DEF Spec

\* Types, and a buffer's size_ is its block's length (secure_buffer.h:54-55).
THEOREM OwnershipTypes == Spec => []TypeOK
BY InvHolds, PTL DEF OwnershipInv

(***************************************************************************)
(* No sequence of moves, resets, hand-offs and frees, over any number of   *)
(* buffers and blocks, frees a block twice, leaks one or keeps one that is *)
(* gone (secure_buffer.cc, c_api.cc:46-53 and 287-296).                    *)
(***************************************************************************)
THEOREM BlocksHaveOneOwner == Spec => []OneOwner
BY InvHolds, PTL DEF OwnershipInv

(***************************************************************************)
(* Every block is wiped before it is freed, by the destructor and by       *)
(* mc_free with the size it was handed (secure_buffer.cc:71-80), and       *)
(* zeroed before it is used (secure_buffer.cc:50-52).                      *)
(***************************************************************************)
THEOREM BlocksAreClean == Spec => BlocksChangeHandsClean
<1> USE OwnershipAssumption
<1> DEFINE Clean == \A k \in Blocks : heap'[k].live # heap[k].live => heap'[k].dirty = 0
<1>1. OwnershipInv /\ [Next]_vars => [Clean]_vars
  <2> SUFFICES ASSUME OwnershipInv, Next, NEW k \in Blocks, heap'[k].live # heap[k].live
               PROVE  heap'[k].dirty = 0
    BY DEF vars
  <2>1. TypeOK BY DEF OwnershipInv
  <2>2. ASSUME NEW p, heap' = Without(p) PROVE heap'[k].dirty = 0
    BY <2>1, <2>2, WithoutPointwise
  <2>3. ASSUME NEW b \in Buffers, heap' = WipeAndFree(b) PROVE heap'[k].dirty = 0
    BY <2>2, <2>3, BufferFreesItsBlock
  <2>4. ASSUME NEW b \in Buffers, NEW n \in 0..MaxSize, Reset(b, n) PROVE heap'[k].dirty = 0
    <3>1. CASE heap' = WipeAndFree(b) BY <2>3, <3>1
    <3>2. ASSUME NEW j \in Blocks, heap' = New(Without(data_[b]), j, n) PROVE heap'[k].dirty = 0
      BY <2>1, <3>2, WithoutPointwise DEF New, HeapType
    <3> QED BY <2>4, <3>1, <3>2, BufferFreesItsBlock DEF Reset
  <2>5. ASSUME NEW h \in handed, mc_free(h) PROVE heap'[k].dirty = 0
    BY <2>2, <2>5, CallerFreesItsBlock DEF mc_free
  <2>6. ASSUME NEW j \in Blocks, NEW m, heap' = [heap EXCEPT ![j].dirty = m] PROVE heap'[k].dirty = 0
    BY <2>1, <2>6 DEF TypeOK
  <2>7. ASSUME NEW b \in Buffers, NEW n \in 0..MaxSize, Write(b, n) PROVE heap'[k].dirty = 0
    <3>1. data_[b] \in Blocks BY <2>1, <2>7 DEF Write, TypeOK
    <3> QED BY <2>6, <2>7, <3>1 DEF Write
  <2> QED BY <2>3, <2>4, <2>5, <2>6, <2>7
          DEF Next, Construct, Destroy, MoveConstruct, MoveAssign, HandOff, OtherUse
<1> QED BY <1>1, InvHolds, PTL DEF Spec, BlocksChangeHandsClean
=============================================================================

---------------------------- MODULE MCOwnership -----------------------------
(***************************************************************************)
(* Three buffers, so that a moved-from buffer can be moved to and from     *)
(* again while two others own blocks; two blocks of up to two bytes.       *)
(***************************************************************************)
EXTENDS Ownership, TLC

Symmetry == Permutations(Buffers) \cup Permutations(Blocks)
=============================================================================

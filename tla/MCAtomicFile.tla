---------------------------- MODULE MCAtomicFile ----------------------------
(***************************************************************************)
(* Two writers, or a writer and a reader, on one destination: a plaintext  *)
(* of two parts (0600), a ciphertext of one or three (0644), an empty file. *)
(* Names and inodes suffice for both writers and the old file, or for the  *)
(* old file a reader holds and the one that replaces it; what a crash      *)
(* leaves behind takes the place of one of them.                           *)
(***************************************************************************)
EXTENDS AtomicFile, TLC

Plain == [of |-> "plain", parts |-> 2, mode |-> "0600"]
Sealed == [of |-> "sealed", parts |-> 1, mode |-> "0644"]
Nothing == [of |-> "nothing", parts |-> 0, mode |-> "0600"]

TwoJobs == {Plain, Sealed}
LongSealed == [Sealed EXCEPT !.parts = 3]
ThreeJobs == {Plain, LongSealed, Nothing}

Symmetry == Permutations(Temps) \cup Permutations(Inodes) \cup Permutations(Writers)
=============================================================================

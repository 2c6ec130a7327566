------------------------------- MODULE MCAead -------------------------------
(* Lengths up to one more than an int holds, two keys and two nonces. *)
EXTENDS Aead, TLC
CONSTANTS k1, k2, n1, n2, x, y
MCAads == {<<>>, <<x>>, <<y, y, y>>}
MCTexts == {<<>>, <<x>>, <<y, x>>, <<x, y, x>>}
Symmetry == Permutations(Keys) \cup Permutations(Nonces)
=============================================================================

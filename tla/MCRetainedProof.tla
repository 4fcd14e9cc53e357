-------------------------- MODULE MCRetainedProof ---------------------------
(***************************************************************************)
(* RetainedProof with two lines that share an entry, two words, two tokens *)
(* and one-bit epochs.                                                     *)
(***************************************************************************)
EXTENDS RetainedProof, TLC

MCLine == 0 .. 1
MCIndex == {0}
MCDirIdx == [l \in MCLine |-> 0]

Symmetry == Permutations(Word) \cup Permutations(Token)
=============================================================================

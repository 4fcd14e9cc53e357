------------------------- MODULE MCSourceAuthority --------------------------
(* SourceAuthority with two lines that share an entry of the directory.    *)
EXTENDS SourceAuthority, TLC

MCIndex == {0}
MCDirIdx == [l \in Line |-> 0]

Symmetry == Permutations(Line) \cup Permutations(Value)
=============================================================================

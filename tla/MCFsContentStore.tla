--------------------------- MODULE MCFsContentStore ---------------------------
(* FsContentStore on small instances.                                      *)
EXTENDS FsContentStore, TLC

(* Every content takes its number of bytes: a cap of 3 holds the third     *)
(* alone, or the first two.                                                *)
SizeIsHash == [h \in Hashes |-> h]

Symmetry == Permutations(Tasks) \cup Permutations(Aliases)

=============================================================================

------------------------ MODULE MCDynamicController ------------------------
(* DynamicController for TLC: objects and hashes are interchangeable.      *)
EXTENDS DynamicController, TLC

Symmetry == Permutations(Uids) \cup Permutations(Hashes)
=============================================================================

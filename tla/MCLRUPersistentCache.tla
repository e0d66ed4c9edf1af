------------------------ MODULE MCLRUPersistentCache ------------------------
(***************************************************************************)
(* Instances of LRUPersistentCache for TLC.  Keys, values, layers and      *)
(* clients are interchangeable.                                            *)
(***************************************************************************)
EXTENDS LRUPersistentCache

Symmetry ==
  Permutations(Key) \cup Permutations(Val) \cup Permutations(Layer) \cup Permutations(Client)
=============================================================================

------------------------ MODULE MCConnectionManager ------------------------
(* ConnectionManager for TLC: which connection is which does not matter. *)
EXTENDS ConnectionManager, TLC

Symmetry == Permutations(Conn)
=============================================================================

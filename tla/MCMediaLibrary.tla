-------------------------- MODULE MCMediaLibrary --------------------------
(* TLC instance of FileDelivery over MediaLibrary. *)
EXTENDS FileDelivery, TLC

CONSTANTS i1, i2, k1, k2, k3, l1, t1, g1, j1, j2, a1, a2

Symmetry == Permutations({i1, i2}) \cup Permutations({k1, k2, k3}) \cup Permutations({a1, a2}) \cup Permutations({j1, j2})
=============================================================================

--------------------------- MODULE MCRfqDelivery ---------------------------
(* TLC instances of RfqDelivery. *)
EXTENDS RfqDelivery, TLC

CONSTANTS w1, w2

Symmetry == Permutations(Workers)
=============================================================================

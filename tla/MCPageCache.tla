---------------------------- MODULE MCPageCache ----------------------------
(* TLC instances of PageCache. *)
EXTENDS PageCache, TLC

CONSTANTS p1, p2, v1, t1
=============================================================================

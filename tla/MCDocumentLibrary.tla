------------------------- MODULE MCDocumentLibrary -------------------------
(* TLC instances of DocumentLibrary. *)
EXTENDS DocumentLibrary, TLC

CONSTANTS r1, r2, r3, v1, s1
=============================================================================

--------------------------- MODULE MCAdminForms ---------------------------
(* TLC instance of AdminForms, and of SlaContent with it. *)
EXTENDS AdminForms, TLC

CONSTANTS s1, s2, s3, x1, x2, m1, m2, d1, d2, a1, a2, e1, i1

Symmetry ==
  Permutations({m1, m2}) \cup Permutations({a1, a2})
    \cup Permutations({s2, s3})
=============================================================================

----------------------------- MODULE MCCatalog -----------------------------
(* TLC instance of Catalog and of CatalogListing: two machines that share  *)
(* no state here. In a behaviour one of them has spent its bounds from the *)
(* start, and the other one moves.                                         *)
EXTENDS Catalog, CatalogListing, TLC

CONSTANTS c1, c2, c3, m1, s1, p1, p2, a1, a2, n1, n2, b1, l1

OneSlug == [p \in Products |-> "slug"]
TwoLevels == [n \in {n1, n2} |-> IF n = n1 THEN Unset ELSE n1]
Symmetry == Permutations({c1, c2, c3}) \cup Permutations({a1, a2}) \cup Permutations(Products)

NoVisitor ==
  /\ load = Blank /\ page = Blank /\ acts = MaxActs
  /\ item = [i \in Items |-> [status |-> "draft", category |-> n1, maker |-> b1,
                              line |-> Unset, hit |-> FALSE]]
NoAdmins ==
  /\ links = <<>> /\ used = {} /\ admin = [a \in Admins |-> Idle]
  /\ made = MaxRequests /\ raced = FALSE

RunInit == (Init /\ NoVisitor) \/ (NoAdmins /\ ListingInit)
RunNext == (Next /\ UNCHANGED listingVars) \/ (ListingNext /\ UNCHANGED vars)
RunSpec == RunInit /\ [][RunNext]_<<vars, listingVars>>
=============================================================================

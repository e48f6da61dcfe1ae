--------------------------- MODULE MCLivePublish ---------------------------
(* TLC instance of LivePublish and Sitemap. *)
EXTENDS Sitemap, TLC

CONSTANTS p1, p2, p3, m1, m2, c1, c2, s1, i1, i2, j1, v1, d1, k1, g1, home, settings, sla, t1, t2, en, tr

(* A product with a datasheet and an accessory, in a category below        *)
(* another, and in an industry with a service, a certificate and a project *)
(* the product was supplied to. What nothing refers to comes later.        *)
SeedLinks == [x \in {p1, p2, p3, m1, m2, c1, c2, s1, i1, i2, j1, v1, d1, k1, g1, home, settings, sla} |->
  CASE x = p1 -> {c2, m1, i1}
    [] x = p2 -> {c2, m1, p1}
    [] x = c2 -> {c1}
    [] x = s1 -> {m1}
    [] x = j1 -> {i1, p1}
    [] x = v1 -> {i1}
    [] x = d1 -> {p1}
    [] x = k1 -> {i1}
    [] x = g1 -> {p1, c2}
    [] OTHER -> {}]
=============================================================================

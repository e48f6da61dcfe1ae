--------------------------- MODULE MCInquiryForm ---------------------------
(* Instances for TLC: a catalog before and after an edit, and URLs that    *)
(* name one thing or several.                                              *)
EXTENDS InquiryForm

CONSTANTS i1, i2, p1, c1, c2

Order == <<c1, c2>>
Whole == [project |-> TRUE, industry |-> i1, categories |-> {c1, c2},
          products |-> [p \in Products |-> c1], listed |-> Industries, tree |-> Categories]
States ==
  {Whole, [Whole EXCEPT !.project = FALSE, !.tree = {c1}],
   [Whole EXCEPT !.industry = i2, !.categories = {c2}, !.products[p1] = None]}
Nothing == [project |-> FALSE, product |-> None, industry |-> None, category |-> None, q |-> FALSE]
Urls ==
  {[Nothing EXCEPT !.project = TRUE], [Nothing EXCEPT !.category = c2, !.q = TRUE],
   [project |-> TRUE, product |-> p1, industry |-> i2, category |-> c2, q |-> TRUE]}
=============================================================================

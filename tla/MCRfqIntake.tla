---------------------------- MODULE MCRfqIntake ----------------------------
(* TLC instances of LeadDesk, which extends RfqIntake. *)
EXTENDS LeadDesk, TLC

CONSTANTS r1, r2, c1, c2, e1, e2, d1

Form(c, b, f, t) == [client |-> c, body |-> b, file |-> f, trap |-> t]

(* Every kind of body, file and trap that gets past the guards or is       *)
(* stopped by each of them, and requests of a second client.               *)
StoreForms == {Form(c1, "valid", "clean", FALSE), Form(c1, "valid", "none", FALSE),
               Form(c1, "valid", "clean", TRUE), Form(c1, "valid", "infected", FALSE)}
StoppedForms == {Form(c1, "refused", "none", FALSE), Form(c1, "invalid", "none", FALSE),
                 Form(c2, "invalid", "none", FALSE)}
AllForms == StoreForms \cup StoppedForms

Symmetry == Permutations(Requests) \cup Permutations(Erasers)
=============================================================================

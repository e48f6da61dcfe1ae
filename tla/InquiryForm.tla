---------------------------- MODULE InquiryForm ----------------------------
(***************************************************************************)
(* The inquiry form (RfqForm) from the doorway that seeded it to the lead  *)
(* it becomes. The page resolves the doorway's parameters against the      *)
(* catalog and seeds the form; the buyer edits, clears what was seeded,    *)
(* picks a file and sends, and goes on editing while the answer is on its  *)
(* way; the endpoint resolves the same parameters once more, against what  *)
(* the catalog has become, to say where the lead came from and whether the *)
(* buyer changed what was seeded.                                          *)
(*                                                                         *)
(* Left to other modules: what the endpoint refuses and why (RfqIntake),   *)
(* and that its catalog reads may be cached (PageCache). Labels, languages *)
(* and the fields no doorway seeds are left out; whether those are in      *)
(* order is a choice at each submit.                                       *)
(***************************************************************************)
EXTENDS Naturals, Sequences, FiniteSets

CONSTANTS
  Industries, Products, Categories, Texts, Files, None,
  SlugOrder,     \* Categories in the order of their slugs
  BadFiles,      \* files too large, or of a type that is not taken
  Catalogues,    \* bound: the states of the catalog considered
  Doorways,      \* bound: [project, product, industry, category, q], what the URL names
  ChipBudget,    \* PREFILL_CHIP_BUDGET (12)
  MaxItems,      \* the schema's cap on equipment (20)
  MaxActs, MaxRequests, MaxEdits   \* bounds: the buyer's steps, submits, edits of the catalog

(* A catalog says whether the doorway's project is published, its industry *)
(* and the categories of its published products; the published products    *)
(* with their category; the industries listed; the categories in the tree. *)
CatalogueType ==
  [project : BOOLEAN, industry : Industries \cup {None}, categories : SUBSET Categories,
   products : [Products -> Categories \cup {None}],
   listed : SUBSET Industries, tree : SUBSET Categories]

(* The parameters the form's URL may have. One that is malformed, or there *)
(* twice, counts as absent or by its first value.                          *)
PrefillParams == {"project", "product", "industry", "category", "q"}

DoorwayType ==
  [project : BOOLEAN, product : Products \cup {None}, industry : Industries \cup {None},
   category : Categories \cup {None}, q : BOOLEAN]

ASSUME FormAssumption ==
  /\ Catalogues \subseteq CatalogueType /\ Doorways \subseteq DoorwayType
  /\ ChipBudget \in Nat /\ MaxItems \in Nat /\ ChipBudget < MaxItems
  /\ SlugOrder \in Seq(Categories) /\ BadFiles \subseteq Files
  /\ None \notin Industries \cup Products \cup Categories \cup Texts \cup Files

VARIABLES
  pid,        \* the catalog
  doorway,    \* what the URL named
  seeded,     \* what the page resolved it to, the form's prefill
  form,       \* what is on screen
  requests,   \* the submits, each with what it carried and what became of it
  waiting,    \* the submit whose answer the form awaits, 0 for none
  edits, acts,
  buyer       \* history: what the buyer entered, and what they did

vars == <<pid, doorway, seeded, form, requests, waiting, edits, acts, buyer>>

-----------------------------------------------------------------------------
(* A definition whose name begins with Mutant is not part of the model: it *)
(* is the definition after it with a plausible bug.                        *)

Chip(kind, item) == [kind |-> kind, item |-> item]

(* What a lead's equipment may list: only free text is the buyer's own.    *)
LeadEquipmentItem ==
  {Chip("product", p) : p \in Products} \cup {Chip("category", c) : c \in Categories}
    \cup {Chip("freeText", t) : t \in Texts}
Seedable(chips) == {c \in chips : c.kind # "freeText"}

(* The parameters that name something that is there and published.         *)
Resolved(d) ==
  {p \in PrefillParams :
     CASE p = "project" -> d.project /\ pid.project
       [] p = "product" -> d.product # None /\ pid.products[d.product] # None
       [] p = "industry" -> d.industry \in pid.listed
       [] p = "category" -> d.category \in pid.tree
       [] OTHER -> d.q}

(* What there is to seed, in its order: the categories of the project by   *)
(* slug, the product, the category of the product, the category.           *)
Offer(d, found) ==
  LET n == Len(SlugOrder)
      linked == IF "project" \in found THEN {k \in 1..n : SlugOrder[k] \in pid.categories} ELSE {}
      product == IF "product" \in found THEN {n + 1, n + 2} ELSE {}
      category == IF "category" \in found THEN {n + 3} ELSE {}
  IN [k \in linked \cup product \cup category |->
        CASE k = n + 1 -> Chip("product", d.product)
          [] k = n + 2 -> Chip("category", pid.products[d.product])
          [] k = n + 3 -> Chip("category", d.category)
          [] OTHER -> Chip("category", SlugOrder[k])]

(* push takes no chip twice, and none over the budget: what is seeded are  *)
(* the first ChipBudget different chips.                                   *)
PushedBefore(offer, k) == {offer[j] : j \in {i \in DOMAIN offer : i < k}}
Push(offer) ==
  {offer[k] : k \in {j \in DOMAIN offer : Cardinality(PushedBefore(offer, j)) < ChipBudget}}

Resolve(d) ==
  LET found == Resolved(d)
  IN [found |-> found,
      industry |-> IF "project" \in found /\ pid.industry # None THEN pid.industry
                   ELSE IF "industry" \in found THEN d.industry ELSE None,
      chips |-> Push(Offer(d, found))]

(* Whether there is a doorway for the banner to name.                      *)
DoorwayShown(d, s) ==
  \/ d.project /\ (s.industry # None \/ s.chips # {})
  \/ (d.product # None \/ d.category # None) /\ s.chips # {}
  \/ d.industry # None /\ s.industry # None
  \/ d.q

(* The form as it is first shown, with what the page seeds it with.        *)
RfqForm(d, s) ==
  [industry |-> s.industry, details |-> IF d.q THEN "query" ELSE "",
   chips |-> s.chips, draft |-> None, file |-> None, verdict |-> None,
   banner |-> DoorwayShown(d, s), cleared |-> FALSE, reference |-> FALSE]

Init ==
  /\ pid \in Catalogues /\ doorway \in Doorways
  /\ seeded = Resolve(doorway) /\ form = RfqForm(doorway, seeded)
  /\ requests = <<>> /\ waiting = 0 /\ edits = 0 /\ acts = 0
  /\ buyer = [industry |-> None, details |-> "", texts |-> {}, file |-> None,
              pressed |-> FALSE, touched |-> FALSE, swapped |-> FALSE]

-----------------------------------------------------------------------------
(* What the buyer does. The form is gone once there is a reference.        *)
(* history.touched: a value that was seeded was changed by hand.           *)

Act ==
  /\ ~form.reference /\ acts < MaxActs
  /\ acts' = acts + 1
  /\ UNCHANGED <<pid, doorway, seeded, edits>>

ChooseIndustry(i) ==
  /\ Act /\ i # form.industry
  /\ form' = [form EXCEPT !.industry = i]
  /\ buyer' = [buyer EXCEPT !.industry = i, !.touched = @ \/ seeded.industry # None]
  /\ UNCHANGED <<requests, waiting>>

WriteDetails(text) ==
  /\ Act /\ text # form.details
  /\ form' = [form EXCEPT !.details = text]
  /\ buyer' = [buyer EXCEPT !.details = text, !.touched = @ \/ doorway.q]
  /\ UNCHANGED <<requests, waiting>>

TypeDraft(t) ==
  /\ Act /\ t \notin buyer.texts
  /\ form' = [form EXCEPT !.draft = t]
  /\ buyer' = [buyer EXCEPT !.texts = (@ \ {form.draft}) \cup {t}]
  /\ UNCHANGED <<requests, waiting>>

CommitDraft(f) ==
  IF f.draft = None THEN f
  ELSE [f EXCEPT !.chips = @ \cup {Chip("freeText", f.draft)}, !.draft = None]

AddChip ==
  /\ Act /\ form.draft # None
  /\ form' = CommitDraft(form)
  /\ UNCHANGED <<requests, waiting, buyer>>

RemoveChip(c) ==
  /\ Act
  /\ form' = [form EXCEPT !.chips = @ \ {c}]
  /\ buyer' = [buyer EXCEPT !.texts = IF c.kind = "freeText" THEN @ \ {c.item} ELSE @,
                          !.touched = @ \/ c.kind # "freeText"]
  /\ UNCHANGED <<requests, waiting>>

(* The checks that form and endpoint share: of the values, and, by name,   *)
(* size and first bytes, of the file. The endpoint may find more wrong     *)
(* with a file than the form, which does not read it.                      *)
rfqSchema(f) == Cardinality(f.chips) <= MaxItems
validateAttachment(f) ==
  CASE f = None -> {"ok"}
    [] f \in BadFiles -> {"rejected"}
    [] OTHER -> {"ok", "rejected"}

(* The verdict on screen is about a file; picking another one drops it.    *)
Precheck(f) == IF f \in BadFiles THEN f ELSE None
MutantSelect(f) == [form EXCEPT !.file = f]
Select(f) == [form EXCEPT !.file = f, !.verdict = Precheck(f)]

PickFile(f) ==
  /\ Act /\ f # form.file
  /\ form' = Select(f)
  /\ buyer' = [buyer EXCEPT !.file = f, !.swapped = waiting # 0]
  /\ UNCHANGED <<requests, waiting>>

(* Clear: what still is as it was seeded goes, and every catalog chip.     *)
MutantHides(f) == [f EXCEPT !.banner = FALSE, !.cleared = TRUE]
MutantWipes(f) == [f EXCEPT !.industry = None, !.details = "", !.chips = {},
                            !.banner = FALSE, !.cleared = TRUE]
ClearPrefill(f) ==
  [f EXCEPT
     !.industry = IF @ = seeded.industry THEN None ELSE @,
     !.details = IF @ = "query" THEN "" ELSE @,
     !.chips = @ \ Seedable(@), !.banner = FALSE, !.cleared = TRUE]

PressClear ==
  /\ Act /\ form.banner
  /\ form' = ClearPrefill(form)
  /\ buyer' = [buyer EXCEPT !.pressed = TRUE,
                 !.industry = IF @ = seeded.industry THEN None ELSE @,
                 !.details = IF @ = "query" THEN "" ELSE @]
  /\ UNCHANGED <<requests, waiting>>

-----------------------------------------------------------------------------
(* Submit. The draft becomes a chip whether or not the form then passes    *)
(* its checks. Values, file and the cleared flag are taken in one turn of  *)
(* the event loop; the button is disabled until the answer.                *)

MutantEnabled == TRUE
SubmitEnabled == waiting = 0

SubmitFailsChecks ==
  /\ Act /\ SubmitEnabled
  /\ form' = CommitDraft(form)
  /\ UNCHANGED <<requests, waiting, buyer>>

SubmitFailsPrecheck ==
  /\ Act /\ SubmitEnabled /\ form.file \in BadFiles
  /\ form' = [CommitDraft(form) EXCEPT !.verdict = form.file]
  /\ UNCHANGED <<requests, waiting, buyer>>

EmptyPrefillContext == [resolved |-> {}, cleared |-> FALSE, edited |-> FALSE]

Submit ==
  LET sent == [CommitDraft(form) EXCEPT !.verdict = None] IN
  /\ Act /\ SubmitEnabled /\ Len(requests) < MaxRequests
  /\ form.file \notin BadFiles /\ rfqSchema(sent)
  /\ form' = sent
  /\ requests' = Append(requests,
       [body |-> sent, by |-> buyer, state |-> "sent", stored |-> FALSE, lost |-> FALSE,
        source |-> "direct", context |-> EmptyPrefillContext])
  /\ waiting' = Len(requests')
  /\ buyer' = [buyer EXCEPT !.swapped = FALSE]

-----------------------------------------------------------------------------
(* The endpoint, as far as the answer and the lead's attribution go.       *)

MutantComparesParams(now, body) ==
  \/ doorway.industry # None /\ body.industry # doorway.industry
  \/ doorway.q /\ body.details # "query"
WasPrefillEdited(now, body) ==
  \/ now.industry # None /\ body.industry # now.industry
  \/ doorway.q /\ body.details # "query"
  \/ \E c \in now.chips : c \notin body.chips

ResolvePrefillSource(found) ==
  IF "project" \in found THEN "project" ELSE IF "product" \in found THEN "product"
  ELSE IF "industry" \in found THEN "industry" ELSE IF "q" \in found THEN "search" ELSE "direct"

(* What is kept of the doorway with the lead.                              *)
PrefillContext(now, body) ==
  [resolved |-> now.found, cleared |-> body.cleared,
   edited |-> ~body.cleared /\ WasPrefillEdited(now, body)]

(* The lead is stored. Its answer is 201, or a 500 that hides the commit.  *)
Store(n, answer) ==
  LET now == Resolve(doorway)
      body == requests[n].body IN
  /\ requests[n].state = "sent" /\ answer \in {"created", "failed"}
  /\ rfqSchema(body) /\ "ok" \in validateAttachment(body.file)
  /\ requests' = [requests EXCEPT ![n] =
       [@ EXCEPT !.state = answer, !.stored = TRUE,
                 !.lost = requests[n].lost \/ answer = "failed",
                 !.source = ResolvePrefillSource(now.found),
                 !.context = PrefillContext(now, body)]]
  /\ UNCHANGED <<pid, doorway, seeded, form, waiting, edits, acts, buyer>>

(* Any answer without a lead: 422, 429, 500. "file" is a 422 about the file. *)
Refuse(n, answer) ==
  /\ requests[n].state = "sent" /\ answer \in {"refused", "file"}
  /\ answer = "file" => "rejected" \in validateAttachment(requests[n].body.file)
  /\ requests' = [requests EXCEPT ![n].state = answer]
  /\ UNCHANGED <<pid, doorway, seeded, form, waiting, edits, acts, buyer>>

-----------------------------------------------------------------------------
(* The answer arrives, or the connection breaks while it is awaited (the   *)
(* request may be handled before or after that).                           *)

Created ==
  /\ waiting # 0 /\ requests[waiting].state = "created"
  /\ form' = [form EXCEPT !.reference = TRUE]
  /\ waiting' = 0
  /\ UNCHANGED <<pid, doorway, seeded, requests, edits, acts, buyer>>

Failed ==
  /\ waiting # 0 /\ requests[waiting].state \in {"refused", "failed"}
  /\ waiting' = 0
  /\ UNCHANGED <<pid, doorway, seeded, form, requests, edits, acts, buyer>>

FileRefused ==
  /\ waiting # 0 /\ requests[waiting].state = "file"
  /\ form' = [form EXCEPT !.verdict = requests[waiting].body.file]
  /\ waiting' = 0
  /\ UNCHANGED <<pid, doorway, seeded, requests, edits, acts, buyer>>

NetworkFails ==
  /\ waiting # 0
  /\ requests' = [requests EXCEPT ![waiting].lost = TRUE]
  /\ waiting' = 0
  /\ UNCHANGED <<pid, doorway, seeded, form, edits, acts, buyer>>

(* The administrator edits the catalog.                                    *)
EditCatalogue(next) ==
  /\ edits < MaxEdits /\ next # pid
  /\ pid' = next /\ edits' = edits + 1
  /\ UNCHANGED <<doorway, seeded, form, requests, waiting, acts, buyer>>

Next ==
  \/ \E i \in Industries \cup {None} : ChooseIndustry(i)
  \/ \E text \in {"", "own"} \cup (IF doorway.q THEN {"query"} ELSE {}) : WriteDetails(text)
  \/ \E t \in Texts : TypeDraft(t)
  \/ \E c \in form.chips : RemoveChip(c)
  \/ \E f \in Files \cup {None} : PickFile(f)
  \/ AddChip \/ PressClear
  \/ Submit \/ SubmitFailsChecks \/ SubmitFailsPrecheck
  \/ \E n \in 1..Len(requests), answer \in {"created", "failed"} : Store(n, answer)
  \/ \E n \in 1..Len(requests), answer \in {"refused", "file"} : Refuse(n, answer)
  \/ Created \/ Failed \/ FileRefused \/ NetworkFails
  \/ \E next \in Catalogues : EditCatalogue(next)

Spec == Init /\ [][Next]_vars

-----------------------------------------------------------------------------
TypeOK ==
  /\ pid \in Catalogues /\ doorway \in Doorways /\ waiting \in 0..Len(requests)
  /\ form.industry \in Industries \cup {None} /\ form.details \in {"", "query", "own"}
  /\ form.chips \subseteq LeadEquipmentItem /\ form.draft \in Texts \cup {None}
  /\ {form.file, form.verdict} \subseteq Files \cup {None}
  /\ Cardinality(seeded.chips) <= ChipBudget

Sent == {requests[n] : n \in 1..Len(requests)}
Stored == {r \in Sent : r.stored}

(* What the buyer entered stays: whatever the answers were and whenever    *)
(* Clear was pressed, the form holds their texts, their choices and their  *)
(* file, and every submit carried them, a text not yet added included. The *)
(* verdict on screen is about the file on screen, unless that was picked   *)
(* while an answer was on its way, and until the next submit.              *)
Holds(f, b) ==
  /\ b.texts = {c.item : c \in {d \in f.chips : d.kind = "freeText"}} \cup ({f.draft} \ {None})
  /\ b.industry # None => f.industry = b.industry
  /\ b.details # "" => f.details = b.details
  /\ f.file = b.file
OwnInputStays ==
  /\ Holds(form, buyer)
  /\ form.verdict # None /\ ~buyer.swapped => form.verdict = form.file
  /\ \A r \in Sent : Holds(r.body, r.by) /\ r.body.draft = None

(* "CLEARING IS NOT HIDING": a submit after Clear says so and carries no   *)
(* catalog chip and no seeded value the buyer did not enter again.         *)
ClearMeansGone(r) ==
  /\ r.body.cleared = r.by.pressed
  /\ r.by.pressed =>
       /\ Seedable(r.body.chips) = {}
       /\ r.body.industry # None => r.by.industry = r.body.industry
       /\ r.body.details # "" => r.by.details = r.body.details

(* A lead is recorded as edited only if the buyer changed a seeded value   *)
(* or the catalog changed under the open form; and while the catalog       *)
(* stands still, a lead not recorded as edited carries every seed.         *)
EditedIsTrue(r) ==
  /\ r.context.edited => r.by.touched \/ edits > 0
  /\ ~r.context.edited /\ ~r.body.cleared /\ edits = 0 =>
       /\ seeded.chips \subseteq r.body.chips
       /\ seeded.industry # None => r.body.industry = seeded.industry
       /\ doorway.q => r.body.details = "query"
       /\ r.context.resolved = seeded.found

(* What a request says of its doorway, and what is recorded of it, is so.  *)
DoorwayIsTrue ==
  /\ \A r \in Sent : ClearMeansGone(r)
  /\ \A r \in Stored : EditedIsTrue(r)

(* One form makes one lead, plus one for each submit whose buyer was told  *)
(* that it had failed though it was stored.                                *)
ExtraLeadNeedsLostAnswer ==
  Cardinality({n \in 1..Len(requests) : requests[n].stored /\ ~requests[n].lost}) <= 1
=============================================================================

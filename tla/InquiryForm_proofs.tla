------------------------- MODULE InquiryForm_proofs -------------------------
(***************************************************************************)
(* What the inquiry form promises its buyer, for any catalog, doorways,    *)
(* texts and files and however often it is edited and sent.                *)
(***************************************************************************)
EXTENDS InquiryForm, FiniteSetTheorems, WellFoundedInduction, TLAPS

SomeIndustry == Industries \cup {None}
SomeFile == Files \cup {None}
Details == {"", "query", "own"}
CatalogItem == {c \in LeadEquipmentItem : c.kind # "freeText"}

Seeds == [found : SUBSET PrefillParams, industry : SomeIndustry, chips : SUBSET CatalogItem]
Form ==
  [industry : SomeIndustry, details : Details, chips : SUBSET LeadEquipmentItem,
   draft : Texts \cup {None}, file : SomeFile, verdict : SomeFile,
   banner : BOOLEAN, cleared : BOOLEAN, reference : BOOLEAN]
Buyer ==
  [industry : SomeIndustry, details : Details, texts : SUBSET Texts, file : SomeFile,
   pressed : BOOLEAN, touched : BOOLEAN, swapped : BOOLEAN]
Context == [resolved : SUBSET PrefillParams, cleared : BOOLEAN, edited : BOOLEAN]
Sources == {"direct", "project", "product", "industry", "search"}
Answers == {"sent", "created", "failed", "refused", "file"}
Request ==
  [body : Form, by : Buyer, state : Answers, stored : BOOLEAN, lost : BOOLEAN,
   source : Sources, context : Context]

(* The types of all variables. *)
Typed ==
  /\ pid \in Catalogues /\ pid \in CatalogueType
  /\ doorway \in Doorways /\ doorway \in DoorwayType
  /\ seeded \in Seeds /\ Cardinality(seeded.chips) <= ChipBudget
  /\ form \in Form /\ buyer \in Buyer
  /\ requests \in Seq(Request) /\ waiting \in 0..Len(requests)
  /\ edits \in Nat /\ acts \in Nat

(* What a form f shows, when b is what its buyer has done: their own texts *)
(* and choices; after Clear nothing else; and before it, as long as they   *)
(* have not touched a seed, every seed.                                    *)
TextsKept(f, b) ==
  \A t \in Texts :
    /\ t \in b.texts <=> Chip("freeText", t) \in f.chips \/ t = f.draft
    /\ t = f.draft => Chip("freeText", t) \notin f.chips
ChoicesKept(f, b) ==
  /\ b.industry # None => f.industry = b.industry
  /\ f.industry \notin {None, seeded.industry} => b.industry = f.industry
  /\ b.details # "" => f.details = b.details
  /\ f.details \notin {"", "query"} => b.details = f.details
  /\ f.file = b.file
SeedsGone(f, b) ==
  /\ f.cleared = b.pressed
  /\ b.pressed => /\ f.chips \cap CatalogItem = {}
                  /\ f.industry # None => b.industry = f.industry
                  /\ f.details # "" => b.details = f.details
SeedsKept(f, b) ==
  ~b.touched /\ ~b.pressed =>
    /\ seeded.chips \subseteq f.chips
    /\ seeded.industry # None => f.industry = seeded.industry
    /\ doorway.q => f.details = "query"
Traces(f, b) == TextsKept(f, b) /\ ChoicesKept(f, b) /\ SeedsGone(f, b) /\ SeedsKept(f, b)

(* Until an administrator edits the catalog, it says what the page seeded. *)
SeedsAreCurrent == edits = 0 => seeded = Resolve(doorway)

(* Every submit carried what the form then showed; the one under way, the  *)
(* file still on screen. *)
BodiesTrace ==
  \A n \in 1..Len(requests) :
    /\ Traces(requests[n].body, requests[n].by) /\ requests[n].body.draft = None
    /\ n = waiting /\ ~buyer.swapped => requests[n].body.file = form.file
VerdictInv == form.verdict # None /\ ~buyer.swapped => form.verdict = form.file

EditsAreTrue == \A n \in 1..Len(requests) : requests[n].stored => EditedIsTrue(requests[n])

(* A submit whose answer nobody has missed is the one the form waits for,  *)
(* or it has made the form's lead.                                         *)
OneAnswer ==
  /\ form.reference => waiting = 0
  /\ \A n \in 1..Len(requests) :
       /\ requests[n].state = "sent" => ~requests[n].stored
       /\ requests[n].state \in {"refused", "file"} => ~requests[n].stored
       /\ requests[n].state = "failed" => requests[n].lost
       /\ requests[n].state = "sent" /\ ~requests[n].lost => waiting = n
       /\ requests[n].stored /\ ~requests[n].lost => waiting = n \/ form.reference
       /\ waiting = n => ~requests[n].lost \/ requests[n].state = "failed"
  /\ \A m, n \in 1..Len(requests) :
       /\ requests[m].stored /\ ~requests[m].lost
       /\ requests[n].stored /\ ~requests[n].lost
       => m = n

FormInv ==
  /\ Typed /\ Traces(form, buyer) /\ SeedsAreCurrent
  /\ BodiesTrace /\ VerdictInv /\ EditsAreTrue /\ OneAnswer

-----------------------------------------------------------------------------
(* What the page seeds.                                                    *)

(* A set of numbers up to n that is not empty has a greatest.              *)
LEMMA GreatestExists ==
  ASSUME NEW n \in Nat, NEW S \in SUBSET (1..n), S # {}
  PROVE  \E m \in S : \A k \in S : k <= m
  <1> DEFINE T == {n - k : k \in S}
  <1>0. \A k \in S : k \in Int /\ n - k \in Nat
    OBVIOUS
  <1>1. T \subseteq Nat /\ T # {}
    BY <1>0
  <1>2. PICK x \in T : \A y \in T : <<y, x>> \notin OpToRel(<, Nat)
    BY <1>1, NatLessThanWellFounded, WFMin
  <1>3. \A y \in T : ~(y < x)
    <2> SUFFICES ASSUME NEW y \in T, y < x PROVE FALSE
      OBVIOUS
    <2>1. <<y, x>> \in OpToRel(<, Nat)
      BY <1>1, <1>2 DEF OpToRel
    <2> QED
      BY <1>2, <2>1
  <1>4. PICK m \in S : x = n - m
    OBVIOUS
  <1>5. ASSUME NEW k \in S PROVE k <= m
    <2>1. ~(n - k < n - m)
      BY <1>3, <1>4
    <2>2. k \in Int /\ m \in Int /\ n \in Int
      BY <1>0
    <2> HIDE DEF T
    <2> QED
      BY <2>1, <2>2
  <1> QED
    BY <1>5

(* The first different chips of an offer are no more than the budget.      *)
LEMMA PushKeepsBudget ==
  ASSUME NEW n \in Nat, NEW offer, DOMAIN offer \subseteq 1..n, ChipBudget \in Nat
  PROVE  Cardinality(Push(offer)) <= ChipBudget
  <1> DEFINE kept == {j \in DOMAIN offer : Cardinality(PushedBefore(offer, j)) < ChipBudget}
  <1>1. \A S \in SUBSET (1..n) : IsFiniteSet({offer[k] : k \in S})
    <2> SUFFICES ASSUME NEW S \in SUBSET (1..n) PROVE IsFiniteSet({offer[k] : k \in S})
      OBVIOUS
    <2>1. IsFiniteSet(S)
      <3>1. IsFiniteSet(1..n)
        BY FS_Interval
      <3> QED
        BY <3>1, FS_Subset
    <2> DEFINE T == {offer[k] : k \in S}
    <2>2. [k \in S |-> offer[k]] \in Surjection(S, T)
      BY DEF Surjection
    <2> HIDE DEF T
    <2>3. IsFiniteSet(T)
      BY <2>1, <2>2, FS_Surjection
    <2> QED
      BY <2>3 DEF T
  <1>2. CASE kept = {}
    BY <1>2, FS_EmptySet DEF Push
  <1>3. CASE kept # {}
    <2>1. PICK m \in kept : \A k \in kept : k <= m
      BY <1>3, GreatestExists
    <2> DEFINE before == PushedBefore(offer, m)
    <2>2. IsFiniteSet(before) /\ Cardinality(before) < ChipBudget
      <3>1. {i \in DOMAIN offer : i < m} \in SUBSET (1..n)
        OBVIOUS
      <3> QED
        BY <1>1, <3>1 DEF PushedBefore
    <2>3. Push(offer) \subseteq before \cup {offer[m]}
      <3>1. \A k \in kept : k < m \/ k = m
        BY <2>1
      <3> QED
        BY <3>1 DEF Push, PushedBefore
    <2> HIDE DEF before
    <2>4. /\ IsFiniteSet(before \cup {offer[m]})
          /\ Cardinality(before \cup {offer[m]}) <= Cardinality(before) + 1
          /\ Cardinality(before) \in Nat
      BY <2>2, FS_AddElement, FS_CardinalityType
    <2>5. Cardinality(Push(offer)) <= Cardinality(before \cup {offer[m]})
      BY <2>3, <2>4, FS_Subset
    <2>6. /\ Cardinality(Push(offer)) \in Nat
          /\ Cardinality(before \cup {offer[m]}) \in Nat
      BY <2>3, <2>4, FS_Subset, FS_CardinalityType
    <2> QED
      BY <2>2, <2>4, <2>5, <2>6
  <1> QED
    BY <1>2, <1>3

(* A chip is what its kind says. *)
LEMMA ChipShape ==
  ASSUME NEW c \in LeadEquipmentItem
  PROVE  /\ c.kind = "freeText" => c.item \in Texts /\ c = Chip("freeText", c.item)
         /\ c.kind \in {"product", "category", "freeText"}
  BY DEF LeadEquipmentItem, Chip

(* The page seeds only what is in the catalog, and within the budget.      *)
LEMMA SeedsTyped ==
  ASSUME pid \in CatalogueType, NEW d \in DoorwayType
  PROVE  Resolve(d) \in Seeds /\ Cardinality(Resolve(d).chips) <= ChipBudget
  <1> USE FormAssumption
  <1> DEFINE found == Resolved(d)
  <1> DEFINE offer == Offer(d, found)
  <1> DEFINE n == Len(SlugOrder)
  <1>1. /\ found \subseteq PrefillParams
        /\ "product" \in found => d.product \in Products /\ pid.products[d.product] \in Categories
        /\ "category" \in found => d.category \in Categories
        /\ "industry" \in found => d.industry \in Industries
    BY DEF Resolved, PrefillParams, CatalogueType, DoorwayType
  <1>2. n \in Nat /\ n + 3 \in Nat /\ \A k \in 1..n : SlugOrder[k] \in Categories
    OBVIOUS
  <1>3. /\ \A c \in Categories : Chip("category", c) \in CatalogItem
        /\ \A p \in Products : Chip("product", p) \in CatalogItem
    BY DEF CatalogItem, LeadEquipmentItem, Chip
  <1> HIDE DEF found, n
  <1>4. DOMAIN offer \subseteq 1..(n + 3)
    BY <1>2 DEF Offer, n
  <1>5. \A k \in DOMAIN offer : offer[k] \in CatalogItem
    BY <1>1, <1>2, <1>3 DEF Offer, n
  <1> HIDE DEF offer
  <1>6. Push(offer) \subseteq CatalogItem
    BY <1>5 DEF Push
  <1>7. Cardinality(Push(offer)) <= ChipBudget
    BY <1>2, <1>4, PushKeepsBudget
  <1>8. (IF "project" \in found /\ pid.industry # None THEN pid.industry
         ELSE IF "industry" \in found THEN d.industry ELSE None) \in SomeIndustry
    BY <1>1 DEF CatalogueType, SomeIndustry
  <1> QED
    BY <1>1, <1>6, <1>7, <1>8 DEF Resolve, Seeds, found, offer

-----------------------------------------------------------------------------
(* What the buyer does to the form.                                        *)

(* A form that traces what its buyer did holds what they entered. *)
LEMMA TracesHold ==
  ASSUME NEW f \in Form, NEW b \in Buyer, Traces(f, b)
  PROVE  Holds(f, b)
  <1> USE FormAssumption
  <1> DEFINE free == {d \in f.chips : d.kind = "freeText"}
  <1>1. f.chips \subseteq LeadEquipmentItem /\ b.texts \subseteq Texts /\ f.draft \in Texts \cup {None}
    BY DEF Form, Buyer
  <1>2. \A c \in free : c.item \in Texts /\ Chip("freeText", c.item) \in f.chips
    BY <1>1, ChipShape
  <1>3. \A t \in Texts : Chip("freeText", t) \in f.chips => Chip("freeText", t) \in free
    BY DEF Chip
  <1>4. \A t : Chip("freeText", t).item = t
    BY DEF Chip
  <1>5. b.texts = {c.item : c \in free} \cup ({f.draft} \ {None})
    <2>1. ASSUME NEW t \in b.texts PROVE t \in {c.item : c \in free} \cup ({f.draft} \ {None})
      BY <1>1, <1>3, <1>4, <2>1 DEF Traces, TextsKept
    <2>2. ASSUME NEW c \in free PROVE c.item \in b.texts
      BY <1>2 DEF Traces, TextsKept
    <2>3. f.draft # None => f.draft \in b.texts
      BY <1>1 DEF Traces, TextsKept
    <2> QED
      BY <2>1, <2>2, <2>3
  <1> QED
    BY <1>5 DEF Holds, Traces, ChoicesKept

(* Every edit of one field makes a form. *)
LEMMA FormEdits ==
  ASSUME NEW f \in Form
  PROVE  /\ \A x \in SomeIndustry : [f EXCEPT !.industry = x] \in Form
         /\ \A x \in Details : [f EXCEPT !.details = x] \in Form
         /\ \A x \in Texts : [f EXCEPT !.draft = x] \in Form
         /\ \A x \in SUBSET LeadEquipmentItem : [f EXCEPT !.chips = x] \in Form
         /\ \A x \in SUBSET LeadEquipmentItem : [f EXCEPT !.chips = x, !.draft = None] \in Form
         /\ \A x, y \in SomeFile : [f EXCEPT !.file = x, !.verdict = y] \in Form
         /\ \A y \in SomeFile : [f EXCEPT !.verdict = y] \in Form
         /\ [f EXCEPT !.reference = TRUE] \in Form
  BY DEF Form

(* Adding the text being typed. *)
LEMMA DraftCommitted ==
  ASSUME NEW f \in Form, NEW b \in Buyer, Traces(f, b)
  PROVE  /\ CommitDraft(f) \in Form /\ Traces(CommitDraft(f), b)
         /\ CommitDraft(f).draft = None /\ CommitDraft(f).file = f.file
         /\ CommitDraft(f).verdict = f.verdict /\ CommitDraft(f).reference = f.reference
  <1> USE FormAssumption
  <1>1. CASE f.draft = None
    BY <1>1 DEF CommitDraft
  <1>2. CASE f.draft # None
    <2> DEFINE chip == Chip("freeText", f.draft)
    <2> DEFINE chips == f.chips \cup {chip}
    <2>1. f.draft \in Texts /\ f.chips \subseteq LeadEquipmentItem
      BY <1>2 DEF Form
    <2>2. chip \in LeadEquipmentItem /\ chip \notin CatalogItem
      BY <2>1 DEF LeadEquipmentItem, CatalogItem, Chip
    <2>3. \A t \in Texts : Chip("freeText", t) = chip <=> t = f.draft
      BY DEF Chip
    <2> HIDE DEF chip
    <2>4. chips \in SUBSET LeadEquipmentItem
      BY <2>1, <2>2
    <2> HIDE DEF chips
    <2> DEFINE g == [f EXCEPT !.chips = chips, !.draft = None]
    <2>5. CommitDraft(f) = g
      BY <1>2 DEF CommitDraft, chips, chip
    <2>6. g \in Form
      BY <2>4, FormEdits
    <2>7. /\ g.chips = chips /\ g.draft = None /\ g.industry = f.industry /\ g.details = f.details
          /\ g.file = f.file /\ g.verdict = f.verdict /\ g.cleared = f.cleared
          /\ g.reference = f.reference
      BY DEF Form
    <2> HIDE DEF g
    <2>8. TextsKept(g, b)
      BY <2>1, <2>3, <2>7 DEF chips, Traces, TextsKept
    <2>9. ChoicesKept(g, b)
      BY <2>7 DEF Traces, ChoicesKept
    <2>10. SeedsGone(g, b)
      BY <2>2, <2>7 DEF chips, Traces, SeedsGone
    <2>11. SeedsKept(g, b)
      BY <2>7 DEF chips, Traces, SeedsKept
    <2> QED
      BY <2>5, <2>6, <2>7, <2>8, <2>9, <2>10, <2>11 DEF Traces
  <1> QED
    BY <1>1, <1>2

(* Choosing, writing, typing, removing and picking trace the buyer.        *)
LEMMA EditTraces ==
  ASSUME Typed, Traces(form, buyer),
         \/ \E i \in Industries \cup {None} : ChooseIndustry(i)
         \/ \E text \in {"", "own"} \cup (IF doorway.q THEN {"query"} ELSE {}) : WriteDetails(text)
         \/ \E t \in Texts : TypeDraft(t)
         \/ \E c \in form.chips : RemoveChip(c)
         \/ \E f \in Files \cup {None} : PickFile(f)
  PROVE  form' \in Form /\ buyer' \in Buyer /\ Traces(form', buyer')
  <1> USE FormAssumption DEF Act
  <1>0. /\ form \in Form /\ buyer \in Buyer
        /\ seeded.chips \subseteq CatalogItem
        /\ form.chips \subseteq LeadEquipmentItem /\ form.draft \in Texts \cup {None}
    BY DEF Typed, Seeds, Form
  <1>1. ASSUME NEW i \in SomeIndustry, ChooseIndustry(i)
        PROVE  form' \in Form /\ buyer' \in Buyer /\ Traces(form', buyer')
    <2>1. form' \in Form /\ buyer' \in Buyer
      BY <1>0, <1>1, FormEdits DEF ChooseIndustry, Buyer
    <2>2. /\ form'.industry = i /\ form'.details = form.details /\ form'.chips = form.chips
          /\ form'.draft = form.draft /\ form'.file = form.file /\ form'.cleared = form.cleared
      BY <1>0, <1>1 DEF ChooseIndustry, Form
    <2>3. /\ buyer'.industry = i /\ buyer'.details = buyer.details /\ buyer'.texts = buyer.texts
          /\ buyer'.file = buyer.file /\ buyer'.pressed = buyer.pressed
          /\ ~buyer'.touched => ~buyer.touched /\ seeded.industry = None
      BY <1>0, <1>1 DEF ChooseIndustry, Buyer
    <2>4. TextsKept(form', buyer')
      BY <2>2, <2>3 DEF Traces, TextsKept
    <2> QED
      BY <2>1, <2>2, <2>3, <2>4 DEF Traces, ChoicesKept, SeedsGone, SeedsKept
  <1>2. ASSUME NEW text \in {"", "own"} \cup (IF doorway.q THEN {"query"} ELSE {}),
               WriteDetails(text)
        PROVE  form' \in Form /\ buyer' \in Buyer /\ Traces(form', buyer')
    <2>0. text \in Details
      BY <1>2 DEF Details
    <2>1. form' \in Form /\ buyer' \in Buyer
      BY <1>0, <1>2, <2>0, FormEdits DEF WriteDetails, Buyer
    <2>2. /\ form'.industry = form.industry /\ form'.details = text /\ form'.chips = form.chips
          /\ form'.draft = form.draft /\ form'.file = form.file /\ form'.cleared = form.cleared
      BY <1>0, <1>2 DEF WriteDetails, Form
    <2>3. /\ buyer'.industry = buyer.industry /\ buyer'.details = text /\ buyer'.texts = buyer.texts
          /\ buyer'.file = buyer.file /\ buyer'.pressed = buyer.pressed
          /\ ~buyer'.touched => ~buyer.touched /\ ~doorway.q
      BY <1>0, <1>2 DEF WriteDetails, Buyer
    <2>4. TextsKept(form', buyer')
      BY <2>2, <2>3 DEF Traces, TextsKept
    <2> QED
      BY <2>1, <2>2, <2>3, <2>4 DEF Traces, ChoicesKept, SeedsGone, SeedsKept
  <1>3. ASSUME NEW t \in Texts, TypeDraft(t)
        PROVE  form' \in Form /\ buyer' \in Buyer /\ Traces(form', buyer')
    <2>0. buyer.texts \subseteq Texts
      BY <1>0 DEF Buyer
    <2>1. form' \in Form /\ buyer' \in Buyer
      BY <1>0, <1>3, <2>0, FormEdits DEF TypeDraft, Buyer
    <2>2. /\ form'.industry = form.industry /\ form'.details = form.details
          /\ form'.chips = form.chips /\ form'.draft = t
          /\ form'.file = form.file /\ form'.cleared = form.cleared
      BY <1>0, <1>3 DEF TypeDraft, Form
    <2>3. /\ buyer'.industry = buyer.industry /\ buyer'.details = buyer.details
          /\ buyer'.texts = (buyer.texts \ {form.draft}) \cup {t}
          /\ buyer'.file = buyer.file /\ buyer'.pressed = buyer.pressed
          /\ buyer'.touched = buyer.touched
      BY <1>0, <1>3 DEF TypeDraft, Buyer
    <2>4. TextsKept(form', buyer')
      <3>1. t \notin buyer.texts
        BY <1>3 DEF TypeDraft
      <3> QED
        BY <2>2, <2>3, <3>1 DEF Traces, TextsKept
    <2> QED
      BY <2>1, <2>2, <2>3, <2>4 DEF Traces, ChoicesKept, SeedsGone, SeedsKept
  <1>4. ASSUME NEW c \in form.chips, RemoveChip(c)
        PROVE  form' \in Form /\ buyer' \in Buyer /\ Traces(form', buyer')
    <2> DEFINE texts == IF c.kind = "freeText" THEN buyer.texts \ {c.item} ELSE buyer.texts
    <2>0. texts \subseteq Texts /\ c \in LeadEquipmentItem
      BY <1>0 DEF Buyer
    <2>1. form' \in Form /\ buyer' \in Buyer
      <3>1. form.chips \ {c} \in SUBSET LeadEquipmentItem
        BY <1>0
      <3> QED
        BY <1>0, <1>4, <2>0, <3>1, FormEdits DEF RemoveChip, Buyer
    <2>2. /\ form'.industry = form.industry /\ form'.details = form.details
          /\ form'.chips = form.chips \ {c} /\ form'.draft = form.draft
          /\ form'.file = form.file /\ form'.cleared = form.cleared
      BY <1>0, <1>4 DEF RemoveChip, Form
    <2>3. /\ buyer'.industry = buyer.industry /\ buyer'.details = buyer.details
          /\ buyer'.texts = texts
          /\ buyer'.file = buyer.file /\ buyer'.pressed = buyer.pressed
          /\ ~buyer'.touched => ~buyer.touched /\ c.kind = "freeText"
      BY <1>0, <1>4 DEF RemoveChip, Buyer
    <2>4. TextsKept(form', buyer')
      <3>1. CASE c.kind = "freeText"
        <4>1. c.item \in Texts /\ c = Chip("freeText", c.item)
          BY <2>0, <3>1, ChipShape
        <4>2. \A t : Chip("freeText", t).item = t
          BY DEF Chip
        <4>3. \A t \in Texts : Chip("freeText", t) = c <=> t = c.item
          BY <4>1, <4>2
        <4> QED
          BY <2>2, <2>3, <3>1, <4>1, <4>3 DEF Traces, TextsKept
      <3>2. CASE c.kind # "freeText"
        <4>1. \A t : Chip("freeText", t).kind = "freeText"
          BY DEF Chip
        <4>2. \A t \in Texts : Chip("freeText", t) # c
          BY <3>2, <4>1
        <4> QED
          BY <2>2, <2>3, <3>2, <4>2 DEF Traces, TextsKept
      <3> QED
        BY <3>1, <3>2
    <2>5. SeedsKept(form', buyer')
      <3>1. c.kind = "freeText" => c \notin CatalogItem
        BY DEF CatalogItem
      <3> QED
        BY <1>0, <2>2, <2>3, <3>1 DEF Traces, SeedsKept
    <2>6. ChoicesKept(form', buyer') /\ SeedsGone(form', buyer')
      BY <2>2, <2>3 DEF Traces, ChoicesKept, SeedsGone
    <2> QED
      BY <2>1, <2>4, <2>5, <2>6 DEF Traces
  <1>5. ASSUME NEW x \in SomeFile, PickFile(x)
        PROVE  form' \in Form /\ buyer' \in Buyer /\ Traces(form', buyer')
    <2>1. form' \in Form /\ buyer' \in Buyer
      <3>1. Precheck(x) \in SomeFile
        BY DEF Precheck, SomeFile
      <3> QED
        BY <1>0, <1>5, <3>1, FormEdits DEF PickFile, Select, Buyer
    <2>2. /\ form'.industry = form.industry /\ form'.details = form.details
          /\ form'.chips = form.chips /\ form'.draft = form.draft
          /\ form'.file = x /\ form'.cleared = form.cleared
      BY <1>0, <1>5 DEF PickFile, Select, Form
    <2>3. /\ buyer'.industry = buyer.industry /\ buyer'.details = buyer.details
          /\ buyer'.texts = buyer.texts /\ buyer'.file = x
          /\ buyer'.pressed = buyer.pressed /\ buyer'.touched = buyer.touched
      BY <1>0, <1>5 DEF PickFile, Buyer
    <2>4. TextsKept(form', buyer')
      BY <2>2, <2>3 DEF Traces, TextsKept
    <2> QED
      BY <2>1, <2>2, <2>3, <2>4 DEF Traces, ChoicesKept, SeedsGone, SeedsKept
  <1> QED
    BY <1>1, <1>2, <1>3, <1>4, <1>5 DEF SomeIndustry, SomeFile

(* Clear takes every seed that is left, and nothing the buyer entered. *)
LEMMA ClearTraces ==
  ASSUME Typed, Traces(form, buyer), PressClear
  PROVE  form' \in Form /\ buyer' \in Buyer /\ Traces(form', buyer')
  <1> USE FormAssumption
  <1>0. /\ form \in Form /\ buyer \in Buyer /\ seeded.industry \in SomeIndustry
        /\ form.chips \subseteq LeadEquipmentItem /\ form.industry \in SomeIndustry
        /\ form.details \in Details
        /\ buyer.industry \in SomeIndustry /\ buyer.details \in Details
    BY DEF Typed, Seeds, Form, Buyer
  <1> DEFINE chips == form.chips \ Seedable(form.chips)
  <1> DEFINE industry == IF form.industry = seeded.industry THEN None ELSE form.industry
  <1> DEFINE details == IF form.details = "query" THEN "" ELSE form.details
  <1> DEFINE entered == IF buyer.industry = seeded.industry THEN None ELSE buyer.industry
  <1> DEFINE written == IF buyer.details = "query" THEN "" ELSE buyer.details
  <1>1. form' = [form EXCEPT !.industry = industry, !.details = details, !.chips = chips,
                             !.banner = FALSE, !.cleared = TRUE]
    BY <1>0 DEF PressClear, ClearPrefill, Form
  <1>2. buyer' = [buyer EXCEPT !.pressed = TRUE, !.industry = entered, !.details = written]
    BY <1>0 DEF PressClear, Buyer
  <1>3. /\ chips \in SUBSET LeadEquipmentItem /\ chips \subseteq form.chips
        /\ chips \cap CatalogItem = {}
        /\ \A t : Chip("freeText", t) \in form.chips => Chip("freeText", t) \in chips
    BY <1>0 DEF Seedable, CatalogItem, Chip
  <1>4. /\ industry \in SomeIndustry /\ details \in Details
        /\ entered \in SomeIndustry /\ written \in Details
    BY <1>0 DEF SomeIndustry, Details
  <1>5. /\ entered # None => industry = entered
        /\ industry # None => entered = industry
    BY <1>0 DEF Traces, ChoicesKept
  <1>6. /\ written # "" => details = written
        /\ details # "" => written = details
    BY <1>0 DEF Traces, ChoicesKept
  <1> HIDE DEF chips, industry, details, entered, written
  <1>7. form' \in Form
    BY <1>0, <1>1, <1>3, <1>4 DEF Form
  <1>8. buyer' \in Buyer
    BY <1>0, <1>2, <1>4 DEF Buyer
  <1>9. /\ form'.industry = industry /\ form'.details = details /\ form'.chips = chips
        /\ form'.draft = form.draft /\ form'.file = form.file /\ form'.cleared = TRUE
    BY <1>0, <1>1 DEF Form
  <1>10. /\ buyer'.industry = entered /\ buyer'.details = written /\ buyer'.pressed = TRUE
         /\ buyer'.texts = buyer.texts /\ buyer'.file = buyer.file
    BY <1>0, <1>2 DEF Buyer
  <1>11. TextsKept(form', buyer')
    BY <1>3, <1>9, <1>10 DEF Traces, TextsKept
  <1>12. ChoicesKept(form', buyer')
    BY <1>5, <1>6, <1>9, <1>10 DEF Traces, ChoicesKept
  <1>13. SeedsGone(form', buyer') /\ SeedsKept(form', buyer')
    BY <1>3, <1>5, <1>6, <1>9, <1>10 DEF SeedsGone, SeedsKept
  <1> QED
    BY <1>7, <1>8, <1>11, <1>12, <1>13 DEF Traces

(* The steps of the buyer that send nothing. *)
Edit ==
  \/ \E i \in Industries \cup {None} : ChooseIndustry(i)
  \/ \E text \in {"", "own"} \cup (IF doorway.q THEN {"query"} ELSE {}) : WriteDetails(text)
  \/ \E t \in Texts : TypeDraft(t)
  \/ \E c \in form.chips : RemoveChip(c)
  \/ \E f \in Files \cup {None} : PickFile(f)
  \/ AddChip \/ PressClear \/ SubmitFailsChecks \/ SubmitFailsPrecheck

(* They keep what the form owes its buyer, the verdict on screen included. *)
LEMMA EditKeeps ==
  ASSUME Typed, Traces(form, buyer), VerdictInv, Edit
  PROVE  /\ form' \in Form /\ buyer' \in Buyer /\ Traces(form', buyer') /\ VerdictInv'
         /\ form'.reference = form.reference
         /\ waiting # 0 /\ ~buyer'.swapped => ~buyer.swapped /\ form'.file = form.file
         /\ UNCHANGED <<pid, doorway, seeded, requests, waiting, edits>> /\ acts' = acts + 1
  <1> DEFINE Kept == form' \in Form /\ buyer' \in Buyer /\ Traces(form', buyer')
  <1> DEFINE Rest ==
        /\ VerdictInv' /\ form'.reference = form.reference
        /\ waiting # 0 /\ ~buyer'.swapped => ~buyer.swapped /\ form'.file = form.file
  <1>0. form \in Form /\ buyer \in Buyer
    BY DEF Typed
  <1>1. UNCHANGED <<pid, doorway, seeded, requests, waiting, edits>> /\ acts' = acts + 1
    BY DEF Edit, Act, ChooseIndustry, WriteDetails, TypeDraft, RemoveChip, PickFile, AddChip,
           PressClear, SubmitFailsChecks, SubmitFailsPrecheck
  <1>2. CASE \/ \E i \in Industries \cup {None} : ChooseIndustry(i)
             \/ \E text \in {"", "own"} \cup (IF doorway.q THEN {"query"} ELSE {}) : WriteDetails(text)
             \/ \E t \in Texts : TypeDraft(t)
             \/ \E c \in form.chips : RemoveChip(c)
    <2>1. Kept
      BY <1>2, EditTraces
    <2>2. /\ form'.reference = form.reference /\ form'.file = form.file
          /\ form'.verdict = form.verdict /\ buyer'.swapped = buyer.swapped
      BY <1>0, <1>2 DEF ChooseIndustry, WriteDetails, TypeDraft, RemoveChip, Form, Buyer
    <2> QED
      BY <1>1, <2>1, <2>2 DEF VerdictInv
  <1>3. ASSUME NEW x \in Files \cup {None}, PickFile(x)
        PROVE  Kept /\ Rest
    <2>1. Kept
      BY <1>3, EditTraces
    <2>2. /\ form'.reference = form.reference /\ form'.file = x /\ form'.verdict = Precheck(x)
          /\ buyer'.swapped = (waiting # 0)
      BY <1>0, <1>3 DEF PickFile, Select, Form, Buyer
    <2>3. VerdictInv'
      BY <2>2 DEF VerdictInv, Precheck
    <2> QED
      BY <2>1, <2>2, <2>3
  <1>4. CASE PressClear
    <2>1. Kept
      BY <1>4, ClearTraces
    <2>2. /\ form'.reference = form.reference /\ form'.file = form.file
          /\ form'.verdict = form.verdict /\ buyer'.swapped = buyer.swapped
      BY <1>0, <1>4 DEF PressClear, ClearPrefill, Form, Buyer
    <2> QED
      BY <1>1, <2>1, <2>2 DEF VerdictInv
  <1>5. CASE AddChip \/ SubmitFailsChecks
    <2>1. form' = CommitDraft(form) /\ buyer' = buyer
      BY <1>5 DEF AddChip, SubmitFailsChecks
    <2> QED
      BY <1>0, <1>1, <2>1, DraftCommitted DEF VerdictInv
  <1>6. CASE SubmitFailsPrecheck
    <2>1. PICK g \in Form : g = CommitDraft(form)
      BY <1>0, DraftCommitted
    <2>2. /\ Traces(g, buyer) /\ g.file = form.file /\ g.reference = form.reference
      BY <1>0, <2>1, DraftCommitted
    <2>3. form' = [g EXCEPT !.verdict = form.file] /\ buyer' = buyer
      BY <1>6, <2>1 DEF SubmitFailsPrecheck
    <2>4. form.file \in SomeFile
      BY <1>0 DEF Form
    <2>5. form' \in Form
      BY <2>1, <2>3, <2>4, FormEdits
    <2>6. /\ form'.industry = g.industry /\ form'.details = g.details /\ form'.chips = g.chips
          /\ form'.draft = g.draft /\ form'.file = g.file /\ form'.cleared = g.cleared
          /\ form'.reference = g.reference /\ form'.verdict = form.file
      BY <2>3 DEF Form
    <2>7. TextsKept(form', buyer')
      BY <2>2, <2>3, <2>6 DEF Traces, TextsKept
    <2>8. Traces(form', buyer')
      BY <2>2, <2>3, <2>6, <2>7 DEF Traces, ChoicesKept, SeedsGone, SeedsKept
    <2> QED
      BY <1>0, <1>1, <2>2, <2>3, <2>5, <2>6, <2>8 DEF VerdictInv
  <1> QED
    BY <1>1, <1>2, <1>3, <1>4, <1>5, <1>6 DEF Edit

-----------------------------------------------------------------------------
(* What a submit sends, and what becomes of it.                            *)

(* A request of which only what became of it changes.                      *)
LEMMA RequestChanged ==
  ASSUME Typed, NEW n \in 1..Len(requests), NEW v \in Request,
         requests' = [requests EXCEPT ![n] = v]
  PROVE  /\ requests' \in Seq(Request) /\ Len(requests') = Len(requests)
         /\ requests'[n] = v
         /\ \A k \in 1..Len(requests) : k # n => requests'[k] = requests[k]
  BY DEF Typed

(* The lead is stored with what the catalog says now. *)
LEMMA StoreMakes ==
  ASSUME Typed, NEW n \in 1..Len(requests), NEW answer \in {"created", "failed"},
         Store(n, answer)
  PROVE  \E v \in Request :
           /\ requests' = [requests EXCEPT ![n] = v]
           /\ v.body = requests[n].body /\ v.by = requests[n].by
           /\ v.state = answer /\ v.stored = TRUE
           /\ v.lost = (requests[n].lost \/ answer = "failed")
           /\ v.context.resolved = Resolve(doorway).found
           /\ v.context.edited = (~v.body.cleared /\ WasPrefillEdited(Resolve(doorway), v.body))
  <1> DEFINE now == Resolve(doorway)
  <1> DEFINE source == ResolvePrefillSource(now.found)
  <1> DEFINE context == PrefillContext(now, requests[n].body)
  <1> DEFINE lost == requests[n].lost \/ answer = "failed"
  <1> DEFINE v == [requests[n] EXCEPT !.state = answer, !.stored = TRUE, !.lost = lost,
                                      !.source = source, !.context = context]
  <1>0. requests[n] \in Request
    BY DEF Typed
  <1>1. requests' = [requests EXCEPT ![n] = v]
    BY DEF Store
  <1>2. source \in Sources
    BY DEF ResolvePrefillSource, Sources
  <1>3. now \in Seeds
    BY SeedsTyped DEF Typed
  <1>4. requests[n].body.cleared \in BOOLEAN
    BY <1>0 DEF Request, Form
  <1>5. /\ context \in Context /\ context.resolved = now.found
        /\ context.edited
             = (~requests[n].body.cleared /\ WasPrefillEdited(now, requests[n].body))
    BY <1>3, <1>4 DEF PrefillContext, Context, Seeds
  <1>6. lost \in BOOLEAN /\ answer \in Answers
    BY <1>0 DEF Request, Answers
  <1> HIDE DEF source, context, lost, now
  <1>7. v \in Request
    BY <1>0, <1>2, <1>5, <1>6 DEF Request
  <1>8. /\ v.body = requests[n].body /\ v.by = requests[n].by /\ v.state = answer
        /\ v.stored = TRUE /\ v.lost = lost /\ v.context = context
    BY <1>0 DEF Request
  <1> HIDE DEF v
  <1> QED
    BY <1>1, <1>5, <1>7, <1>8 DEF lost, now

(* The other ways a request changes.                                       *)
LEMMA RefuseMakes ==
  ASSUME Typed, NEW n \in 1..Len(requests), NEW answer \in {"refused", "file"},
         Refuse(n, answer)
  PROVE  \E v \in Request :
           /\ requests' = [requests EXCEPT ![n] = v]
           /\ v.body = requests[n].body /\ v.by = requests[n].by
           /\ v.state = answer /\ v.stored = requests[n].stored /\ v.lost = requests[n].lost
           /\ v.context = requests[n].context
  <1> DEFINE v == [requests[n] EXCEPT !.state = answer]
  <1>0. requests[n] \in Request /\ answer \in Answers
    BY DEF Typed, Answers
  <1>1. requests' = [requests EXCEPT ![n] = v]
    BY <1>0 DEF Refuse, Typed, Request
  <1>2. v \in Request
    BY <1>0 DEF Request
  <1>3. /\ v.body = requests[n].body /\ v.by = requests[n].by /\ v.state = answer
        /\ v.stored = requests[n].stored /\ v.lost = requests[n].lost
        /\ v.context = requests[n].context
    BY <1>0 DEF Request
  <1> HIDE DEF v
  <1> QED
    BY <1>1, <1>2, <1>3

LEMMA LossMakes ==
  ASSUME Typed, NetworkFails
  PROVE  \E v \in Request :
           /\ waiting \in 1..Len(requests)
           /\ requests' = [requests EXCEPT ![waiting] = v]
           /\ v.body = requests[waiting].body /\ v.by = requests[waiting].by
           /\ v.state = requests[waiting].state /\ v.stored = requests[waiting].stored
           /\ v.lost = TRUE /\ v.context = requests[waiting].context
  <1> PICK n \in 1..Len(requests) : n = waiting
    BY DEF Typed, NetworkFails
  <1> DEFINE v == [requests[n] EXCEPT !.lost = TRUE]
  <1>0. requests[n] \in Request
    BY DEF Typed
  <1>1. requests' = [requests EXCEPT ![n] = v]
    BY <1>0 DEF NetworkFails, Typed, Request
  <1>2. v \in Request
    BY <1>0 DEF Request
  <1>3. /\ v.body = requests[n].body /\ v.by = requests[n].by /\ v.state = requests[n].state
        /\ v.stored = requests[n].stored /\ v.lost = TRUE
        /\ v.context = requests[n].context
    BY <1>0 DEF Request
  <1> HIDE DEF v
  <1> QED
    BY <1>1, <1>2, <1>3

(* A submit appends a request that carries what the form shows.            *)
LEMMA SubmitMakes ==
  ASSUME Typed, Traces(form, buyer), Submit
  PROVE  \E g \in Form, v \in Request :
           /\ form' = g /\ Traces(g, buyer) /\ g.draft = None /\ g.verdict = None
           /\ g.file = form.file /\ g.reference = form.reference
           /\ requests' = Append(requests, v)
           /\ v.body = g /\ v.by = buyer /\ v.state = "sent" /\ v.stored = FALSE
           /\ v.lost = FALSE
  <1>0. form \in Form /\ buyer \in Buyer
    BY DEF Typed
  <1>1. PICK h \in Form : h = CommitDraft(form)
    BY <1>0, DraftCommitted
  <1>2. /\ Traces(h, buyer) /\ h.draft = None /\ h.file = form.file
        /\ h.reference = form.reference
    BY <1>0, <1>1, DraftCommitted
  <1> DEFINE g == [h EXCEPT !.verdict = None]
  <1>3. g \in Form
    BY FormEdits DEF SomeFile
  <1>4. /\ g.industry = h.industry /\ g.details = h.details /\ g.chips = h.chips
        /\ g.draft = h.draft /\ g.file = h.file /\ g.cleared = h.cleared
        /\ g.reference = h.reference /\ g.verdict = None
    BY DEF Form
  <1> HIDE DEF g
  <1>5. TextsKept(g, buyer)
    BY <1>2, <1>4 DEF Traces, TextsKept
  <1>6. Traces(g, buyer)
    BY <1>2, <1>4, <1>5 DEF Traces, ChoicesKept, SeedsGone, SeedsKept
  <1> DEFINE v == [body |-> g, by |-> buyer, state |-> "sent", stored |-> FALSE, lost |-> FALSE,
                   source |-> "direct", context |-> EmptyPrefillContext]
  <1>7. v \in Request
    <2>1. EmptyPrefillContext \in Context
      BY DEF EmptyPrefillContext, Context
    <2> QED
      BY <1>0, <1>3, <2>1 DEF Request, Answers, Sources
  <1>8. form' = g /\ requests' = Append(requests, v)
    BY <1>1 DEF Submit, g
  <1> QED
    BY <1>2, <1>3, <1>4, <1>6, <1>7, <1>8

-----------------------------------------------------------------------------
(* The invariant is inductive.                                             *)

LEMMA EditStep ==
  ASSUME FormInv, Edit
  PROVE  FormInv'
  <1>1. /\ form' \in Form /\ buyer' \in Buyer /\ Traces(form', buyer') /\ VerdictInv'
        /\ form'.reference = form.reference
        /\ waiting # 0 /\ ~buyer'.swapped => ~buyer.swapped /\ form'.file = form.file
        /\ pid' = pid /\ doorway' = doorway /\ seeded' = seeded /\ requests' = requests
        /\ waiting' = waiting /\ edits' = edits /\ acts' = acts + 1
    BY EditKeeps DEF FormInv
  <1>2. Typed'
    BY <1>1 DEF FormInv, Typed
  <1>3. Traces(form, buyer)'
    BY <1>1 DEF Traces, TextsKept, ChoicesKept, SeedsGone, SeedsKept
  <1>4. SeedsAreCurrent'
    BY <1>1 DEF FormInv, SeedsAreCurrent, Resolve, Resolved, Offer
  <1>5. BodiesTrace'
    <2> SUFFICES ASSUME NEW n \in 1..Len(requests)
                 PROVE  /\ Traces(requests[n].body, requests[n].by)' /\ requests[n].body.draft = None
                        /\ n = waiting /\ ~buyer'.swapped => requests[n].body.file = form'.file
      BY <1>1 DEF BodiesTrace
    <2>1. /\ Traces(requests[n].body, requests[n].by) /\ requests[n].body.draft = None
          /\ n = waiting /\ ~buyer.swapped => requests[n].body.file = form.file
      BY DEF FormInv, BodiesTrace
    <2>2. Traces(requests[n].body, requests[n].by)'
      BY <1>1, <2>1 DEF Traces, TextsKept, ChoicesKept, SeedsGone, SeedsKept
    <2> QED
      BY <1>1, <2>1, <2>2
  <1>6. EditsAreTrue'
    BY <1>1 DEF FormInv, EditsAreTrue, EditedIsTrue
  <1>7. OneAnswer'
    BY <1>1 DEF FormInv, OneAnswer
  <1> QED
    BY <1>1, <1>2, <1>3, <1>4, <1>5, <1>6, <1>7 DEF FormInv

LEMMA SubmitStep ==
  ASSUME FormInv, Submit
  PROVE  FormInv'
  <1>1. PICK g \in Form, v \in Request :
           /\ form' = g /\ Traces(g, buyer) /\ g.draft = None /\ g.verdict = None
           /\ g.file = form.file /\ g.reference = form.reference
           /\ requests' = Append(requests, v)
           /\ v.body = g /\ v.by = buyer /\ v.state = "sent" /\ v.stored = FALSE
           /\ v.lost = FALSE
    BY SubmitMakes DEF FormInv
  <1>2. /\ pid' = pid /\ doorway' = doorway /\ seeded' = seeded /\ edits' = edits
        /\ acts' = acts + 1 /\ waiting = 0 /\ ~form.reference
        /\ waiting' = Len(requests') /\ buyer' = [buyer EXCEPT !.swapped = FALSE]
    BY DEF Submit, Act, SubmitEnabled
  <1>3. /\ requests' \in Seq(Request) /\ Len(requests') = Len(requests) + 1
        /\ Len(requests) \in Nat
        /\ requests'[Len(requests) + 1] = v
        /\ \A k \in 1..Len(requests) : requests'[k] = requests[k]
    BY <1>1 DEF FormInv, Typed
  <1>2a. /\ buyer' \in Buyer
         /\ buyer'.industry = buyer.industry /\ buyer'.details = buyer.details
         /\ buyer'.texts = buyer.texts /\ buyer'.file = buyer.file
         /\ buyer'.pressed = buyer.pressed /\ buyer'.touched = buyer.touched
    BY <1>2 DEF FormInv, Typed, Buyer
  <1>4. Typed'
    BY <1>1, <1>2, <1>3, <1>2a DEF FormInv, Typed
  <1>5. Traces(form, buyer)'
    BY <1>1, <1>2, <1>2a DEF Traces, TextsKept, ChoicesKept, SeedsGone, SeedsKept
  <1>6. SeedsAreCurrent'
    BY <1>2 DEF FormInv, SeedsAreCurrent, Resolve, Resolved, Offer
  <1>7. VerdictInv'
    BY <1>1 DEF VerdictInv
  <1>8. \A k \in 1..Len(requests') : k \in 1..Len(requests) \/ k = Len(requests) + 1
    BY <1>3
  <1>9. BodiesTrace'
    <2>1. ASSUME NEW k \in 1..Len(requests)
          PROVE  /\ Traces(requests[k].body, requests[k].by)' /\ requests'[k].body.draft = None
                 /\ k # waiting'
      <3>1. Traces(requests[k].body, requests[k].by) /\ requests[k].body.draft = None
        BY DEF FormInv, BodiesTrace
      <3>2. k # waiting' /\ requests'[k] = requests[k]
        BY <1>2, <1>3
      <3>3. Traces(requests[k].body, requests[k].by)'
        BY <1>2, <3>1, <3>2 DEF Traces, TextsKept, ChoicesKept, SeedsGone, SeedsKept
      <3> QED
        BY <3>1, <3>2, <3>3
    <2>2. ASSUME NEW k \in {Len(requests) + 1}
          PROVE  /\ Traces(requests[k].body, requests[k].by)' /\ requests'[k].body.draft = None
                 /\ requests'[k].body.file = form'.file
      BY <1>1, <1>2, <1>3 DEF Traces, TextsKept, ChoicesKept, SeedsGone, SeedsKept
    <2> QED
      BY <1>8, <2>1, <2>2 DEF BodiesTrace
  <1>10. EditsAreTrue'
    BY <1>1, <1>2, <1>3, <1>8 DEF FormInv, EditsAreTrue, EditedIsTrue
  <1>11. OneAnswer'
    <2>1. \A k \in 1..Len(requests) :
             ~(requests[k].state = "sent" /\ ~requests[k].lost)
             /\ ~(requests[k].stored /\ ~requests[k].lost)
      BY <1>2 DEF FormInv, OneAnswer
    <2> QED
      BY <1>1, <1>2, <1>3, <1>8, <2>1 DEF FormInv, OneAnswer
  <1> QED
    BY <1>4, <1>5, <1>6, <1>7, <1>9, <1>10, <1>11 DEF FormInv

(* What is recorded when the catalog stands still is measured against the  *)
(* very seeds the form showed. *)
LEMMA RecordIsTrue ==
  ASSUME Typed, SeedsAreCurrent, NEW v \in Request, Traces(v.body, v.by),
         v.context.resolved = Resolve(doorway).found,
         v.context.edited = (~v.body.cleared /\ WasPrefillEdited(Resolve(doorway), v.body))
  PROVE  EditedIsTrue(v)
  <1>1. CASE edits # 0
    BY <1>1 DEF EditedIsTrue, Typed
  <1>2. CASE edits = 0
    <2>1. Resolve(doorway) = seeded
      BY <1>2 DEF SeedsAreCurrent
    <2>2. v.context.edited => v.by.touched
      BY <2>1 DEF WasPrefillEdited, Traces, SeedsGone, SeedsKept
    <2>3. ~v.context.edited /\ ~v.body.cleared =>
            /\ seeded.chips \subseteq v.body.chips
            /\ seeded.industry # None => v.body.industry = seeded.industry
            /\ doorway.q => v.body.details = "query"
            /\ v.context.resolved = seeded.found
      BY <2>1 DEF WasPrefillEdited
    <2> QED
      BY <2>2, <2>3 DEF EditedIsTrue
  <1> QED
    BY <1>1, <1>2

(* The endpoint or the network changes one request, and what it carried    *)
(* stays. *)
LEMMA RequestStep ==
  ASSUME FormInv, NEW n \in 1..Len(requests), NEW v \in Request,
         requests' = [requests EXCEPT ![n] = v],
         v.body = requests[n].body, v.by = requests[n].by,
         UNCHANGED <<pid, doorway, seeded, form, edits, acts, buyer>>,
         waiting' \in {waiting, 0},
         v.stored => EditedIsTrue(v)
  PROVE  /\ Typed' /\ Traces(form, buyer)' /\ SeedsAreCurrent' /\ BodiesTrace' /\ VerdictInv'
         /\ EditsAreTrue'
  <1>1. /\ requests' \in Seq(Request) /\ Len(requests') = Len(requests) /\ requests'[n] = v
        /\ \A k \in 1..Len(requests) : k # n => requests'[k] = requests[k]
    BY RequestChanged DEF FormInv
  <1>2. /\ pid' = pid /\ doorway' = doorway /\ seeded' = seeded /\ form' = form
        /\ edits' = edits /\ acts' = acts /\ buyer' = buyer
    OBVIOUS
  <1>3. Typed'
    BY <1>1, <1>2 DEF FormInv, Typed
  <1>4. Traces(form, buyer)'
    BY <1>2 DEF FormInv, Traces, TextsKept, ChoicesKept, SeedsGone, SeedsKept
  <1>5. SeedsAreCurrent'
    BY <1>2 DEF FormInv, SeedsAreCurrent, Resolve, Resolved, Offer
  <1>6. VerdictInv'
    BY <1>2 DEF FormInv, VerdictInv
  <1>7. BodiesTrace'
    <2> SUFFICES ASSUME NEW k \in 1..Len(requests)
                 PROVE  /\ Traces(requests[k].body, requests[k].by)'
                        /\ requests'[k].body.draft = None
                        /\ k = waiting' /\ ~buyer'.swapped => requests'[k].body.file = form'.file
      BY <1>1 DEF BodiesTrace
    <2>1. /\ Traces(requests[k].body, requests[k].by) /\ requests[k].body.draft = None
          /\ k = waiting /\ ~buyer.swapped => requests[k].body.file = form.file
      BY DEF FormInv, BodiesTrace
    <2>2. requests'[k].body = requests[k].body /\ requests'[k].by = requests[k].by
      BY <1>1
    <2>3. Traces(requests[k].body, requests[k].by)'
      BY <1>2, <2>1, <2>2 DEF Traces, TextsKept, ChoicesKept, SeedsGone, SeedsKept
    <2> QED
      BY <1>2, <2>1, <2>2, <2>3
  <1>8. EditsAreTrue'
    BY <1>1, <1>2 DEF FormInv, EditsAreTrue, EditedIsTrue
  <1> QED
    BY <1>3, <1>4, <1>5, <1>6, <1>7, <1>8

LEMMA StoreStep ==
  ASSUME FormInv, NEW n \in 1..Len(requests), NEW answer \in {"created", "failed"},
         Store(n, answer)
  PROVE  FormInv'
  <1>1. PICK v \in Request :
           /\ requests' = [requests EXCEPT ![n] = v]
           /\ v.body = requests[n].body /\ v.by = requests[n].by
           /\ v.state = answer /\ v.stored = TRUE
           /\ v.lost = (requests[n].lost \/ answer = "failed")
           /\ v.context.resolved = Resolve(doorway).found
           /\ v.context.edited = (~v.body.cleared /\ WasPrefillEdited(Resolve(doorway), v.body))
    BY StoreMakes DEF FormInv
  <1>2. EditedIsTrue(v)
    <2>1. Traces(v.body, v.by)
      BY <1>1 DEF FormInv, BodiesTrace
    <2> QED
      BY <1>1, <2>1, RecordIsTrue DEF FormInv
  <1>3. /\ UNCHANGED <<pid, doorway, seeded, form, waiting, edits, acts, buyer>>
        /\ requests[n].state = "sent"
    BY DEF Store
  <1>4. /\ Typed' /\ Traces(form, buyer)' /\ SeedsAreCurrent' /\ BodiesTrace' /\ VerdictInv'
        /\ EditsAreTrue'
    BY <1>1, <1>2, <1>3, RequestStep
  <1>5. /\ Len(requests') = Len(requests) /\ requests'[n] = v
        /\ \A k \in 1..Len(requests) : k # n => requests'[k] = requests[k]
    BY <1>1, RequestChanged DEF FormInv
  <1>6. OneAnswer'
    <2>1. ~v.lost => ~requests[n].lost /\ answer = "created"
      BY <1>1
    <2>2. requests[n].lost => v.lost
      BY <1>1
    <2>3. answer = "failed" => v.lost
      BY <1>1
    <2>4. n # 0 /\ (~v.lost => waiting = n /\ ~form.reference)
      BY <1>3, <2>1 DEF FormInv, OneAnswer
    <2>5. \A k \in 1..Len(requests) :
            requests[k].stored /\ ~requests[k].lost /\ ~v.lost => k = n
      BY <2>4 DEF FormInv, OneAnswer
    <2>6. waiting = n => ~v.lost \/ answer = "failed"
      BY <1>1, <1>3 DEF FormInv, OneAnswer
    <2>7. /\ form.reference' => waiting' = 0
          /\ \A k \in 1..Len(requests') :
               /\ requests'[k].state = "sent" => ~requests'[k].stored
               /\ requests'[k].state \in {"refused", "file"} => ~requests'[k].stored
               /\ requests'[k].state = "failed" => requests'[k].lost
               /\ requests'[k].state = "sent" /\ ~requests'[k].lost => waiting' = k
               /\ requests'[k].stored /\ ~requests'[k].lost => waiting' = k \/ form'.reference
               /\ waiting' = k => ~requests'[k].lost \/ requests'[k].state = "failed"
      BY <1>1, <1>3, <1>5, <2>3, <2>4, <2>6 DEF FormInv, OneAnswer
    <2>8. \A j, k \in 1..Len(requests') :
             /\ requests'[j].stored /\ ~requests'[j].lost
             /\ requests'[k].stored /\ ~requests'[k].lost
             => j = k
      BY <1>1, <1>3, <1>5, <2>5 DEF FormInv, OneAnswer
    <2> QED
      BY <2>7, <2>8 DEF OneAnswer
  <1> QED
    BY <1>4, <1>6 DEF FormInv

LEMMA RefuseStep ==
  ASSUME FormInv, NEW n \in 1..Len(requests), NEW answer \in {"refused", "file"},
         Refuse(n, answer)
  PROVE  FormInv'
  <1>1. PICK v \in Request :
           /\ requests' = [requests EXCEPT ![n] = v]
           /\ v.body = requests[n].body /\ v.by = requests[n].by
           /\ v.state = answer /\ v.stored = requests[n].stored /\ v.lost = requests[n].lost
           /\ v.context = requests[n].context
    BY RefuseMakes DEF FormInv
  <1>2. /\ UNCHANGED <<pid, doorway, seeded, form, waiting, edits, acts, buyer>>
        /\ requests[n].state = "sent"
    BY DEF Refuse
  <1>3. ~v.stored
    BY <1>1, <1>2 DEF FormInv, OneAnswer
  <1>4. /\ Typed' /\ Traces(form, buyer)' /\ SeedsAreCurrent' /\ BodiesTrace' /\ VerdictInv'
        /\ EditsAreTrue'
    BY <1>1, <1>2, <1>3, RequestStep
  <1>5. /\ Len(requests') = Len(requests) /\ requests'[n] = v
        /\ \A k \in 1..Len(requests) : k # n => requests'[k] = requests[k]
    BY <1>1, RequestChanged DEF FormInv
  <1>6. OneAnswer'
    BY <1>1, <1>2, <1>3, <1>5 DEF FormInv, OneAnswer
  <1> QED
    BY <1>4, <1>6 DEF FormInv

LEMMA LossStep ==
  ASSUME FormInv, NetworkFails
  PROVE  FormInv'
  <1>0. PICK n \in 1..Len(requests) : n = waiting
    BY DEF FormInv, Typed, NetworkFails
  <1>1. PICK v \in Request :
           /\ requests' = [requests EXCEPT ![n] = v]
           /\ v.body = requests[n].body /\ v.by = requests[n].by
           /\ v.state = requests[n].state /\ v.stored = requests[n].stored
           /\ v.lost = TRUE /\ v.context = requests[n].context
    BY <1>0, LossMakes DEF FormInv
  <1>2. UNCHANGED <<pid, doorway, seeded, form, edits, acts, buyer>> /\ waiting' = 0
    BY DEF NetworkFails
  <1>3. v.stored => EditedIsTrue(v)
    <2>1. requests[n].stored => EditedIsTrue(requests[n])
      BY DEF FormInv, EditsAreTrue
    <2>2. v.body = requests[n].body /\ v.by = requests[n].by /\ v.context = requests[n].context
      BY <1>1
    <2>3. EditedIsTrue(requests[n]) => EditedIsTrue(v)
      BY <2>2 DEF EditedIsTrue
    <2> QED
      BY <1>1, <2>1, <2>3
  <1>4. /\ Typed' /\ Traces(form, buyer)' /\ SeedsAreCurrent' /\ BodiesTrace' /\ VerdictInv'
        /\ EditsAreTrue'
    BY <1>1, <1>2, <1>3, RequestStep
  <1>5. /\ Len(requests') = Len(requests) /\ requests'[n] = v
        /\ \A k \in 1..Len(requests) : k # n => requests'[k] = requests[k]
    BY <1>1, RequestChanged DEF FormInv
  <1>6. OneAnswer'
    BY <1>0, <1>1, <1>2, <1>5 DEF FormInv, OneAnswer
  <1> QED
    BY <1>4, <1>6 DEF FormInv

LEMMA AnswerStep ==
  ASSUME FormInv, Created \/ Failed \/ FileRefused
  PROVE  FormInv'
  <1>0. form \in Form /\ buyer \in Buyer
    BY DEF FormInv, Typed
  <1>1. PICK n \in 1..Len(requests) : n = waiting
    BY DEF FormInv, Typed, Created, Failed, FileRefused
  <1>2. /\ pid' = pid /\ doorway' = doorway /\ seeded' = seeded /\ requests' = requests
        /\ edits' = edits /\ acts' = acts /\ buyer' = buyer /\ waiting' = 0 /\ n # 0
    BY <1>1 DEF Created, Failed, FileRefused
  <1>3. requests[n].body \in Form
    <2>1. requests[n] \in Request
      BY DEF FormInv, Typed
    <2> QED
      BY <2>1 DEF Request
  <1>4. requests[n].body.file \in SomeFile
    BY <1>3 DEF Form
  <1>5. /\ form' \in Form
        /\ form'.industry = form.industry /\ form'.details = form.details
        /\ form'.chips = form.chips /\ form'.draft = form.draft
        /\ form'.file = form.file /\ form'.cleared = form.cleared
    <2>1. CASE Created
      <3>1. form' = [form EXCEPT !.reference = TRUE]
        BY <2>1 DEF Created
      <3>2. form' \in Form
        BY <1>0, <3>1, FormEdits
      <3> QED
        BY <1>0, <3>1, <3>2 DEF Form
    <2>2. CASE FileRefused
      <3>1. form' = [form EXCEPT !.verdict = requests[n].body.file]
        BY <1>1, <2>2 DEF FileRefused
      <3>2. form' \in Form
        BY <1>0, <1>4, <3>1, FormEdits
      <3> QED
        BY <1>0, <3>1, <3>2 DEF Form
    <2>3. CASE Failed
      BY <1>0, <2>3 DEF Failed
    <2> QED
      BY <2>1, <2>2, <2>3
  <1>6. Typed'
    BY <1>2, <1>5 DEF FormInv, Typed
  <1>7. Traces(form, buyer)'
    <2>1. TextsKept(form, buyer)'
      BY <1>2, <1>5 DEF FormInv, Traces, TextsKept
    <2> QED
      BY <1>2, <1>5, <2>1 DEF FormInv, Traces, ChoicesKept, SeedsGone, SeedsKept
  <1>8. SeedsAreCurrent'
    BY <1>2 DEF FormInv, SeedsAreCurrent, Resolve, Resolved, Offer
  <1>9. BodiesTrace'
    <2> SUFFICES ASSUME NEW k \in 1..Len(requests)
                 PROVE  /\ Traces(requests[k].body, requests[k].by)'
                        /\ requests[k].body.draft = None /\ k # waiting'
      BY <1>2 DEF BodiesTrace
    <2>1. Traces(requests[k].body, requests[k].by) /\ requests[k].body.draft = None
      BY DEF FormInv, BodiesTrace
    <2>2. Traces(requests[k].body, requests[k].by)'
      BY <1>2, <2>1 DEF Traces, TextsKept, ChoicesKept, SeedsGone, SeedsKept
    <2> QED
      BY <1>2, <2>1, <2>2
  <1>10. VerdictInv'
    <2>1. CASE FileRefused
      <3>1. form'.verdict = requests[n].body.file
        BY <1>0, <1>1, <2>1 DEF FileRefused, Form
      <3>2. ~buyer.swapped => requests[n].body.file = form.file
        BY <1>1 DEF FormInv, BodiesTrace
      <3> QED
        BY <1>2, <1>5, <3>1, <3>2 DEF VerdictInv
    <2>2. CASE Created \/ Failed
      <3>1. form'.verdict = form.verdict
        BY <1>0, <2>2 DEF Created, Failed, Form
      <3> QED
        BY <1>2, <1>5, <3>1 DEF FormInv, VerdictInv
    <2> QED
      BY <2>1, <2>2
  <1>11. EditsAreTrue'
    BY <1>2 DEF FormInv, EditsAreTrue, EditedIsTrue
  <1>12. OneAnswer'
    <2>1. ~form.reference
      BY <1>1, <1>2 DEF FormInv, OneAnswer
    <2>2. /\ requests[n].state # "sent"
          /\ requests[n].stored /\ ~requests[n].lost => form'.reference
      <3>1. CASE Created
        BY <1>0, <1>1, <3>1 DEF Created, Form
      <3>2. CASE Failed
        BY <1>1, <3>2 DEF Failed, FormInv, OneAnswer
      <3>3. CASE FileRefused
        BY <1>1, <3>3 DEF FileRefused, FormInv, OneAnswer
      <3> QED
        BY <3>1, <3>2, <3>3
    <2>3. \A k \in 1..Len(requests) :
            /\ ~(requests[k].state = "sent" /\ ~requests[k].lost)
            /\ requests[k].stored /\ ~requests[k].lost => form'.reference
      BY <1>1, <2>1, <2>2 DEF FormInv, OneAnswer
    <2> QED
      BY <1>2, <2>3 DEF FormInv, OneAnswer
  <1> QED
    BY <1>6, <1>7, <1>8, <1>9, <1>10, <1>11, <1>12 DEF FormInv

(* The administrator's edit makes what was seeded old, and nothing false.  *)
LEMMA CatalogueStep ==
  ASSUME FormInv, NEW next \in Catalogues, EditCatalogue(next)
  PROVE  FormInv'
  <1> USE FormAssumption
  <1>1. /\ pid' = next /\ edits' = edits + 1
        /\ doorway' = doorway /\ seeded' = seeded /\ form' = form /\ requests' = requests
        /\ waiting' = waiting /\ acts' = acts /\ buyer' = buyer
    BY DEF EditCatalogue
  <1>2. Typed' /\ edits' # 0
    BY <1>1 DEF FormInv, Typed
  <1>3. Traces(form, buyer)'
    BY <1>1 DEF FormInv, Traces, TextsKept, ChoicesKept, SeedsGone, SeedsKept
  <1>4. BodiesTrace'
    <2> SUFFICES ASSUME NEW k \in 1..Len(requests)
                 PROVE  /\ Traces(requests[k].body, requests[k].by)'
                        /\ requests[k].body.draft = None
                        /\ k = waiting /\ ~buyer.swapped => requests[k].body.file = form.file
      BY <1>1 DEF BodiesTrace
    <2>1. /\ Traces(requests[k].body, requests[k].by) /\ requests[k].body.draft = None
          /\ k = waiting /\ ~buyer.swapped => requests[k].body.file = form.file
      BY DEF FormInv, BodiesTrace
    <2> QED
      BY <1>1, <2>1 DEF Traces, TextsKept, ChoicesKept, SeedsGone, SeedsKept
  <1>5. EditsAreTrue'
    <2>1. edits' > 0
      BY <1>1 DEF FormInv, Typed
    <2> QED
      BY <1>2, <2>1 DEF EditsAreTrue, EditedIsTrue
  <1> QED
    BY <1>1, <1>2, <1>3, <1>4, <1>5 DEF FormInv, SeedsAreCurrent, VerdictInv, OneAnswer

LEMMA StutterStep ==
  ASSUME FormInv, UNCHANGED vars
  PROVE  FormInv'
  <1>1. /\ pid' = pid /\ edits' = edits
        /\ doorway' = doorway /\ seeded' = seeded /\ form' = form /\ requests' = requests
        /\ waiting' = waiting /\ acts' = acts /\ buyer' = buyer
    BY DEF vars
  <1>2. Typed' /\ VerdictInv' /\ OneAnswer'
    BY <1>1 DEF FormInv, Typed, VerdictInv, OneAnswer
  <1>3. Traces(form, buyer)'
    BY <1>1 DEF FormInv, Traces, TextsKept, ChoicesKept, SeedsGone, SeedsKept
  <1>4. BodiesTrace'
    <2> SUFFICES ASSUME NEW k \in 1..Len(requests)
                 PROVE  /\ Traces(requests[k].body, requests[k].by)'
                        /\ requests[k].body.draft = None
                        /\ k = waiting /\ ~buyer.swapped => requests[k].body.file = form.file
      BY <1>1 DEF BodiesTrace
    <2>1. /\ Traces(requests[k].body, requests[k].by) /\ requests[k].body.draft = None
          /\ k = waiting /\ ~buyer.swapped => requests[k].body.file = form.file
      BY DEF FormInv, BodiesTrace
    <2> QED
      BY <1>1, <2>1 DEF Traces, TextsKept, ChoicesKept, SeedsGone, SeedsKept
  <1>5. EditsAreTrue' /\ SeedsAreCurrent'
    BY <1>1 DEF FormInv, EditsAreTrue, EditedIsTrue, SeedsAreCurrent, Resolve, Resolved, Offer
  <1> QED
    BY <1>2, <1>3, <1>4, <1>5 DEF FormInv

LEMMA FormInit == Init => FormInv
  <1> SUFFICES ASSUME Init PROVE FormInv
    OBVIOUS
  <1> USE FormAssumption
  <1>1. /\ pid \in Catalogues /\ pid \in CatalogueType
        /\ doorway \in Doorways /\ doorway \in DoorwayType
        /\ requests = <<>> /\ waiting = 0 /\ edits = 0 /\ acts = 0
        /\ seeded = Resolve(doorway)
    BY DEF Init
  <1>2. seeded \in Seeds /\ Cardinality(seeded.chips) <= ChipBudget
    BY <1>1, SeedsTyped
  <1>3. /\ seeded.industry \in SomeIndustry /\ seeded.chips \subseteq CatalogItem
        /\ CatalogItem \subseteq LeadEquipmentItem
    BY <1>2 DEF Seeds, CatalogItem
  <1> DEFINE banner == DoorwayShown(doorway, seeded)
  <1>4. banner \in BOOLEAN
    BY DEF DoorwayShown
  <1> HIDE DEF banner
  <1>5. form = [industry |-> seeded.industry, details |-> IF doorway.q THEN "query" ELSE "",
                chips |-> seeded.chips, draft |-> None, file |-> None, verdict |-> None,
                banner |-> banner, cleared |-> FALSE, reference |-> FALSE]
    BY DEF Init, RfqForm, banner
  <1>6. buyer = [industry |-> None, details |-> "", texts |-> {}, file |-> None,
                 pressed |-> FALSE, touched |-> FALSE, swapped |-> FALSE]
    BY DEF Init
  <1>7. form \in Form
    <2>1. (IF doorway.q THEN "query" ELSE "") \in Details
      BY DEF Details
    <2>2. seeded.chips \in SUBSET LeadEquipmentItem
      BY <1>3
    <2> QED
      BY <1>3, <1>4, <1>5, <2>1, <2>2 DEF Form, SomeFile
  <1>8. buyer \in Buyer
    BY <1>6 DEF Buyer, SomeIndustry, SomeFile, Details
  <1>9. Typed
    BY <1>1, <1>2, <1>7, <1>8 DEF Typed
  <1>10. Traces(form, buyer)
    <2>1. \A t : Chip("freeText", t) \notin CatalogItem
      BY DEF CatalogItem, Chip
    <2>2. TextsKept(form, buyer)
      BY <1>3, <1>5, <1>6, <2>1 DEF TextsKept
    <2> QED
      BY <1>5, <1>6, <2>2 DEF Traces, ChoicesKept, SeedsGone, SeedsKept
  <1>11. 1..Len(requests) = {}
    BY <1>1
  <1>12. SeedsAreCurrent /\ BodiesTrace /\ EditsAreTrue
    BY <1>1, <1>11 DEF SeedsAreCurrent, BodiesTrace, EditsAreTrue
  <1>13. VerdictInv /\ OneAnswer
    BY <1>1, <1>5, <1>11 DEF VerdictInv, OneAnswer
  <1> QED
    BY <1>9, <1>10, <1>12, <1>13 DEF FormInv

(* The inductive invariant holds in every reachable state. *)
THEOREM FormCorrect == Spec => []FormInv
  <1>1. FormInv /\ [Next]_vars => FormInv'
    <2> SUFFICES ASSUME FormInv, [Next]_vars PROVE FormInv'
      OBVIOUS
    <2>1. CASE Edit
      BY <2>1, EditStep
    <2>2. CASE Submit
      BY <2>2, SubmitStep
    <2>3. ASSUME NEW n \in 1..Len(requests), NEW answer \in {"created", "failed"}, Store(n, answer)
          PROVE  FormInv'
      BY <2>3, StoreStep
    <2>4. ASSUME NEW n \in 1..Len(requests), NEW answer \in {"refused", "file"}, Refuse(n, answer)
          PROVE  FormInv'
      BY <2>4, RefuseStep
    <2>5. CASE Created \/ Failed \/ FileRefused
      BY <2>5, AnswerStep
    <2>6. CASE NetworkFails
      BY <2>6, LossStep
    <2>7. ASSUME NEW next \in Catalogues, EditCatalogue(next) PROVE FormInv'
      BY <2>7, CatalogueStep
    <2>8. CASE UNCHANGED vars
      BY <2>8, StutterStep
    <2> QED
      BY <2>1, <2>2, <2>3, <2>4, <2>5, <2>6, <2>7, <2>8 DEF Next, Edit
  <1> QED
    BY <1>1, FormInit, PTL DEF Spec

(* Every variable keeps its type, and what was seeded stays within its     *)
(* budget. *)
THEOREM FormTypes == Spec => []TypeOK
  <1>1. FormInv => TypeOK
    BY DEF FormInv, Typed, Form, SomeIndustry, SomeFile, Details, TypeOK
  <1> QED
    BY <1>1, FormCorrect, PTL

(* Whatever is answered, cleared or sent again, the form and every submit  *)
(* hold what the buyer entered, and a verdict is about the file on screen. *)
THEOREM BuyersInputStays == Spec => []OwnInputStays
  <1>1. FormInv => OwnInputStays
    <2> SUFFICES ASSUME FormInv PROVE OwnInputStays
      OBVIOUS
    <2>1. Holds(form, buyer)
      BY TracesHold DEF FormInv, Typed
    <2>2. ASSUME NEW n \in 1..Len(requests)
          PROVE  Holds(requests[n].body, requests[n].by) /\ requests[n].body.draft = None
      <3>0. requests[n] \in Request
        BY DEF FormInv, Typed
      <3>1. requests[n].body \in Form /\ requests[n].by \in Buyer
        BY <3>0 DEF Request
      <3>2. Traces(requests[n].body, requests[n].by) /\ requests[n].body.draft = None
        BY DEF FormInv, BodiesTrace
      <3> QED
        BY <3>1, <3>2, TracesHold
    <2> QED
      BY <2>1, <2>2 DEF OwnInputStays, Sent, FormInv, VerdictInv
  <1> QED
    BY <1>1, FormCorrect, PTL

(* "CLEARING IS NOT HIDING", and what is recorded of a lead's doorway is   *)
(* so, whatever became of the catalog while the form was open.             *)
THEOREM DoorwaysAreTrue == Spec => []DoorwayIsTrue
  <1>1. FormInv => DoorwayIsTrue
    <2> SUFFICES ASSUME FormInv PROVE DoorwayIsTrue
      OBVIOUS
    <2>1. ASSUME NEW n \in 1..Len(requests) PROVE ClearMeansGone(requests[n])
      <3>0. requests[n] \in Request
        BY DEF FormInv, Typed
      <3>1. requests[n].body \in Form /\ requests[n].by \in Buyer
        BY <3>0 DEF Request
      <3>2. SeedsGone(requests[n].body, requests[n].by)
        BY DEF FormInv, BodiesTrace, Traces
      <3>3. Seedable(requests[n].body.chips) = requests[n].body.chips \cap CatalogItem
        BY <3>1 DEF Form, Seedable, CatalogItem
      <3> QED
        BY <3>2, <3>3 DEF SeedsGone, ClearMeansGone
    <2>2. ASSUME NEW n \in 1..Len(requests), requests[n].stored PROVE EditedIsTrue(requests[n])
      BY <2>2 DEF FormInv, EditsAreTrue
    <2> QED
      BY <2>1, <2>2 DEF DoorwayIsTrue, Sent, Stored
  <1> QED
    BY <1>1, FormCorrect, PTL

(* However often it is sent and whatever answers arrive, one form makes    *)
(* one lead, plus those whose buyer was told that they had failed.         *)
THEOREM LeadsNeedLostAnswers == Spec => []ExtraLeadNeedsLostAnswer
  <1>1. FormInv => ExtraLeadNeedsLostAnswer
    <2> SUFFICES ASSUME FormInv PROVE ExtraLeadNeedsLostAnswer
      OBVIOUS
    <2> DEFINE T == {n \in 1..Len(requests) : requests[n].stored /\ ~requests[n].lost}
    <2>1. \A m, n \in T : m = n
      BY DEF FormInv, OneAnswer
    <2>2. T = {} \/ \E n : T = {n}
      BY <2>1
    <2>3. Cardinality(T) = 0 \/ Cardinality(T) = 1
      BY <2>2, FS_EmptySet, FS_Singleton
    <2> QED
      BY <2>3 DEF ExtraLeadNeedsLostAnswer
  <1> QED
    BY <1>1, FormCorrect, PTL
=============================================================================

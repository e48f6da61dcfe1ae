-------------------------- MODULE AdminForms_proofs --------------------------
(***************************************************************************)
(* Of the editing forms, for any number of administrators, rows, locales   *)
(* and texts, and of each entity: type correctness, that a row can be      *)
(* saved again as it is stored, and that a save does exactly what was      *)
(* asked. Before that, of SlaContent, for any number of steps, locales,    *)
(* editors, moves and deploys: type correctness, that a deploy never       *)
(* undoes what the owner saved, and that the moves of steps are atomic.    *)
(***************************************************************************)
EXTENDS AdminForms, FiniteSetTheorems, TLAPS

-----------------------------------------------------------------------------
(* The response process.                                                   *)

(* The number of steps is a positive number. *)
LEMMA StepCount == N \in Nat \ {0}
  BY SlaAssumption, FS_CardinalityType, FS_EmptySet DEF N

(* An order without repetition names every step. *)
LEMMA OrderIsOnto ==
  ASSUME NEW o \in Orders, NEW s \in Steps
  PROVE  \E i \in 1 .. N : o[i] = s
  <1>1. o \in Injection(1 .. N, Steps)
    BY DEF Orders, Injection, IsInjective
  <1>2. Cardinality(1 .. N) = Cardinality(Steps)
    BY StepCount, FS_Interval DEF N
  <1>3. o \in Surjection(1 .. N, Steps)
    BY <1>1, <1>2, FS_Injection, SlaAssumption
  <1> QED
    BY <1>3 DEF Surjection

(* The positions an order gives: each step has the place it stands at. *)
Positions(o) == [s \in Steps |-> CHOOSE i \in 1 .. N : o[i] = s]

LEMMA PositionsOfOrder ==
  ASSUME NEW o \in Orders
  PROVE  /\ Positions(o) \in [Steps -> 1 .. N]
         /\ \A s \in Steps : o[Positions(o)[s]] = s
         /\ \A j \in 1 .. N : Positions(o)[o[j]] = j
  <1>1. ASSUME NEW s \in Steps
        PROVE  Positions(o)[s] \in 1 .. N /\ o[Positions(o)[s]] = s
    BY OrderIsOnto DEF Positions
  <1>2. Positions(o) \in [Steps -> 1 .. N]
    BY <1>1 DEF Positions
  <1> QED
    BY <1>1, <1>2 DEF Orders

(* An arrow swaps two neighbours, and leaves an order an order. *)
LEMMA SwappedIsOrder ==
  ASSUME NEW o \in Orders, NEW i \in 1 .. N - 1
  PROVE  Swapped(o, i) \in Orders
  BY StepCount DEF Orders, Swapped

(* A reorder that has written every row sees the positions of its order. *)
LEMMA SeenAtCommit ==
  ASSUME NEW m \in Moves, move[m].order \in Orders, move[m].done = N
  PROVE  /\ Seen(m) \in [Steps -> 1 .. N]
         /\ Unique(Seen(m))
         /\ \A i \in 1 .. N : Seen(m)[move[m].order[i]] = i
  <1>1. \A s \in Steps : s \in Written(m)
    BY OrderIsOnto DEF Written
  <1>2. Seen(m) = Positions(move[m].order)
    BY <1>1 DEF Seen, Positions
  <1>3. /\ Positions(move[m].order) \in [Steps -> 1 .. N]
        /\ \A s \in Steps : move[m].order[Positions(move[m].order)[s]] = s
        /\ \A i \in 1 .. N : Positions(move[m].order)[move[m].order[i]] = i
    BY PositionsOfOrder
  <1> QED
    BY <1>2, <1>3 DEF Unique

-----------------------------------------------------------------------------
(* What is stored keeps what the owner saved last. *)
TextKept ==
  \A p \in Parts : saved[p] # None =>
    /\ Exists
    /\ \A l \in Locales : saved[p][l] # None => text[p][l] = saved[p][l]

(* There is a page to move steps on, or a move, only where there are steps. *)
MovesHaveSteps ==
  (\E e \in Editors : page[e] # None) \/ (\E m \in Moves : Active(m)) => Exists

SlaInv ==
  /\ TypeOK
  /\ MovesHaveSteps
  /\ TextKept
  /\ MovesAreAtomic

(* What the default process leaves: the fixture in every locale, and the   *)
(* positions of some order.                                                *)
LEMMA DefaultCreated ==
  ASSUME CreateDefault
  PROVE  /\ text' \in [Parts -> RowsOf] /\ text' # None
         /\ sort' \in [Steps -> 1 .. N] /\ sort' # None
         /\ asked' \in Orders /\ \A i \in 1 .. N : sort'[asked'[i]] = i
  <1>1. text' \in [Parts -> RowsOf]
    BY SlaAssumption DEF CreateDefault, RowsOf
  <1>2. PICK o \in Orders : sort' = Positions(o) /\ asked' = o
    BY DEF CreateDefault, Positions
  <1>3. sort' \in [Steps -> 1 .. N] /\ \A i \in 1 .. N : sort'[o[i]] = i
    BY <1>2, PositionsOfOrder
  <1> QED
    BY <1>1, <1>2, <1>3, SlaAssumption

(* The rows an edit stores have their English one. *)
LEMMA UpsertedRows ==
  ASSUME NEW old \in RowsOf, NEW rows \in RowsOf
  PROVE  Upserted(old, rows) \in RowsOf
  BY SlaAssumption DEF Upserted, RowsOf

(* The invariant holds at the start. *)
LEMMA InitSla == Init => SlaInv
  BY StepCount, SlaAssumption
     DEF Init, SlaInv, TypeOK, TextKept, MovesAreAtomic, MovesHaveSteps, Active, Exists

(* A deploy creates the process only where there is none, and there the    *)
(* owner has not saved anything.                                           *)
LEMMA DeployStep ==
  ASSUME SlaInv, NEW d \in Deploys, ensureDefaultSla(d) \/ createProcess(d)
  PROVE  SlaInv'
  <1> USE DEF SlaInv, TypeOK, TextKept, MovesAreAtomic, MovesHaveSteps, Active, Exists
  <1>1. CASE ensureDefaultSla(d)
    BY <1>1 DEF ensureDefaultSla
  <1>2. CASE createProcess(d) /\ text # None
    BY <1>2 DEF createProcess
  <1>3. CASE createProcess(d) /\ text = None
    <2>1. CreateDefault
      BY <1>3 DEF createProcess
    <2> QED
      BY <1>3, <2>1, DefaultCreated DEF createProcess
  <1> QED
    BY <1>1, <1>2, <1>3

(* An edit stores what it sends and keeps the other locales. *)
LEMMA SaveStep ==
  ASSUME SlaInv, NEW p \in Parts, NEW rows \in RowsOf, Save(p, rows)
  PROVE  SlaInv'
  <1> USE DEF SlaInv, TypeOK
  <1>1. text \in [Parts -> RowsOf] /\ text' \in [Parts -> RowsOf]
    BY UpsertedRows DEF Save, Exists
  <1>2. text'[p] = Upserted(text[p], rows) /\ \A q \in Parts \ {p} : text'[q] = text[q]
    BY <1>1 DEF Save
  <1>3. TypeOK'
    BY <1>1, SlaAssumption DEF Save, Exists
  <1>4. TextKept'
    <2>1. rows \in [Locales -> Texts \cup {None}]
      BY DEF RowsOf
    <2>2. \A l \in Locales : rows[l] # None => text'[p][l] = rows[l]
      BY <1>2, <2>1 DEF Upserted
    <2> QED
      BY <1>1, <1>2, <2>2, SlaAssumption DEF Save, TextKept, Exists
  <1>5. MovesAreAtomic'
    BY <1>1, SlaAssumption DEF Save, MovesAreAtomic, MovesHaveSteps, Active, Exists
  <1>6. MovesHaveSteps'
    BY <1>1, SlaAssumption DEF Save, MovesHaveSteps, Active, Exists
  <1> QED
    BY <1>3, <1>4, <1>5, <1>6

(* No step of a reorder fails, and what it commits is the order it was     *)
(* asked for.                                                              *)
LEMMA MoveStep ==
  ASSUME SlaInv, NEW m \in Moves,
         \/ \E e \in Editors, i \in 1 .. N - 1 : reorderSlaSteps(e, m, i)
         \/ updateSort(m) \/ commit(m) \/ rollback(m)
  PROVE  SlaInv'
  <1> USE StepCount DEF SlaInv, TypeOK, TextKept, MovesHaveSteps, Active, Exists
  <1>1. ASSUME NEW e \in Editors, NEW i \in 1 .. N - 1, reorderSlaSteps(e, m, i)
        PROVE  SlaInv'
    <2>1. Swapped(page[e], i) \in Orders
      BY <1>1, SwappedIsOrder DEF reorderSlaSteps
    <2> QED
      BY <1>1, <2>1 DEF reorderSlaSteps, MovesAreAtomic
  <1>2. CASE updateSort(m)
    BY <1>2 DEF updateSort, Deferred, MovesAreAtomic
  <1>3. CASE commit(m)
    <2>1. move[m].order \in Orders /\ move[m].done = N
      BY <1>3 DEF commit
    <2>2. /\ Seen(m) \in [Steps -> 1 .. N] /\ Unique(Seen(m))
          /\ \A i \in 1 .. N : Seen(m)[move[m].order[i]] = i
      BY <2>1, SeenAtCommit
    <2>3. /\ sort' = Seen(m) /\ asked' = move[m].order
          /\ move' = [move EXCEPT ![m] = Idle]
          /\ UNCHANGED <<text, page, deploy, saved, collided>>
      BY <1>3, <2>2 DEF commit
    <2>4. TypeOK'
      BY <1>3, <2>1, <2>2, <2>3, SlaAssumption DEF commit
    <2> QED
      BY <2>2, <2>3, <2>4 DEF MovesAreAtomic
  <1>4. CASE rollback(m)
    BY <1>4 DEF rollback, MovesAreAtomic
  <1> QED
    BY <1>1, <1>2, <1>3, <1>4

(* Every step keeps the invariant. *)
LEMMA SlaStep == SlaInv /\ [Next]_vars => SlaInv'
  <1> SUFFICES ASSUME SlaInv, [Next]_vars PROVE SlaInv'
    OBVIOUS
  <1>1. ASSUME NEW rows \in RowsOf, updateSlaProcessText(rows) PROVE SlaInv'
    BY <1>1, SaveStep DEF updateSlaProcessText
  <1>2. ASSUME NEW rows \in RowsOf, NEW s \in Steps, updateSlaStepText(s, rows) PROVE SlaInv'
    BY <1>2, SaveStep DEF updateSlaStepText
  <1>3. ASSUME NEW e \in Editors, getSlaForEdit(e) PROVE SlaInv'
    BY <1>3 DEF getSlaForEdit, SlaInv, TypeOK, TextKept, MovesAreAtomic, MovesHaveSteps, Active, Exists
  <1>4. CASE UNCHANGED vars
    BY <1>4 DEF vars, SlaInv, TypeOK, TextKept, MovesAreAtomic, MovesHaveSteps, Active, Exists
  <1> QED
    BY <1>1, <1>2, <1>3, <1>4, DeployStep, MoveStep DEF Next

(* Every behaviour of the SLA content keeps the invariant.                 *)
LEMMA SlaCorrect == Spec => []SlaInv
  <1> QED
    BY InitSla, SlaStep, PTL DEF Spec

-----------------------------------------------------------------------------
(* The variables keep their types: every stored text has its English row.  *)
THEOREM SlaTypes == Spec => []TypeOK
  <1>1. SlaInv => TypeOK
    BY DEF SlaInv
  <1> QED
    BY <1>1, SlaCorrect, PTL

(* A deploy never puts back a text the owner has changed (seed.ts runs     *)
(* sla-bootstrap.ts on every deploy), however deploys and edits interleave. *)
THEOREM OwnerTextIsKept == Spec => []OwnerTextStays
  <1>1. SlaInv => OwnerTextStays
    BY DEF SlaInv, TextKept, OwnerTextStays, toSlaContent
  <1> QED
    BY <1>1, SlaCorrect, PTL

(* Reorders that overlap do not mix, and none fails on the unique position *)
(* that the migration makes DEFERRABLE for them.                           *)
THEOREM ReordersAreAtomic == Spec => []MovesAreAtomic
  <1>1. SlaInv => MovesAreAtomic
    BY DEF SlaInv
  <1> QED
    BY <1>1, SlaCorrect, PTL

-----------------------------------------------------------------------------
(* The forms.                                                              *)

(* The kinds that are edited in a form of fields.                          *)
FormKinds == Kinds \ {"sla"}
GuardKinds == {"product", "manufacturer", "industry", "service", "team", "project"}

-----------------------------------------------------------------------------
(* The layers of the code, kind by kind: facts about sets of fields.       *)

LEMMA CellIs ==
  ASSUME NEW F, NEW c
  PROVE  c \in Cells(F) <=>
           \/ \E f \in F \ TextFields : c = Field(f)
           \/ \E l \in Locales, f \in F \cap TextFields : c = TextOf(l, f)
  BY DEF Cells, Field, TextOf

LEMMA CellsGrow == ASSUME NEW F, NEW G, F \subseteq G PROVE Cells(F) \subseteq Cells(G)
  BY DEF Cells

(* What a form shows, its row has, its page loads, its schema knows and    *)
(* its save writes; and a save writes nothing else. Of the home page, the  *)
(* form is out of step.                                                    *)
Layered(L) ==
  /\ L.form \subseteq L.columns /\ L.form \subseteq L.load /\ L.form \subseteq L.keys
  /\ L.update = L.form /\ L.create \subseteq L.columns /\ L.required \subseteq L.form
  /\ L.create # {} => L.form \subseteq L.create

LEMMA CatalogLayers ==
  ASSUME NEW k \in {"product", "manufacturer", "category", "series"}
  PROVE  Layered(Entity(k))
<1>1. Layered(Entity("product"))
  BY DEF Layered, Entity, ProductColumns, getProductForEdit, ProductForm, productSchema, createProduct,
         updateProduct, NameDescriptionTabs, nameDescriptionShape
<1>2. Layered(Entity("manufacturer"))
  BY DEF Layered, Entity, ManufacturerColumns, getManufacturerForEdit, ManufacturerForm, manufacturerSchema,
         createManufacturer, updateManufacturerTranslations, NameDescriptionTabs, nameDescriptionShape
<1>3. Layered(Entity("category"))
  BY DEF Layered, Entity, CategoryColumns, getCategoryForEdit, CategoryForm, categorySchema, createCategory,
         updateCategory, NameOnlyTabs, nameOnlyShape
<1>4. Layered(Entity("series"))
  BY DEF Layered, Entity, SeriesColumns, getSeriesForEdit, SeriesForm, seriesSchema, createSeries,
         updateSeries, NameOnlyTabs, nameOnlyShape
<1>5. QED BY <1>1, <1>2, <1>3, <1>4

LEMMA ContentLayers ==
  ASSUME NEW k \in {"industry", "service", "team", "project", "guide"}
  PROVE  Layered(Entity(k))
<1>1. Layered(Entity("industry"))
  BY DEF Layered, Entity, IndustryColumns, getIndustryForEdit, IndustryForm, industrySchema,
         createIndustry, updateIndustryTranslations, NameDescriptionTabs, nameDescriptionShape
<1>2. Layered(Entity("service"))
  BY DEF Layered, Entity, ServiceColumns, getServiceForEdit, ServiceForm, serviceSchema,
         createService, updateServiceTranslations, NameDescriptionTabs, nameDescriptionShape
<1>3. Layered(Entity("team"))
  BY DEF Layered, Entity, TeamColumns, getTeamMemberForEdit, TeamForm, teamSchema, flattenTeam,
         createTeamMember, updateTeamMember
<1>4. Layered(Entity("project"))
  BY DEF Layered, Entity, ProjectColumns, getProjectForEdit, ProjectForm, flattenProject,
         projectScalars, projectTranslationShape, createProject, updateProject
<1>5. Layered(Entity("guide"))
  BY DEF Layered, Entity, GuideColumns, getGuideForEdit, GuideForm, guideBody, createGuide, updateGuide
<1>6. QED BY <1>1, <1>2, <1>3, <1>4, <1>5

LEMMA OtherLayers ==
  ASSUME NEW k \in {"document", "media", "settings", "lead"}
  PROVE  Layered(Entity(k))
<1>1. Layered(Entity("document"))
  BY DEF Layered, Entity, DocumentColumns, DocumentFile, getDocumentForEdit, DocumentForm,
         documentAssociations, documentTitleShape, createDocument, updateDocumentMeta
<1>2. Layered(Entity("media"))
  BY DEF Layered, Entity, MediaColumns, getMediaAssetForEdit, MediaAssetForm, mediaAltSchema, updateMediaAssetAlt
<1>3. Layered(Entity("settings"))
  BY DEF Layered, Entity, SettingsColumns, getSiteSettingsForEdit, SiteSettingsForm, siteSettingsSchema,
         updateSiteSettings
<1>4. Layered(Entity("lead"))
  BY DEF Layered, Entity, LeadColumns, LeadStatusForm, leadStatusSchema, updateLeadStatus
<1>5. QED BY <1>1, <1>2, <1>3, <1>4

LEMMA LayersAgree == ASSUME NEW k \in FormKinds, k # "home" PROVE Layered(Entity(k))
  BY CatalogLayers, ContentLayers, OtherLayers DEF FormKinds, Kinds

(* Where texts hang on an anchor, the anchor is required, and shown.       *)
AnchoredTexts(k, L) ==
  /\ L.anchor # "none" => L.anchor \in TextFields \cap L.required
  /\ k \in GuardKinds => L.anchor # "none" /\ "section" \notin L.form
  /\ L.form \cap TextFields \subseteq {"section", L.anchor} \/ k \in GuardKinds \cup {"guide", "home"}
  /\ k # "guide" => "section" \notin L.columns /\ "section" \notin L.form

LEMMA AnchorsRequired == ASSUME NEW k \in FormKinds PROVE AnchoredTexts(k, Entity(k))
<1> USE DEF AnchoredTexts, GuardKinds, TextFields, homeFields
<1>1. CASE k = "product"
  BY <1>1 DEF Entity, ProductColumns, ProductForm, NameDescriptionTabs
<1>2. CASE k = "manufacturer"
  BY <1>2 DEF Entity, ManufacturerColumns, ManufacturerForm, NameDescriptionTabs
<1>3. CASE k = "category"
  BY <1>3 DEF Entity, CategoryColumns, CategoryForm, NameOnlyTabs
<1>4. CASE k = "series"
  BY <1>4 DEF Entity, SeriesColumns, SeriesForm, NameOnlyTabs
<1>5. CASE k = "industry"
  BY <1>5 DEF Entity, IndustryColumns, IndustryForm, NameDescriptionTabs
<1>6. CASE k = "service"
  BY <1>6 DEF Entity, ServiceColumns, ServiceForm, NameDescriptionTabs
<1>7. CASE k = "team"
  BY <1>7 DEF Entity, TeamColumns, TeamForm, flattenTeam
<1>8. CASE k = "project"
  BY <1>8 DEF Entity, ProjectColumns, ProjectForm, flattenProject
<1>9. CASE k = "guide"
  BY <1>9 DEF Entity, GuideColumns, GuideForm
<1>10. CASE k = "document"
  BY <1>10 DEF Entity, DocumentColumns, DocumentForm, DocumentFile
<1>11. CASE k = "media"
  BY <1>11 DEF Entity, MediaColumns, MediaAssetForm
<1>12. CASE k = "settings"
  BY <1>12 DEF Entity, SettingsColumns, SiteSettingsForm
<1>13. CASE k = "home"
  BY <1>13 DEF Entity, HomeColumns, HomeContentForm
<1>14. CASE k = "lead"
  BY <1>14 DEF Entity, LeadColumns, LeadStatusForm
<1>15. QED BY <1>1, <1>2, <1>3, <1>4, <1>5, <1>6, <1>7, <1>8, <1>9, <1>10, <1>11, <1>12, <1>13, <1>14
           DEF FormKinds, Kinds

-----------------------------------------------------------------------------
(* The inductive invariant.                                                *)

(* The schema's rules for texts, which the rows keep as well: what is      *)
(* required is there, and no text of a locale hangs on nothing.            *)
Required(k, v) ==
  \A f \in Entity(k).required : v[IF f \in TextFields THEN TextOf("en", f) ELSE Field(f)] # None
NoOrphan(k, v) ==
  \A l \in Locales, f \in (Entity(k).form \cap TextFields) \ {Entity(k).anchor} :
    v[TextOf(l, Entity(k).anchor)] = None => v[TextOf(l, f)] = None
EnglishSections(v) ==
  \A l \in Locales : v[TextOf(l, "section")] # None => v[TextOf("en", "section")] # None

SoundTexts(k, v) ==
  /\ k # "media" => Required(k, v)
  /\ k \in GuardKinds => NoOrphan(k, v)
  /\ k = "guide" => EnglishSections(v)
Accepted(k, v) ==
  /\ k # "home" /\ Required(k, v) /\ SoundTexts(k, v)
  /\ k = "guide" => v[TextOf("en", "section")] # Blank

RowInv(k, r) ==
  /\ Stored(r) =>
       /\ k \in FormKinds /\ r \in [Cells(Entity(k).columns) -> Values]
       /\ k # "home" => SoundTexts(k, r)
       /\ k = "product" => r[Field("media")] # Foreign
  /\ k \in {"settings", "home"} => r # Gone

(* What a form is opened with.                                             *)
Opened(k, r, c) ==
  IF k = "guide" /\ c = TextOf("en", "section") /\ r[c] = None THEN Blank
  ELSE IF c[2] = "media" THEN mediaAssetIdOf(r[c]) ELSE r[c]

(* What a form shows and nobody has changed since is what the row has; and *)
(* the form of a row that was created meanwhile is behind in everything.   *)
OpenInv(k, r, f) ==
  /\ f.new => Entity(k).create # {}
  /\ f.pc = "saving" => Accepted(k, f.typed)
  /\ ~f.new /\ Stored(r) /\ k # "home" =>
       \A c \in Cells(Entity(k).form) \ (f.touched \cup f.behind) : f.typed[c] = Opened(k, r, c)
  /\ f.new /\ Stored(r) => f.behind = Cells(Entity(k).columns)
  /\ ~f.new /\ f.touched = {} /\ k # "home" => SoundTexts(k, f.typed)
  /\ \A c \in Cells(Entity(k).form) : c[2] = "media" => f.typed[c] # Foreign

FormsInv ==
  /\ kind \in Kinds /\ library \subseteq Images /\ made \in 0 .. MaxMade
  /\ RowInv(kind, row)
  /\ kind = "sla" => form = [a \in Admins |-> Idle]
  /\ kind # "sla" =>
       /\ form \in [Admins -> FormOf(kind) \cup {Idle}]
       /\ \A a \in Admins : form[a] # Idle => OpenInv(kind, row, form[a])

LEMMA Nothings ==
  /\ Own \notin Locales /\ "en" \in Locales
  /\ Fixture \in Texts /\ Texts \subseteq Values /\ Images \subseteq Values
  /\ {None, Foreign, Unfit, Blank} \subseteq Values
  /\ None \notin Texts \cup Images /\ Foreign \notin Texts \cup Images
  /\ Blank \notin Texts \cup Images /\ Unfit \notin Texts \cup Images
  /\ None # Foreign /\ None # Blank /\ None # Unfit /\ Foreign # Unfit /\ Absent # Gone
  /\ ~Stored(Absent) /\ ~Stored(Gone)
  /\ \A k \in FormKinds : Idle \notin FormOf(k)
  /\ \A k \in FormKinds : \A r \in [Cells(Entity(k).columns) -> Values] : Stored(r)
<1>1. None # Foreign /\ None # Blank /\ None # Unfit /\ Foreign # Unfit
  <2>1. ASSUME NEW x, NEW y, NEW z PROVE Cardinality({x, y, z}) # 4
    <3>1. IsFiniteSet({x}) /\ Cardinality({x}) = 1
      BY FS_Singleton
    <3>2. IsFiniteSet({x, y}) /\ Cardinality({x, y}) \in {1, 2}
      <4>1. {x, y} = {x} \cup {y}
        OBVIOUS
      <4>2. QED BY <3>1, <4>1, FS_AddElement
    <3>3. Cardinality({x, y, z}) \in {1, 2, 3}
      <4>1. {x, y, z} = {x, y} \cup {z}
        OBVIOUS
      <4>2. QED BY <3>2, <4>1, FS_AddElement
    <3>4. QED BY <3>3
  <2>2. /\ None = Foreign => {None, Foreign, Unfit, Blank} = {None, Unfit, Blank}
        /\ None = Blank => {None, Foreign, Unfit, Blank} = {None, Foreign, Unfit}
        /\ None = Unfit => {None, Foreign, Unfit, Blank} = {None, Foreign, Blank}
        /\ Foreign = Unfit => {None, Foreign, Unfit, Blank} = {None, Unfit, Blank}
    OBVIOUS
  <2>3. QED BY <2>1, <2>2, AdminFormsAssumption
<1>2. \A k \in FormKinds : \A r \in [Cells(Entity(k).columns) -> Values] : Stored(r)
  BY AdminFormsAssumption DEF FormKinds, Stored
<1>3. QED BY <1>1, <1>2, AdminFormsAssumption, SlaAssumption DEF FormKinds, Stored, Values

-----------------------------------------------------------------------------
(* Two ways of a step: one form changes, or the row does.                  *)

LEMMA FormEditStep ==
  ASSUME FormsInv, kind \in FormKinds, UNCHANGED <<kind, row, library>>, made' \in 0 .. MaxMade,
         NEW a \in Admins, NEW g \in FormOf(kind), OpenInv(kind, row, g),
         form' = [form EXCEPT ![a] = g]
  PROVE  FormsInv'
<1>1. kind # "sla"
  BY DEF FormKinds
<1>2. form' \in [Admins -> FormOf(kind) \cup {Idle}]
  BY <1>1 DEF FormsInv
<1>3. ASSUME NEW b \in Admins, form'[b] # Idle PROVE OpenInv(kind, row, form'[b])
  BY <1>1, <1>3 DEF FormsInv
<1>4. QED BY <1>1, <1>2, <1>3 DEF FormsInv

(* What a form that is behind has become.                                  *)
Behind(f, S, late) == [f EXCEPT !.behind = @ \cup S, !.late = late]

LEMMA BehindIs ==
  ASSUME kind \in FormKinds, NEW f \in FormOf(kind), NEW S \in SUBSET Columns, NEW late \in BOOLEAN
  PROVE  /\ Behind(f, S, late) \in FormOf(kind)
         /\ Behind(f, S, late).pc = f.pc /\ Behind(f, S, late).new = f.new
         /\ Behind(f, S, late).typed = f.typed /\ Behind(f, S, late).touched = f.touched
         /\ Behind(f, S, late).behind = f.behind \cup S
BY DEF FormOf, Behind, Columns, E

LEMMA RowChangeStep ==
  ASSUME FormsInv, kind \in FormKinds, UNCHANGED kind, library' \subseteq Images, made' \in 0 .. MaxMade,
         RowInv(kind, row'), row = Gone => row' = Gone,
         Stored(row) => row' # Absent,
         form' \in [Admins -> FormOf(kind) \cup {Idle}],
         \A b \in Admins : form'[b] # Idle =>
           form[b] # Idle /\ \E late \in BOOLEAN : form'[b] = Behind(form[b], Changed, late)
  PROVE  FormsInv'
<1>1. kind # "sla"
  BY DEF FormKinds
<1>2. Changed \in SUBSET Columns
  BY DEF Changed
<1>3. ASSUME NEW b \in Admins, form'[b] # Idle PROVE OpenInv(kind, row', form'[b])
  <2>1. form[b] # Idle /\ form[b] \in FormOf(kind) /\ OpenInv(kind, row, form[b])
    BY <1>1, <1>3 DEF FormsInv
  <2>2. PICK late \in BOOLEAN : form'[b] = Behind(form[b], Changed, late)
    BY <1>3
  <2> DEFINE f == form[b]
             g == Behind(f, Changed, late)
  <2>3. /\ g.pc = f.pc /\ g.new = f.new /\ g.typed = f.typed /\ g.touched = f.touched
        /\ g.behind = f.behind \cup Changed
    BY <1>2, <2>1, BehindIs
  <2> HIDE DEF g
  <2>4. ASSUME ~f.new, Stored(row'), kind # "home", NEW c \in Cells(Entity(kind).form) \ (f.touched \cup g.behind)
        PROVE  f.typed[c] = Opened(kind, row', c)
    <3>1. c \in Columns
      BY <2>4, LayersAgree, CellsGrow DEF Layered, Columns, E
    <3>2. Stored(row) /\ row'[c] = row[c]
      BY <2>3, <2>4, <3>1, Nothings DEF Changed
    <3>3. f.typed[c] = Opened(kind, row, c)
      BY <2>1, <2>3, <2>4, <3>2 DEF OpenInv
    <3>4. QED BY <3>2, <3>3 DEF Opened
  <2>5. f.new /\ Stored(row') => g.behind = Cells(Entity(kind).columns)
    <3>1. CASE Stored(row)
      BY <1>2, <2>1, <2>3, <3>1 DEF OpenInv, Columns, E
    <3>2. CASE ~Stored(row)
      <4>1. Changed = Columns
        BY <3>2 DEF Changed
      <4>2. f.behind \subseteq Columns
        BY <2>1 DEF FormOf, Columns, E
      <4>3. QED BY <2>3, <4>1, <4>2 DEF Columns, E
    <3>3. QED BY <3>1, <3>2
  <2>6. OpenInv(kind, row', g)
    BY <2>1, <2>3, <2>4, <2>5 DEF OpenInv
  <2>7. QED BY <2>2, <2>6 DEF g
<1>4. QED BY <1>1, <1>3 DEF FormsInv

-----------------------------------------------------------------------------
(* What the schema accepts, and what the action makes of it.               *)

LEMMA EmptyHome == "certMarksList" \notin Entity("home").keys
  BY DEF Entity, homeContentSchema, homeFields

LEMMA AcceptsMeans ==
  ASSUME kind \in FormKinds, NEW v, Accepts(v)
  PROVE  Accepted(kind, v)
<1>1. kind # "home" /\ Required(kind, v)
  BY EmptyHome DEF Accepts, HomeOnValid, RequiredGiven, Required, E
<1>2. ASSUME kind \in GuardKinds, NEW l \in Locales,
             NEW f \in (E.form \cap TextFields) \ {E.anchor}, v[TextOf(l, E.anchor)] = None
      PROVE  v[TextOf(l, f)] = None
  <2>1. ~Orphaned(v)
    BY <1>2 DEF Accepts, withDescriptionNameGuard, projectLocaleGuard, teamLocaleGuard, GuardKinds
  <2>2. l # "en"
    <3>1. E.anchor \in TextFields \cap E.required
      BY <1>2, AnchorsRequired DEF AnchoredTexts, E
    <3>2. QED BY <1>1, <1>2, <3>1 DEF Required, E
  <2>3. TextOf(l, f) \in InLocale(l) /\ TextOf(l, f)[2] = f
    BY <1>2 DEF InLocale, Shown, Cells, TextOf
  <2>4. f \notin Anchored
    BY <1>2, AnchorsRequired DEF AnchoredTexts, Anchored, E
  <2>5. QED BY <1>2, <2>1, <2>2, <2>3, <2>4 DEF Orphaned, Anchor
<1>3. kind = "guide" => EnglishSections(v) /\ v[TextOf("en", "section")] # Blank
  BY DEF Accepts, sectionEnRequired, EnglishSections
<1>4. QED BY <1>1, <1>2, <1>3 DEF Accepted, SoundTexts, NoOrphan, E

(* A text is saved as it was typed, unless it is a guide's text in a       *)
(* locale without a title.                                                 *)
LEMMA RowCellIs ==
  ASSUME kind \in FormKinds, NEW v, Accepted(kind, v), NEW c \in Shown
  PROVE  \/ RowCell(v, c) = v[c]
         \/ /\ kind = "guide" /\ RowCell(v, c) = None /\ c[2] \notin {"section", E.anchor}
            /\ \E l \in Locales : c \in InLocale(l) /\ l # "en" /\ v[Anchor(l)] = None
<1> SUFFICES ASSUME RowCell(v, c) # v[c]
             PROVE  /\ kind = "guide" /\ RowCell(v, c) = None /\ c[2] \notin {"section", E.anchor}
                    /\ \E l \in Locales : c \in InLocale(l) /\ l # "en" /\ v[Anchor(l)] = None
  OBVIOUS
<1>1. PICK l \in Locales : /\ c \in InLocale(l) /\ c[2] # "section" /\ E.anchor # "none"
                           /\ v[Anchor(l)] = None /\ RowCell(v, c) = None
  BY DEF RowCell
<1>2. PICK f \in E.form \cap TextFields : c = TextOf(l, f)
  <2>1. c \in Cells(E.form) /\ c[1] = l
    BY <1>1 DEF InLocale, Shown
  <2>2. QED BY <1>1, <2>1, Nothings DEF Cells, TextOf
<1>3. c[2] = f
  BY <1>2 DEF TextOf
<1>4. E.anchor \in TextFields \cap E.required
  BY <1>1, AnchorsRequired DEF AnchoredTexts, E
<1>5. l # "en"
  BY <1>1, <1>4 DEF Accepted, Required, Anchor, E
<1>6. f # E.anchor
  BY <1>1, <1>2 DEF Anchor
<1>7. kind \notin GuardKinds
  <2>1. SUFFICES ASSUME kind \in GuardKinds PROVE FALSE
    OBVIOUS
  <2>2. v[TextOf(l, f)] = None
    BY <1>1, <1>2, <1>6, <2>1 DEF Accepted, SoundTexts, NoOrphan, Anchor, E
  <2>3. QED BY <1>1, <1>2, <2>2
<1>8. kind = "guide"
  BY <1>1, <1>2, <1>3, <1>6, <1>7, AnchorsRequired DEF AnchoredTexts, Accepted, E
<1>9. QED BY <1>1, <1>3, <1>5, <1>6, <1>8

LEMMA SubmittedIs ==
  ASSUME kind \in FormKinds, NEW v \in [Shown -> Values], Accepted(kind, v), NEW c \in Shown
  PROVE  \/ Submitted(v, c) = v[c]
         \/ kind = "project" /\ c[2] = "media" /\ v[c] \notin library /\ Submitted(v, c) = None
         \/ /\ kind = "guide" /\ Submitted(v, c) = None /\ c[2] \notin {"section", E.anchor}
            /\ \E l \in Locales : c \in InLocale(l) /\ l # "en" /\ v[Anchor(l)] = None
<1>1. c \in Cells(E.keys)
  <2>1. kind # "home" /\ E.form \subseteq E.keys
    BY LayersAgree DEF Accepted, Layered, E
  <2>2. QED BY <2>1, CellsGrow DEF Shown
<1>2. CASE c[2] = "media" /\ kind = "project"
  BY <1>1, <1>2 DEF Submitted, buildProjectMedia
<1>3. CASE ~(c[2] = "media" /\ kind = "project")
  <2>1. Submitted(v, c) = RowCell(v, c)
    BY <1>1, <1>3 DEF Submitted
  <2>2. QED BY <2>1, RowCellIs
<1>4. QED BY <1>2, <1>3

LEMMA SubmittedValue ==
  ASSUME kind \in FormKinds, NEW v \in [Shown -> Values], NEW c
  PROVE  Submitted(v, c) \in Values
<1>1. CASE c \notin Shown
  BY <1>1, Nothings DEF Submitted
<1>2. CASE c \in Shown
  BY <1>2, Nothings DEF Submitted, buildProjectMedia, RowCell
<1>3. QED BY <1>1, <1>2

-----------------------------------------------------------------------------
(* The steps of a form.                                                    *)

LEMMA ShownIsStored ==
  ASSUME kind \in FormKinds, NEW c \in Shown, c \in Cells(E.load)
  PROVE  c \in Columns
<1>1. CASE kind = "home"
  <2>1. Entity("home").load \subseteq Entity("home").columns
    BY DEF Entity, HomeColumns, getHomeContentForEdit
  <2>2. QED BY <1>1, <2>1, CellsGrow DEF Columns, E
<1>2. CASE kind # "home"
  BY <1>2, LayersAgree, CellsGrow DEF Layered, Shown, Columns, E
<1>3. QED BY <1>1, <1>2

LEMMA DefaultsAre ==
  ASSUME FormsInv, kind \in FormKinds, NEW c \in Shown
  PROVE  /\ defaultsFrom(c) \in Values
         /\ c[2] = "media" => defaultsFrom(c) # Foreign
         /\ ~Stored(row) => defaultsFrom(c) \in {None, Blank}
         /\ Stored(row) /\ kind # "home" => defaultsFrom(c) = Opened(kind, row, c)
<1>1. Stored(row) => row \in [Columns -> Values]
  BY DEF FormsInv, RowInv, Columns, E
<1>2. Loaded(c) \in Values
  BY <1>1, ShownIsStored, Nothings DEF Loaded, mediaAssetIdOf
<1>3. c[2] = "media" => Loaded(c) # Foreign
  BY Nothings DEF Loaded, mediaAssetIdOf
<1>4. ~Stored(row) => Loaded(c) = None
  BY DEF Loaded
<1>5. c = TextOf("en", "section") => c[2] # "media"
  BY DEF TextOf
<1>6. Stored(row) /\ kind # "home" => defaultsFrom(c) = Opened(kind, row, c)
  <2>1. SUFFICES ASSUME Stored(row), kind # "home" PROVE defaultsFrom(c) = Opened(kind, row, c)
    OBVIOUS
  <2>2. c \in Cells(E.load)
    BY <2>1, LayersAgree, CellsGrow DEF Layered, Shown, E
  <2>3. Loaded(c) = IF c[2] = "media" THEN mediaAssetIdOf(row[c]) ELSE row[c]
    BY <2>1, <2>2 DEF Loaded
  <2>4. QED BY <1>5, <2>3 DEF defaultsFrom, Opened
<1>7. QED BY <1>2, <1>3, <1>4, <1>5, <1>6, Nothings DEF defaultsFrom

LEMMA NoMediaRequired == ASSUME NEW k \in FormKinds PROVE "media" \notin Entity(k).required
  BY DEF FormKinds, Kinds, Entity

LEMMA NoMediaText == "media" \notin TextFields
  BY DEF TextFields, homeFields

(* The page of a row that is stored opens a form that its schema accepts.  *)
LEMMA OpenedIsSound ==
  ASSUME FormsInv, kind \in FormKinds, kind # "home", Stored(row),
         NEW v, \A c \in Shown : v[c] = Opened(kind, row, c)
  PROVE  SoundTexts(kind, v)
<1>1. SoundTexts(kind, row)
  BY DEF FormsInv, RowInv
<1>2. Layered(Entity(kind)) /\ AnchoredTexts(kind, Entity(kind))
  BY LayersAgree, AnchorsRequired
<1>3. ASSUME kind # "media", NEW f \in Entity(kind).required
      PROVE  v[IF f \in TextFields THEN TextOf("en", f) ELSE Field(f)] # None
  <2> DEFINE x == IF f \in TextFields THEN TextOf("en", f) ELSE Field(f)
  <2>1. x \in Shown /\ x[2] = f
    BY <1>2, Nothings DEF Layered, Shown, E, Cells, TextOf, Field
  <2>2. f # "media"
    BY NoMediaRequired
  <2>3. row[x] # None
    BY <1>1, <1>3 DEF SoundTexts, Required
  <2> HIDE DEF x
  <2>4. v[x] # None
    BY <2>1, <2>2, <2>3 DEF Opened
  <2>5. QED BY <2>4 DEF x
<1>4. ASSUME kind # "guide", NEW l \in Locales, NEW f \in Entity(kind).form \cap TextFields
      PROVE  v[TextOf(l, f)] = row[TextOf(l, f)]
  <2>1. TextOf(l, f) \in Shown /\ TextOf(l, f)[2] = f
    BY DEF Shown, E, Cells, TextOf
  <2>2. QED BY <1>4, <2>1, NoMediaText DEF Opened
<1>5. kind \in GuardKinds => NoOrphan(kind, v)
  <2>1. SUFFICES ASSUME kind \in GuardKinds PROVE NoOrphan(kind, v)
    OBVIOUS
  <2>2. Entity(kind).anchor \in Entity(kind).form \cap TextFields /\ kind # "guide"
    BY <1>2, <2>1 DEF AnchoredTexts, Layered, GuardKinds
  <2>3. NoOrphan(kind, row)
    BY <1>1, <2>1 DEF SoundTexts
  <2>4. QED BY <1>4, <2>2, <2>3 DEF NoOrphan
<1>6. kind = "guide" => EnglishSections(v)
  <2>1. SUFFICES ASSUME kind = "guide" PROVE EnglishSections(v)
    OBVIOUS
  <2>2. "section" \in Entity("guide").form /\ "section" \in TextFields
    BY DEF Entity, GuideForm, TextFields
  <2>3. ASSUME NEW l \in Locales PROVE v[TextOf(l, "section")] = Opened(kind, row, TextOf(l, "section"))
    BY <2>1, <2>2 DEF Shown, E, Cells, TextOf
  <2>4. EnglishSections(row)
    BY <1>1, <2>1 DEF SoundTexts
  <2>5. ASSUME NEW l \in Locales PROVE TextOf(l, "section")[2] = "section" /\ (l # "en" => TextOf(l, "section") # TextOf("en", "section"))
    BY DEF TextOf
  <2>6. QED BY <2>3, <2>4, <2>5, Nothings DEF EnglishSections, Opened
<1>7. QED BY <1>3, <1>5, <1>6 DEF SoundTexts, Required

LEMMA MadeMore ==
  ASSUME FormsInv, made < MaxMade, made' = made + 1
  PROVE  made' \in 0 .. MaxMade
BY AdminFormsAssumption DEF FormsInv

LEMMA OpenStep ==
  ASSUME FormsInv, kind \in FormKinds, NEW a \in Admins, NEW new \in BOOLEAN, NEW v \in [Shown -> Values],
         Open(a, new, v), new => E.create # {} /\ ~Stored(row),
         ~new => Stored(row) /\ \A c \in Shown : v[c] = defaultsFrom(c),
         \A c \in Shown : c[2] = "media" => v[c] # Foreign
  PROVE  FormsInv'
<1> DEFINE g == [pc |-> "open", new |-> new, typed |-> v, touched |-> {}, behind |-> {}, late |-> FALSE]
<1>1. g \in FormOf(kind)
  BY DEF FormOf, Shown, E
<1>2. /\ g.pc = "open" /\ g.new = new /\ g.typed = v /\ g.touched = {} /\ g.behind = {}
  OBVIOUS
<1>3. form' = [form EXCEPT ![a] = g]
  BY DEF Open
<1> HIDE DEF g
<1>4. ~new /\ kind # "home" => SoundTexts(kind, v) /\ \A c \in Shown : v[c] = Opened(kind, row, c)
  BY DefaultsAre, OpenedIsSound
<1>5. OpenInv(kind, row, g)
  BY <1>2, <1>4 DEF OpenInv, Shown, E
<1>6. UNCHANGED <<kind, row, library>> /\ made' \in 0 .. MaxMade
  BY MadeMore DEF Open
<1>7. QED BY <1>1, <1>3, <1>5, <1>6, FormEditStep

LEMMA OpenEditStep ==
  ASSUME FormsInv, kind \in FormKinds, NEW a \in Admins, openEdit(a)
  PROVE  FormsInv'
<1> DEFINE v == [c \in Shown |-> defaultsFrom(c)]
<1>1. v \in [Shown -> Values] /\ \A c \in Shown : c[2] = "media" => v[c] # Foreign
  BY DefaultsAre
<1>2. Singleton => E.create # {}
  <2>1. Entity("settings").create # {} /\ Entity("home").create # {}
    BY DEF Entity, updateSiteSettings, SettingsColumns, updateHomeContent
  <2>2. QED BY <2>1 DEF Singleton, E
<1>3. Open(a, ~Stored(row), v) /\ (~Stored(row) => Singleton)
  BY DEF openEdit
<1>4. (~Stored(row)) \in BOOLEAN
  BY DEF Stored
<1>5. \A c \in Shown : v[c] = defaultsFrom(c)
  OBVIOUS
<1> HIDE DEF v
<1>6. QED BY <1>1, <1>2, <1>3, <1>4, <1>5, OpenStep

LEMMA OpenNewStep ==
  ASSUME FormsInv, kind \in FormKinds, NEW a \in Admins, openNew(a)
  PROVE  FormsInv'
<1>1. PICK filled \in {E.form \ {"media", "logoUrl", "photoKey"}, E.required} :
        Open(a, TRUE, [c \in Shown |-> IF c \in {Own, "en"} \X filled THEN Fixture ELSE defaultsFrom(c)])
  BY DEF openNew
<1> DEFINE v == [c \in Shown |-> IF c \in {Own, "en"} \X filled THEN Fixture ELSE defaultsFrom(c)]
<1>2. row = Absent /\ E.create # {} /\ ~Stored(row)
  BY Nothings DEF openNew
<1>3. v \in [Shown -> Values] /\ \A c \in Shown : c[2] = "media" => v[c] # Foreign
  BY DefaultsAre, Nothings
<1>4. Open(a, TRUE, v)
  BY <1>1
<1> HIDE DEF v
<1>5. QED BY <1>2, <1>3, <1>4, OpenStep

LEMMA FormOfIs ==
  ASSUME NEW k \in FormKinds, NEW f \in FormOf(k)
  PROVE  /\ f.pc \in {"open", "saving"} /\ f.new \in BOOLEAN /\ f.typed \in [Cells(Entity(k).form) -> Values]
         /\ f.touched \subseteq Cells(Entity(k).form) /\ f.behind \subseteq Cells(Entity(k).columns)
         /\ f.late \in BOOLEAN
         /\ f = [pc |-> f.pc, new |-> f.new, typed |-> f.typed, touched |-> f.touched,
                 behind |-> f.behind, late |-> f.late]
BY DEF FormOf

LEMMA ChangeStep ==
  ASSUME FormsInv, kind \in FormKinds, NEW a \in Admins, change(a)
  PROVE  FormsInv'
<1> DEFINE f == form[a]
<1>1. f \in FormOf(kind) /\ OpenInv(kind, row, f) /\ f.pc = "open" /\ kind # "sla"
  BY DEF FormsInv, change, FormKinds
<1>2. PICK c \in Shown \ f.touched : \E v \in Choices(c) \ {f.typed[c]} :
        form' = [form EXCEPT ![a].typed[c] = v, ![a].touched = @ \cup {c}]
  BY DEF change
<1>3. PICK v \in Choices(c) : form' = [form EXCEPT ![a].typed[c] = v, ![a].touched = @ \cup {c}]
  BY <1>2
<1>4. v \in Values /\ v # Foreign
  BY Nothings DEF Choices, FormsInv
<1> DEFINE typed == [f.typed EXCEPT ![c] = v]
           g == [f EXCEPT !.typed = typed, !.touched = f.touched \cup {c}]
<1>5. form' = [form EXCEPT ![a] = g]
  BY <1>1, <1>3 DEF FormsInv
<1>6. typed \in [Shown -> Values]
  BY <1>1, <1>2, <1>4, FormOfIs DEF Shown, E
<1>7. g \in FormOf(kind) /\ g.pc = "open" /\ g.new = f.new /\ g.typed = typed
      /\ g.touched = f.touched \cup {c} /\ g.behind = f.behind
  <2>1. typed \in [Cells(Entity(kind).form) -> Values] /\ c \in Cells(Entity(kind).form)
    BY <1>2, <1>6 DEF Shown, E
  <2> HIDE DEF typed
  <2>2. f.touched \cup {c} \in SUBSET Cells(Entity(kind).form)
    BY <1>1, <2>1, FormOfIs
  <2>3. QED BY <1>1, <2>1, <2>2 DEF FormOf
<1>8. \A x \in Shown : x # c => typed[x] = f.typed[x]
  BY <1>1, FormOfIs DEF Shown, E
<1>9. typed[c] = v
  BY <1>1, <1>2, FormOfIs DEF Shown, E
<1> HIDE DEF g, typed
<1>10. OpenInv(kind, row, g)
  BY <1>1, <1>4, <1>7, <1>8, <1>9 DEF OpenInv, Shown, E
<1>11. UNCHANGED <<kind, row, library>> /\ made' \in 0 .. MaxMade
  BY MadeMore DEF change
<1>12. QED BY <1>5, <1>7, <1>10, <1>11, FormEditStep

LEMMA SubmitStep ==
  ASSUME FormsInv, kind \in FormKinds, NEW a \in Admins, submit(a) \/ saveFails(a)
  PROVE  FormsInv'
<1> DEFINE f == form[a]
<1>1. f \in FormOf(kind) /\ OpenInv(kind, row, f)
  BY DEF FormsInv, submit, saveFails, Saving, FormKinds
<1>2. PICK pc \in {"open", "saving"}, late \in BOOLEAN :
        form' = [form EXCEPT ![a] = [f EXCEPT !.pc = pc, !.late = late]] /\ (pc = "saving" => Accepts(f.typed))
  <2>1. CASE submit(a)
    BY <1>1, <2>1, FormOfIs DEF submit, FormsInv
  <2>2. CASE saveFails(a)
    <3>1. form' = [form EXCEPT ![a] = [f EXCEPT !.pc = "open", !.late = f.late]]
      BY <1>1, <2>2, FormOfIs DEF saveFails
    <3>2. QED BY <1>1, <3>1, FormOfIs
  <2>3. QED BY <2>1, <2>2
<1> DEFINE g == [f EXCEPT !.pc = pc, !.late = late]
<1>3. g \in FormOf(kind) /\ g.pc = pc /\ g.new = f.new /\ g.typed = f.typed /\ g.touched = f.touched
      /\ g.behind = f.behind
  BY <1>1 DEF FormOf
<1>4. pc = "saving" => Accepted(kind, f.typed)
  BY <1>2, AcceptsMeans
<1>5. form' = [form EXCEPT ![a] = g]
  BY <1>2
<1> HIDE DEF g
<1>6. OpenInv(kind, row, g)
  BY <1>1, <1>3, <1>4 DEF OpenInv
<1>7. UNCHANGED <<kind, row, library, made>> /\ made' \in 0 .. MaxMade
  BY DEF submit, saveFails, FormsInv
<1>8. QED BY <1>3, <1>5, <1>6, <1>7, FormEditStep

-----------------------------------------------------------------------------
(* The save.                                                               *)

(* A save writes each field that its form shows, and the row it leaves     *)
(* keeps the rules.                                                        *)
LEMMA SavedRow ==
  ASSUME FormsInv, kind \in FormKinds, NEW a \in Admins, commitSave(a)
  PROVE  /\ form[a].typed \in [Shown -> Values] /\ Accepted(kind, form[a].typed)
         /\ \A c \in Shown : c \in Columns /\ row'[c] = Submitted(form[a].typed, c)
         /\ RowInv(kind, row') /\ Stored(row') /\ row # Gone
<1> DEFINE f == form[a]
           v == form[a].typed
<1>1. f \in FormOf(kind) /\ OpenInv(kind, row, f) /\ f.pc = "saving"
  BY DEF commitSave, Saving, FormsInv, FormKinds
<1>2. v \in [Shown -> Values] /\ Accepted(kind, v)
  BY <1>1, FormOfIs DEF OpenInv, Shown, E
<1>3. kind # "home" /\ Layered(E) /\ AnchoredTexts(kind, E)
  BY <1>2, LayersAgree, AnchorsRequired DEF Accepted, E
<1>4. PICK written, others :
        /\ WriteRow(v, written, others) /\ E.form \subseteq written
        /\ \A c \in Columns : others[c] \in Values
  <2>1. CASE f.new
    <3>1. WriteRow(v, E.create, Nothing) /\ E.create # {}
      BY <1>1, <2>1 DEF commitSave, OpenInv, E
    <3>2. \A c \in Columns : Nothing[c] \in Values
      BY Nothings DEF Nothing
    <3>3. QED BY <1>3, <3>1, <3>2 DEF Layered
  <2>2. CASE ~f.new
    <3>1. WriteRow(v, E.update, row) /\ Stored(row)
      BY <2>2 DEF commitSave
    <3>2. \A c \in Columns : row[c] \in Values
      BY <3>1 DEF FormsInv, RowInv, Columns, E
    <3>3. QED BY <1>3, <3>1, <3>2 DEF Layered
  <2>3. QED BY <2>1, <2>2
<1> HIDE DEF v
<1>5. \A c \in Shown : c \in Columns /\ row'[c] = Submitted(v, c)
  BY <1>3, <1>4, CellsGrow DEF Layered, Shown, Columns, WriteRow
<1>6. row' \in [Columns -> Values]
  BY <1>2, <1>4, SubmittedValue DEF WriteRow
<1>7. ASSUME NEW c \in Shown,
             c[2] \in {"section", E.anchor} \/ kind # "guide" \/ c[1] \notin Locales \ {"en"},
             kind # "project" \/ c[2] # "media"
      PROVE  row'[c] = v[c]
  <2>1. ~\E l \in Locales : c \in InLocale(l) /\ l # "en" /\ kind = "guide" /\ c[2] \notin {"section", E.anchor}
    BY <1>7 DEF InLocale
  <2>2. QED BY <1>2, <1>5, <1>7, <2>1, SubmittedIs
<1>8. Required(kind, row')
  <2>1. SUFFICES ASSUME NEW x \in E.required
                 PROVE  row'[IF x \in TextFields THEN TextOf("en", x) ELSE Field(x)] # None
    BY DEF Required, E
  <2> DEFINE c == IF x \in TextFields THEN TextOf("en", x) ELSE Field(x)
  <2>2. c \in Shown /\ c[1] \in {"en", Own} /\ c[2] = x
    BY <1>3, Nothings DEF Layered, Shown, Cells, TextOf, Field
  <2>3. x # "media" /\ v[c] # None
    BY <1>2, NoMediaRequired DEF Accepted, Required, E
  <2> HIDE DEF c
  <2>4. row'[c] # None
    BY <1>7, <2>2, <2>3, Nothings
  <2>5. QED BY <2>4 DEF c
<1>9. ASSUME NEW l \in Locales, NEW x \in E.form \cap TextFields, x \in {"section", E.anchor} \/ kind # "guide"
      PROVE  row'[TextOf(l, x)] = v[TextOf(l, x)]
  <2>1. TextOf(l, x) \in Shown /\ TextOf(l, x)[2] = x
    BY DEF Shown, Cells, TextOf
  <2>2. QED BY <1>7, <1>9, <2>1, NoMediaText
<1>10. kind \in GuardKinds => NoOrphan(kind, row')
  <2>1. SUFFICES ASSUME kind \in GuardKinds PROVE NoOrphan(kind, row')
    OBVIOUS
  <2>2. E.anchor \in E.form \cap TextFields /\ kind # "guide"
    BY <1>3, <2>1 DEF AnchoredTexts, Layered, GuardKinds
  <2>3. NoOrphan(kind, v)
    BY <1>2, <2>1 DEF Accepted, SoundTexts
  <2>4. QED BY <1>9, <2>2, <2>3 DEF NoOrphan, E
<1>11. kind = "guide" => EnglishSections(row')
  <2>1. SUFFICES ASSUME kind = "guide" PROVE EnglishSections(row')
    OBVIOUS
  <2>2. "section" \in E.form \cap TextFields
    BY <2>1 DEF E, Entity, GuideForm, TextFields
  <2>3. EnglishSections(v)
    BY <1>2, <2>1 DEF Accepted, SoundTexts
  <2>4. QED BY <1>9, <2>2, <2>3, Nothings DEF EnglishSections
<1>12. kind = "product" => row'[Field("media")] # Foreign
  <2>1. SUFFICES ASSUME kind = "product" PROVE row'[Field("media")] # Foreign
    OBVIOUS
  <2>2. "media" \in E.form
    BY <2>1 DEF E, Entity, ProductForm
  <2>3. Field("media") \in Shown /\ Field("media")[2] = "media"
    BY <2>2, NoMediaText DEF Shown, Cells, Field
  <2>4. row'[Field("media")] = v[Field("media")]
    BY <1>7, <2>1, <2>3
  <2>5. QED BY <1>1, <2>3, <2>4 DEF OpenInv, Shown, E, v
<1>13. Stored(row')
  BY <1>6, Nothings DEF Columns, E
<1>14. row # Gone
  BY Nothings DEF commitSave, FormsInv, RowInv, Singleton
<1>15. RowInv(kind, row')
  BY <1>6, <1>8, <1>10, <1>11, <1>12, <1>13, Nothings DEF RowInv, SoundTexts, Columns, E, Stored
<1>16. QED BY <1>2, <1>5, <1>13, <1>14, <1>15 DEF v

LEMMA CommitStep ==
  ASSUME FormsInv, kind \in FormKinds, NEW a \in Admins, commitSave(a)
  PROVE  FormsInv'
<1>1. RowInv(kind, row') /\ Stored(row') /\ row # Gone
  BY SavedRow
<1>2. Changed \in SUBSET Columns
  BY DEF Changed
<1>3. ASSUME NEW b \in Admins
      PROVE  /\ form'[b] \in FormOf(kind) \cup {Idle}
             /\ form'[b] # Idle =>
                  form[b] # Idle /\ \E late \in BOOLEAN : form'[b] = Behind(form[b], Changed, late)
  <2>1. CASE b = a \/ form[b] = Idle
    BY <2>1 DEF commitSave, Overtake
  <2>2. CASE ~(b = a \/ form[b] = Idle)
    <3>1. form[b] \in FormOf(kind)
      BY <2>2 DEF FormsInv, FormKinds
    <3>2. form'[b] = Behind(form[b], Changed, form[b].pc = "saving")
      BY <2>2 DEF commitSave, Overtake, Behind
    <3>3. (form[b].pc = "saving") \in BOOLEAN
      OBVIOUS
    <3>4. QED BY <1>2, <2>2, <3>1, <3>2, <3>3, BehindIs
  <2>3. QED BY <2>1, <2>2
<1>4. form' \in [Admins -> FormOf(kind) \cup {Idle}]
  BY <1>3 DEF commitSave, Overtake
<1>5. UNCHANGED <<kind, library, made>> /\ library' \subseteq Images /\ made' \in 0 .. MaxMade
  BY DEF commitSave, FormsInv
<1>6. row' # Absent
  BY <1>1, Nothings
<1>7. QED BY <1>1, <1>3, <1>4, <1>5, <1>6, RowChangeStep

-----------------------------------------------------------------------------
(* The row changes without a form.                                         *)

LEMMA ElsewhereStep ==
  ASSUME FormsInv, kind \in FormKinds, Elsewhere, RowInv(kind, row'),
         row = Gone => row' = Gone, Stored(row) => row' # Absent
  PROVE  FormsInv'
<1>1. Changed \in SUBSET Columns
  BY DEF Changed
<1>2. ASSUME NEW b \in Admins
      PROVE  /\ form'[b] \in FormOf(kind) \cup {Idle}
             /\ form'[b] # Idle =>
                  form[b] # Idle /\ \E late \in BOOLEAN : form'[b] = Behind(form[b], Changed, late)
  <2>1. CASE form[b] = Idle
    BY <2>1 DEF Elsewhere
  <2>2. CASE form[b] # Idle
    <3>1. form[b] \in FormOf(kind)
      BY <2>2 DEF FormsInv, FormKinds
    <3>2. form[b].late \in BOOLEAN
      BY <3>1, FormOfIs
    <3>3. form'[b] = Behind(form[b], Changed, form[b].late)
      <4>1. form'[b] = [form[b] EXCEPT !.behind = form[b].behind \cup Changed]
        BY <2>2 DEF Elsewhere
      <4>2. QED BY <3>1, <4>1 DEF Behind, FormOf
    <3>4. QED BY <1>1, <2>2, <3>1, <3>2, <3>3, BehindIs
  <2>3. QED BY <2>1, <2>2
<1>3. form' \in [Admins -> FormOf(kind) \cup {Idle}]
  BY <1>2 DEF Elsewhere
<1>4. UNCHANGED <<kind, library>> /\ library' \subseteq Images /\ made' \in 0 .. MaxMade
  BY MadeMore DEF Elsewhere, FormsInv
<1>5. QED BY <1>2, <1>3, <1>4, RowChangeStep

LEMMA DeleteStep ==
  ASSUME FormsInv, kind \in FormKinds, deleteRow
  PROVE  FormsInv'
<1>1. row' = Gone /\ Elsewhere /\ kind \notin {"settings", "home"}
  BY DEF deleteRow, Singleton
<1>2. RowInv(kind, row')
  BY <1>1, Nothings DEF RowInv
<1>3. QED BY <1>1, <1>2, Nothings, ElsewhereStep

(* What a sound row of values is good for.                                 *)
LEMMA RowWrittenStep ==
  ASSUME FormsInv, kind \in FormKinds, Elsewhere, row # Gone, row' \in [Columns -> Values],
         kind # "home" => SoundTexts(kind, row'), kind = "product" => row'[Field("media")] # Foreign
  PROVE  FormsInv'
<1>1. Stored(row')
  BY Nothings DEF Columns, E
<1>2. RowInv(kind, row')
  BY <1>1, Nothings DEF RowInv, Columns, E
<1>3. QED BY <1>1, <1>2, Nothings, ElsewhereStep

LEMMA ImportStep ==
  ASSUME FormsInv, upsertProductFromImport
  PROVE  FormsInv'
<1> DEFINE omissions ==
             {{}, Cells({"seriesId", "industries", "attributes"}) \cup ((Locales \ {"en"}) \X nameDescriptionShape),
              (Locales \ {"en"}) \X {"name"}}
           Cell(t, attributes, omitted) ==
             [c \in Cells(importRowSchema) |->
                IF c \in omitted THEN None ELSE IF c[2] = "attributes" THEN attributes ELSE t]
           Kept(omitted) == {c \in omitted : c[2] = "attributes"} \cup {Field("media")}
           Import(t, attributes, omitted) ==
             row' = [c \in Columns |->
                       IF c \in Kept(omitted) THEN (IF Stored(row) THEN row[c] ELSE None)
                       ELSE importNameRows(Cell(t, attributes, omitted), c)]
<1>0. PICK t \in Texts \ {Fixture} : \E attributes \in {t, Unfit}, omitted \in omissions :
        Import(t, attributes, omitted)
  BY DEF upsertProductFromImport
<1>1. PICK attributes \in {t, Unfit}, omitted \in omissions : Import(t, attributes, omitted)
  BY <1>0
<1> DEFINE cell == Cell(t, attributes, omitted)
           kept == Kept(omitted)
<1>2. kind = "product" /\ row # Gone /\ Elsewhere /\ kind \in FormKinds
  BY DEF upsertProductFromImport, FormKinds, Kinds
<1>3. row' = [c \in Columns |-> IF c \in kept THEN (IF Stored(row) THEN row[c] ELSE None)
                                ELSE importNameRows(cell, c)]
  BY <1>1
<1>4. \A c \in Columns : c \in Cells(importRowSchema) \/ c = Field("media")
  BY <1>2, NoMediaText DEF Columns, E, Entity, ProductColumns, importRowSchema, Cells, Field
<1>5. Stored(row) => row \in [Columns -> Values] /\ row[Field("media")] # Foreign
  BY <1>2 DEF FormsInv, RowInv, Columns, E
<1>6. t \in Texts /\ t # None /\ attributes \in Values
  BY <1>1, Nothings
<1>7. \A c \in Cells(importRowSchema) : cell[c] \in Values
  BY <1>6, Nothings
<1>8. row' \in [Columns -> Values]
  <2>1. ASSUME NEW c \in Columns PROVE row'[c] \in Values
    <3>1. CASE c \in kept
      BY <1>3, <1>5, <3>1, Nothings
    <3>2. CASE c \notin kept
      <4>1. row'[c] = importNameRows(cell, c)
        BY <1>3, <3>2
      <4>2. cell[c] \in Values
        BY <1>4, <1>7, <3>2
      <4> HIDE DEF cell
      <4>3. QED BY <4>1, <4>2, Nothings DEF importNameRows
    <3>3. QED BY <3>1, <3>2
  <2>2. QED BY <1>3, <2>1
<1>9. row'[Field("media")] # Foreign
  <2>1. Field("media") \in Columns
    BY <1>2, NoMediaText DEF Columns, E, Entity, ProductColumns, Cells, Field
  <2>2. QED BY <1>3, <1>5, <2>1, Nothings
<1>10. \A c \in Cells(importRowSchema) :
         c[2] \notin {"description", "attributes", "media"} => c \in Columns /\ row'[c] = cell[c]
  <2>1. Cells(importRowSchema) \subseteq Columns
    <3>1. importRowSchema \subseteq ProductColumns
      BY DEF importRowSchema, ProductColumns
    <3>2. E.columns = ProductColumns
      BY <1>2 DEF E, Entity
    <3>3. QED BY <3>1, <3>2, CellsGrow DEF Columns
  <2>2. Field("media")[2] = "media"
    BY DEF Field
  <2> HIDE DEF cell
  <2>3. QED BY <1>3, <2>1, <2>2 DEF importNameRows
<1>11. \A l \in Locales : row'[TextOf(l, "name")] = cell[TextOf(l, "name")]
  <2>1. \A l \in Locales : TextOf(l, "name") \in Cells(importRowSchema) /\ TextOf(l, "name")[2] = "name"
    BY DEF TextOf, Cells, importRowSchema, TextFields
  <2>2. QED BY <1>10, <2>1
<1>12. Required(kind, row')
  <2>1. SUFFICES ASSUME NEW x \in {"model", "manufacturerId", "categoryId", "status", "name"}
                 PROVE  row'[IF x \in TextFields THEN TextOf("en", x) ELSE Field(x)] # None
    BY <1>2 DEF Required, Entity
  <2> DEFINE c == IF x \in TextFields THEN TextOf("en", x) ELSE Field(x)
  <2>2. c \in Cells(importRowSchema) /\ c[2] = x /\ c[1] \in {Own, "en"}
    BY Nothings DEF Cells, importRowSchema, TextOf, Field
  <2>3. c \notin omitted
    <3>1. c \notin Cells({"seriesId", "industries", "attributes"})
      BY <2>2 DEF Cells
    <3>2. c \notin (Locales \ {"en"}) \X nameDescriptionShape /\ c \notin (Locales \ {"en"}) \X {"name"}
      BY <2>2, Nothings
    <3>3. QED BY <3>1, <3>2
  <2>4. row'[c] = cell[c]
    BY <1>10, <2>2
  <2> HIDE DEF c
  <2>5. cell[c] = t
    BY <2>2, <2>3
  <2>6. row'[c] # None
    BY <1>6, <2>4, <2>5
  <2>7. QED BY <2>6 DEF c
<1>13. NoOrphan(kind, row')
  <2>1. SUFFICES ASSUME NEW l \in Locales, row'[TextOf(l, "name")] = None
                 PROVE  row'[TextOf(l, "description")] = None
    BY <1>2 DEF NoOrphan, Entity, ProductForm, NameDescriptionTabs, TextFields, homeFields
  <2> DEFINE c == TextOf(l, "description")
  <2>2. c \in Columns /\ c \notin kept
    <3>1. c \in Columns
      BY <1>2 DEF Columns, E, Entity, ProductColumns, Cells, TextOf, TextFields
    <3>2. c[2] = "description" /\ Field("media")[2] = "media"
      BY DEF TextOf, Field
    <3>3. QED BY <3>1, <3>2
  <2>3. cell[TextOf(c[1], "name")] = None /\ c[2] = "description"
    BY <1>11, <2>1 DEF TextOf
  <2> HIDE DEF c, cell, kept
  <2>4. row'[c] = None
    BY <1>3, <2>2, <2>3 DEF importNameRows
  <2>5. QED BY <2>4 DEF c
<1>14. SoundTexts(kind, row')
  BY <1>2, <1>12, <1>13 DEF SoundTexts
<1>15. QED BY <1>2, <1>8, <1>9, <1>14, RowWrittenStep

LEMMA ReplaceFileStep ==
  ASSUME FormsInv, replaceDocumentFile
  PROVE  FormsInv'
<1>1. PICK t \in Texts : row' = [c \in Columns |-> IF c[2] \in DocumentFile THEN t ELSE row[c]]
  BY DEF replaceDocumentFile
<1>2. kind = "document" /\ Stored(row) /\ Elsewhere /\ kind \in FormKinds
  BY DEF replaceDocumentFile, FormKinds, Kinds
<1>3. row \in [Columns -> Values] /\ SoundTexts(kind, row)
  BY <1>2 DEF FormsInv, RowInv, Columns, E
<1>4. row' \in [Columns -> Values]
  BY <1>1, <1>3, Nothings
<1>5. Required(kind, row')
  <2>1. SUFFICES ASSUME NEW x \in {"type", "isPublic", "title"}
                 PROVE  row'[IF x \in TextFields THEN TextOf("en", x) ELSE Field(x)] # None
    BY <1>2 DEF Required, Entity
  <2> DEFINE c == IF x \in TextFields THEN TextOf("en", x) ELSE Field(x)
  <2>2. c \in Columns /\ c[2] = x
    BY <1>2, Nothings DEF Columns, E, Entity, DocumentColumns, Cells, TextOf, Field
  <2>3. x \notin DocumentFile
    BY DEF DocumentFile
  <2>4. row[c] # None
    BY <1>2, <1>3, Zenon DEF SoundTexts, Required, Entity
  <2> HIDE DEF c
  <2>5. row'[c] # None
    BY <1>1, <2>2, <2>3, <2>4
  <2>6. QED BY <2>5 DEF c
<1>6. SoundTexts(kind, row')
  BY <1>2, <1>5 DEF SoundTexts, GuardKinds
<1>7. QED BY <1>2, <1>4, <1>6, Nothings, RowWrittenStep

LEMMA UploadStep ==
  ASSUME FormsInv, createMediaAsset \/ createLead
  PROVE  FormsInv'
<1>1. CASE createMediaAsset
  <2>1. PICK alt \in {None, Fixture} :
          row' = [c \in Columns |-> IF c[2] = "file" THEN Fixture ELSE IF c[1] = "en" THEN alt ELSE None]
    BY <1>1 DEF createMediaAsset
  <2>2. kind = "media" /\ row = Absent /\ Elsewhere /\ kind \in FormKinds
    BY <1>1 DEF createMediaAsset, FormKinds, Kinds
  <2>3. row' \in [Columns -> Values]
    BY <2>1, Nothings
  <2>4. SoundTexts(kind, row')
    BY <2>2 DEF SoundTexts, GuardKinds
  <2>5. QED BY <2>2, <2>3, <2>4, Nothings, RowWrittenStep
<1>2. CASE createLead
  <2>1. kind = "lead" /\ row = Absent /\ Elsewhere /\ kind \in FormKinds /\ row' = [c \in Columns |-> Fixture]
    BY <1>2 DEF createLead, FormKinds, Kinds
  <2>2. row' \in [Columns -> Values]
    BY <2>1, Nothings
  <2>3. Field("status") \in Columns /\ "status" \notin TextFields
    BY <2>1 DEF Columns, E, Entity, LeadColumns, Cells, Field, TextFields, homeFields
  <2>4. Required(kind, row')
    <3>1. \A f \in Entity(kind).required : f = "status"
      BY <2>1 DEF Entity
    <3>2. row'[Field("status")] # None
      BY <2>1, <2>3, Nothings
    <3>3. QED BY <2>3, <3>1, <3>2 DEF Required
  <2>5. SoundTexts(kind, row')
    BY <2>1, <2>4 DEF SoundTexts, GuardKinds
  <2>6. QED BY <2>1, <2>2, <2>5, Nothings, RowWrittenStep
<1>3. QED BY <1>1, <1>2

(* What the seed writes of a row: all that is required of a new one; of    *)
(* one that is there, texts only together with their anchor.               *)
Seeded(k, S, L) ==
  /\ k # "media" /\ k # "guide"
  /\ L.required \subseteq S.creates
  /\ L.anchor \in S.repairs \/ S.repairs \cap TextFields = {}
  /\ k = "product" => "media" \notin S.creates \cup S.repairs

LEMMA SeedIs ==
  ASSUME NEW k \in FormKinds, Seed(k).creates # {}, k # "home"
  PROVE  Seeded(k, Seed(k), Entity(k))
<1> USE DEF Seeded, Seed, Entity
<1>1. CASE k = "industry"
  BY <1>1 DEF seedIndustries
<1>2. CASE k = "manufacturer"
  BY <1>2 DEF seedManufacturers
<1>3. CASE k = "category"
  BY <1>3 DEF seedCategories, CategoryColumns
<1>4. CASE k = "series"
  BY <1>4 DEF seedSeries, SeriesColumns
<1>5. CASE k = "product"
  BY <1>5 DEF seedProducts, ProductColumns, TextFields, homeFields
<1>6. CASE k = "document"
  BY <1>6 DEF seedDocuments, DocumentColumns, TextFields, homeFields
<1>7. CASE k = "project"
  BY <1>7 DEF seedProjects, ProjectColumns
<1>8. CASE k = "service"
  BY <1>8 DEF seedServices, ServiceColumns
<1>9. CASE k = "settings"
  BY <1>9 DEF upsertSiteSettings, SettingsColumns, TextFields, homeFields
<1>10. k \notin {"team", "guide", "media", "lead"}
  <2>1. /\ Seed("team").creates = {} /\ Seed("guide").creates = {}
        /\ Seed("media").creates = {} /\ Seed("lead").creates = {}
    OBVIOUS
  <2>2. QED BY <2>1
<1>11. QED BY <1>1, <1>2, <1>3, <1>4, <1>5, <1>6, <1>7, <1>8, <1>9, <1>10 DEF FormKinds, Kinds

LEMMA SeedStep ==
  ASSUME FormsInv, kind \in FormKinds, seed
  PROVE  FormsInv'
<1> DEFINE S == Seed(kind)
           writes == IF Stored(row) THEN S.repairs ELSE S.creates
           Unlisted(listed, c) == c[1] \in Locales \ listed
           Seeding(listed, media) ==
             row' = [c \in Columns |->
               IF c \in Cells(writes) /\ ~Unlisted(listed, c) THEN (IF c[2] = "media" THEN media ELSE Fixture)
               ELSE IF Stored(row) /\ ~(Unlisted(listed, c) /\ S.retracts) THEN row[c] ELSE None]
<1>1. PICK listed \in {{"en"}, Locales}, media \in {None, Foreign} : Seeding(listed, media)
  BY DEF seed
<1>2. row # Gone /\ S.creates # {} /\ Elsewhere
  BY DEF seed
<1>3. Stored(row) => /\ row \in [Columns -> Values] /\ (kind # "home" => SoundTexts(kind, row))
                     /\ kind = "product" => row[Field("media")] # Foreign
  BY DEF FormsInv, RowInv, Columns, E
<1> DEFINE Un(c) == Unlisted(listed, c)
<1>4. row' = [c \in Columns |->
               IF c \in Cells(writes) /\ ~Un(c) THEN (IF c[2] = "media" THEN media ELSE Fixture)
               ELSE IF Stored(row) /\ ~(Un(c) /\ S.retracts) THEN row[c] ELSE None]
  BY <1>1
<1>5. \A c : c[1] \in {"en", Own} => ~Un(c)
  BY <1>1, Nothings
<1>6. \A l \in Locales : \A f, h : Un(TextOf(l, f)) = Un(TextOf(l, h))
  BY DEF TextOf
<1> HIDE DEF Un, writes
<1>7. row' \in [Columns -> Values]
  BY <1>1, <1>3, <1>4, Nothings
<1>8. kind = "product" => row'[Field("media")] # Foreign
  <2>1. SUFFICES ASSUME kind = "product" PROVE row'[Field("media")] # Foreign
    OBVIOUS
  <2>2. Field("media") \in Columns
    BY <2>1, NoMediaText DEF Columns, E, Entity, ProductColumns, Cells, Field
  <2>3. "media" \notin writes
    BY <1>2, <2>1, SeedIs DEF Seeded, writes
  <2>4. Field("media") \notin Cells(writes)
    BY <2>3 DEF Cells, Field
  <2>5. QED BY <1>3, <1>4, <2>1, <2>2, <2>4, Nothings
<1>9. kind # "home" => SoundTexts(kind, row')
  <2>1. SUFFICES ASSUME kind # "home" PROVE SoundTexts(kind, row')
    OBVIOUS
  <2>2. Seeded(kind, S, E) /\ Layered(E) /\ AnchoredTexts(kind, E)
    BY <1>2, <2>1, SeedIs, LayersAgree, AnchorsRequired DEF E
  <2>3. ASSUME NEW x \in E.required
        PROVE  row'[IF x \in TextFields THEN TextOf("en", x) ELSE Field(x)] # None
    <3> DEFINE c == IF x \in TextFields THEN TextOf("en", x) ELSE Field(x)
    <3>1. c \in Columns /\ c[1] \in {Own, "en"} /\ c[2] = x
      BY <2>2, Nothings DEF Layered, Columns, Cells, TextOf, Field
    <3>2. x \in S.creates => c \in Cells(S.creates)
      BY Nothings DEF Cells, TextOf, Field
    <3>3. Stored(row) => row[c] # None
      BY <1>3, <2>1, <2>2 DEF SoundTexts, Required, Seeded, E
    <3> HIDE DEF c
    <3>4. ~Un(c) /\ c[2] # "media"
      BY <1>5, <3>1, NoMediaRequired DEF E
    <3>5. Stored(row) \/ c \in Cells(writes)
      BY <2>2, <3>2 DEF Seeded, writes
    <3>6. row'[c] # None
      BY <1>4, <3>1, <3>3, <3>4, <3>5, Nothings
    <3>7. QED BY <3>6 DEF c
  <2>4. ASSUME kind \in GuardKinds, NEW l \in Locales, NEW f \in (E.form \cap TextFields) \ {E.anchor},
               row'[TextOf(l, E.anchor)] = None
        PROVE  row'[TextOf(l, f)] = None
    <3>0. PICK c, d : c = TextOf(l, E.anchor) /\ d = TextOf(l, f)
      OBVIOUS
    <3>1. E.anchor \in TextFields \cap E.required \cap E.columns /\ f \in E.columns
      BY <2>2, <2>4 DEF AnchoredTexts, Layered
    <3>2. c \in Columns /\ d \in Columns /\ c[2] # "media" /\ Un(c) = Un(d)
      BY <1>6, <2>4, <3>0, <3>1, NoMediaText DEF Columns, Cells, TextOf
    <3>3. Stored(row) /\ row[c] = None => row[d] = None
      BY <1>3, <2>1, <2>4, <3>0 DEF SoundTexts, NoOrphan, E
    <3>4. ~Un(c) => Stored(row) /\ d \notin Cells(writes)
      <4>1. SUFFICES ASSUME ~Un(c) PROVE Stored(row) /\ d \notin Cells(writes)
        OBVIOUS
      <4>2. c \notin Cells(writes)
        BY <1>4, <2>4, <3>0, <3>2, <4>1, Nothings
      <4>3. E.anchor \notin writes
        BY <3>0, <3>1, <4>2 DEF Cells, TextOf
      <4>4. Stored(row) /\ writes \cap TextFields = {}
        BY <2>2, <3>1, <4>3 DEF Seeded, writes
      <4>5. d \notin Cells(writes)
        BY <2>4, <3>0, <4>4, Nothings DEF Cells, TextOf
      <4>6. QED BY <4>4, <4>5
    <3>5. row'[c] = None
      BY <2>4, <3>0
    <3>6. CASE ~Un(c)
      BY <1>4, <3>0, <3>2, <3>3, <3>4, <3>5, <3>6, Nothings
    <3>7. CASE Un(c)
      BY <1>4, <3>0, <3>2, <3>3, <3>5, <3>7, Nothings
    <3>8. QED BY <3>0, <3>6, <3>7
  <2>5. QED BY <2>2, <2>3, <2>4 DEF SoundTexts, Required, NoOrphan, Seeded, E
<1>10. QED BY <1>2, <1>7, <1>8, <1>9, RowWrittenStep

LEMMA DeleteImageStep ==
  ASSUME FormsInv, kind \in FormKinds, NEW i \in Images, deleteMediaAsset(i)
  PROVE  FormsInv'
<1>1. UNCHANGED <<kind, row, form>> /\ library' \subseteq Images /\ made' \in 0 .. MaxMade
  BY MadeMore DEF deleteMediaAsset, FormsInv
<1>2. QED BY <1>1 DEF FormsInv

LEMMA EditStep ==
  ASSUME FormsInv, kind \in FormKinds, EditNext
  PROVE  FormsInv'
<1>1. ASSUME NEW a \in Admins, openEdit(a) PROVE FormsInv'
  BY <1>1, OpenEditStep
<1>2. ASSUME NEW a \in Admins, openNew(a) PROVE FormsInv'
  BY <1>2, OpenNewStep
<1>3. ASSUME NEW a \in Admins, change(a) PROVE FormsInv'
  BY <1>3, ChangeStep
<1>4. ASSUME NEW a \in Admins, submit(a) \/ saveFails(a) PROVE FormsInv'
  BY <1>4, SubmitStep
<1>5. ASSUME NEW a \in Admins, commitSave(a) PROVE FormsInv'
  BY <1>5, CommitStep
<1>6. CASE deleteRow
  BY <1>6, DeleteStep
<1>7. CASE upsertProductFromImport
  BY <1>7, ImportStep
<1>8. CASE replaceDocumentFile
  BY <1>8, ReplaceFileStep
<1>9. CASE createMediaAsset \/ createLead
  BY <1>9, UploadStep
<1>10. CASE seed
  BY <1>10, SeedStep
<1>11. ASSUME NEW i \in Images, deleteMediaAsset(i) PROVE FormsInv'
  BY <1>11, DeleteImageStep
<1>12. QED BY <1>1, <1>2, <1>3, <1>4, <1>5, <1>6, <1>7, <1>8, <1>9, <1>10, <1>11 DEF EditNext

LEMMA FormsInvStart == ASSUME FormsInit PROVE FormsInv
<1>1. /\ kind \in Kinds /\ row = Absent /\ library = Images /\ made = 0
      /\ form = [a \in Admins |-> Idle]
  BY DEF FormsInit
<1>2. RowInv(kind, row)
  BY <1>1, Nothings DEF RowInv
<1>3. made \in 0 .. MaxMade
  BY <1>1, AdminFormsAssumption
<1>4. QED BY <1>1, <1>2, <1>3 DEF FormsInv

LEMMA FormsInvStep == ASSUME FormsInv, [FormsNext]_<<vars, formVars>> PROVE FormsInv'
<1>1. CASE kind # "sla" /\ EditNext
  BY <1>1, EditStep DEF FormsInv, FormKinds
<1>2. CASE UNCHANGED formVars
  BY <1>2 DEF formVars, FormsInv
<1>3. QED BY <1>1, <1>2 DEF FormsNext

(* FormsInv holds of every state, with any number of forms open at once.   *)
THEOREM FormsInvariant == FormsSpec => []FormsInv
<1>1. FormsInit => FormsInv
  BY FormsInvStart
<1>2. FormsInv /\ [FormsNext]_<<vars, formVars>> => FormsInv'
  BY FormsInvStep
<1>3. QED BY <1>1, <1>2, PTL DEF FormsSpec

(* The variables keep their types: a row its columns, a form its fields.   *)
THEOREM FormsTypes == FormsSpec => []FormsTypeOK
<1>1. FormsInv => FormsTypeOK
  BY DEF FormsInv, FormsTypeOK, RowInv, FormKinds, Columns, E
<1>2. QED BY <1>1, FormsInvariant, PTL

(* What is stored can be saved again as it is: a form that is opened and   *)
(* not touched passes the schema of the browser and of the action, save    *)
(* for the four cases that StoredCanBeSaved names.                         *)
THEOREM StoredRowsCanBeSaved == FormsSpec => []StoredCanBeSaved
<1>1. ASSUME FormsInv, NEW a \in Admins, form[a] # Idle, ~form[a].new, form[a].touched = {},
             kind # "home", ~(kind = "media" /\ form[a].typed[TextOf("en", "alt")] = None),
             ~(kind = "guide" /\ form[a].typed[TextOf("en", "section")] = Blank),
             ~(kind = "product" /\ form[a].typed[Field("attributes")] = Unfit)
      PROVE  Accepts(form[a].typed)
  <2> DEFINE v == form[a].typed
  <2>1. kind \in FormKinds /\ SoundTexts(kind, v)
    BY <1>1 DEF FormsInv, OpenInv, FormKinds
  <2>2. AnchoredTexts(kind, E)
    BY <2>1, AnchorsRequired DEF E
  <2>3. RequiredGiven(v)
    <3>1. CASE kind = "media"
      <4>1. E.required = {"alt"} /\ "alt" \in TextFields
        BY <3>1 DEF E, Entity, TextFields
      <4>2. QED BY <1>1, <3>1, <4>1 DEF RequiredGiven
    <3>2. CASE kind # "media"
      BY <2>1, <3>2 DEF SoundTexts, Required, RequiredGiven, E
    <3>3. QED BY <3>1, <3>2
  <2>4. sectionEnRequired(v) /\ attributesField(v)
    BY <1>1, <2>1 DEF SoundTexts, EnglishSections, sectionEnRequired, attributesField
  <2>5. kind \in GuardKinds => ~Orphaned(v)
    <3>1. SUFFICES ASSUME kind \in GuardKinds, NEW l \in Locales \ {"en"}, v[Anchor(l)] = None,
                          NEW c \in InLocale(l), c[2] \notin Anchored, v[c] # None
                   PROVE  FALSE
      BY DEF Orphaned
    <3>2. PICK f \in E.form \cap TextFields : c = TextOf(l, f)
      <4>1. c \in Cells(E.form) /\ c[1] = l
        BY <3>1 DEF InLocale, Shown
      <4>2. QED BY <4>1, Nothings DEF Cells, TextOf
    <3>3. f # E.anchor
      BY <3>1, <3>2 DEF TextOf, Anchored
    <3>4. NoOrphan(kind, v)
      BY <2>1, <3>1 DEF SoundTexts
    <3>5. QED BY <3>1, <3>2, <3>3, <3>4 DEF NoOrphan, Anchor, E
  <2>6. HomeOnValid
    BY <1>1 DEF HomeOnValid
  <2>7. QED BY <2>3, <2>4, <2>5, <2>6
        DEF Accepts, withDescriptionNameGuard, projectLocaleGuard, teamLocaleGuard, GuardKinds
<1>2. FormsInv => StoredCanBeSaved
  BY <1>1 DEF StoredCanBeSaved
<1>3. QED BY <1>2, FormsInvariant, PTL

-----------------------------------------------------------------------------
(* What a save does to the row.                                            *)

LEMMA MediaKinds ==
  ASSUME NEW k \in FormKinds, "media" \in Entity(k).form
  PROVE  k \in {"product", "project"}
<1>1. "media" \notin Entity("team").form
  BY DEF Entity, TeamForm, flattenTeam
<1>2. /\ "media" \notin Entity("manufacturer").form /\ "media" \notin Entity("category").form
      /\ "media" \notin Entity("series").form /\ "media" \notin Entity("industry").form
      /\ "media" \notin Entity("service").form
  BY DEF Entity, ManufacturerForm, CategoryForm, SeriesForm, IndustryForm, ServiceForm,
         NameDescriptionTabs, NameOnlyTabs
<1>3. /\ "media" \notin Entity("guide").form /\ "media" \notin Entity("document").form
      /\ "media" \notin Entity("media").form /\ "media" \notin Entity("lead").form
  BY DEF Entity, GuideForm, DocumentForm, MediaAssetForm, LeadStatusForm
<1>4. "media" \notin Entity("settings").form
  BY DEF Entity, SiteSettingsForm, SettingsColumns
<1>5. "media" \notin Entity("home").form
  BY DEF Entity, HomeContentForm, homeFields
<1>6. QED BY <1>1, <1>2, <1>3, <1>4, <1>5 DEF FormKinds, Kinds

(* Only the commit of a save ends a form that was being saved.             *)
LEMMA OnlyCommitSaves ==
  ASSUME FormsInv, kind \in FormKinds, EditNext, NEW a \in Admins, Saves(a)
  PROVE  commitSave(a)
<1>1. form[a] # Idle /\ form[a].pc = "saving" /\ form'[a] = Idle /\ form[a] \in FormOf(kind)
  BY DEF Saves, Saving, FormsInv, FormKinds
<1>2. \A g \in FormOf(kind) : g # Idle
  BY Nothings
<1>3. form \in [Admins -> FormOf(kind) \cup {Idle}]
  BY DEF FormsInv, FormKinds
<1>4. ASSUME NEW b \in Admins, openEdit(b) \/ openNew(b) PROVE FALSE
  BY <1>1, <1>3, <1>4 DEF openEdit, openNew, Open
<1>5. ASSUME NEW b \in Admins, change(b) PROVE FALSE
  BY <1>1, <1>3, <1>5 DEF change
<1>6. ASSUME NEW b \in Admins, submit(b) PROVE FALSE
  BY <1>1, <1>3, <1>6 DEF submit
<1>7. ASSUME NEW b \in Admins, saveFails(b) PROVE FALSE
  <2>1. CASE b = a
    <3>1. form'[a] = [form[a] EXCEPT !.pc = "open"]
      BY <1>3, <1>7, <2>1 DEF saveFails
    <3>2. form'[a] \in FormOf(kind)
      BY <1>1, <3>1 DEF FormOf
    <3>3. QED BY <1>1, <1>2, <3>2
  <2>2. CASE b # a
    BY <1>1, <1>3, <1>7, <2>2 DEF saveFails
  <2>3. QED BY <2>1, <2>2
<1>8. ASSUME NEW b \in Admins, commitSave(b), b # a PROVE FALSE
  <2>1. form'[a] = Behind(form[a], Changed, form[a].pc = "saving")
    BY <1>1, <1>8 DEF commitSave, Overtake, Behind
  <2>2. Changed \in SUBSET Columns /\ (form[a].pc = "saving") \in BOOLEAN
    BY DEF Changed
  <2>3. form'[a] \in FormOf(kind)
    BY <1>1, <2>1, <2>2, BehindIs
  <2>4. QED BY <1>1, <1>2, <2>3
<1>9. ~Elsewhere
  BY DEF Elsewhere, Saves
<1>10. ASSUME NEW i \in Images, deleteMediaAsset(i) PROVE FALSE
  BY <1>1, <1>10 DEF deleteMediaAsset
<1>11. QED BY <1>4, <1>5, <1>6, <1>7, <1>8, <1>9, <1>10
       DEF EditNext, deleteRow, upsertProductFromImport, replaceDocumentFile, createMediaAsset,
           createLead, seed

LEMMA SaveIsExact ==
  ASSUME FormsInv, kind \in FormKinds, NEW a \in Admins, commitSave(a)
  PROVE  row # Gone /\ WritesTheForm(a) /\ (Stored(row) => KeepsTheRest(a))
<1> DEFINE f == form[a]
           v == form[a].typed
<1>1. f \in FormOf(kind) /\ OpenInv(kind, row, f)
  BY DEF commitSave, Saving, FormsInv, FormKinds
<1>2. /\ v \in [Shown -> Values] /\ Accepted(kind, v) /\ row # Gone
      /\ \A c \in Shown : c \in Columns /\ row'[c] = Submitted(v, c)
  BY SavedRow
<1>3. ASSUME NEW c \in Shown PROVE row'[c] = v[c] \/ TakenAway(a, c)
  BY <1>2, SubmittedIs DEF TakenAway, Anchored
<1>4. ASSUME Stored(row), NEW c \in Columns, row'[c] # row[c], ~TakenAway(a, c)
      PROVE  c \in f.touched \cup f.behind
  <2>1. CASE f.new
    BY <1>1, <1>4, <2>1 DEF OpenInv, Columns, E
  <2>2. CASE ~f.new
    <3>1. SUFFICES ASSUME c \notin f.touched \cup f.behind PROVE FALSE
      OBVIOUS
    <3>2. kind # "home" /\ Layered(E)
      BY <1>2, LayersAgree DEF Accepted, E
    <3>3. c \in Shown
      BY <1>4, <2>2, <3>2 DEF commitSave, WriteRow, Layered, Shown
    <3>4. v[c] = Opened(kind, row, c)
      BY <1>1, <1>4, <2>2, <3>1, <3>2, <3>3 DEF OpenInv, Shown, E
    <3>5. v[c] # row[c]
      BY <1>3, <1>4, <3>3
    <3>6. ~(kind = "guide" /\ c = TextOf("en", "section") /\ row[c] = None)
      BY <1>2, <3>4 DEF Opened, Accepted
    <3>7. c[2] = "media" /\ row[c] = Foreign /\ v[c] = None
      BY <3>4, <3>5, <3>6 DEF Opened, mediaAssetIdOf
    <3>8. c = Field("media") /\ "media" \in E.form
      BY <3>3, <3>7, NoMediaText DEF Shown, Cells, Field
    <3>9. kind = "project"
      BY <1>4, <3>7, <3>8, MediaKinds DEF FormsInv, RowInv, E
    <3>10. v[c] \notin library
      BY <3>7, Nothings DEF FormsInv
    <3>11. row'[c] = None
      BY <1>3, <1>4, <3>3, <3>7
    <3>12. QED BY <1>4, <3>7, <3>9, <3>10, <3>11 DEF TakenAway
  <2>3. QED BY <2>1, <2>2
<1>5. QED BY <1>2, <1>3, <1>4 DEF WritesTheForm, KeepsTheRest

(* A save writes what its form shows and nothing that neither its own      *)
(* administrator nor another touched, and never brings a deleted row back. *)
(* It empties two things besides: a project's photograph whose original is *)
(* not in the library, a guide's texts in a locale without a title.        *)
THEOREM SavesAreFaithful == FormsSpec => SavesAreExact
<1>1. ASSUME FormsInv, [FormsNext]_<<vars, formVars>>, NEW a \in Admins, Saves(a)
      PROVE  row # Gone /\ WritesTheForm(a) /\ (Stored(row) => KeepsTheRest(a))
  <2>1. kind # "sla" /\ kind \in FormKinds /\ ~UNCHANGED form
    BY <1>1 DEF FormsInv, Saves, Saving, FormKinds
  <2>2. EditNext
    BY <1>1, <2>1 DEF FormsNext, formVars
  <2>3. QED BY <1>1, <2>1, <2>2, OnlyCommitSaves, SaveIsExact
<1>2. FormsInv /\ [FormsNext]_<<vars, formVars>> =>
        [\A a \in Admins : Saves(a) =>
           row # Gone /\ WritesTheForm(a) /\ (Stored(row) => KeepsTheRest(a))]_<<vars, formVars>>
  BY <1>1
<1>3. QED BY <1>2, FormsInvariant, PTL DEF FormsSpec, SavesAreExact

(* The forms leave the response process to SlaContent: what is proved of   *)
(* it holds of the whole admin.                                            *)
THEOREM FormsKeepSla == FormsSpec => Spec
<1>1. FormsInit => Init
  BY DEF FormsInit
<1>2. [FormsNext]_<<vars, formVars>> => [Next]_vars
  BY DEF FormsNext
<1>3. QED BY <1>1, <1>2, PTL DEF FormsSpec, Spec
=============================================================================

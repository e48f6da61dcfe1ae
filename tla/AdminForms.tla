----------------------------- MODULE AdminForms -----------------------------
(***************************************************************************)
(* The editing forms of the admin. A form is filled from a row when it is  *)
(* opened, and saving it writes all that it shows, however long ago that   *)
(* was: nothing compares versions. In between the row is changed by the    *)
(* form of another administrator, a bulk import, a replaced file, the seed *)
(* or a deletion. One row of one entity is followed at a time; when that   *)
(* is the response process, the steps are SlaContent's.                    *)
(*                                                                         *)
(* Left out: the limits of a text's length and characters, which refuse a  *)
(* submission and change nothing, an order left blank, which is nought,    *)
(* and rows a form refers to that are deleted: the database refuses the    *)
(* save, as it may for any other reason.                                   *)
(***************************************************************************)
EXTENDS FormLayers, SlaContent

CONSTANTS
  Admins,      \* forms that may be open at once
  Images,      \* images of the library
  Foreign,     \* a project's own gallery, which has no image of the library
  Unfit,       \* attributes that the import accepts and the form refuses
  Blank,       \* the empty section a guide's form begins with
  Absent,      \* not created yet
  Gone,        \* deleted
  MaxMade,     \* bound: forms opened, fields changed, changes without a form
  MaxTouched   \* bound: fields changed in a form

Kinds ==
  {"product", "manufacturer", "category", "series", "industry", "service", "team", "project",
   "guide", "document", "media", "settings", "home", "lead", "sla"}

(* A column is a field of the row, or of a translation in a locale.       *)
Own == "every locale"
Field(f) == <<Own, f>>
TextOf(l, f) == <<l, f>>
Cells(F) == ({Own} \X (F \ TextFields)) \cup (Locales \X (F \cap TextFields))

Values == Texts \cup Images \cup {None, Foreign, Unfit, Blank}
FormOf(k) ==
  [pc : {"open", "saving"}, new : BOOLEAN, typed : [Cells(Entity(k).form) -> Values],
   touched : SUBSET Cells(Entity(k).form), behind : SUBSET Cells(Entity(k).columns), late : BOOLEAN]

(* What stands for no value, no row and no form is neither of those.       *)
ASSUME AdminFormsAssumption ==
  /\ MaxMade \in Nat /\ MaxTouched \in Nat /\ Own \notin Locales
  /\ Images \cap (Texts \cup {None, Foreign, Unfit, Blank, Absent, Gone}) = {}
  /\ Texts \cap {None, Foreign, Unfit, Blank} = {} /\ Cardinality({None, Foreign, Unfit, Blank}) = 4
  /\ Absent # Gone
  /\ \A k \in Kinds \ {"sla"} :
       /\ {Absent, Gone} \cap [Cells(Entity(k).columns) -> Values] = {}
       /\ Idle \notin FormOf(k)

VARIABLES
  kind,     \* the entity that is followed
  row,      \* its row: the value of each column; or Absent, or Gone
  library,  \* the images there are
  form,     \* each administrator's form
  made      \* how much of that there has been

formVars == <<kind, row, library, form, made>>

Singleton == kind \in {"settings", "home"}
Stored(r) == r \notin {Absent, Gone}

E == Entity(kind)
Columns == Cells(E.columns)
Shown == Cells(E.form)
InLocale(l) == {c \in Shown : c[1] = l}
Anchor(l) == TextOf(l, E.anchor)
Anchored == {"section"} \cup {E.anchor}

FormsInit ==
  /\ Init /\ kind \in Kinds /\ row = Absent /\ library = Images
  /\ form = [a \in Admins |-> Idle] /\ made = 0

-----------------------------------------------------------------------------
(* A definition whose name begins with Mutant is not part of the model: it *)
(* is the definition after it with a plausible bug.                        *)
-----------------------------------------------------------------------------
(* Opening a form.                                                         *)

(* The form of a project knows its photo by the image it was copied from.  *)
mediaAssetIdOf(v) == IF v = Foreign THEN None ELSE v

Loaded(c) ==
  IF c \in Cells(E.load) /\ Stored(row)
  THEN IF c[2] = "media" THEN mediaAssetIdOf(row[c]) ELSE row[c]
  ELSE None

(* A guide without sections opens with an empty one.                       *)
defaultsFrom(c) ==
  IF kind = "guide" /\ c = TextOf("en", "section") /\ Loaded(c) = None THEN Blank ELSE Loaded(c)

Open(a, new, values) ==
  /\ form[a] = Idle /\ made < MaxMade
  /\ made' = made + 1
  /\ form' = [form EXCEPT ![a] = [pc |-> "open", new |-> new, typed |-> values,
                                  touched |-> {}, behind |-> {}, late |-> FALSE]]
  /\ UNCHANGED <<kind, row, library>>

(* The page of a row that is gone is not found; of the settings and the    *)
(* home page there is a form even before there is a row.                   *)
openEdit(a) ==
  /\ Stored(row) \/ Singleton
  /\ Open(a, ~Stored(row), [c \in Shown |-> defaultsFrom(c)])

(* A new row, of which the administrator fills in all or what is required. *)
openNew(a) ==
  /\ row = Absent /\ E.create # {} /\ ~Singleton
  /\ \E filled \in {E.form \ {"media", "logoUrl", "photoKey"}, E.required} :
       Open(a, TRUE, [c \in Shown |->
         IF c \in {Own, "en"} \X filled THEN Fixture ELSE defaultsFrom(c)])

Choices(c) == {None} \cup IF c[2] \in {"media", "logoUrl", "photoKey"} THEN library ELSE Texts

change(a) ==
  /\ form[a] # Idle /\ form[a].pc = "open" /\ made < MaxMade
  /\ \E c \in Shown \ form[a].touched : \E v \in Choices(c) \ {form[a].typed[c]} :
       form' = [form EXCEPT ![a].typed[c] = v, ![a].touched = @ \cup {c}]
  /\ Cardinality(form[a].touched) < MaxTouched
  /\ made' = made + 1
  /\ UNCHANGED <<kind, row, library>>

-----------------------------------------------------------------------------
(* The schema, in the browser and again on the server.                     *)

(* A text in a locale whose name or title is empty.                        *)
Orphaned(v) ==
  \E l \in Locales \ {"en"} :
    /\ v[Anchor(l)] = None
    /\ \E c \in InLocale(l) : c[2] \notin Anchored /\ v[c] # None

withDescriptionNameGuard(v) ==
  kind \in {"product", "manufacturer", "industry", "service"} => ~Orphaned(v)
projectLocaleGuard(v) == kind = "project" => ~Orphaned(v)
teamLocaleGuard(v) == kind = "team" => ~Orphaned(v)

(* A section has an English text.                                          *)
sectionEnRequired(v) ==
  kind = "guide" =>
    /\ v[TextOf("en", "section")] # Blank
    /\ \A l \in Locales : v[TextOf(l, "section")] # None => v[TextOf("en", "section")] # None

attributesField(v) == kind = "product" => v[Field("attributes")] # Unfit

(* What the home page's form does next needs a field the schema drops.     *)
HomeOnValid == kind = "home" => "certMarksList" \in E.keys

RequiredGiven(v) ==
  \A f \in E.required : v[IF f \in TextFields THEN TextOf("en", f) ELSE Field(f)] # None

Accepts(v) ==
  /\ RequiredGiven(v) /\ attributesField(v) /\ sectionEnRequired(v)
  /\ withDescriptionNameGuard(v) /\ projectLocaleGuard(v) /\ teamLocaleGuard(v)
  /\ HomeOnValid

-----------------------------------------------------------------------------
(* The action on the server.                                               *)

(* nameRows, nameDescriptionRows, projectRows, teamRows, mediaAltRows and  *)
(* documentTitleRows, and for a guide toPayload in the browser: a locale   *)
(* without its anchor is no row. The home page has rows without an anchor. *)
RowCell(v, c) ==
  IF \E l \in Locales : c \in InLocale(l) /\ c[2] # "section" /\ E.anchor # "none" /\ v[Anchor(l)] = None
  THEN None ELSE v[c]

(* A copy is made of the image that is chosen, if it is there.             *)
buildProjectMedia(i) == IF i \in library THEN i ELSE None

(* The value of a column; the file of a new document came with it.         *)
Submitted(v, c) ==
  IF c \notin Shown THEN IF c[2] \in DocumentFile THEN Fixture ELSE None
  ELSE IF c \notin Cells(E.keys) THEN None
  ELSE IF c[2] = "media" /\ kind = "project" THEN buildProjectMedia(v[c])
  ELSE RowCell(v, c)

WriteRow(v, written, others) ==
  row' = [c \in Columns |-> IF c \in Cells(written) THEN Submitted(v, c) ELSE others[c]]

Nothing == [c \in Columns |-> None]

(* The columns that are no longer what the other forms were filled from.   *)
Changed ==
  IF row' = Gone \/ ~Stored(row) THEN Columns ELSE {c \in Columns : row'[c] # row[c]}
Overtake(a) ==
  [b \in Admins |->
     IF b = a \/ form[b] = Idle THEN Idle
     ELSE [form[b] EXCEPT !.behind = @ \cup Changed, !.late = form[b].pc = "saving"]]

(* A transaction that begins with the row itself holds it; the others      *)
(* replace the rows of the translations only.                              *)
RowFirst == kind \notin {"industry", "service", "media"}
Saving(b) == form[b] # Idle /\ form[b].pc = "saving"

(* withAdminMutation: parsed once more, then the transaction begins.       *)
submit(a) ==
  /\ form[a] # Idle /\ form[a].pc = "open" /\ Accepts(form[a].typed)
  /\ RowFirst => ~\E b \in Admins : Saving(b)
  /\ form' = [form EXCEPT ![a].pc = "saving", ![a].late = FALSE]
  /\ UNCHANGED <<kind, row, library, made>>

(* The transaction commits, and the page leads back to the list. Without   *)
(* the row in hand, rows that another committed since are not seen by the  *)
(* delete and stop the insert.                                             *)
commitSave(a) ==
  /\ Saving(a) /\ ~form[a].late
  /\ IF form[a].new
     THEN (row = Absent \/ Singleton) /\ WriteRow(form[a].typed, E.create, Nothing)
     ELSE Stored(row) /\ WriteRow(form[a].typed, E.update, row)
  /\ form' = Overtake(a)
  /\ UNCHANGED <<kind, library, made>>

(* Gone, taken, overtaken, or any other failure: the form stays as it is.  *)
saveFails(a) ==
  /\ Saving(a)
  /\ form' = [form EXCEPT ![a].pc = "open"]
  /\ UNCHANGED <<kind, row, library, made>>

-----------------------------------------------------------------------------
(* What changes the row without a form. A transaction under way is waited  *)
(* for.                                                                    *)

Elsewhere ==
  /\ made < MaxMade /\ \A b \in Admins : ~Saving(b)
  /\ made' = made + 1
  /\ form' = [b \in Admins |-> IF form[b] = Idle THEN Idle
                               ELSE [form[b] EXCEPT !.behind = @ \cup Changed]]
  /\ UNCHANGED <<kind, library>>

deleteRow == Stored(row) /\ ~Singleton /\ row' = Gone /\ Elsewhere

(* The sheet's description in a locale without a name is no row either.    *)
MutantKeepsOrphans(v, c) == v[c]
importNameRows(v, c) ==
  IF c[2] = "description" /\ v[TextOf(c[1], "name")] = None THEN None ELSE v[c]

(* A sheet, of another text than new rows are filled with, that gives      *)
(* everything, or leaves out what it may, or the name in another language. *)
(* Media is kept, and so are attributes that are not given.                *)
upsertProductFromImport ==
  /\ kind = "product" /\ row # Gone
  /\ \E t \in Texts \ {Fixture} :
     \E attributes \in {t, Unfit},
       omitted \in {{}, Cells({"seriesId", "industries", "attributes"}) \cup ((Locales \ {"en"}) \X nameDescriptionShape),
                    (Locales \ {"en"}) \X {"name"}} :
       LET cell == [c \in Cells(importRowSchema) |->
                      IF c \in omitted THEN None ELSE IF c[2] = "attributes" THEN attributes ELSE t]
           kept == {c \in omitted : c[2] = "attributes"} \cup {Field("media")}
       IN  row' = [c \in Columns |->
                     IF c \in kept THEN (IF Stored(row) THEN row[c] ELSE None)
                     ELSE importNameRows(cell, c)]
  /\ Elsewhere

replaceDocumentFile ==
  /\ kind = "document" /\ Stored(row)
  /\ \E t \in Texts : row' = [c \in Columns |-> IF c[2] \in DocumentFile THEN t ELSE row[c]]
  /\ Elsewhere

(* The upload of an image may leave its text for later.                    *)
createMediaAsset ==
  /\ kind = "media" /\ row = Absent
  /\ \E alt \in {None, Fixture} :
       row' = [c \in Columns |-> IF c[2] = "file" THEN Fixture ELSE IF c[1] = "en" THEN alt ELSE None]
  /\ Elsewhere

createLead == kind = "lead" /\ row = Absent /\ row' = [c \in Columns |-> Fixture] /\ Elsewhere

(* An image that the row shows by its id is not deleted.                   *)
deleteMediaAsset(i) ==
  /\ made < MaxMade /\ i \in library
  /\ kind # "project" /\ Stored(row) => \A c \in Columns : row[c] # i
  /\ library' = library \ {i} /\ made' = made + 1
  /\ UNCHANGED <<kind, row, form>>

(* The seed writes all of its columns of a row that it creates, and some   *)
(* again of one that is there; of a few it also removes the locales it     *)
(* does not list. Its statements for one row are taken as one.             *)
seed ==
  /\ row # Gone /\ Seed(kind).creates # {}
  /\ \E listed \in {{"en"}, Locales}, media \in {None, Foreign} :
       row' = [c \in Columns |->
         LET unlisted == c[1] \in Locales \ listed
             writes == IF Stored(row) THEN Seed(kind).repairs ELSE Seed(kind).creates
         IN  IF c \in Cells(writes) /\ ~unlisted THEN (IF c[2] = "media" THEN media ELSE Fixture)
             ELSE IF Stored(row) /\ ~(unlisted /\ Seed(kind).retracts) THEN row[c] ELSE None]
  /\ Elsewhere

-----------------------------------------------------------------------------
EditNext ==
  \/ \E a \in Admins :
       \/ openEdit(a) \/ openNew(a) \/ change(a)
       \/ submit(a) \/ commitSave(a) \/ saveFails(a)
  \/ deleteRow \/ upsertProductFromImport \/ replaceDocumentFile
  \/ createMediaAsset \/ createLead \/ seed
  \/ \E i \in Images : deleteMediaAsset(i)

FormsNext ==
  \/ kind # "sla" /\ EditNext /\ UNCHANGED vars
  \/ kind = "sla" /\ Next /\ UNCHANGED formVars

FormsSpec == FormsInit /\ [][FormsNext]_<<vars, formVars>>

-----------------------------------------------------------------------------
(* Type correctness of every variable.                                     *)
FormsTypeOK ==
  /\ kind \in Kinds /\ library \subseteq Images /\ made \in 0 .. MaxMade
  /\ Stored(row) => kind # "sla" /\ row \in [Columns -> Values]
  /\ kind # "sla" => form \in [Admins -> FormOf(kind) \cup {Idle}]
  /\ kind = "sla" => form = [a \in Admins |-> Idle]

Saves(a) == Saving(a) /\ form'[a] = Idle

(* What a save empties unasked: a project's photo that is not a copy of an *)
(* image that is still in the library, and the texts of a guide, its       *)
(* sections apart, in a locale whose title is left empty.                  *)
TakenAway(a, c) ==
  /\ row'[c] = None
  /\ \/ kind = "project" /\ c[2] = "media" /\ form[a].typed[c] \notin library
     \/ /\ kind = "guide" /\ c[2] \notin Anchored
        /\ \E l \in Locales : c \in InLocale(l) /\ form[a].typed[Anchor(l)] = None

(* A save writes no more than its administrator changed, or another since  *)
(* the form was opened: no field is lost between two layers.               *)
KeepsTheRest(a) ==
  \A c \in Columns : row'[c] # row[c] => c \in form[a].touched \cup form[a].behind \/ TakenAway(a, c)

(* It writes all that its form shows, also when two saves overlap.         *)
WritesTheForm(a) == \A c \in Shown : row'[c] = form[a].typed[c] \/ TakenAway(a, c)

(* A save that is reported did just what the administrator asked, and no   *)
(* row came back that was deleted.                                         *)
SavesAreExact ==
  [][\A a \in Admins : Saves(a) =>
       row # Gone /\ WritesTheForm(a) /\ (Stored(row) => KeepsTheRest(a))]_<<vars, formVars>>

(* What can be stored can be edited: a form that is opened and not touched *)
(* is accepted, but for four: the home page's, which never is; an image's  *)
(* before it has an English text; a guide's without sections; a product's  *)
(* with attributes only the import accepts.                                *)
StoredCanBeSaved ==
  \A a \in Admins : form[a] # Idle /\ ~form[a].new /\ form[a].touched = {} =>
    \/ Accepts(form[a].typed) \/ kind = "home"
    \/ kind = "media" /\ form[a].typed[TextOf("en", "alt")] = None
    \/ kind = "guide" /\ form[a].typed[TextOf("en", "section")] = Blank
    \/ kind = "product" /\ form[a].typed[Field("attributes")] = Unfit
=============================================================================

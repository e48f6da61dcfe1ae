------------------------------ MODULE Catalog ------------------------------
(***************************************************************************)
(* The catalogue behind /products: categories in a tree, manufacturers,    *)
(* their series, and products, edited by administrators whose requests     *)
(* overlap. Each server action is a few statements and only some of them   *)
(* share a transaction: a move is checked against the tree before it is    *)
(* written, references are counted before a row is deleted, and a bulk     *)
(* import resolves every slug before it writes its first row.              *)
(*                                                                         *)
(* A request that is refused changes nothing. It is a step only when it    *)
(* was already under way.                                                  *)
(***************************************************************************)
EXTENDS Naturals, Sequences, FiniteSets

CONSTANTS
  Categories, Manufacturers, Series, Products,  \* ids, never used twice
  Slug,         \* the slug of each product, fixed when it is created
  Admins,       \* requests that may overlap
  None,         \* a null foreign key
  MaxRequests,  \* bound: requests made
  MaxRows       \* bound: rows of an import sheet

Ids == Categories \cup Manufacturers \cup Series \cup Products

ASSUME CatalogAssumption ==
  /\ Categories \cap Manufacturers = {} /\ Series \cap Products = {}
  /\ (Categories \cup Manufacturers) \cap (Series \cup Products) = {}
  /\ None \notin Ids /\ DOMAIN Slug = Products
  /\ MaxRequests \in Nat /\ MaxRows \in Nat /\ IsFiniteSet(Categories)

VARIABLES
  links,   \* the rows there are, and the foreign keys of each
  used,    \* ids that have been given out
  admin,   \* each administrator's request: what is still to be done
  made,    \* how many requests there have been
  raced    \* history: a move was written between the check and the write of another

vars == <<links, used, admin, made, raced>>

-----------------------------------------------------------------------------
(* The schema: what a row may point at. A required key restricts a delete, *)
(* an optional one is set to null by it.                                   *)

Optional == {"parent", "series"}

Keys(r) ==
  CASE r \in Categories    -> [parent : Categories \cup {None}]
    [] r \in Manufacturers -> {<<>>}
    [] r \in Series        -> [manufacturer : Manufacturers]
    [] r \in Products      -> [manufacturer : Manufacturers, category : Categories,
                              series : Series \cup {None}]

Rows == DOMAIN links
Fields(x) == DOMAIN links[x]

PointsAt(x, r) == \E f \in Fields(x) : links[x][f] = r
Satisfied(k) == \A f \in DOMAIN k : k[f] \in Rows \cup {None}
SlugFree(r) == r \in Products => \A p \in Products \cap Rows : Slug[p] # Slug[r]

(* x is the category c or above it, or None and c is below a root: no walk *)
(* from c that goes on to each parent leaves x out.                        *)
ClosedUpwards(S) == \A x \in S \cap Rows : links[x].parent \in S
Above(x, c) == \A S \in SUBSET (Categories \cup {None}) : c \in S /\ ClosedUpwards(S) => x \in S

Rooted(c) == Above(None, c)

Idle == [op |-> "idle"]

KeysOf(S) == [S -> UNION {Keys(r) : r \in S}]

Init ==
  /\ used \in SUBSET Ids
  /\ \E c \in KeysOf(Categories), m \in KeysOf(Manufacturers), s \in KeysOf(Series), p \in KeysOf(Products) :
       links = [r \in used |-> CASE r \in Categories -> c[r] [] r \in Manufacturers -> m[r]
                                 [] r \in Series -> s[r]     [] r \in Products -> p[r]]
  /\ \A r \in Rows : Satisfied(links[r])
  /\ \A c \in Categories \cap Rows : Rooted(c)
  /\ \A p, q \in Products \cap Rows : Slug[p] = Slug[q] => p = q
  /\ admin = [a \in Admins |-> Idle]
  /\ made = 0 /\ raced = FALSE

-----------------------------------------------------------------------------
(* A definition whose name begins with Mutant is not part of the model: it *)
(* is the definition after it with a plausible bug.                        *)

Begin(a, request) ==
  /\ admin[a] = Idle /\ made < MaxRequests
  /\ made' = made + 1
  /\ admin' = [admin EXCEPT ![a] = request]

(* A delete whose count has passed the rows of x does not see x any more.  *)
Overtaken(request, x, k) ==
  IF /\ request.op = "delete" /\ \E f \in DOMAIN k : k[f] = request.row
     /\ ~\E S \in request.uncounted : x \in S
  THEN [request EXCEPT !.late = TRUE] ELSE request

(* One transaction writes the row x with the keys k; a then goes on.       *)
Write(a, x, k, then) ==
  /\ Satisfied(k)
  /\ links' = [r \in Rows \cup {x} |-> IF r = x THEN k ELSE links[r]]
  /\ used' = used \cup {x}
  /\ admin' = [b \in Admins |-> IF b = a THEN then ELSE Overtaken(admin[b], x, k)]
  /\ raced' = (raced \/ (x \in Categories \cap used /\ \E b \in Admins \ {a} : admin[b].op = "move"))

Request(a) == admin[a] = Idle /\ made < MaxRequests /\ made' = made + 1

Create(a, r) ==
  /\ Request(a) /\ r \notin used /\ SlugFree(r)
  /\ \E k \in Keys(r) : Write(a, r, k, Idle)

createCategory(a, r) == r \in Categories /\ Create(a, r)
createManufacturer(a, r) == r \in Manufacturers /\ Create(a, r)
createSeries(a, r) == r \in Series /\ Create(a, r)
createProduct(a, r) == r \in Products /\ Create(a, r)

Update(a, r) ==
  /\ Request(a) /\ r \in Rows
  /\ \E k \in Keys(r) : Write(a, r, k, Idle)

updateSeries(a, r) == r \in Series /\ Update(a, r)
updateProduct(a, r) == r \in Products /\ Update(a, r)

-----------------------------------------------------------------------------
(* Moving a category: the check reads the tree, the write comes after it.  *)

MutantChecksParentOnly(c, p) == p = c \/ (p \in Rows /\ links[p].parent = c)
wouldCreateCategoryCycle(c, p) == Above(c, p)

checkCategoryMove(a, c, p) ==
  /\ {c, p} \subseteq used /\ ~wouldCreateCategoryCycle(c, p)
  /\ Begin(a, [op |-> "move", row |-> c, parent |-> p])
  /\ UNCHANGED <<links, used, raced>>

(* A move to the top of the tree needs no check.                           *)
makeRootCategory(a, c) ==
  /\ Request(a) /\ c \in Rows
  /\ Write(a, c, [parent |-> None], Idle)

moveCategory(a) ==
  /\ admin[a].op = "move" /\ admin[a].row \in Rows
  /\ Write(a, admin[a].row, [parent |-> admin[a].parent], Idle)
  /\ UNCHANGED made

(* The category or its new parent is gone.                                 *)
moveRefused(a) ==
  /\ admin[a].op = "move" /\ ~{admin[a].row, admin[a].parent} \subseteq Rows
  /\ admin' = [admin EXCEPT ![a] = Idle]
  /\ UNCHANGED <<links, used, made, raced>>

-----------------------------------------------------------------------------
(* Deleting: a query per table that may point at the row, then the delete. *)
(* What points at a product is outside this module, and may refuse it.     *)

MutantCountsProductsOnly == {Products}
categoryReferenceCounts == {Categories, Products}
manufacturerReferenceCounts == {Series, Products}
seriesReferenceCounts == {Products}
productReferenceCounts == {}

ReferenceCounts(r) ==
  CASE r \in Categories    -> categoryReferenceCounts
    [] r \in Manufacturers -> manufacturerReferenceCounts
    [] r \in Series        -> seriesReferenceCounts
    [] r \in Products      -> productReferenceCounts

askDelete(a, r) ==
  /\ r \in used
  /\ Begin(a, [op |-> "delete", row |-> r, uncounted |-> ReferenceCounts(r), late |-> FALSE])
  /\ UNCHANGED <<links, used, raced>>

countReferences(a, S) ==
  /\ admin[a].op = "delete" /\ S \in admin[a].uncounted
  /\ admin' = [admin EXCEPT ![a] = IF \E x \in S \cap Rows : PointsAt(x, admin[a].row)
                                   THEN Idle
                                   ELSE [admin[a] EXCEPT !.uncounted = admin[a].uncounted \ {S}]]
  /\ UNCHANGED <<links, used, made, raced>>

Counted(a) == admin[a].op = "delete" /\ admin[a].uncounted = {}

Restricted(r) == \E x \in Rows : \E f \in Fields(x) \ Optional : links[x][f] = r

(* deleteCategory, deleteSeries, deleteManufacturer, deleteProduct. Gone   *)
(* already, or restricted by a required key, the statement fails.          *)
deleteRow(a) ==
  /\ Counted(a)
  /\ LET r == admin[a].row IN
     links' = IF Restricted(r) THEN links
              ELSE [x \in Rows \ {r} |->
                      [f \in Fields(x) |-> IF links[x][f] = r THEN None ELSE links[x][f]]]
  /\ admin' = [admin EXCEPT ![a] = Idle]
  /\ UNCHANGED <<used, made, raced>>

-----------------------------------------------------------------------------
(* Bulk import: the sheet's slugs are resolved once, then each row is      *)
(* looked up by its slug and written in a transaction of its own.          *)

SheetRows == [slug : {Slug[p] : p \in Products}, keys : UNION {Keys(p) : p \in Products}]

(* The rows that name what there is: the others are reported and left out. *)
Resolved == {row \in SheetRows : Satisfied(row.keys)}
Sheets == UNION {[1 .. n -> Resolved] : n \in 0 .. MaxRows}

processImport(a) ==
  /\ \E sheet \in Sheets : Begin(a, [op |-> "import", found |-> "unknown", rows |-> sheet])
  /\ UNCHANGED <<links, used, raced>>

importLookup(a) ==
  /\ admin[a].op = "import" /\ admin[a].found = "unknown" /\ admin[a].rows # <<>>
  /\ LET same == {p \in Products \cap Rows : Slug[p] = Head(admin[a].rows).slug}
     IN  admin' = [admin EXCEPT ![a].found = IF same = {} THEN None ELSE CHOOSE p \in same : TRUE]
  /\ UNCHANGED <<links, used, made, raced>>

(* The product the row is for: the one found, or a new one.                *)
ImportTargets(request) ==
  IF request.found = None
  THEN {p \in Products \ used : Slug[p] = Head(request.rows).slug /\ SlugFree(p)}
  ELSE {request.found} \cap Rows

NextRow(request) == [request EXCEPT !.found = "unknown", !.rows = Tail(@)]
Importing(a) == admin[a].op = "import" /\ admin[a].found # "unknown"

upsertProductFromImport(a) ==
  /\ Importing(a)
  /\ \E p \in ImportTargets(admin[a]) : Write(a, p, Head(admin[a].rows).keys, NextRow(admin[a]))
  /\ UNCHANGED made

(* writeFailed: the product, or what it points at, is gone; or the slug    *)
(* has been taken. The other rows go on.                                   *)
importRowFails(a) ==
  /\ Importing(a)
  /\ ~Satisfied(Head(admin[a].rows).keys)
     \/ (IF admin[a].found = None
         THEN \E p \in Products \cap Rows : Slug[p] = Head(admin[a].rows).slug
         ELSE admin[a].found \notin Rows)
  /\ admin' = [admin EXCEPT ![a] = NextRow(@)]
  /\ UNCHANGED <<links, used, made, raced>>

importDone(a) ==
  /\ admin[a].op = "import" /\ admin[a].rows = <<>>
  /\ admin' = [admin EXCEPT ![a] = Idle]
  /\ UNCHANGED <<links, used, made, raced>>

-----------------------------------------------------------------------------
Next ==
  \E a \in Admins :
    \/ \E r \in Ids :
         \/ createCategory(a, r) \/ createManufacturer(a, r)
         \/ createSeries(a, r) \/ createProduct(a, r)
         \/ updateSeries(a, r) \/ updateProduct(a, r)
         \/ askDelete(a, r)
    \/ \E c \in Categories :
         makeRootCategory(a, c) \/ \E p \in Categories : checkCategoryMove(a, c, p)
    \/ moveCategory(a) \/ moveRefused(a)
    \/ \E S \in {Categories, Series, Products} : countReferences(a, S)
    \/ deleteRow(a)
    \/ processImport(a) \/ importLookup(a) \/ upsertProductFromImport(a)
    \/ importRowFails(a) \/ importDone(a)

Spec == Init /\ [][Next]_vars

-----------------------------------------------------------------------------
Requests ==
  {Idle}
  \cup [op : {"move"}, row : Categories, parent : Categories]
  \cup [op : {"delete"}, row : Ids, uncounted : SUBSET {Categories, Series, Products},
        late : BOOLEAN]
  \cup [op : {"import"}, found : Products \cup {None, "unknown"}, rows : Seq(SheetRows)]

(* Types, and what the schema guarantees: the rows a row points at exist,  *)
(* and no two products have a slug in common.                              *)
TypeOK ==
  /\ Rows \subseteq used /\ used \subseteq Ids
  /\ \A r \in Rows : links[r] \in Keys(r) /\ Satisfied(links[r])
  /\ \A p, q \in Products \cap Rows : Slug[p] = Slug[q] => p = q
  /\ admin \in [Admins -> Requests] /\ made \in 0 .. MaxRequests /\ raced \in BOOLEAN

(* "A category cannot be its own parent or descendant": a category that no *)
(* root leads to drops out of the menu with all its children and products. *)
(* It takes two moves, each checked before the other was written.          *)
TreeNeedsRace == (\E c \in Categories \cap Rows : ~Rooted(c)) => raced

(* "Reassign or delete them first": when a delete has counted, nothing     *)
(* points at its row, and so the statement detaches nothing, unless the    *)
(* reference was written behind the count's back.                          *)
DetachNeedsRace ==
  \A a \in Admins : Counted(a) /\ ~admin[a].late => ~\E x \in Rows : PointsAt(x, admin[a].row)

(* What a check stands for breaks only behind the back of the check.       *)
HarmNeedsRace == TreeNeedsRace /\ DetachNeedsRace
=============================================================================

--------------------------- MODULE CatalogListing ---------------------------
(***************************************************************************)
(* /products: one page in many views. The address holds a choice in each   *)
(* facet (a query, a category, a manufacturer, a series), the page shows   *)
(* what matches, and every chip on it is a link to another view. A page is *)
(* put together from several reads, and a search from three that depend on *)
(* each other: the ids that match, the products of these ids, and only if  *)
(* there are none the suggestions. An administrator may save in between.   *)
(*                                                                         *)
(* The reads are as fresh as their moment: what caches add to that is      *)
(* PageCache's and LivePublish's.                                          *)
(***************************************************************************)
EXTENDS Naturals, FiniteSets

CONSTANTS
  NumItems,        \* products, numbered in the order of their slugs
  Nodes, ParentOf, \* categories, and the parent of each
  Makers, Lines,   \* manufacturers and series
  Unset,             \* no choice; also: no parent, no series
  Unknown,         \* a category's slug that is well formed and of no category
  Cap,             \* CATALOG_PRODUCT_CAP (60 in the code)
  MaxActs          \* bound: clicks of the visitor and saves of the administrator

ASSUME ListingAssumption ==
  /\ NumItems \in Nat /\ Cap \in Nat \ {0} /\ MaxActs \in Nat
  /\ ParentOf \in [Nodes -> Nodes \cup {Unset}] /\ Unset \notin Nodes \cup Makers \cup Lines
  /\ Unknown \notin Nodes
  /\ \A S \in SUBSET Nodes : (\A n \in S : ParentOf[n] \in S) => S = {}  \* a tree: Catalog's part

Items == 1 .. NumItems
Facets == {"category", "maker", "line"}

VARIABLES
  item,   \* the products: status and facets, and whether the query's text is in them
  load,   \* the page being put together
  page,   \* the page shown before it
  acts    \* how many clicks and saves there have been

listingVars == <<item, load, page, acts>>

ItemType ==
  [status : {"published", "draft", "deleted"}, category : Nodes, maker : Makers,
   line : Lines \cup {Unset}, hit : BOOLEAN]
Views ==
  [q : {Unset, "query"}, category : Nodes \cup {Unset, Unknown},
   maker : Makers \cup {Unset}, line : Lines \cup {Unset}]

Blank == [pc |-> "none"]
Start(view, facet, promise) ==
  [pc |-> "options", view |-> view, via |-> facet, promise |-> promise, options |-> <<>>,
   counts |-> <<>>, total |-> 0, list |-> {}, suggested |-> {}, edited |-> {}]

ListingInit ==
  /\ item \in [Items -> {i \in ItemType : i.status # "deleted"}]
  /\ load \in {Start(v, "address", Unset) : v \in Views}
  /\ page = Blank /\ acts = 0

-----------------------------------------------------------------------------
(* A definition whose name begins with Mutant is not part of the model: it *)
(* is the definition after it with a plausible bug.                        *)

(* What a view asks for.                                                   *)
Published == {p \in Items : item[p].status = "published"}
InFacets(view) == {p \in Published : \A f \in Facets : view[f] \in {Unset, item[p][f]}}
Matching(view) == {p \in InFacets(view) : view.q = Unset \/ item[p].hit}

publishedCount(c) == Cardinality({p \in Published : item[p].category = c})
Take(S) == {p \in S : Cardinality({x \in S : x < p}) < Cap}

(* A category alone is browsed; anything else searches.                    *)
isSearchView(view) == \E f \in {"q", "maker", "line"} : view[f] # Unset

-----------------------------------------------------------------------------
(* The reads.                                                              *)
At(pc) == load.pc = pc
Goto(next) == load' = next /\ UNCHANGED <<item, page, acts>>
Show(next) == page' = [next EXCEPT !.pc = "shown"] /\ load' = Blank /\ UNCHANGED <<item, acts>>

(* listManufacturerOptions, listSeriesOptions: those a product is of.      *)
MutantEveryOption == [maker |-> Makers, line |-> Lines]
Options == [f \in {"maker", "line"} |-> {item[p][f] : p \in Published} \ {Unset}]

readOptions ==
  /\ At("options")
  /\ Goto([load EXCEPT !.pc = "tree", !.options = Options])

listCategoryTree ==
  /\ At("tree")
  /\ Goto([load EXCEPT !.pc = IF isSearchView(load.view) THEN "search" ELSE "browse",
                       !.counts = [c \in Nodes |-> publishedCount(c)]])

(* The counts of all categories, added up.                                 *)
TreeTotal(counts) == Cardinality({pair \in Nodes \X Items : pair[2] <= counts[pair[1]]})

(* The count is the category's own, or the tree's; of a category that is   *)
(* not there nothing is listed.                                            *)
listProducts ==
  /\ At("browse")
  /\ LET c == load.view.category IN
     Show([load EXCEPT
             !.list = Take(Matching(load.view)),
             !.total = IF c \in Nodes THEN load.counts[c] ELSE TreeTotal(load.counts)])

searchIds ==
  /\ At("search")
  /\ LET S == Matching(load.view)
         found == [load EXCEPT !.list = Take(S), !.total = Cardinality(S)]
     IN  IF S # {} THEN Goto([found EXCEPT !.pc = "cards"])
         ELSE IF load.view.q # Unset THEN Goto([found EXCEPT !.pc = "suggest"])
         ELSE Show(found)

(* The products of the ids, whatever has become of them.                   *)
searchCards ==
  /\ At("cards")
  /\ Show([load EXCEPT !.list = {p \in @ : item[p].status # "deleted"}])

MutantUnscoped == Published
SuggestionScope == InFacets(load.view)

(* "Did you mean": some whose model is similar, in the same facets.        *)
suggestProducts ==
  /\ At("suggest")
  /\ \E S \in SUBSET SuggestionScope :
       Cardinality(S) <= 3 /\ Show([load EXCEPT !.suggested = S])

-----------------------------------------------------------------------------
(* The links on the page.                                                  *)
Children(c) == {n \in Nodes : ParentOf[n] = c}
BranchRow(c) ==
  IF c \notin Nodes THEN {}
  ELSE IF Children(c) # {} THEN Children(c)
  ELSE IF ParentOf[c] # Unset THEN Children(ParentOf[c]) ELSE {}

CategoryChips == {Unset} \cup Children(Unset) \cup BranchRow(page.view.category)
FilterChips(f) == IF page.options[f] = {} THEN {} ELSE {Unset} \cup page.options[f]

Links ==
  {<<"category", c>> : c \in CategoryChips}
  \cup {<<"q", q>> : q \in {Unset, "query"}}
  \cup UNION {{<<f, o>> : o \in FilterChips(f)} : f \in {"maker", "line"}}

(* The other choices ride along.                                           *)
MutantBareChip(view, f, option) ==
  IF f = "category"
  THEN [view EXCEPT !.category = option, !.q = Unset, !.maker = Unset, !.line = Unset]
  ELSE [view EXCEPT ![f] = option]
catalogHref(view, f, option) == [view EXCEPT ![f] = option]

follow ==
  /\ load = Blank /\ page # Blank /\ acts < MaxActs
  /\ \E link \in Links :
       load' = Start(catalogHref(page.view, link[1], link[2]), link[1],
                     IF link[1] = "category" /\ link[2] \in Nodes
                     THEN page.counts[link[2]] ELSE Unset)
  /\ acts' = acts + 1
  /\ UNCHANGED <<item, page>>

(* updateProduct, bulkSetStatus, deleteProduct, while a page is read.      *)
save ==
  /\ load # Blank /\ acts < MaxActs
  /\ \E p \in Items, s \in {"published", "draft", "deleted"}, c \in Nodes :
       /\ item[p].status # "deleted"
       /\ item' = [item EXCEPT ![p].status = s, ![p].category = c]
       /\ load' = [load EXCEPT !.edited = @ \cup {p}]
  /\ acts' = acts + 1
  /\ UNCHANGED page

ListingNext ==
  \/ readOptions \/ listCategoryTree \/ listProducts
  \/ searchIds \/ searchCards \/ suggestProducts
  \/ follow \/ save

ListingSpec == ListingInit /\ [][ListingNext]_listingVars

-----------------------------------------------------------------------------
(* Type correctness of the listing's variables.                            *)
ListingTypeOK ==
  /\ item \in [Items -> ItemType] /\ acts \in 0 .. MaxActs
  /\ \A x \in {load, page} : x # Blank =>
       /\ x.view \in Views /\ x.total \in Nat
       /\ x.list \subseteq Items /\ x.suggested \subseteq Items /\ x.edited \subseteq Items

(* A page that is shown says what is so, but for products saved while it   *)
(* was read: it lists what matches, the count is theirs (that of a         *)
(* category that is not there counts the whole catalogue), it is empty     *)
(* only if nothing matches, and it never suggests what the view excludes   *)
(* or the query had found.                                                 *)
ListsAreTrue ==
  page # Blank /\ load = Blank =>
    LET S == Matching(page.view) IN
    /\ page.list \ page.edited \subseteq S
    /\ page.suggested \ page.edited \subseteq InFacets(page.view) \ S
    /\ page.edited = {} =>
         /\ page.list = Take(S)
         /\ \/ page.total = Cardinality(S)
            \/ page.view.category = Unknown /\ ~isSearchView(page.view)

Quiet(p) == p # Blank /\ p.edited = {}

(* A click does what the chip says. A choice in a facet that had none      *)
(* narrows the list: nothing appears in it that was not there, unless it   *)
(* was cut off. A category has as many products as its chip counts, within *)
(* a search at most as many. And a manufacturer or a series that is        *)
(* offered is never a dead end by itself.                                  *)
ClickKeepsItsWord(old, new) ==
  LET f == new.via IN
  /\ old.view[f] = Unset /\ new.view[f] # Unset =>
       new.total <= old.total /\ (old.total <= Cap => new.list \subseteq old.list)
  /\ new.promise # Unset =>
       new.total <= new.promise /\ (new.total < new.promise => isSearchView(new.view))
  /\ f \in {"maker", "line"} /\ new.view[f] # Unset /\ (\A g \in Facets \cup {"q"} : g = f \/ new.view[g] = Unset) =>
       new.list # {}

ClicksKeepTheirWord ==
  [][Quiet(page) /\ Quiet(page') /\ page' # page => ClickKeepsItsWord(page, page')]_listingVars
=============================================================================

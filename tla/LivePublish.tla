---------------------------- MODULE LivePublish ----------------------------
(***************************************************************************)
(* Which edits of an administrator go live: every cached read of the       *)
(* public site, by what it takes from Postgres and the tags it is cached   *)
(* under, and every admin edit, by the rows it writes and the tags it      *)
(* purges. An edit and its purge are one step here, and a purge is never   *)
(* lost: PageCache has the times and the faults. Entries of different      *)
(* reads do not meet, so one read is followed at a time.                   *)
(*                                                                         *)
(* The tag of an entity is the entity itself; a locale, a slug that is     *)
(* never edited, an order and a cap on a list are left out, and so is a     *)
(* change of a document's type, which purges what its other edits do.      *)
(***************************************************************************)
EXTENDS Naturals, FiniteSets

CONSTANTS
  Products, Manufacturers, Categories, Series, Industries,
  Projects, Services, Guides,
  Datasheets, Certificates,  \* documents of these two types
  Home, Settings, Sla,       \* the rows there is one of: each is its own tag
  Texts,     \* what a row may say, its slug, links and visibility apart
  Seeded,    \* what they all say at first
  Links,     \* for each row, the rows it refers to at first
  Later,     \* rows that do not exist at first
  Absent,    \* not created yet
  Gone,      \* deleted
  NoEntry,   \* nothing cached
  MaxEdits   \* bound: edits

Documents == Datasheets \cup Certificates

Tables == <<Products, Manufacturers, Categories, Series, Industries, Projects, Services,
            Datasheets, Certificates, Guides, {Home}, {Settings}, {Sla}>>
Rows == Products \cup Manufacturers \cup Categories \cup Series \cup Industries
          \cup Projects \cup Services \cup Documents \cup Guides
          \cup {Home, Settings, Sla}

(* What the foreign keys and join tables of a row refer to.                *)
Schema(x) ==
  CASE x \in Products -> Categories \cup Manufacturers \cup Series \cup Industries \cup Products
    [] x \in Categories -> Categories
    [] x \in Series -> Manufacturers
    [] x \in Projects -> Industries \cup Products
    [] x \in Services -> Industries
    [] x \in Documents -> Products \cup Industries
    [] x \in Guides -> Products \cup Categories
    [] OTHER -> {}

(* A project has one industry at most.                                     *)
Fits(x, to) ==
  to \subseteq Schema(x) /\ (x \in Projects => \A i, k \in to \cap Industries : i = k)

(* Rows with a status (draft or published), or is_public.                  *)
Publishable == Products \cup Projects \cup Documents \cup Guides

ASSUME LivePublishAssumption ==
  /\ \A m, n \in DOMAIN Tables : m # n => Tables[m] \cap Tables[n] = {}
  /\ Links \in [Rows -> SUBSET Rows] /\ Later \subseteq Rows /\ MaxEdits \in Nat
  /\ \A x \in Rows : Fits(x, Links[x])
  /\ \A x \in Rows \ Later : Links[x] \cap Later = {}
  /\ IsFiniteSet(Rows)
  /\ Seeded \in Texts /\ {Absent, Gone} \cap Texts = {} /\ Absent # Gone

VARIABLES
  text,    \* each row: its text, Absent or Gone
  public,  \* the rows that are published, or public
  links,   \* each row: the rows its foreign keys and join rows refer to
  read,    \* the cached read that is followed: its name, and what it is asked about
  entry,   \* its entry: what the read answered when it was filled
  since,   \* history: the edits since then that purged none of its tags
  edits    \* how many edits there have been

siteVars == <<text, public, links, read, entry, since, edits>>

Exists(x) == text[x] \in Texts
Referring(X, x) == {y \in X : Exists(y) /\ x \in links[y]}
Published(X) == {x \in X : Exists(x) /\ x \in public}

-----------------------------------------------------------------------------
(* The reads, and the tags they are cached under.                          *)

(* A read of a kind that takes an argument; "all" where it takes none.     *)
Reads ==
  [kind : {"product-id", "product", "related-products", "accessories", "documents-by-product"},
   of : Products]
  \cup [kind : {"products-by-industry", "categories-by-industry", "projects-by-industry",
                "services-by-industry", "certificates-by-industry", "industry"}, of : Industries]
  \cup [kind : {"products-by-category", "category"}, of : Categories]
  \cup [kind : {"products-all", "product-signals", "categories", "category-tree", "projects",
                "industries", "services-all", "series-options", "manufacturer-options",
                "manufacturers", "guides-index"}, of : {"all"}]
  \cup [kind : {"project"}, of : Projects]
  \cup [kind : {"document"}, of : Documents]
  \cup [kind : {"guide"}, of : Guides]
  \cup [kind : {"home-content"}, of : {Home}]
  \cup [kind : {"site-phone", "contact-details"}, of : {Settings}]
  \cup [kind : {"sla-process"}, of : {Sla}]

MutantTreeTags == {"categories"}
treeTags == {"categories", "catalog"}

(* Reads that are about products, tagged `catalog`.                        *)
CatalogTags ==
  CASE read.kind \in {"product-id", "series-options"} -> {"catalog"}
    [] read.kind = "product" -> {"catalog", read.of}
    [] read.kind = "products-by-industry" -> {"catalog", "documents", read.of}
    [] read.kind \in {"products-all", "related-products", "accessories", "product-signals",
                      "documents-by-product"} -> {"catalog", "documents"}
    [] read.kind = "products-by-category" -> {"catalog", "categories", "documents"}
    [] read.kind = "manufacturer-options" -> {"catalog", "manufacturers"}
    [] read.kind \in {"category", "category-tree"} -> treeTags
    [] read.kind = "categories-by-industry" -> {"categories", "catalog", read.of}
    [] OTHER -> {}

(* The others.                                                             *)
ContentTags ==
  CASE read.kind = "manufacturers" -> {"manufacturers"}
    [] read.kind = "categories" -> {"categories"}
    [] read.kind = "projects" -> {"projects"}
    [] read.kind \in {"project", "projects-by-industry"} -> {"projects", read.of}
    [] read.kind = "industries" -> {"industries"}
    [] read.kind = "industry" -> {"industries", read.of}
    [] read.kind = "services-all" -> {"services"}
    [] read.kind = "services-by-industry" -> {"services", read.of}
    [] read.kind = "document" -> {"documents"}
    [] read.kind = "certificates-by-industry" -> {"documents", read.of}
    [] read.kind \in {"guides-index", "guide"} -> {"guides"}
    [] read.kind \in {"home-content", "site-phone", "contact-details", "sla-process"} -> {read.of}
    [] OTHER -> {}

TagsOfRead == CatalogTags \cup ContentTags

-----------------------------------------------------------------------------
(* What a read takes from Postgres: the rows it is about, with the text of *)
(* every row it shows of them, and a number where it counts.               *)

Item(x, shown, count) ==
  [of |-> x, shows |-> {<<y, text[y]>> : y \in shown}, count |-> count]
Plain(X) == {Item(x, {x}, 0) : x \in X}

(* CARD_INCLUDE: the product, its manufacturer, its newest public          *)
(* datasheet. Which of several is the newest is left out.                  *)
MadeBy(p) == links[p] \cap Manufacturers
InCategory(p) == links[p] \cap Categories
Card(p) == Item(p, {p} \cup MadeBy(p) \cup Published(Referring(Datasheets, p)), 0)
Cards(X) == {Card(p) : p \in X}

queryProductId(p) == {Item(q, {}, 0) : q \in Published({p})}
queryProductDetail(p) ==
  {Item(q, {q} \cup MadeBy(q) \cup InCategory(q), 0) : q \in Published({p})}

MutantUnfiltered(i) == Cards(Referring(Products, i))
queryProductsByIndustry(i) == Cards(Published(Referring(Products, i)))
queryPublishedProducts == Cards(Published(Products))
queryProductsByCategory(c) == Cards(Published(Referring(Products, c)))

queryRelatedProducts(p) ==
  IF Exists(p)
  THEN Cards({q \in Published(Products) \ {p} : InCategory(q) = InCategory(p)})
  ELSE {}

(* The accessories of a product refer to it.                               *)
queryAccessoriesForProduct(p) == Cards(Published(Referring(Products, p)))

(* Each published product with its number of public documents.             *)
MutantCountsPrivate ==
  {Item(p, {p} \cup MadeBy(p) \cup InCategory(p), Cardinality(Referring(Documents, p))) :
     p \in Published(Products)}
queryProductSignals ==
  {Item(p, {p} \cup MadeBy(p) \cup InCategory(p),
        Cardinality(Published(Referring(Documents, p)))) : p \in Published(Products)}

queryTopLevelCategories == Plain({c \in Categories : Exists(c) /\ links[c] = {}})
queryCategoriesByIndustry(i) ==
  Plain({c \in Categories : Published(Referring(Products, c)) \cap Referring(Products, i) # {}})

(* A category with the number of its published products.                   *)
PublishedCount(c) == Cardinality(Published(Referring(Products, c)))
Counted(c) == Item(c, {c}, PublishedCount(c))

queryCategoryTree ==
  {Item(c, {c} \cup links[c], PublishedCount(c)) : c \in {d \in Categories : Exists(d)}}
queryCategoryBySlug(c) ==
  IF Exists(c)
  THEN {Counted(c)} \cup Plain(links[c]) \cup {Counted(d) : d \in Referring(Categories, c)}
  ELSE {}

toProjectListItem(j) == Item(j, {j} \cup (links[j] \cap Industries), 0)
queryPublishedProjects(X) == {toProjectListItem(j) : j \in Published(X)}

(* The line of a project shows its manufacturer, and the project a card,   *)
(* only for a published product.                                           *)
queryProjectBySlug(j) ==
  IF j \in Published(Projects)
  THEN {toProjectListItem(j)} \cup Cards(Published(links[j] \cap Products))
  ELSE {}

queryIndustries == Plain({i \in Industries : Exists(i)})
queryIndustryBySlug(i) == Plain({k \in {i} : Exists(k)})
queryCertificatesByIndustry(i) == Plain(Published(Referring(Certificates, i)))
queryDocumentBySlug(d) == Plain(Published({d}))
queryDocumentsByProduct(p) == Plain(Published(Referring(Documents, p)))
queryServicesByIndustry(i) == Plain(Referring(Services, i))
queryServices == Plain({v \in Services : Exists(v)})
querySeriesOptions == Plain({s \in Series : Published(Referring(Products, s)) # {}})
queryManufacturerOptions ==
  Plain({m \in Manufacturers : Published(Referring(Products, m)) # {}})
queryManufacturers == Plain({m \in Manufacturers : Exists(m)})

(* The products a guide links to are not filtered by their status.         *)
queryPublishedGuides == Plain(Published(Guides))
queryGuideBySlug(g) == IF g \in Published(Guides) THEN {Item(g, {g} \cup links[g], 0)} ELSE {}

(* A row there is one of; without it, what the code has in its place.      *)
querySingleton(x) == Plain({y \in {x} : Exists(y)})

Query ==
  CASE read.kind = "product-id" -> queryProductId(read.of)
    [] read.kind = "product" -> queryProductDetail(read.of)
    [] read.kind = "products-by-industry" -> queryProductsByIndustry(read.of)
    [] read.kind = "products-all" -> queryPublishedProducts
    [] read.kind = "products-by-category" -> queryProductsByCategory(read.of)
    [] read.kind = "related-products" -> queryRelatedProducts(read.of)
    [] read.kind = "accessories" -> queryAccessoriesForProduct(read.of)
    [] read.kind = "product-signals" -> queryProductSignals
    [] read.kind = "categories" -> queryTopLevelCategories
    [] read.kind = "categories-by-industry" -> queryCategoriesByIndustry(read.of)
    [] read.kind = "category-tree" -> queryCategoryTree
    [] read.kind = "category" -> queryCategoryBySlug(read.of)
    [] read.kind = "projects" -> queryPublishedProjects(Projects)
    [] read.kind = "projects-by-industry" -> queryPublishedProjects(Referring(Projects, read.of))
    [] read.kind = "project" -> queryProjectBySlug(read.of)
    [] read.kind = "industries" -> queryIndustries
    [] read.kind = "industry" -> queryIndustryBySlug(read.of)
    [] read.kind = "certificates-by-industry" -> queryCertificatesByIndustry(read.of)
    [] read.kind = "document" -> queryDocumentBySlug(read.of)
    [] read.kind = "documents-by-product" -> queryDocumentsByProduct(read.of)
    [] read.kind = "services-by-industry" -> queryServicesByIndustry(read.of)
    [] read.kind = "services-all" -> queryServices
    [] read.kind = "series-options" -> querySeriesOptions
    [] read.kind = "manufacturer-options" -> queryManufacturerOptions
    [] read.kind = "manufacturers" -> queryManufacturers
    [] read.kind = "guides-index" -> queryPublishedGuides
    [] read.kind = "guide" -> queryGuideBySlug(read.of)
    [] OTHER -> querySingleton(read.of)

-----------------------------------------------------------------------------
(* The edits. What a form sets of the links is replaced; the join rows it  *)
(* does not show are kept.                                                 *)

Existing(X) == {x \in X : Exists(x)}
AtMostOne(X) == {{}} \cup {{x} : x \in X}

(* The links a save of a row leaves it with. Without a form of its own for *)
(* them, the links to industries and products stay. A category is only     *)
(* moved under a root, as no read looks further than one level, and a      *)
(* guide links to one product and one category at most.                    *)
ProductLinks(p) ==
  {{c, m} \cup s \cup (links[p] \cap (Industries \cup Products)) :
     c \in Existing(Categories), m \in Existing(Manufacturers), s \in AtMostOne(Existing(Series))}
CategoryLinks(c) == AtMostOne({d \in Existing(Categories) \ {c} : links[d] = {}})
SeriesLinks == {{m} : m \in Existing(Manufacturers)}
ProjectLinks(j) == {i \cup (links[j] \cap Products) : i \in AtMostOne(Existing(Industries))}
DocumentLinks ==
  {p \cup is : p \in AtMostOne(Existing(Products)), is \in SUBSET Existing(Industries)}
GuideLinks ==
  {p \cup c : p \in AtMostOne(Existing(Products)), c \in AtMostOne(Existing(Categories))}

(* An edit: the rows are written, then the tags are purged. An entry that  *)
(* carries one of them is not accepted again.                              *)
Edit(kind, tags) ==
  /\ edits' = edits + 1
  /\ IF tags \cap TagsOfRead # {}
     THEN entry' = NoEntry /\ since' = {}
     ELSE entry' = entry /\ since' = IF entry = NoEntry THEN {} ELSE since \cup {kind}
  /\ UNCHANGED read

(* The row takes a text, a visibility and links.                           *)
Write(x, t, visible, to) ==
  /\ text' = [text EXCEPT ![x] = t]
  /\ public' = IF visible /\ x \in Publishable THEN public \cup {x} ELSE public \ {x}
  /\ links' = [links EXCEPT ![x] = to]

(* create...Action and update...Action; a row that is gone is not saved.   *)
Save(x, choices) ==
  /\ edits < MaxEdits /\ text[x] # Gone
  /\ \E t \in Texts, visible \in BOOLEAN, to \in choices :
       (visible => x \in Publishable) /\ Write(x, t, visible, to)

(* Foreign keys to the row are set to null, its join rows go with it.      *)
Delete(x) ==
  /\ edits < MaxEdits /\ Exists(x)
  /\ text' = [text EXCEPT ![x] = Gone]
  /\ public' = public \ {x}
  /\ links' = [y \in Rows |-> IF y = x THEN {} ELSE links[y] \ {x}]

MutantProductTags(p) == {p}
productTags(p) == {"catalog", p}

SaveProduct(p) == Save(p, ProductLinks(p)) /\ Edit("product", productTags(p))
DeleteProduct(p) ==
  /\ Referring(Projects \cup Products, p) = {} /\ links[p] \cap Products = {}
  /\ Delete(p) /\ Edit("product", productTags(p))

(* A row of a bulk import: its industries are replaced as well, and no tag *)
(* is purged.                                                              *)
upsertProductFromImport(p) ==
  /\ edits < MaxEdits /\ text[p] # Gone
  /\ \E t \in Texts, visible \in BOOLEAN, to \in ProductLinks(p), is \in SUBSET Existing(Industries) :
       Write(p, t, visible, (to \ Industries) \cup is)
  /\ Edit("import", {})

CategoryTags == {"categories", "catalog"}
SaveCategory(c) == Save(c, CategoryLinks(c)) /\ Edit("category", CategoryTags)
DeleteCategory(c) ==
  /\ Referring(Products \cup Categories, c) = {}
  /\ Delete(c) /\ Edit("category", CategoryTags)

ManufacturerTags == {"manufacturers", "catalog", Home}
SaveManufacturer(m) == Save(m, {{}}) /\ Edit("manufacturer", ManufacturerTags)
DeleteManufacturer(m) ==
  /\ Referring(Products \cup Series, m) = {}
  /\ Delete(m) /\ Edit("manufacturer", ManufacturerTags)

SeriesTags == {"catalog"}
SaveSeries(s) == Save(s, SeriesLinks) /\ Edit("series", SeriesTags)
DeleteSeries(s) ==
  /\ Referring(Products, s) = {}
  /\ Delete(s) /\ Edit("series", SeriesTags)

industryTags(i) == {"industries", i}
SaveIndustry(i) == Save(i, {{}}) /\ Edit("industry", industryTags(i))
DeleteIndustry(i) ==
  /\ Referring(Products \cup Documents \cup Services \cup Projects, i) = {}
  /\ Delete(i) /\ Edit("industry", industryTags(i))

(* The industries of a project before and after the edit.                  *)
projectTags(j) == {"projects", j} \cup ((links[j] \cup links'[j]) \cap Industries)
SaveProject(j) == Save(j, ProjectLinks(j)) /\ Edit("project", projectTags(j))
DeleteProject(j) == Delete(j) /\ Edit("project", projectTags(j))

(* The industries are read before the delete cascades to their join rows.  *)
serviceTags(v) == {"services"} \cup links[v]
SaveService(v) == Save(v, {links[v]}) /\ Edit("service", serviceTags(v))
DeleteService(v) == Delete(v) /\ Edit("service", serviceTags(v))

DocumentTags == {"documents"}
SaveDocument(d) == Save(d, DocumentLinks) /\ Edit("document", DocumentTags)
DeleteDocument(d) == Delete(d) /\ Edit("document", DocumentTags)

GuideTags == {"guides"}
SaveGuide(g) == Save(g, GuideLinks) /\ Edit("guide", GuideTags)
DeleteGuide(g) == Delete(g) /\ Edit("guide", GuideTags)

SaveHomeContent == Save(Home, {{}}) /\ Edit("home", {Home})
SaveSiteSettings == Save(Settings, {{}}) /\ Edit("settings", {Settings})
SaveSla == Exists(Sla) /\ Save(Sla, {{}}) /\ Edit("sla", {Sla})

(* The release creates the SLA content that is not there, and purges       *)
(* nothing.                                                                *)
ensureDefaultSla == ~Exists(Sla) /\ Save(Sla, {{}}) /\ Edit("release", {})

-----------------------------------------------------------------------------
(* A visitor misses. (An entry is also evicted, and refreshed as it ages:  *)
(* that leads to no state a miss does not lead to.)                        *)
Fill ==
  /\ entry = NoEntry
  /\ entry' = Query /\ since' = {}
  /\ UNCHANGED <<text, public, links, read, edits>>

-----------------------------------------------------------------------------
SiteInit ==
  /\ text = [x \in Rows |-> IF x \in Later THEN Absent ELSE Seeded]
  /\ links = [x \in Rows |-> IF x \in Later THEN {} ELSE Links[x]]
  /\ public = Publishable \ Later
  /\ read \in Reads
  /\ entry = NoEntry /\ since = {} /\ edits = 0

SiteNext ==
  \/ \E p \in Products : SaveProduct(p) \/ DeleteProduct(p) \/ upsertProductFromImport(p)
  \/ \E c \in Categories : SaveCategory(c) \/ DeleteCategory(c)
  \/ \E m \in Manufacturers : SaveManufacturer(m) \/ DeleteManufacturer(m)
  \/ \E s \in Series : SaveSeries(s) \/ DeleteSeries(s)
  \/ \E i \in Industries : SaveIndustry(i) \/ DeleteIndustry(i)
  \/ \E j \in Projects : SaveProject(j) \/ DeleteProject(j)
  \/ \E v \in Services : SaveService(v) \/ DeleteService(v)
  \/ \E d \in Documents : SaveDocument(d) \/ DeleteDocument(d)
  \/ \E g \in Guides : SaveGuide(g) \/ DeleteGuide(g)
  \/ SaveHomeContent \/ SaveSiteSettings \/ SaveSla \/ ensureDefaultSla
  \/ Fill

SiteSpec == SiteInit /\ [][SiteNext]_siteVars

-----------------------------------------------------------------------------
Answers == SUBSET [of : Rows, shows : SUBSET (Rows \X Texts), count : 0 .. Cardinality(Rows)]
Kinds == {"product", "import", "category", "manufacturer", "series", "industry", "project",
          "service", "document", "guide", "home", "settings", "sla", "release"}

(* Type correctness of every variable.                                     *)
SiteTypeOK ==
  /\ text \in [Rows -> Texts \cup {Absent, Gone}]
  /\ public \subseteq {x \in Publishable : Exists(x)}
  /\ links \in [Rows -> SUBSET Rows]
  /\ \A x \in Rows : \A y \in links[x] : Exists(x) /\ Exists(y)
  /\ read \in Reads
  /\ entry = NoEntry \/ entry \in Answers
  /\ since \subseteq Kinds /\ edits \in 0 .. MaxEdits

(* The edits a read does not follow: a project page shows cards and the    *)
(* name of an industry, a guide the names of what it links to, under tags  *)
(* of their own; the list of projects shows the names of industries; an    *)
(* import purges nothing, and nor does the release.                        *)
Unfollowed ==
  CASE read.kind = "project" -> {"product", "import", "manufacturer", "industry", "document"}
    [] read.kind = "guide" -> {"product", "import", "category"}
    [] read.kind = "projects" -> {"industry"}
    [] read.kind = "sla-process" -> {"release"}
    [] "catalog" \in CatalogTags -> {"import"}
    [] OTHER -> {}

(* "An admin's edit goes live": with no purge lost, an entry that is       *)
(* served is what Postgres says now, unless an edit it does not follow     *)
(* came since it was filled.                                               *)
EditsGoLive == entry = NoEntry \/ since \cap Unfollowed # {} \/ entry = Query

(* "Unpublished items are never enumerable": what an entry shows of a      *)
(* product, project, document or guide that is not published is what a     *)
(* guide links to, or was there before such an edit.                       *)
UnpublishedIsHidden ==
  \/ entry = NoEntry \/ read.kind = "guide" \/ since \cap Unfollowed # {}
  \/ \A item \in entry : \A shown \in item.shows :
       shown[1] \in Publishable => shown[1] \in public
=============================================================================

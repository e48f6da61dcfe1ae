------------------------------ MODULE Sitemap ------------------------------
(***************************************************************************)
(* Which pages say they may be indexed, and which the sitemap lists, for   *)
(* every state of the rows LivePublish can reach. Each side is computed    *)
(* from the reads it makes: a product page from reads of its own, the      *)
(* sitemap from one read for all products, and so on. Here a read answers  *)
(* what Postgres says; LivePublish has what becomes of it in the cache.    *)
(*                                                                         *)
(* Left out: /contact, /rfq and the legal pages, whose verdict is a        *)
(* constant of the code until a gate in it is flipped, and slugs that are  *)
(* not valid, which no form accepts.                                       *)
(***************************************************************************)
EXTENDS LivePublish

CONSTANTS
  Locales, DefaultLocale,
  Translated,  \* the texts that every locale has
  Prose        \* the texts that are more than a name: specifications, a body, sections

ASSUME SitemapAssumption ==
  /\ DefaultLocale \in Locales /\ Translated \subseteq Texts /\ Prose \subseteq Texts

-----------------------------------------------------------------------------
(* The texts of the rows an answer is about, and of every row it shows.    *)
Own(answer) == {shown[2] : shown \in UNION {{s \in item.shows : s[1] = item.of} : item \in answer}}
AllOf(answer) == {shown[2] : shown \in UNION {item.shows : item \in answer}}

(* A page is thin when it has no content, or when, in a locale other than  *)
(* the default, every one of its texts falls back.                         *)
isIndexable(l, content, texts) ==
  content /\ (l = DefaultLocale \/ texts = {} \/ texts \cap Translated # {})

(* A page that is a list of rows.                                          *)
listSignals(l, answer) == isIndexable(l, answer # {}, Own(answer))

(* The products of all categories are counted, not the categories.         *)
catalogSignals(l) ==
  isIndexable(l, \E item \in queryCategoryTree : item.count > 0, Own(queryCategoryTree))

homeSignals(l) ==
  LET latest == {item \in queryPublishedProjects(Projects) :
                   item = CHOOSE other \in queryPublishedProjects(Projects) : TRUE}
  IN listSignals(l, latest \cup queryIndustries \cup queryTopLevelCategories \cup queryManufacturers)

(* What fills the blocks of an industry's page; the industry itself does   *)
(* not.                                                                    *)
industrySignals(l, i) ==
  LET blocks == queryCategoriesByIndustry(i) \cup queryCertificatesByIndustry(i)
                  \cup queryServicesByIndustry(i) \cup queryProductsByIndustry(i)
                  \cup queryPublishedProjects(Referring(Projects, i))
  IN isIndexable(l, blocks # {}, Own(queryIndustryBySlug(i) \cup blocks))

productSignals(l, texts, specs, documents) == isIndexable(l, specs \/ documents, texts)
signalsFromPageData(l, product, documents) ==
  productSignals(l, AllOf({product}), Own({product}) \subseteq Prose, documents # {})
signalsFromRow(l, row) ==
  productSignals(l, AllOf({row}), Own({row}) \subseteq Prose, row.count > 0)

(* Of a project or a guide, only what its line in the list also has.       *)
itemSignals(l, item) == isIndexable(l, Own({item}) \subseteq Prose, Own({item}))

-----------------------------------------------------------------------------
(* The pages that list rows or blocks: both sides make the same reads.     *)
sharedPages(l) ==
  {page \in {"/", "/industries", "/products", "/services", "/projects", "/guides"} :
     CASE page = "/" -> homeSignals(l)
       [] page = "/industries" -> listSignals(l, queryIndustries)
       [] page = "/products" -> catalogSignals(l)
       [] page = "/services" -> listSignals(l, queryServices)
       [] page = "/projects" -> listSignals(l, queryPublishedProjects(Projects))
       [] page = "/guides" -> listSignals(l, queryPublishedGuides)}
  \cup {item.of : item \in {k \in queryIndustries : industrySignals(l, k.of)}}

(* The pages of a product, a project and a guide, by their own metadata. A *)
(* page of nothing is not indexable.                                       *)
productPage(l, p) ==
  \E product \in queryProductDetail(p) : signalsFromPageData(l, product, queryDocumentsByProduct(p))
projectPage(l, j) == \E item \in queryProjectBySlug(j) : item.of = j /\ itemSignals(l, item)
guidePage(l, g) == \E item \in queryGuideBySlug(g) : itemSignals(l, item)

indexablePages(l, shared) ==
  shared
    \cup {p \in Products : productPage(l, p)} \cup {j \in Projects : projectPage(l, j)}
    \cup {g \in Guides : guidePage(l, g)}

(* What the sitemap lists of a locale.                                     *)
sitemap(l, shared) ==
  shared
    \cup {row.of : row \in {r \in queryProductSignals : signalsFromRow(l, r)}}
    \cup {item.of : item \in {k \in queryPublishedProjects(Projects) \cup queryPublishedGuides :
                                itemSignals(l, k)}}

-----------------------------------------------------------------------------
(* "A page can never be noindex while the sitemap still advertises it",    *)
(* nor the other way round: what the sitemap reads of all products,        *)
(* projects and guides at once gives each the verdict its own page gives,  *)
(* with nothing cached. The read that is followed plays no part: one read  *)
(* stands for all.                                                         *)
SitemapAgrees ==
  read.kind = "home-content" /\ entry = NoEntry =>
    \A l \in Locales : LET shared == sharedPages(l)
                      IN sitemap(l, shared) = indexablePages(l, shared)
=============================================================================

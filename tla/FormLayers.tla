----------------------------- MODULE FormLayers -----------------------------
(***************************************************************************)
(* What an administrator edits passes through five layers of the code, and *)
(* each names the fields of the entity again: the columns of the schema,   *)
(* the repository's read for the form, the form, the zod schema that drops *)
(* every key it does not know, and the repository's write. Here they are   *)
(* as sets of fields. A field has the name of its column; one of the       *)
(* translation table stands for a field per locale. Left out: the slug,    *)
(* which is fixed at creation, ids, and dates kept by the database.        *)
(***************************************************************************)

homeFields ==
  {"kicker", "title", "lead", "noPrices", "credibilityTitle", "capability", "ctaTitle",
   "industriesTitle", "industriesSub", "categoriesTitle", "manufacturersTitle"}

TextFields ==
  homeFields \cup {"name", "description", "outcome", "scope", "location", "role", "bio",
                   "intro", "metaDescription", "section", "alt"}

(* A definition whose name begins with Mutant is not part of the model: it *)
(* is the definition after it with a plausible bug.                        *)

-----------------------------------------------------------------------------
(* Shared by the forms of the catalogue and of the site's content.         *)
nameOnlyShape == {"name"}
nameDescriptionShape == {"name", "description"}

flattenTranslations == {"name", "description"}
NameOnlyTabs == {"name"}
NameDescriptionTabs == {"name", "description"}

-----------------------------------------------------------------------------
(* Products. The industries are set by the import alone.                   *)
ProductColumns ==
  {"model", "manufacturerId", "categoryId", "seriesId", "status", "attributes", "media",
   "industries", "name", "description"}

MutantForgetsSeries ==
  {"model", "manufacturerId", "categoryId", "status", "attributes", "media", "name", "description"}
getProductForEdit ==
  {"model", "manufacturerId", "categoryId", "seriesId", "status", "attributes", "media",
   "name", "description"}
ProductForm ==
  {"model", "manufacturerId", "categoryId", "seriesId", "status", "attributes", "media"}
    \cup NameDescriptionTabs
productSchema ==
  {"model", "manufacturerId", "categoryId", "seriesId", "status", "attributes", "media"}
    \cup nameDescriptionShape
createProduct == ProductColumns \ {"industries"}
updateProduct == ProductColumns \ {"industries"}

(* A row of the bulk import; no media.                                     *)
importRowSchema ==
  {"model", "manufacturerId", "categoryId", "seriesId", "status", "attributes", "industries",
   "name", "description"}

-----------------------------------------------------------------------------
(* Manufacturers, categories and series.                                   *)
ManufacturerColumns == {"logoUrl", "name", "description"}
getManufacturerForEdit == {"logoUrl", "name", "description"}
ManufacturerForm == {"logoUrl"} \cup NameDescriptionTabs
manufacturerSchema == {"logoUrl"} \cup nameDescriptionShape
createManufacturer == {"logoUrl", "name", "description"}
updateManufacturerTranslations == {"logoUrl", "name", "description"}

CategoryColumns == {"parentId", "name"}
getCategoryForEdit == {"parentId", "name"}
CategoryForm == {"parentId"} \cup NameOnlyTabs
categorySchema == {"parentId"} \cup nameOnlyShape
createCategory == {"parentId", "name"}
updateCategory == {"parentId", "name"}

SeriesColumns == {"manufacturerId", "name"}
getSeriesForEdit == {"manufacturerId", "name"}
SeriesForm == {"manufacturerId"} \cup NameOnlyTabs
seriesSchema == {"manufacturerId"} \cup nameOnlyShape
createSeries == {"manufacturerId", "name"}
updateSeries == {"manufacturerId", "name"}

-----------------------------------------------------------------------------
(* Industries, services and the team.                                      *)
IndustryColumns == {"name", "description"}
getIndustryForEdit == {"name", "description"}
IndustryForm == NameDescriptionTabs
industrySchema == nameDescriptionShape
createIndustry == {"name", "description"}
updateIndustryTranslations == {"name", "description"}

(* No form sets the industries of a service.                               *)
ServiceColumns == {"industries", "name", "description"}
getServiceForEdit == {"name", "description"}
ServiceForm == NameDescriptionTabs
serviceSchema == nameDescriptionShape
createService == {"name", "description"}
updateServiceTranslations == {"name", "description"}

TeamColumns == {"order", "photoKey", "name", "role", "bio"}
getTeamMemberForEdit == {"order", "photoKey", "name", "role", "bio"}
flattenTeam == {"name", "role", "bio"}
TeamForm == {"order", "photoKey"} \cup flattenTeam
teamSchema == {"order", "photoKey", "name", "role", "bio"}
createTeamMember == {"order", "photoKey", "name", "role", "bio"}
updateTeamMember == {"order", "photoKey", "name", "role", "bio"}

-----------------------------------------------------------------------------
(* Projects. The lines of equipment have no form.                          *)
ProjectColumns ==
  {"industryId", "status", "media", "deliveredAt", "leadTimeWeeks", "bomLines",
   "title", "description", "outcome", "scope", "location"}
getProjectForEdit == ProjectColumns \ {"bomLines"}
flattenProject == {"title", "description", "outcome", "scope", "location"}
ProjectForm ==
  {"industryId", "status", "deliveredAt", "leadTimeWeeks", "media"} \cup flattenProject
projectScalars == {"industryId", "status", "deliveredAt", "leadTimeWeeks", "media"}
projectTranslationShape == {"title", "description", "outcome", "scope", "location"}
createProject == ProjectColumns \ {"bomLines"}
MutantKeepsLeadTime == ProjectColumns \ {"bomLines", "leadTimeWeeks"}
updateProject == ProjectColumns \ {"bomLines"}

-----------------------------------------------------------------------------
(* Selection guides. A section's heading and body are one text: a section  *)
(* that has only one of them in a locale has none.                         *)
GuideColumns ==
  {"status", "products", "categories", "title", "intro", "metaDescription", "section"}
getGuideForEdit == GuideColumns
GuideForm ==
  {"status", "products", "categories", "title", "intro", "metaDescription", "section"}
guideBody == {"status", "products", "categories", "title", "intro", "metaDescription", "section"}
createGuide == GuideColumns
updateGuide == GuideColumns

-----------------------------------------------------------------------------
(* Documents: "version" stands for the size and type of the file too. The  *)
(* file is replaced by another control.                                    *)
DocumentFile == {"fileKey", "version"}
DocumentColumns ==
  {"type", "isPublic", "productId", "manufacturerId", "industries", "title"} \cup DocumentFile
getDocumentForEdit == DocumentColumns \ {"fileKey"}
DocumentForm == {"type", "isPublic", "productId", "manufacturerId", "industries", "title"}
documentAssociations == {"type", "isPublic", "productId", "manufacturerId", "industries"}
documentTitleShape == {"title"}
createDocument == DocumentColumns
updateDocumentMeta == DocumentColumns \ DocumentFile

(* The alternative text of an image of the library.                        *)
MediaColumns == {"file", "alt"}
getMediaAssetForEdit == {"alt"}
MediaAssetForm == {"alt"}
mediaAltSchema == {"alt"}
updateMediaAssetAlt == {"alt"}

-----------------------------------------------------------------------------
(* The settings and the home page, a row of each; the status of a lead.    *)
SettingsColumns ==
  {"contactEmail", "contactAddress", "legalName", "tradeRegistryNo", "taxOffice", "taxNo",
   "mersisNo", "phone", "phoneDisplay", "rfqNotifyTo"}
getSiteSettingsForEdit == SettingsColumns
SiteSettingsForm == SettingsColumns
siteSettingsSchema == SettingsColumns
updateSiteSettings == SettingsColumns

(* The schema knows the certification marks by another name than the form. *)
HomeColumns == {"certMarks"} \cup homeFields
getHomeContentForEdit == {"certMarks"} \cup homeFields
HomeContentForm == {"certMarksList"} \cup homeFields
homeContentSchema == {"certMarks"} \cup homeFields
updateHomeContent == {"certMarks"} \cup homeFields

LeadColumns == {"status", "inquiry"}
LeadStatusForm == {"status"}
leadStatusSchema == {"status"}
updateLeadStatus == {"status"}

-----------------------------------------------------------------------------
(* The layers of each entity; the fields its schema requires (of a text,   *)
(* in English); and the anchor, without which a locale has no row.         *)
Entity(kind) ==
  CASE kind = "product" ->
         [columns |-> ProductColumns, load |-> getProductForEdit, form |-> ProductForm,
          keys |-> productSchema, create |-> createProduct, update |-> updateProduct,
          required |-> {"model", "manufacturerId", "categoryId", "status", "name"}, anchor |-> "name"]
    [] kind = "manufacturer" ->
         [columns |-> ManufacturerColumns, load |-> getManufacturerForEdit, form |-> ManufacturerForm,
          keys |-> manufacturerSchema, create |-> createManufacturer, update |-> updateManufacturerTranslations,
          required |-> {"name"}, anchor |-> "name"]
    [] kind = "category" ->
         [columns |-> CategoryColumns, load |-> getCategoryForEdit, form |-> CategoryForm,
          keys |-> categorySchema, create |-> createCategory, update |-> updateCategory,
          required |-> {"name"}, anchor |-> "name"]
    [] kind = "series" ->
         [columns |-> SeriesColumns, load |-> getSeriesForEdit, form |-> SeriesForm,
          keys |-> seriesSchema, create |-> createSeries, update |-> updateSeries,
          required |-> {"manufacturerId", "name"}, anchor |-> "name"]
    [] kind = "industry" ->
         [columns |-> IndustryColumns, load |-> getIndustryForEdit, form |-> IndustryForm,
          keys |-> industrySchema, create |-> createIndustry, update |-> updateIndustryTranslations,
          required |-> {"name"}, anchor |-> "name"]
    [] kind = "service" ->
         [columns |-> ServiceColumns, load |-> getServiceForEdit, form |-> ServiceForm,
          keys |-> serviceSchema, create |-> createService, update |-> updateServiceTranslations,
          required |-> {"name"}, anchor |-> "name"]
    [] kind = "team" ->
         [columns |-> TeamColumns, load |-> getTeamMemberForEdit, form |-> TeamForm,
          keys |-> teamSchema, create |-> createTeamMember, update |-> updateTeamMember,
          required |-> {"name"}, anchor |-> "name"]
    [] kind = "project" ->
         [columns |-> ProjectColumns, load |-> getProjectForEdit, form |-> ProjectForm,
          keys |-> projectScalars \cup projectTranslationShape,
          create |-> createProject, update |-> updateProject,
          required |-> {"status", "title"}, anchor |-> "title"]
    [] kind = "guide" ->
         [columns |-> GuideColumns, load |-> getGuideForEdit, form |-> GuideForm,
          keys |-> guideBody, create |-> createGuide, update |-> updateGuide,
          required |-> {"status", "title"}, anchor |-> "title"]
    [] kind = "document" ->
         [columns |-> DocumentColumns, load |-> getDocumentForEdit, form |-> DocumentForm,
          keys |-> documentAssociations \cup documentTitleShape,
          create |-> createDocument, update |-> updateDocumentMeta,
          required |-> {"type", "isPublic", "title"}, anchor |-> "title"]
    [] kind = "media" ->
         [columns |-> MediaColumns, load |-> getMediaAssetForEdit, form |-> MediaAssetForm,
          keys |-> mediaAltSchema, create |-> {}, update |-> updateMediaAssetAlt,
          required |-> {"alt"}, anchor |-> "alt"]
    [] kind = "settings" ->
         [columns |-> SettingsColumns, load |-> getSiteSettingsForEdit, form |-> SiteSettingsForm,
          keys |-> siteSettingsSchema, create |-> updateSiteSettings, update |-> updateSiteSettings,
          required |-> {}, anchor |-> "none"]
    [] kind = "home" ->
         [columns |-> HomeColumns, load |-> getHomeContentForEdit, form |-> HomeContentForm,
          keys |-> homeContentSchema, create |-> updateHomeContent, update |-> updateHomeContent,
          required |-> {}, anchor |-> "none"]
    [] kind = "lead" ->
         [columns |-> LeadColumns, load |-> {"status"}, form |-> LeadStatusForm,
          keys |-> leadStatusSchema, create |-> {}, update |-> updateLeadStatus,
          required |-> {"status"}, anchor |-> "none"]

-----------------------------------------------------------------------------
(* The seed, by the kind of row it makes sure of: the columns it creates   *)
(* the row with, those it writes again of a row that is there, and whether *)
(* it retracts the locales it does not list. Links it adds stand for all.  *)
seedIndustries == [creates |-> {"name"}, repairs |-> {"name"}, retracts |-> TRUE]
seedManufacturers == [creates |-> {"name"}, repairs |-> {}, retracts |-> FALSE]
seedCategories == [creates |-> CategoryColumns, repairs |-> {"name"}, retracts |-> TRUE]
seedSeries == [creates |-> SeriesColumns, repairs |-> {}, retracts |-> FALSE]
seedProducts ==
  [creates |-> ProductColumns \ {"media", "description"}, repairs |-> {"industries"}, retracts |-> FALSE]
seedDocuments ==
  [creates |-> DocumentColumns \ {"manufacturerId"}, repairs |-> {"isPublic", "version", "industries"},
   retracts |-> FALSE]
seedProjects == [creates |-> ProjectColumns, repairs |-> ProjectColumns, retracts |-> FALSE]
seedServices == [creates |-> ServiceColumns, repairs |-> ServiceColumns, retracts |-> FALSE]
upsertSiteSettings == [creates |-> SettingsColumns, repairs |-> SettingsColumns, retracts |-> FALSE]
upsertHomeContent == [creates |-> HomeColumns, repairs |-> HomeColumns, retracts |-> TRUE]

Seed(kind) ==
  CASE kind = "industry" -> seedIndustries
    [] kind = "manufacturer" -> seedManufacturers
    [] kind = "category" -> seedCategories
    [] kind = "series" -> seedSeries
    [] kind = "product" -> seedProducts
    [] kind = "document" -> seedDocuments
    [] kind = "project" -> seedProjects
    [] kind = "service" -> seedServices
    [] kind = "settings" -> upsertSiteSettings
    [] kind = "home" -> upsertHomeContent
    [] OTHER -> [creates |-> {}, repairs |-> {}, retracts |-> FALSE]
=============================================================================

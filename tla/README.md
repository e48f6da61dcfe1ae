# Formal models of the Green Light House system

The repository is a Next.js site: a public catalog with its projects, documents and guides, an
admin area where all of that is edited, and the *inquiry* the site is for. A buyer posts an RFQ,
it is stored as a `Lead`, and a worker process turns it into two e-mails. This directory holds
TLA+ models of that machinery, TLC configurations that check them on small instances, and TLAPS
proofs of the properties that matter most.

Requirements such as FR29 ("no inquiry is ever lost"), FR32 (rate limiting), FR32a
("malware-scanned before storage") and FR45 (erasure) are cited as the code cites them.

## 1. Inventory

### How the parts interact

```
 buyer ── RfqForm (seeded from the doorway's URL) ──POST /api/rfq──▶ intake (route.ts)
            │   ├─ checkRateLimit ─────────▶ Redis (cache instance)
            │   ├─ scanBuffer ─────────────▶ clamd
            │   ├─ putObject ──────────────▶ object store
            │   ├─ createLead / burnLeadReference ─▶ Postgres (leads, lead_reference_seq)
            │   └─ enqueueRfqSubmitted ────▶ Redis (queue instance), BullMQ job, jobId = lead id
 worker process (worker/index.ts)
            └─ handleJob ▶ processRfqSubmitted ▶ findLeadForEmail, transport.send,
                                                markDeliverySent, recordDeliveryFailure
 operator   ├─ queue:retry   (BullMQ's failed set)
            └─ queue:replay  (the delivery columns of `leads`, then the job records)
 admin      ├─ leads: list, page, download, status, deleteLeadWithAttachment (object, then row)
            └─ editing forms ▶ server actions ▶ repositories ▶ Postgres, object store
                                     └─ revalidateTag ▶ cache handler ▶ Redis (cache instance)
 visitor    ├─ pages ▶ cached() reads ▶ cache handler, or Postgres
            └─ /api/documents/…, /api/media/…, /api/projects/…/media ▶ row ▶ object store
 deploy     └─ migrations, ensureDefaultSla;  db:seed in development
```

Nothing is shared in memory between the web process, the worker and the operator commands:
they meet in Postgres, in the two Redis instances and in the object store. There is no
transaction across any two of these, which is where most hard behaviours come from. The others
come from pages that were read a while ago: a form, a listing, a cached entry.

| Component | State it keeps | Operations | Hard behaviour | What makes it correct |
|---|---|---|---|---|
| Mail delivery (`server/rfq/notify.ts`, `server/queue/worker-runtime.ts`, `worker/index.ts`, `lib/email.ts`) | one call's snapshot of the row, its outcome | take a job, send, stamp, record a failure, complete or throw | crash between accept and stamp; a row that changes under a run; final-attempt arithmetic | stamps are true; duplicates only by faults; a dead-letter job is explained |
| Lead repository (`server/repositories/lead.ts`) | delivery and attachment columns, status | insert, stamp, record, select for replay, erase, list, show | read-then-write of the reason column; object and row deleted apart | a delivered mail shows no failure; erasure leaves no file |
| Leads' desk (`admin/(authed)/leads`, `lib/lead-attachment.ts`) | what a page shows | list, open, download, set the status | links followed after an erasure; row and object read apart | a file is offered only if it was scanned and stored, and gone only if erased |
| Queue commands (`scripts/queue-ops.ts`) | a listing taken once | retry, replay | the listing goes stale; remove and add are two calls | no lead falls between the two commands |
| Queue producer (`lib/queue.ts`), Redis connections (`lib/redis.ts`) | a memoised connection | connect, rebuild, enqueue within a deadline | the deadline passes, the add still lands; two callers rebuild one dead memo | fail-open; connections are shared, and come back |
| Inquiry form (`components/rfq/RfqForm.tsx`, `server/rfq-prefill.ts`) | what is on screen, what was seeded | type, pick, clear, submit, take the answer | answers that come late or never; a catalog that changes under the form | the buyer's input stays; Clear means gone; attribution is true |
| Intake (`app/api/rfq/route.ts`) | none of its own | the chain of guards, the honeypot, upload, insert, enqueue | order of guards and effects; failure between upload and insert | rejections leave nothing behind; 201 means a committed row |
| Rate limiter (`lib/rate-limit.ts`) | a counter with an expiry in Redis | count, decide | fails open, and its increment may land late | nobody is throttled by others |
| Scanner client (`lib/clamav.ts`), storage client (`lib/storage.ts`) | none | scan; put, copy, head, get, delete | late or lost answers; errors that look alike | a verdict of `clean` is never invented; missing is not misnamed |
| Media library (`repositories/media.ts`, `api/admin/media`, `admin/media/actions.ts`, the two image routes) | images and their objects, projects' copies | upload, attach, delete when unreferenced, serve | count, then delete; copy, then write; conditional requests | no reference to a deleted image; no image wrongly reported gone |
| Document library (`repositories/document.ts`, `api/admin/documents`, `api/documents`) | documents and their objects | create, replace, edit, delete, download | two replaces of one document; a cached row of a superseded file | the row names an existing object; orphans need a cause |
| Incremental cache (`cache-handler.js`, `lib/cache-tags.ts`, `api/revalidate`, `admin/catalog/mutation.ts`) | entries and tag stamps in Redis | get, set, stamp tags | a read that a purge overtakes; purges lost, forgotten or evicted | edits go live; what is outdated becomes current |
| SLA content (`repositories/sla.ts`, `sla-bootstrap.ts`, `SlaEditor.tsx`) | one process, ordered steps, texts | create if absent, save texts, reorder | overlapping reorders, stale pages, deploys | the owner's text is never overwritten; orders do not mix |
| Catalog (`repositories/category.ts`, `product.ts`, `series.ts`, `manufacturer.ts`) | the category tree, products | create, edit, delete | checks apart from the writes they guard | the tree stays a tree; deletes detach nothing |
| Listing and search (`products/page.tsx`, `server/catalog-page.ts`, chips) | none; the view is in the address | list, narrow, search, suggest | one page from several reads; links that promise | what is listed, counted and offered is so |
| Catalog import (`server/admin/import`) | none | resolve, then a transaction per row | what it resolved may be gone; no purge | failing rows are reported, the others stand |
| Admin editing forms (`components/admin`, `server/admin/*/schema.ts`, the repositories' loaders and writers) | what the form was filled with | open, change, save | five layers that must agree on the fields; stale forms | a save writes what was changed; what is stored can be saved |
| Seed and bootstrap (`prisma/seed.ts`) | none | upsert fixtures | meets rows that were edited | stated per entity |
| Sitemap and robots (`app/sitemap.ts`, the pages' metadata) | none | decide what is indexable | two computations of one verdict | they agree |
| Admin authentication (`lib/auth/*`, `repositories/admin-user.ts`) | password hash; signed cookies and tokens | log in, forgot, reset, log out | — | not modelled (section 5) |

`PROJECT.json` lists the same components with their files, and under `hazards` every place
where the code is exposed to one of these behaviours.

## 2. Modules

| Module | Role |
|---|---|
| `RfqDelivery` | the mail pipeline behind a committed lead |
| `DeliveryContract` | what that pipeline promises, with no queue, worker or operator in it |
| `RfqIntake` | `POST /api/rfq` for overlapping requests, and lead erasure |
| `LeadDesk` | extends `RfqIntake`: the administrators' list, page, download and status of leads |
| `InquiryForm` | the form in front of the intake, from the doorway to the lead's attribution |
| `ConnectionMemo` | the shared Redis connection of `lib/queue.ts` and `lib/redis.ts` |
| `DocumentLibrary` | document rows, their PDF objects, and the cached row downloads go by |
| `MediaLibrary` | images, what holds them, and projects' copies |
| `FileDelivery` | extends `MediaLibrary`: the two routes that serve images |
| `PageCache` | entries, stamps and purges, for the two reads of a product page |
| `LivePublish` | every cached read and every edit of the site, by rows and tags |
| `Sitemap` | extends `LivePublish`: pages' robots against the sitemap |
| `Catalog` | create, move, delete and import in the catalog, statement by statement |
| `CatalogListing` | `/products`: views, chips, search, suggestions |
| `SlaContent` | the response process: bootstrap, texts, reorders |
| `FormLayers` | for each entity, the fields in each of the five layers from row to form and back |
| `AdminForms` | extends both: two editing forms of one row, and everything that writes beside them |
| `MC*` | TLC instances: model values, definitions for constants, symmetry |
| `RfqDelivery_proofs`, `RfqIntake_proofs` (with `LeadDesk` and `ConnectionMemo`), `DocumentLibrary_proofs`, `SiteContent_proofs` (`MediaLibrary` with `FileDelivery`, `LivePublish` with `Sitemap`), `PageCache_proofs`, `AdminForms_proofs` (with `SlaContent`), `InquiryForm_proofs`, `Catalog_proofs` (with `CatalogListing`) | the theorems of section 4 |

A definition whose name begins with `Mutant` is not part of a model: it is the definition that
follows it with a plausible bug, kept so that one can see each property fail when it should.

### `RfqDelivery`

*State.* `status`, `sent` and `reason` are the columns of a `Lead` row that matter here.
`reason` holds, for each mail kind, the code the column `deliveryFailureReason` carries for it:
the string `notify:x;confirm:y` and its splitting and joining are exactly a function from kind
to code, of which `Without` drops and `With` replaces an entry. `jobState`, `made`, `stalls`,
`lock` are BullMQ's record of the job whose id is the lead's. `run[w]` is worker `w`'s call of
`processRfqSubmitted`: where it stands, the attempt arithmetic and the *snapshot of the stamps*
it started from. `replay` is the `queue:replay` command: its list of leads, and where its loop
stands. `accepted` and `faults` are history: how often the provider accepted each mail, and how
many faults happened.

*Actions.* Every `await` of the send flow is a step: `Find` (`findLeadForEmail`), then for
each mail `AlreadySent` / `SendUnconfigured` / `SendAccepted` / `SendRefused`, `MarkRead` and
`MarkWrite` (the two statements of `markDeliverySent`), `RecordRead` and `RecordWrite` (those of
`recordDeliveryFailure`), and `Complete` or `Fail` (the processor returns or throws). Between
any two of them a lead may be erased (`Erase`), an operator may run a command, and these faults
may happen: `SendUnanswered` (accepted, reported as `transport`), `DbFails`, `Crash`, and
`Stall` of a live run when `LockLoss` is set. `ReplayLook`, `ReplayRemove`, `ReplayAdd`,
`ReplayError` are the awaits of the replay loop, working through a list (`ReplayList`) that was
selected once. `AddLands` / `AddLost` settle the request's `queue.add`, whose caller may long
have answered. `Restart` and `SetRecipient` change the configuration a worker sees.

*Properties.* `StampMeansAccepted`, `DuplicatesNeedFaults`, `DeliveryInv`, `FailedIsExplained`,
`NotifyRecoverable` (invariants), `NoMailAfterStamp` (a step property),
`JobsSettle`, `EventuallyNotified` (liveness), `ImplementsContract` (refinement of
`DeliveryContract`, whose `mails` is `accepted`).

*External.* BullMQ's record keeping (a no-op `add` on an existing id, lock, stall check,
backoff, `removeOnComplete`) and the provider are modelled from how the code uses them. The
provider's idempotency key is left out: it can only make duplicates rarer.

### `RfqIntake` and `LeadDesk`

*State.* `step[r]` is the place of request `r` in the handler's chain, `answer` and `quoted`
what it answered. `counter` and `late` are the limiter's key in Redis and increments whose
caller stopped waiting. `seq` is `lead_reference_seq`; `lead`, `objects`, `jobs` are the rows,
the stored files and the queued jobs, each named by the request that made it (an id and a key
with a fresh UUID in the code). `eraser` are runs of `deleteLeadWithAttachment`. `desk` is what
an administrator's browser shows of one lead.

*Actions.* In the handler's order: `Refuse` (415, 403), `LimitReply` / `LimitFailsOpen`,
`Reject` (413, 422), `ScanPasses` / `ScanRejects`, `Burn` / `BurnFails` (the honeypot's
counterfeit reference), `NoUpload` / `Upload` / `UploadFails`, `Insert` / `InsertFails` /
`InsertUnanswered`, `Enqueue`; `Die` at any point. `EraseRead`, `EraseObject`, `EraseRow` are
the three statements of an erasure, `EraseStops` a throw or a death between them. At the desk:
`OpenLead` (the id is from a list that may be old), `updateLeadStatus`, `Follow` (the route
reads the row) and then `getObjectStream` or `StorageFails` (it reads the object).

*Properties.* `AnswersAreTrue` (a 201 means a committed row or a burnt reference, and whoever
is refused left nothing), `ReferencesAreUnique`, `ErasedLeavesNoFile` (no file of an erased lead
stays, but for one whose upload was reported failed after it had landed, which no row names),
`ThrottleIsEarned`, `DeskIsTrue` (invariants), `OnlyCleanIsStored` (a step property: a clean file of a genuine
buyer is all that ever reaches the store, and a row names a file only with one).

The two models meet at the lead: `RfqIntake`'s `CommitLead` followed by `Enqueue` is
`RfqDelivery`'s `Submit` followed by `AddLands` or `AddLost`; its `EraseRow` is `Erase`.

### `InquiryForm`

*State.* `pid` is the catalog as far as a doorway can name it, `doorway` the URL's parameters,
`seeded` what `resolveRfqPrefill` made of them when the page was rendered, `form` what is on
screen, `requests` the submits with what each carried and what became of it. `buyer` is
history: what they entered and pressed.

*Actions.* The buyer chooses an industry, writes, types and adds equipment, removes a chip,
picks a file, presses Clear, submits (three outcomes before anything is sent); the endpoint
stores the lead with its attribution (`Store`, whose answer may be a 500 that hides a commit) or
refuses it; the answer arrives, or the connection breaks; an administrator edits the catalog.
The endpoint resolves the doorway again, from the catalog as it is then. The calls of `push` in
`resolveRfqPrefill` are the sequence `Offer`; what ends up on the form is the set `Push` keeps of it,
each chip once and no more than `ChipBudget`.

*Properties.* `OwnInputStays`, `DoorwayIsTrue` (what a request says of Clear and what the lead
says of its doorway), `ExtraLeadNeedsLostAnswer`: one form makes a second lead only when the
buyer was told that a stored one had failed.

### `ConnectionMemo`

*State.* A slot is a connection attempt; `conn[s]` says what became of its client. `memo` is the
module variable of the code, `caller[c]` where a call of `getRfqQueue` / `getCacheRedis` stands
and which promise it awaits; `raced` is history: two attempts were once under way together.

*Actions.* `Enter` runs to the first await; `ResumeMemo` is what follows `await memo`,
`ResumeOwn` what follows `await attempt`. `Connected`, `ConnectFails`, `Drops` are the socket's
events. Node has one thread and drains its microtasks first, so a socket event waits while
somebody is `Resuming`: with that rule a caller never gives up on a client after a newer one became
ready. `AfterFailure` is the code's `memo = null`, which drops *any* attempt from the memo. A slot
no one refers to is used again, so that the bound is on what is alive and not on how long it
runs. A change of `REDIS_URL` inside one process (a test's doing) is left out.

The specification's parts are `MemoInit`, `MemoNext` and so on, so that one proof module can hold it
beside the intake.

*Properties.* `NoStickyFailure`, `LeaksNeedRace` (invariants), `ReadyIsShared` (a step
property), `MemoHeals` (liveness: every call returns, and once the server stays up the memo
comes to hold a ready client).

### `DocumentLibrary`

*State.* `row` are the documents (`slug`, current `file`, `version`), `objects` the keys of the
store. A request stores its file under a fresh key, and a created document has a fresh id, so
both are named by the request. `req[r]` is its place in its handler and the file it read
(`old`). `entry`, `fills`, `visitor` are the cached row of a slug, reads on their way into the
cache, and downloads between the lookup and the object. `faults` and `tangled` are history: a statement
failed or a process died; a request began on a document another one was at work on.

*Actions.* A creation is `Store`, `Insert` or `SlugTaken` and `Undo`, `Purge`; a replace is
`Store`, `Lookup`, `Repoint` or `Vanished`, `DropOld`, `Purge`; a deletion is `DeleteLookup`,
`DeleteObject`, `DeleteRow` or `DeleteFindsNoRow`, `Purge`. Each has a failing variant, whose
effect may or may not have been taken, and `Die` ends a request between any two. `Resolve`,
`Serve`, `ObjectMissing` are a download; `Fill`, `FillLost`, `Refresh` the cache.

*Properties.* `RowNamesObject`, `OrphansNeedCause` (invariants), `CacheHeals` (liveness).
Requests the guards refuse never start. Titles, links and the visibility flag are edited in
`AdminForms` and `LivePublish`.

### `MediaLibrary` and `FileDelivery`

*State.* `rows` and `objects` of images, what each holder shows (`holds`: a manufacturer's
logo, a team member's photo, a product's picture, by the image's id and with no foreign key; a
project, by the key of its own copy), `admin` the requests under way. In `FileDelivery`,
`copied` dates the copies, `shown` is what each project had when its row was last cached or
read, `visitor` a request for one address and `kept` what the visitor's browser has of it.

*Actions.* An upload is a put and a create; an attachment reads the image, copies it for a
project, writes the holder; a deletion counts four kinds of references, deletes the object, then
the row; `Stop` ends a request anywhere. The handler of a route reads the row, asks the store
for metadata when the request is conditional, and for bytes when they are needed; the store may
be up, down, or misnamed.

*Properties.* `RowHasObject`, `HeldIsKept`, `RepliesAreTrue`: the bytes a visitor has are those of
the address (of a project's, a copy that it has shown); a 304 keeps the bytes the row
names, a 404 means that the file is gone, a 503 that the store is at fault. It has the exceptions
section 6 lists: a 404 for a wrong bucket seen by HEAD, and two cases of a 304 by date alone.

### `PageCache`

*State.* `row` are the products that hold one slug one after the other, `purging` edits that
have committed and not purged yet, `entry` the two cached reads of the page (slug to id, id to
page) with their age and whether a stamp is younger than they are, `fills` reads on their way
into the cache, `visitor` page views, `faults` and `raced` history.

*Actions.* An edit writes and purges in two steps; a purge may be lost, an operator may purge
by hand, a stamp or an entry may be evicted, an entry past its TTL is refreshed behind its
back, a read may be written after the purge it should have seen. All commands of the one web
process go through one connection in order, so a stamp and a write compare as they were sent.

*Properties.* `OutdatedNeedsCause`; `PagesHeal` under fairness.

### `LivePublish` and `Sitemap`

*State.* `text`, `public` and `links` are all rows of the site: what they say, whether they are
published, what they refer to. One cached read is followed at a time: `entry` is what it
answered when it was filled, `since` the kinds of edits made since that purged none of its tags.
`Schema` and `Fits` say what the foreign keys and join tables let a row refer to.

*Actions.* Every server action that edits the site, as its effect on the rows and the set of
tags it purges, with the cascades of the schema; `Fill` of the entry. Each read is an operator on
the rows, with the fields it selects.

*Properties.* `EditsGoLive`: an entry equals its query unless an edit from `Unfollowed` came in
between; `Unfollowed` lists for each read the edits whose purges do not reach it, and no edit
in it is superfluous. `UnpublishedIsHidden`. `SitemapAgrees`: the sitemap's batched reads and each
page's own metadata decide alike for every product, project, guide and list page, in each
locale, whatever texts are translated. (`/contact`, `/rfq` and the legal pages are constant in
both and left out.)

### `Catalog` and `CatalogListing`

*State.* `links[x]` are the foreign keys of a row, `used` the ids ever given out, `admin` the
requests under way: a move between its check and its write, a delete between its counts and
its statement, an import at one of its rows with what it had resolved. The listing has
`item` (products with status, category, manufacturer, series), `load` (a page being put
together, read by read) and `page` (what is shown, with `edited`, what was saved meanwhile).

*Actions.* Create, update and delete of the four entities as the repositories do them
(`onDelete` rules included), the import's resolution, lookup and upsert per row. For the
listing, its reads in the code's order, the links of the page, and a save.

*Properties.* `HarmNeedsRace`: a category drops out of the tree, and a delete finds its row
referenced, only behind the back of a check. `ListsAreTrue`, `ClicksKeepTheirWord` (a chip
narrows, its count is what follows, a facet on offer is no dead end). `ListsAreTrue` speaks of a page
until the next is asked for. That a category has no root is said by sets closed under the parent
(`ClosedUpwards`), the walk of `wouldCreateCategoryCycle`, and the page's total over the tree is the
size of a set (`TreeTotal`).

### `SlaContent`, `FormLayers`, `AdminForms`

*State.* `SlaContent` has the stored `text` per part and locale, the steps' positions (`sort`),
the order each editor's `page` shows, and the transactions under way, row by row. `FormLayers`
has no state: for each of fourteen entities it gives the sets of fields of the table, the
loader, the form, the schema, the create and the update, and what import and seed write; an
`Entity` record ties them together. `AdminForms` follows one row of one entity: its `row`, the
image `library`, and two `form`s, each with what it was filled with, what was typed, touched,
and changed by others behind it.

*Actions.* Deploys, saves, reorders with their row locks; forms opened, changed, submitted,
refused, committed or failed; imports, the seed, uploads, file replacements and deletions.

*Properties.* `OwnerTextStays`, `MovesAreAtomic`; `SavesAreExact` (a reported save wrote all the
form showed, and nothing its administrator or another did not change; only a project's photograph
that is no copy of an image in the library, and a guide's texts in a locale without a title, its sections
apart, are taken away, and then they are emptied); `StoredCanBeSaved`. A product's attributes pass
through `String(v)` when its form is opened (`product.ts:911-916`). The model takes them as they are:
form, import (`import/schema.ts:104`) and seed write strings only, on which it is the identity.

## 3. Runs and bounds

| Run | Instance | Question |
|---|---|---|
| `delivery_one_worker` | 1 lead, 1 worker, 2 attempts, 1 fault, lock loss | the safety properties of the deployed, single-worker system |
| `delivery_two_workers` | 1 lead, 2 workers, 3 attempts, 1 fault, failing operator commands | the inductive invariant, the refinement, and a dead-letter set that explains itself |
| `delivery_live` | as the first, without lock loss, `QueueFairSpec` | jobs leave the live states; stored leads get notified |
| `intake` | 2 requests of 2 clients, 7 kinds of form, limit 1, 2 erasers, 1 desk | what is stored, answered, throttled, erased, shown and served |
| `inquiry_form` | 2 industries, 1 product, 2 categories, 3 catalogs, 3 doorways, 4 acts, 2 submits, 1 edit | what the form keeps, sends and has recorded |
| `connection_memo` | 2 callers, 4 slots, `FairSpec` | one shared connection, and what breaks it |
| `documents` | 3 requests, 1 visitor, 1 slug, 1 pending fill, `FairSpec` | rows against objects, and the cache |
| `media` | 2 images, 2 copies, 1 holder of each kind, 2 projects, 2 administrators, 3 requests, 1 visitor | rows against objects against what is served |
| `page_cache` | 1 product, 1 visitor, 2 edits, TTL 1, 1 pending fill, `FairSpec` | staleness needs a cause and ends |
| `live_publish` | 18 rows that link each other, 2 edits, every read, 2 locales | which edits go live; robots against the sitemap |
| `catalog` | 3 categories, 1 manufacturer, 1 series, 2 products of one slug, 2 administrators, 2 requests, sheets of up to 2 rows; listing: 2 products, 2 categories, 1 maker, 1 line, cap 1, one click or save | checks against writes; lists, counts and chips |
| `content_editing` | SLA: 3 steps, 2 parts, 2 locales, 2 texts, 2 reorders, 1 page, 2 deploys; forms: one row of each entity, 2 administrators, 1 image, 5 events, 1 field touched per form | the owner's texts; what saves write |

*Why the bounds suffice.* Leads share nothing but the workers and the replay list, so one lead
shows every race on a row or a job. Two attempts give a first and a final
one, three give one that is neither. `MaxStalls` is BullMQ's default of 1. `MaxFaults` bounds
crashes, database errors and lost answers, the only unbounded adversary; one fault reaches every
window between an accept and its stamp, and the proofs lift the bound. `ReplayLimit` is 100 in
the code, 1 here. `SendErrors` has one member because the flow treats all alike. Requests are
bounded by the set; the limiter's limit of 5 becomes 1, so that the second request of a client
is the one refused. Two callers and four slots let one caller rebuild a dead memo while the other
still awaits it, and keep a leaked client beside both. Three requests on documents are a creation
and two that overlap on what it made, or three that compete for the one slug; one pending fill is
enough for a read from before a purge to be written after it. Two moves of three
categories are the smallest cycle two checks can each miss; two sheet rows are one that changes
what the next one resolved. Two copies in one second, or two in two, are what dates can and cannot
tell apart. In `PageCache` an entry counts its age only up to just past the TTL. `LivePublish`'s
second edit is there for rows that refer to rows that came later; its rows hold every kind of
link once. In `AdminForms` two administrators, and one change without a form, give every
order of two overlapping writers on the row of each entity. Four acts of a
buyer and two submits let every field be seeded, changed, cleared and sent again. `ChipBudget`
and `MaxItems` are 12 and 20 in the code, 2 and 3 here, in the same order. `catalog` and
`content_editing` each hold two machines that share no state: in a behaviour of `catalog` only
one moves; in `content_editing` the kind of row chosen at first says which.

*Deadlock* is checked where the system can always go on. It is switched off where requests are
bounded and everything may be over: the intake, the form, the two libraries, the catalog, the
edits.

*The names of `cfg` values* `w1`, `r1`, … are model values.

### Fairness

`QueueFairness` is what a live BullMQ worker provides: a run goes on (weak), waiting jobs are
taken (strong, since a job may alternate between waiting and delayed), delayed jobs are promoted
and stalled ones detected (weak), a pending add settles. A crashed worker restarts
(`restart: unless-stopped` in the compose file). `JobsSettle` needs nothing else: in
particular no operator, and nothing of the provider. In `delivery_live` a job stalls at most once,
since one fault is all there is. That a job which keeps stalling ends as well is
seen with `LockLoss = TRUE` and `JobsSettle` alone in that cfg (1 045 378 states, no error), which takes
too long to be a run beside the others.

`OperatorFairness` is the assumption FR29 makes of the world: leads age, somebody keeps running
`queue:retry` and `queue:replay`, and a provider asked again and again accepts at last.
`EventuallyNotified` holds under both, for leads that stay inside replay's 30-day window and are
not erased, once the configuration is right for good. `OperatorFairness` is a hypothesis of that
property and not part of the specification, so that `JobsSettle` is checked without it. Replay
failures are excluded there (`OperatorFaults = FALSE`), because with them it is false (section 6).

`ConnectionMemo`: the event loop resumes whoever can be resumed, a connect is settled one way or the
other within the client's timeout, and requests keep calling. Nothing is assumed of the server;
`MemoHeals` says what follows once it stays up.

`DocumentLibrary`: handlers run on, the pages of a slug keep being asked for (which is what
refreshes an entry older than its TTL), and writes to the cache do not fail for ever.
`PageCache`: the same, and time passes. Purges need not succeed: the TTL is the backstop.

## 4. What is proved

Every safety property the runs check is a theorem,
for every value of the constants that satisfies the assumptions the modules name, hence for any
number of leads, workers, requests, rows, pages or administrators, and without the bounds on
faults, edits and requests. Each module's type invariant is proved first. Most properties
are not inductive; the table names the invariant that is, and what it adds. Where TLC could reach it, the
invariant was checked on the module's run before it was proved.

| Proof module | Theorems (property) | Inductive invariant |
|---|---|---|
| `RfqDelivery_proofs` | `TypeCorrect`; `DeliveryCorrect`, `StampsAreTrue`, `DuplicatesAreFaults`, `DeliveredIsClean` (`DeliveryInv` and its parts); `StampStopsMail` (`NoMailAfterStamp`); `DeliveryImplementsContract`; `FailuresAreExplained` (`FailedIsExplained`); `NotificationsAreRecoverable` (`NotifyRecoverable`) | `DeliveryInv`, `ExplainInv` |
| `RfqIntake_proofs` | `IntakeTypeCorrect`; `UniqueReferences`, `ErasureIsComplete`, `AnswersAreHonest` (`AnswersAreTrue`), `StoreIsClean` (`OnlyCleanIsStored`), `ThrottlesAreEarned`; `DeskKeepsIntake`, `DesksAreTrue`; of the memo `MemoTypeCorrect`, `FailuresDoNotStick`, `ReadyClientsAreShared`, `LeaksAreRaces` | `RefsAreBehindSeq`, `ErasureInv`, `IntakeInv`, `ThrottleInv`, `DeskInv`; `UnusableMeansNothingReady`, `OneClient` |
| `DocumentLibrary_proofs` | `LibraryTypeCorrect`, `LibraryCorrect`; `RowsNameObjects`, `OrphansHaveCause` | `LibraryInv`, `CauseInv` |
| `SiteContent_proofs` | `MediaTypes`; `RowsHaveObjects` (`RowHasObject`), `HeldImagesAreKept` (`HeldIsKept`); `DeliveryKeepsLibrary`, `RepliesAreSo` (`RepliesAreTrue`); of the live site `SiteHolds`, `SiteTypes`, `EditsDoGoLive` (`EditsGoLive`), `HiddenStaysHidden` (`UnpublishedIsHidden`), `SitemapDoesAgree` (`SitemapAgrees`) | `MediaInv`; of `FileDelivery` a `DeliveryInv` of its own; `SiteInv` |
| `PageCache_proofs` | `CacheTypes`; `OutdatedPagesHaveCause` | `CacheInv` |
| `AdminForms_proofs` | `SlaTypes`, `OwnerTextIsKept`, `ReordersAreAtomic`; `FormsInvariant`, `FormsTypes`, `StoredRowsCanBeSaved`, `SavesAreFaithful` (`SavesAreExact`), `FormsKeepSla` | `SlaInv`, `FormsInv` |
| `InquiryForm_proofs` | `FormCorrect`, `FormTypes`; `BuyersInputStays`, `DoorwaysAreTrue`, `LeadsNeedLostAnswers` | `FormInv` |
| `Catalog_proofs` | `CatalogTypes`, `HarmsAreRaces` (`HarmNeedsRace`); `ListingTypes`, `ListsAreSo` (`ListsAreTrue`), `ClicksAreKept` (`ClicksKeepTheirWord`) | `TypeInv`, `RaceInv`; `ListingInv` |

### The arguments

*Delivery.* That a second mail needs a fault depends on what every run *believes*. `DeliveryInv`
adds that belief: `RunsHoldTheLock` (a run holds its job's lock, hence a lead has one run at a
time), `RunsAreCurrent` (the snapshot a run may still send on, and the reason it has read, are
still true of the row), and `MailsAreCounted` (a mail beyond the faults so far is stamped, or
being stamped by a live run, or its lead is erased). `ExplainInv` says how job and row explain each
other: a run that has passed the notification has settled it or will fail, on a final attempt it
has left a reason for what it could not send, and so a completed job leaves its lead notified or to
`queue:replay`, and a failed one explains itself. The proof splits the next-state relation by what a
step touches: a run's own step, the row's commit and erasure, the lock, or nothing the invariant
speaks of.

`~LockLoss` is a hypothesis of these theorems (not of `TypeCorrect`): the worker renews its lock
every 15 s and BullMQ lets it go after 30 s, so a run loses it only if its process stands still
longer than that. With one worker `delivery_one_worker` shows the safety properties hold without it. Two
workers *and* lock loss are outside both: the send flow then runs twice at once and only
at-least-once remains. `NotificationsAreRecoverable` also has `~OperatorFaults`, since with a replay
that loses its re-add the property is false (section 6).

*Intake.* References in use lie at or below the sequence. An eraser past its object deletion has
left no object behind if the row names one, and nothing re-creates it. `IntakeInv` says of each
place in the handler what is stored of its request by then (before the upload nothing; only a valid
form of a buyer with no infected file comes to the insert; the row records the upload's
outcome, from which it follows what an erasure can have left). `ThrottleInv`: a client's counter with its late increments never exceeds the number of its
requests that came to the limiter. `DeskInv`: what a desk shows of a lead its row still says. The
desk's specification implements the intake's (`DeskKeepsIntake`), so the intake's theorems hold of it;
`FormsKeepSla` and `DeliveryKeepsLibrary` are the same for `AdminForms` and `FileDelivery`.

*Memo.* While a caller is about to give up on a client, the memo holds no ready one: this is
where the order of continuations and socket events enters. Without a race, at most one attempt is
alive and it is the memo's.

*Documents.* The object another request is about to drop must not be the one a row names.
`LibraryInv` adds who a file belongs to, that a file once superseded is never named again, and that
a file about to be named is stored. `CauseInv`: while nothing has failed and no two requests
overlapped on one document, each request knows what row and store say at its step, and every
object has a row or a request that is about to deal with it.

*Images.* `MediaInv`: whatever is in the library, in the store, shown or in a request's hands was given out
once; an upload without its row, and a copy about to be shown, belong to one request; an image held
behind the back of a delete is known to be. For the routes, the copies recorded are the copies
there are in the order of their dates, and each reply carries the reason it was given.

*Live edits.* `SiteInv` is `EditsGoLive` with the facts of the rows it needs (`RowsOK`: no link dangles, and
links fit the foreign keys of the schema). Every step is a `Fill` or the edit of one row
(`StepsAreEdits`), which leaves the others alone but for the links that documents and guides lose to a
deleted row (`RestStays`). `Footprint` is the rows a read looks at. Outside it an edit does not change the
answer (`QueryStays`); inside it the edit purges a tag of the read or is one of `Unfollowed`, shown kind
by kind (the lemmas `...Followed`). `AnswersAreProper` says what a read may answer: items of the right
type that, but for a guide's, show public rows only. It gives the type of the entry and, with
`EditsGoLive`, `HiddenStaysHidden`. `SitemapDoesAgree` compares the sitemap's reads with each page's own:
of products (`ProductPagesAgree`), of projects and guides (`ItemPagesAgree`).

*Page cache.* While nothing has failed and every edit has purged, what is cached *and what is on its
way into the cache* is what Postgres says.

*Response process and forms.* A reorder that has written every row has taken every row lock, hence
sees its own order. `FormsInv`: rows keep the rules of the schema, and what a form shows, untouched
and not overtaken, is what its row has; that the five layers of an entity agree is then a fact about
its `Entity` record, proved entity by entity.

*Inquiry form.* `FormInv` traces everything on screen, and in each submit, to the doorway or to the buyer;
a submit whose answer nobody has missed is the one the form waits for, or has made the form's lead.
That `push` never exceeds its budget needs the greatest element of a finite set of numbers,
which comes from `WFMin`.

*Catalog.* An import stands at a row until that row is written or given up (`RowAtHand`). `RaceInv`:
unless a move was written between another's check and its write, the links are a tree and every pending
move is still one its check would pass (only another move can change that, whatever rows come and
go); and whatever points at the row of a delete has yet to be counted, unless it came
late. A tree is said in two ways, as no closed set of categories and as each of them having a root
(`TreeIsRooted`).

*Listing.* `ListingInv` says of the page being read, and of the page shown, that what was not saved
meanwhile is right (`Honest`), and if nothing was, that all reads agree on one moment (`Steady`); and of
the page being read that it is what a link on the page shown promised (`Followed`). That the counts of all
categories add up to the products there are is `CountsAddUp`, by a bijection: `TreeTotal` states
the sum as the size of a set because an induction over the categories is beyond the provers.

### What is assumed

The `ASSUME`s say that bounds are numbers, that values which mean "nothing" (`None`, `Absent`,
`NoFile`, …) are none of the things they stand in for, and that ids of different tables differ
(cuids in the code; in `Catalog`, `MediaLibrary` and `LivePublish`). `FiniteAssumption`: finitely many requests
have come at any moment. `MemoAssumption`: there are slots for what is alive, and one more.
`FormAssumption`: the prefill's budget is below the schema's limit (12 and 20 in the code).
`LivePublishAssumption`: the
rows there at first refer to what the schema lets them, and are finitely many.
`ListingAssumption` takes from `Catalog` that categories form a tree. TLC evaluates each of
them in a run.

### What is only model-checked

* Liveness: `JobsSettle`, `EventuallyNotified`, `MemoHeals`, `CacheHeals`, `PagesHeal`. Fairness
  and `ENABLED` are out of the prover's reach.
* Delivery with `LockLoss` and one worker (above).

## 5. Not modelled, and why

* Wording and layout of mails, pages and forms; translation, except for which texts fall back;
  analytics and its consent; focus and announcements. No state of the system depends on them.
* How search ranks (trigram similarity is Postgres's), pages beyond the cap of a listing, and
  conditional requests for documents, which are answered as `FileDelivery`'s are.
* Admin authentication: sessions are stateless signed cookies and a reset token is bound to the
  password hash by its signature. What matters there is forgery, which a state machine does not
  show.
* Parsing of import sheets; the scanner's wire protocol (its verdict is in `RfqIntake`); the
  limiter's retry hint and key derivation.
* The CSV exports of leads and backups: reads of the rows a list shows. Deploy and backup scripts.
* `expireStalePendingScans` matches no row, because no code writes `pending`; for the same
  reason the view's `pending` and `infected` cannot occur.
* The seed's SLA fixtures overwrite the owner's texts, as its own comment (`prisma/seed.ts:85-90`)
  warns: a development command that no deploy runs.

## 6. Where the code and its documentation part

Delivery and intake:

* A confirmation recorded as `unconfigured` after its notification was stamped cannot be recovered
  by either command (`notify.ts:323`), though `lib/email.ts:293-295` and `.env.example:112` say so.
* `queue:replay` works from a listing; it may remove a dead-letter job whose lead has meanwhile
  recorded a terminal failure, and if the re-add then fails the lead is in nobody's view
  (`queue-ops.ts:218`). `README.md:63` calls the command safe at any time. With
  `OperatorFaults = TRUE`, `NotifyRecoverable` fails.
* "Skip nothing" (`queue-ops.ts:178`): the take of 100 is applied before the age ceiling.
* An upload followed by a death or a failed insert is an orphan, though `route.ts:512-514` says
  there is nothing to clean up.
* The `then` of a failed connect nulls the memo of `lib/queue.ts` even when it holds a newer
  attempt, whose client then stays open behind it (`LeaksNeedRace` excepts overlapping attempts).

Documents, images, and the store:

* A download that resolved its row before a replace finds the superseded object gone and logs a
  data-integrity problem for an intact document (`documents/[slug]/route.ts:195-196`).
* `repositories/document.ts:385-386` says a crash "leaves an orphan object, never a row pointing at
  a gone object", but the object goes first (the exception `Deleting` in `RowNamesObject`);
  `repositories/media.ts` says the same of images (`broken` in `RowHasObject`).
* A creation whose committed insert is reported as failed deletes the object its row names.
* Overlapping replaces of one document, or a deletion that overtakes a replace, leave an
  object no row names (`OrphansNeedCause` excepts `tangled`).
* Every save of a project copies its image again, although `project-media-attach.ts` calls a
  re-save idempotent; the old copy stays.
* A HEAD on a wrong bucket answers 404 where a GET answers 503: no body, so no error name.
* Revalidation by date alone may keep superseded bytes: two copies in one second, or a row that
  names an older copy because two saves crossed or the row was cached.

What goes live:

* `product.ts:155-163` says that publishing takes effect on the next request without a purge; the
  entry keyed by id can hold a null.
* A bulk import purges nothing, and neither does `ensureDefaultSla` in a release.
* A project's page is not purged by edits of the product, manufacturer, industry or documents it
  shows, the projects' list not by those of an industry, a guide's page not by those of the products
  and categories it names. Guides show the products they link whatever their status.

The catalog:

* Two category moves that overlap can close a cycle (`category-actions.ts:47`).
* An unknown `?category` shows the whole catalog's count above an empty list
  (`products/page.tsx:184-186`).
* A category whose children are all empty shows neither grid nor empty state, although
  `CatalogEmptyState` says "never a blank or broken grid"; a search view of such a category without
  a query calls it empty although its children have products. Counts on chips are catalog-wide in a
  search view.
* The second query of `searchProducts` has no status filter: a product withdrawn between the two
  is shown once more.

Forms:

* The homepage's form never saves: its resolver returns what the schema knows, which is not the
  form's list of marks, and the handler reads that list first (`HomeContentForm.tsx:71`). So
  `StoredCanBeSaved` excepts `home`.
* A 422 about a file that arrives after another was picked is shown beside the new one, until the next
  pick or submit (`RfqForm.tsx:444`; `OwnInputStays` excepts that interval, `swapped`).
* A guide without sections, and an image uploaded without an English alt text, cannot be saved
  unchanged. The import stores attributes the product's form refuses, drops descriptions without a
  name, and a blank status unpublishes.
* A save of a project drops its photograph unless it is a copy of an image still in the library,
  although `ProjectForm` and `project-actions.ts` say that media is not edited there.
* SLA texts are saved by upsert: a locale that is emptied stays stored, and one filled in half is
  dropped, while the editor is told "Saved." (`SlaEditor.tsx:158` promises a fall-back to English.)
  A second arrow pressed before the page has been read again undoes the first move.
* The seed rewrites version, type and size of a replaced document, and not its file key. It
  overwrites the settings, declares industries, categories and the homepage anew, upserts services
  and projects, and leaves products (but for their industries), manufacturers and series alone.

## 7. Plan

1. *Done*: all modules of section 2, their runs, and the proofs of section 4.
2. The safety of delivery with one worker and lock loss.
3. `RateLimiter` on its own (window expiry, the retry hint, the keyspace that login and password
   reset share) and `ScanClient` (one settlement of the clamd exchange).

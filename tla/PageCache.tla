----------------------------- MODULE PageCache -----------------------------
(***************************************************************************)
(* How a public page learns of an administrator's edit: the Redis cache    *)
(* handler (cache-handler.js), the cached() seam in front of Postgres, the *)
(* two cached reads behind a product page (slug to id, id to page), and    *)
(* the purge that follows an edit. One slug is modelled, and the products  *)
(* that hold it one after the other.                                       *)
(*                                                                         *)
(* The handler compares two times in milliseconds: when an entry was       *)
(* written, and when one of its tags was last stamped. Commands of the one *)
(* web process reach Redis in the order it sends them, so all that matters *)
(* of the two times is whether the stamp is the later one ("revoked") and  *)
(* how old the entry is.                                                   *)
(***************************************************************************)
EXTENDS Naturals, FiniteSets

CONSTANTS
  Products,  \* ids of the products that ever hold the slug
  Visitors,  \* page views that may overlap
  Texts,     \* what a published page may say
  Absent,    \* not created yet
  Gone,      \* deleted: its id is never used again
  Draft,     \* a product that is not published
  Nothing,   \* the null a read returns, and may cache
  NoEntry,   \* nothing cached
  TTL,       \* age, in ticks, beyond which an entry is refreshed
  MaxEdits,  \* bound: edits of administrators, which may overlap
  MaxFills   \* bound: values read for a key and not yet written to the cache

ASSUME CacheAssumption ==
  /\ {"id", "catalog", "idle", "direct", Nothing} \cap Products = {}
  /\ {Absent, Gone, Draft, Nothing} \cap Texts = {} /\ Cardinality({Absent, Gone, Draft}) = 3
  /\ TTL \in Nat /\ MaxFills \in Nat /\ MaxEdits \in Nat

Keys == {"id"} \cup Products
Tags == {"catalog"} \cup Products
TagsOf(k) == {"catalog"} \cup (Products \cap {k})

VARIABLES
  row,      \* each product: Absent, Gone, Draft, or the text of its published page
  edits,    \* how many edits there have been
  purging,  \* for each product, the edits written whose purge is still to come
  entry,    \* what is cached under a key: the value, its age, the tags that revoke it
  fills,    \* values read from Postgres and on their way into the cache
  visitor,  \* each page view: where it stands
  faults,   \* history: a purge was lost, or Redis evicted a tag stamp
  raced     \* history: a purge overtook an older read, or hit its own millisecond

vars == <<row, edits, purging, entry, fills, visitor, faults, raced>>

Query(k) ==
  IF k = "id"
  THEN IF \E p \in Products : row[p] \in Texts THEN CHOOSE p \in Products : row[p] \in Texts
       ELSE Nothing
  ELSE IF row[k] \in Texts THEN row[k] ELSE Nothing

Cached(k) == entry[k] # NoEntry
Accepted(k) == Cached(k) /\ entry[k].revoked = {}
Outdated(k) == Accepted(k) /\ entry[k].value # Query(k)

Exists(p) == row[p] \notin {Absent, Gone}
UniqueSlug == \A p, q \in Products : Exists(p) /\ Exists(q) => p = q

Init ==
  /\ row \in [Products -> Texts \cup {Draft, Absent}] /\ UniqueSlug
  /\ edits = 0 /\ purging = [p \in Products |-> 0]
  /\ entry = [k \in Keys |-> NoEntry]
  /\ fills = {}
  /\ visitor = [v \in Visitors |-> "idle"]
  /\ faults = FALSE /\ raced = FALSE

-----------------------------------------------------------------------------
(* A definition whose name begins with Mutant is not part of the model: it *)
(* is the definition after it with a plausible bug.                        *)
-----------------------------------------------------------------------------
(* Edits: the row is written, then the tags are purged.                    *)

Commit(p, content) ==
  /\ edits < MaxEdits
  /\ row' = [row EXCEPT ![p] = content]
  /\ edits' = edits + 1
  /\ purging' = [purging EXCEPT ![p] = @ + 1]
  /\ UNCHANGED <<entry, fills, visitor, faults, raced>>

Create(p, content) == row[p] = Absent /\ ~(\E q \in Products : Exists(q)) /\ Commit(p, content)
Update(p, content) == Exists(p) /\ Commit(p, content)
Delete(p) == Exists(p) /\ Commit(p, Gone)

MutantPurgesProductOnly(p) == {p}
productTags(p) == {"catalog", p}

(* Every entry written before this millisecond is revoked by the stamp; one *)
(* of the same millisecond is not: invalidatedAt > lastModified.           *)
Revoke(e, tags) == IF e.age > 0 THEN [e EXCEPT !.revoked = @ \cup tags] ELSE e

stampTags(tags) ==
  /\ entry' = [k \in Keys |-> IF Cached(k) THEN Revoke(entry[k], tags \cap TagsOf(k)) ELSE NoEntry]
  /\ raced' = (\/ raced
               \/ \E f \in fills : f.value # Query(f.key)
               \/ \E k \in Keys : Outdated(k) /\ entry[k].age = 0)

revalidateTags(p) ==
  /\ purging[p] > 0
  /\ purging' = [purging EXCEPT ![p] = @ - 1]
  /\ stampTags(productTags(p))
  /\ UNCHANGED <<row, edits, fills, visitor, faults>>

(* Logged, and nobody waits for it; or the process died after the commit.  *)
PurgeFails(p) ==
  /\ purging[p] > 0
  /\ purging' = [purging EXCEPT ![p] = @ - 1]
  /\ faults' = TRUE
  /\ UNCHANGED <<row, edits, entry, fills, visitor, raced>>

(* POST /api/revalidate. A list of tags is several of these in one tick.    *)
OperatorPurge(tag) ==
  /\ stampTags({tag})
  /\ UNCHANGED <<row, edits, purging, fills, visitor, faults>>

-----------------------------------------------------------------------------
(* Page views.                                                             *)

Goto(v, pc) == visitor' = [visitor EXCEPT ![v] = pc] /\ UNCHANGED <<row, edits, purging, entry, faults, raced>>

(* readEntry: a hit, if no tag was stamped since the entry was written.    *)
Hit(k, value) == Accepted(k) /\ value = entry[k].value /\ UNCHANGED fills

(* A miss, an unreachable or slow Redis included: read the row, and write  *)
(* the result to the cache later.                                          *)
Miss(k, value) ==
  /\ value = Query(k)
  /\ fills' = fills \cup {[key |-> k, value |-> value]}
  /\ Cardinality({f \in fills' : f.key = k}) <= MaxFills

cached(k, value) == Hit(k, value) \/ Miss(k, value)

Resolve(v) ==
  /\ visitor[v] = "idle"
  /\ \E id \in Products \cup {Nothing} :
       cached("id", id) /\ Goto(v, IF id = Nothing THEN "direct" ELSE id)

(* A cached null is never trusted.                                         *)
ResolveDirect(v) ==
  /\ visitor[v] = "direct"
  /\ Goto(v, IF Query("id") = Nothing THEN "idle" ELSE Query("id"))
  /\ UNCHANGED fills

ReadPage(v) ==
  /\ visitor[v] \in Products
  /\ \E text \in Texts \cup {Nothing} :
       cached(visitor[v], text) /\ Goto(v, "idle")

-----------------------------------------------------------------------------
(* The cache.                                                              *)

writeEntry(f) ==
  /\ f \in fills
  /\ entry' = [entry EXCEPT ![f.key] = [value |-> f.value, age |-> 0, revoked |-> {}]]
  /\ fills' = fills \ {f}
  /\ UNCHANGED <<row, edits, purging, visitor, faults, raced>>

WriteLost(f) ==
  /\ f \in fills
  /\ fills' = fills \ {f}
  /\ UNCHANGED <<row, edits, purging, entry, visitor, faults, raced>>

(* Older than its TTL, an entry is still served, and refreshed behind it.  *)
MutantNeverRefreshes(k) == FALSE /\ UNCHANGED vars

Refresh(k) ==
  /\ Accepted(k) /\ entry[k].age > TTL
  /\ Miss(k, Query(k))
  /\ UNCHANGED <<row, edits, purging, entry, visitor, faults, raced>>

(* LRU eviction, the 24 hours of an entry, or the handler's own del.       *)
Evict(k) ==
  /\ Cached(k)
  /\ entry' = [entry EXCEPT ![k] = NoEntry]
  /\ UNCHANGED <<row, edits, purging, fills, visitor, faults, raced>>

(* allkeys-lru may evict the stamp and keep the entry.                     *)
EvictStamp(t) ==
  /\ entry' = [k \in Keys |-> IF Cached(k) THEN [entry[k] EXCEPT !.revoked = @ \ {t}] ELSE NoEntry]
  /\ entry' # entry
  /\ faults' = TRUE
  /\ UNCHANGED <<row, edits, purging, fills, visitor, raced>>

Tick ==
  /\ entry' = [k \in Keys |-> IF Cached(k) /\ entry[k].age <= TTL
                              THEN [entry[k] EXCEPT !.age = @ + 1] ELSE entry[k]]
  /\ UNCHANGED <<row, edits, purging, fills, visitor, faults, raced>>

-----------------------------------------------------------------------------
Contents == Texts \cup {Draft}
Fills == [key : Keys, value : Products \cup Texts \cup {Nothing}]

View(v) == Resolve(v) \/ ResolveDirect(v) \/ ReadPage(v)

Next ==
  \/ \E p \in Products :
       \/ \E c \in Contents : Create(p, c) \/ Update(p, c)
       \/ Delete(p) \/ revalidateTags(p) \/ PurgeFails(p)
  \/ \E t \in Tags : OperatorPurge(t)
  \/ \E v \in Visitors : View(v)
  \/ \E f \in fills : writeEntry(f) \/ WriteLost(f)
  \/ \E k \in Keys : Refresh(k) \/ Evict(k)
  \/ \E t \in Tags : EvictStamp(t)
  \/ Tick

Spec == Init /\ [][Next]_vars

(* A handler goes on after its commit, time passes, somebody keeps looking *)
(* at the page, and writes to the cache do not fail for ever.              *)
Fairness ==
  /\ \A p \in Products : WF_vars(revalidateTags(p) \/ PurgeFails(p))
  /\ \A v \in Visitors : WF_vars(View(v))
  /\ \A k \in Keys : SF_vars(Refresh(k)) /\ SF_vars(\E f \in fills : f.key = k /\ writeEntry(f))
  /\ WF_vars(Tick)

FairSpec == Spec /\ Fairness

-----------------------------------------------------------------------------
Entry == [value : Products \cup Texts \cup {Nothing}, age : 0 .. TTL + 1, revoked : SUBSET Tags]

(* Type correctness of every variable.                                     *)
TypeOK ==
  /\ row \in [Products -> Contents \cup {Absent, Gone}]
  /\ edits \in 0 .. MaxEdits /\ purging \in [Products -> 0 .. MaxEdits]
  /\ entry \in [Keys -> Entry \cup {NoEntry}]
  /\ fills \subseteq Fills
  /\ visitor \in [Visitors -> {"idle", "direct"} \cup Products]
  /\ faults \in BOOLEAN /\ raced \in BOOLEAN

(* "A successful revalidateTag is immediate": what the handler accepts is  *)
(* what Postgres says, unless an edit has not purged yet, a purge was lost *)
(* or forgotten, or it overtook a read of the old row.                     *)
OutdatedNeedsCause ==
  (\E k \in Keys : Outdated(k)) =>
    faults \/ raced \/ \E p \in Products : purging[p] > 0

(* The backstop: once the edits are over, what the public page is made of  *)
(* comes to be current and stays so, whatever was lost or overtaken.       *)
PagesHeal ==
  <>[](\A k \in {"id"} \cup {p \in Products : row[p] \in Texts} : ~Outdated(k))
=============================================================================
